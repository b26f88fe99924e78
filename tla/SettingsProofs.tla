---------------------------- MODULE SettingsProofs ----------------------------
(***************************************************************************)
(* Proofs about the two settings that background work stands on: a user's  *)
(* AI keys (KeyVerdicts) and the mailbox and workspace of the mail agent   *)
(* (MailboxConfig).                                                        *)
(***************************************************************************)
EXTENDS KeyVerdicts, MailboxConfig, FiniteSetTheorems, TLAPS

-----------------------------------------------------------------------------
(* Deliveries and what they cost                                            *)

States == {"waiting", "scored", "skipped", "dropped", "failed", "lost"}

\* The delivery that a review in progress works on
Working ==
    /\ "at" \in DOMAIN worker
    /\ worker # Idle =>
        /\ worker.at \in {"calling", "report", "flush", "post"}
        /\ "task" \in DOMAIN worker
        /\ worker.task \in Tasks /\ task[worker.task] = "waiting"

\* A delivery was billed once for each retry, and once more if it is at work or ended.
Paid(t) ==
    retries[t] + (IF task[t] # "waiting" \/ (worker # Idle /\ worker.task = t) THEN 1 ELSE 0)

BillInv ==
    /\ task \in [Tasks -> States]
    /\ retries \in [Tasks -> 0..MaxRetries]
    /\ billed \in [Tasks -> Nat]
    /\ Working
    /\ \A t \in Tasks : billed[t] <= Paid(t)

Outcomes == Verdicts \cup {None}

-----------------------------------------------------------------------------
LEMMA BillStarts == ASSUME Init PROVE BillInv
BY NumbersAssumption DEF Init, BillInv, Working, Paid, States, Idle

\* What a delivery cost is paid for, whichever step it takes.
LEMMA BillRests ==
  ASSUME BillInv, UNCHANGED <<task, retries, billed, worker>>
  PROVE  BillInv'
BY DEF BillInv, Working, Paid

\* The review goes on to its next step.
LEMMA BillGoesOn ==
  ASSUME BillInv, UNCHANGED <<task, retries, billed>>,
         "at" \in DOMAIN worker' /\ worker'.at \in {"calling", "report", "flush", "post"},
         "task" \in DOMAIN worker', worker # Idle, worker'.task = worker.task
  PROVE  BillInv'
<1>1. worker' # Idle
  BY DEF Idle
<1> QED BY <1>1 DEF BillInv, Working, Paid

\* It ends.
LEMMA BillEnds ==
  ASSUME BillInv, NEW t \in Tasks, NEW how \in States \ {"waiting"}, End(t, how),
         worker # Idle => worker.task = t, UNCHANGED <<retries, billed>>
  PROVE  BillInv'
<1>1. /\ task' = [task EXCEPT ![t] = how] /\ worker' = Idle
      /\ task' \in [Tasks -> States]
  BY DEF End, BillInv
<1>2. Working'
  BY <1>1 DEF Working, Idle
<1>3. \A s \in Tasks : billed'[s] <= Paid(s)'
  <2> SUFFICES ASSUME NEW s \in Tasks PROVE billed[s] <= Paid(s)'
    OBVIOUS
  <2>1. billed[s] <= Paid(s) /\ retries[s] \in Nat /\ billed[s] \in Nat
    BY NumbersAssumption DEF BillInv
  <2>2. CASE s = t
    BY <1>1, <2>1, <2>2 DEF Paid, BillInv
  <2>3. CASE s # t
    BY <1>1, <2>1, <2>3 DEF Paid, BillInv
  <2> QED BY <2>2, <2>3
<1> QED BY <1>1, <1>2, <1>3 DEF BillInv

\* It goes back to the queue for one more retry, or has failed.
LEMMA BillRetries ==
  ASSUME BillInv, NEW t \in Tasks, Retry(t), task[t] = "waiting",
         worker # Idle => worker.task = t, UNCHANGED billed
  PROVE  BillInv'
<1>1. CASE ~(retries[t] < MaxRetries)
  BY <1>1, BillEnds DEF Retry, End, States
<1>2. CASE retries[t] < MaxRetries
  <2>1. /\ worker' = Idle /\ UNCHANGED task
        /\ retries' = [retries EXCEPT ![t] = retries[t] + 1]
    BY <1>2 DEF Retry
  <2>2. retries' \in [Tasks -> 0..MaxRetries]
    BY <1>2, <2>1, NumbersAssumption DEF BillInv
  <2>3. Working'
    BY <2>1 DEF Working, Idle
  <2>4. \A s \in Tasks : billed'[s] <= Paid(s)'
    <3> SUFFICES ASSUME NEW s \in Tasks PROVE billed[s] <= Paid(s)'
      OBVIOUS
    <3>1. billed[s] <= Paid(s) /\ retries[s] \in Nat /\ billed[s] \in Nat
      BY NumbersAssumption DEF BillInv
    <3>2. CASE s = t
      BY <2>1, <3>1, <3>2 DEF Paid, BillInv
    <3>3. CASE s # t
      BY <2>1, <3>1, <3>3 DEF Paid, BillInv
    <3> QED BY <3>2, <3>3
  <2> QED BY <2>1, <2>2, <2>3, <2>4 DEF BillInv
<1> QED BY <1>1, <1>2

\* Only here is a provider called.
LEMMA BillFetches ==
  ASSUME BillInv, NEW t \in Tasks, Fetch(t)
  PROVE  BillInv'
<1>1. /\ worker = Idle /\ task[t] = "waiting" /\ UNCHANGED <<task, retries>>
      /\ billed' = [billed EXCEPT ![t] = billed[t] + 1]
      /\ worker'.at = "calling" /\ worker'.task = t
      /\ {"at", "task"} \subseteq DOMAIN worker'
  BY DEF Fetch
<1>2. worker' # Idle
  BY <1>1 DEF Idle
<1>3. Working'
  BY <1>1 DEF Working
<1>4. billed' \in [Tasks -> Nat]
  BY <1>1 DEF BillInv
<1>5. \A s \in Tasks : billed'[s] <= Paid(s)'
  <2> SUFFICES ASSUME NEW s \in Tasks PROVE billed'[s] <= Paid(s)'
    OBVIOUS
  <2>1. billed[s] <= Paid(s) /\ retries[s] \in Nat /\ billed[s] \in Nat
    BY NumbersAssumption DEF BillInv
  <2>2. CASE s = t
    BY <1>1, <1>2, <2>1, <2>2 DEF Paid, BillInv
  <2>3. CASE s # t
    BY <1>1, <1>2, <2>1, <2>3 DEF Paid, BillInv
  <2> QED BY <2>2, <2>3
<1> QED BY <1>1, <1>3, <1>4, <1>5 DEF BillInv

\* A review whose key is deleted stays at its step.
LEMMA BillFails ==
  ASSUME BillInv, UNCHANGED <<task, retries, billed>>,
         worker' = worker \/ (worker.at = "flush" /\ worker' = [worker EXCEPT !.on = NoKey])
  PROVE  BillInv'
<1>1. CASE worker' = worker
  BY <1>1, BillRests
<1>2. CASE worker.at = "flush" /\ worker' = [worker EXCEPT !.on = NoKey]
  <2>1. worker # Idle
    BY <1>2 DEF Idle
  <2>2. DOMAIN worker' = DOMAIN worker /\ worker'.at = worker.at /\ worker'.task = worker.task
    BY <1>2, <2>1 DEF BillInv, Working
  <2> QED BY <2>1, <2>2, BillGoesOn DEF BillInv, Working
<1> QED BY <1>1, <1>2

LEMMA BillStep == ASSUME BillInv, [Next]_vars PROVE BillInv'
<1> USE DEF workerRest, callerRest, editRest, history
<1>1. ASSUME NEW t \in Tasks, FetchFails(t) PROVE BillInv'
  BY <1>1, BillRetries DEF FetchFails
<1>2. ASSUME NEW t \in Tasks, Skip(t) PROVE BillInv'
  BY <1>2, BillEnds DEF Skip, States
<1>3. ASSUME NEW t \in Tasks, Fetch(t) PROVE BillInv'
  BY <1>3, BillFetches
<1>a. worker.at # "idle" /\ worker.at \in {"calling", "report", "flush", "post"} => worker # Idle
  BY DEF Idle
<1>b. worker # Idle => worker.task \in Tasks /\ task[worker.task] = "waiting"
  BY DEF BillInv, Working
<1>c. ASSUME NEW kind, NEW then, worker # Idle, ReportNext(kind, then),
             UNCHANGED <<task, retries, billed>>
      PROVE  BillInv'
  BY <1>c, BillGoesOn DEF ReportNext
<1>4. CASE CallScores
  <2>1. CASE worker.hadError
    BY <1>4, <1>a, <1>c, <2>1 DEF CallScores
  <2>2. CASE ~worker.hadError
    BY <1>4, <1>a, <2>2, BillGoesOn DEF CallScores
  <2> QED BY <2>1, <2>2
<1>5. CASE CallUnusable
  BY <1>5, <1>a, <1>c DEF CallUnusable
<1>6. CASE CallTruncated
  BY <1>6, <1>a, <1>b, BillEnds DEF CallTruncated, States
<1>7. CASE CallRejected
  BY <1>7, <1>a, <1>c DEF CallRejected
<1>8. CASE CallTransient
  <2>1. CASE retries[worker.task] < MaxRetries
    BY <1>8, <1>a, <1>b, <2>1, BillRetries DEF CallTransient
  <2>2. CASE ~(retries[worker.task] < MaxRetries)
    BY <1>8, <1>a, <1>c, <2>2 DEF CallTransient
  <2> QED BY <2>1, <2>2
<1>d. ASSUME worker # Idle, AfterReport(worker.task, worker.then), UNCHANGED <<retries, billed>>
      PROVE  BillInv'
  <2>1. CASE worker.then = "post"
    BY <1>d, <2>1, BillGoesOn DEF AfterReport
  <2>2. CASE worker.then # "post"
    BY <1>b, <1>d, <2>2, BillEnds DEF AfterReport, States
  <2> QED BY <2>1, <2>2
<1>9. CASE ReportLost
  BY <1>9, <1>a, <1>d DEF ReportLost
<1>10. CASE ReportLoad
  BY <1>10, <1>a, BillGoesOn DEF ReportLoad
<1>11. CASE ReportFlush
  BY <1>11, <1>a, <1>d DEF ReportFlush
<1>12. CASE Post
  BY <1>12, <1>a, <1>b, BillEnds DEF Post, States
<1>13. CASE PostFails
  BY <1>13, <1>a, <1>b, BillRetries DEF PostFails
<1>14. CASE WorkerKilled
  BY <1>14, <1>b, BillEnds DEF WorkerKilled, States
<1>15. ASSUME NEW c \in Callers, CallerStep(c) PROVE BillInv'
  BY <1>15, BillRests DEF CallerStep, CallBegins, CallEnds, CallForgotten, CallFlush
<1>16. ASSUME NEW k, EditLoad(k) \/ Select(k) PROVE BillInv'
  BY <1>16, BillRests DEF EditLoad, Select
<1>17. CASE EditPatch
  BY <1>17, BillRests DEF EditPatch
<1>18. CASE EditUpsert
  BY <1>18, BillRests DEF EditUpsert
<1>19. ASSUME NEW k, DeleteKey(k) PROVE BillInv'
  BY <1>19, BillFails DEF DeleteKey
<1>20. CASE UNCHANGED vars
  BY <1>20, BillRests DEF vars
<1> QED BY <1>1, <1>2, <1>3, <1>4, <1>5, <1>6, <1>7, <1>8, <1>9, <1>10, <1>11, <1>12, <1>13,
           <1>14, <1>15, <1>16, <1>17, <1>18, <1>19, <1>20
        DEF Next, WorkerStep, Settings, EditFlush

\* However calls, posts and the worker fail, a delivery calls the provider once for each
\* retry and once more (main.py, max_retries of review_job).
THEOREM DeliveriesArePaid == Spec => []BilledAtMost
<1>1. BillInv /\ [Next]_vars => BillInv'
  BY BillStep
<1>2. BillInv => BilledAtMost
  <2> SUFFICES ASSUME BillInv, NEW t \in Tasks PROVE billed[t] <= MaxRetries + 1
    BY DEF BilledAtMost
  <2>1. billed[t] <= Paid(t) /\ retries[t] \in 0..MaxRetries /\ billed[t] \in Nat
    BY DEF BillInv
  <2> QED BY <2>1, NumbersAssumption DEF Paid
<1> QED BY <1>1, <1>2, BillStarts, PTL DEF Spec

-----------------------------------------------------------------------------
(* Rows                                                                     *)

\* Of some keys there is a first.
LEMMA FirstKey ==
  ASSUME NEW S \in SUBSET Keys, S # {}
  PROVE  \E k \in S : \A j \in S : k <= j
<1>1. S \subseteq Nat
  BY NumbersAssumption DEF Keys
<1> DEFINE Less == {p \in Nat \X Nat : p[1] < p[2]}
<1>2. IsWellFoundedOn(Less, Nat)
  BY NatLessThanWellFounded DEF OpToRel
<1> HIDE DEF Less
<1>3. \E k \in S : \A j \in S : <<j, k>> \notin Less
  BY <1>1, <1>2, WFMin
<1>4. ASSUME NEW j \in Nat, NEW k \in Nat, <<j, k>> \notin Less PROVE k <= j
  <2>1. ~(j < k)
    BY <1>4 DEF Less
  <2> QED BY <2>1
<1> QED BY <1>1, <1>3, <1>4

LEMMA ActiveIsKey ==
  ASSUME NEW sel \in Keys \cup {NoKey}
  PROVE  ActiveKey(sel) \in Keys \cup {NoKey}
<1> DEFINE here == {k \in Keys : row[k].there}
           usable == {k \in here : row[k].model # None}
           First(S) == CHOOSE k \in S : \A j \in S : k <= j
<1>1. ASSUME NEW S \in SUBSET Keys, S # {} PROVE First(S) \in Keys
  BY <1>1, FirstKey
<1> HIDE DEF First
<1>2. ActiveKey(sel) = IF sel \in here THEN sel
                       ELSE IF usable # {} THEN First(usable)
                       ELSE IF here # {} THEN First(here)
                       ELSE NoKey
  BY DEF ActiveKey, First
<1>3. usable \in SUBSET Keys /\ here \in SUBSET Keys
  OBVIOUS
<1> HIDE DEF here, usable
<1> QED BY <1>1, <1>2, <1>3

\* Which key is active depends on the rows that are there and on those with a model.
LEMMA SameActive ==
  ASSUME \A k \in Keys : row'[k].there = row[k].there /\ row'[k].model = row[k].model,
         NEW sel
  PROVE  ActiveKey(sel)' = ActiveKey(sel)
<1> DEFINE here == {k \in Keys : row[k].there}
           usable == {k \in here : row[k].model # None}
           First(S) == CHOOSE k \in S : \A j \in S : k <= j
           Active(H, U) == IF sel \in H THEN sel
                           ELSE IF U # {} THEN First(U)
                           ELSE IF H # {} THEN First(H)
                           ELSE NoKey
<1>1. here' = here /\ usable' = usable
  OBVIOUS
<1>2. ActiveKey(sel) = Active(here, usable) /\ ActiveKey(sel)' = Active(here', usable')
  BY Zenon DEF ActiveKey
<1> HIDE DEF Active, here, usable
<1> QED BY <1>1, <1>2

\* Recording and clearing a verdict leave the settings alone, and the count.
SameSettings(new, r) == new.there = r.there /\ new.model = r.model /\ new.writing = r.writing

LEMMA ClearedRow ==
  ASSUME NEW r \in Row, NEW m
  PROVE  /\ Cleared(r, m) \in Row /\ SameSettings(Cleared(r, m), r)
         /\ Cleared(r, m).streak = r.streak
         /\ \/ Cleared(r, m) = r
            \/ Cleared(r, m).kind = None /\ (m # None /\ r.kind # None => Applies(r, m))
BY DEF Cleared, NoVerdict, Row, SameSettings

LEMMA RecordedRow ==
  ASSUME NEW r \in Row, NEW kind \in Verdicts, NEW m \in Models \cup {None}
  PROVE  /\ Record(r, kind, m) \in Row /\ SameSettings(Record(r, kind, m), r)
         /\ Record(r, kind, m).streak = r.streak
         /\ Record(r, kind, m).kind = kind
         /\ kind \in ModelScoped => Record(r, kind, m).about = m
BY DEF Record, Row, SameSettings

LEMMA ReportedRow ==
  ASSUME NEW r \in Row, NEW kind \in Outcomes
  PROVE  LET new == Reported(r, kind) IN
         /\ new \in Row /\ SameSettings(new, r)
         /\ kind = None =>
              /\ new.streak = 0
              /\ \/ new.kind = r.kind /\ new.about = r.about
                 \/ new.kind = None /\ (r.model # None /\ r.kind # None => Applies(r, r.model))
         /\ kind \in Verdicts =>
              IF kind = "unusable_output" /\ new.streak < StreakLimit
              THEN new.kind = r.kind /\ new.about = r.about
              ELSE new.kind = kind /\ (kind \in ModelScoped => new.about = r.model)
         /\ new.streak = IF kind = "unusable_output" THEN r.streak + 1 ELSE 0
<1> DEFINE none == [r EXCEPT !.streak = 0]
           more == [r EXCEPT !.streak = r.streak + 1]
<1>1. /\ none \in Row /\ SameSettings(none, r) /\ none.streak = 0
      /\ none.kind = r.kind /\ none.about = r.about
  BY DEF Row, SameSettings
<1>2. /\ more \in Row /\ SameSettings(more, r) /\ more.streak = r.streak + 1
      /\ more.kind = r.kind /\ more.about = r.about
  BY DEF Row, SameSettings
<1>3. None \notin Verdicts /\ None \notin Models /\ r.model \in Models \cup {None}
  BY NoneAssumption DEF Row
<1>4. Applies(none, r.model) <=> Applies(r, r.model)
  BY <1>1 DEF Applies
<1>5. "unusable_output" \in Verdicts
  BY DEF Verdicts, Blocking
<1>6. Reported(r, kind) = IF kind = None THEN Cleared(none, r.model)
                          ELSE IF kind # "unusable_output" THEN Record(none, kind, r.model)
                          ELSE IF more.streak < StreakLimit THEN more
                          ELSE Record(more, kind, r.model)
  BY Zenon DEF Reported
<1> HIDE DEF none, more
<1>7. CASE kind = None
  BY <1>1, <1>3, <1>4, <1>5, <1>6, <1>7, ClearedRow DEF SameSettings
<1>8. CASE kind # None /\ kind # "unusable_output"
  BY <1>1, <1>3, <1>6, <1>8, RecordedRow DEF SameSettings, Outcomes
<1>9. CASE kind # None /\ kind = "unusable_output" /\ more.streak < StreakLimit
  BY <1>2, <1>3, <1>6, <1>9 DEF SameSettings
<1>10. CASE kind # None /\ kind = "unusable_output" /\ ~(more.streak < StreakLimit)
  <2>1. Reported(r, kind) = Record(more, kind, r.model)
    BY <1>6, <1>10
  <2>2. /\ Record(more, kind, r.model) \in Row
        /\ SameSettings(Record(more, kind, r.model), more)
        /\ Record(more, kind, r.model).streak = more.streak
        /\ Record(more, kind, r.model).kind = kind
        /\ kind \in ModelScoped => Record(more, kind, r.model).about = r.model
    BY <1>2, <1>3, <1>10, <1>5, RecordedRow
  <2> QED BY <1>2, <1>3, <1>10, <2>1, <2>2 DEF SameSettings
<1> QED BY <1>7, <1>8, <1>9, <1>10

\* The user's settings give a row, with the verdict it had or none.
LEMMA PatchedRow ==
  ASSUME NEW r \in Row, NEW m \in Models \cup {None}, NEW w \in Models \cup {None}
  PROVE  LET new == Patched(r, m, w) IN
         /\ new \in Row /\ new.streak \in {0, r.streak}
         /\ new.kind \in {None, r.kind}
<1> DEFINE base == [r EXCEPT !.streak = IF m # r.model THEN 0 ELSE r.streak,
                             !.model = m, !.writing = w]
           over == [base EXCEPT !.streak = IF base.kind = "unusable_output" THEN 0
                                           ELSE base.streak]
<1>1. base \in Row /\ base.streak \in {0, r.streak} /\ base.kind = r.kind
  BY DEF Row
<1>2. Patched(r, m, w) \in {base, NoVerdict(over)}
  BY Zenon DEF Patched, ClearedIfDropped
<1> HIDE DEF base
<1>3. over \in Row /\ over.streak \in {0, base.streak}
  BY <1>1 DEF Row
<1> HIDE DEF over
<1>4. NoVerdict(over) \in Row /\ NoVerdict(over).streak = over.streak
      /\ NoVerdict(over).kind = None
  BY <1>3 DEF NoVerdict, Row
<1> QED BY <1>1, <1>2, <1>3, <1>4

LEMMA FreshRows ==
  ASSUME NEW m \in Models \cup {None}, NEW w \in Models \cup {None}
  PROVE  /\ FreshRow(m, w) \in Row /\ FreshRow(m, w).kind = None /\ FreshRow(m, w).streak = 0
         /\ AbsentRow \in Row /\ AbsentRow.kind = None /\ AbsentRow.streak = 0
BY DEF FreshRow, AbsentRow, Row

\* A flush writes the columns that its handler changed in the row it loaded.
Merged(c, new, snap, k) == IF new[c] # snap[c] THEN new[c] ELSE row[k][c]

LEMMA FlushRow ==
  ASSUME row \in [Keys -> Row], NEW k \in Keys \cup {NoKey}, NEW snap \in Row, NEW new \in Row,
         Flush(k, snap, new)
  PROVE  /\ row' \in [Keys -> Row]
         /\ \A j \in Keys : j # k => row'[j] = row[j]
         /\ k \in Keys => \A c \in {"there", "model", "writing", "kind", "about", "streak"} :
                              row'[k][c] = Merged(c, new, snap, k)
<1> DEFINE m(j) == [c \in DOMAIN new |-> IF new[c] # snap[c] THEN new[c] ELSE row[j][c]]
<1>1. row' = [j \in Keys |-> IF j = k THEN m(j) ELSE row[j]]
  BY Zenon DEF Flush
<1>2. DOMAIN new = {"there", "model", "writing", "kind", "about", "streak"}
  BY DEF Row
<1>3. ASSUME NEW j \in Keys, j = k PROVE m(j) \in Row
  <2>1. row[j] \in Row
    OBVIOUS
  <2> HIDE DEF m
  <2>2. /\ m(j).there \in BOOLEAN /\ m(j).model \in Models \cup {None}
        /\ m(j).writing \in Models \cup {None} /\ m(j).kind \in Verdicts \cup {None}
        /\ m(j).about \in Models \cup {None} /\ m(j).streak \in Nat
    BY <1>2, <2>1 DEF m, Row
  <2>3. m(j) = [c \in DOMAIN new |-> m(j)[c]]
    BY DEF m
  <2> QED BY <1>2, <2>2, <2>3 DEF Row
<1>4. k \in Keys => \A c \in DOMAIN new : m(k)[c] = Merged(c, new, snap, k)
  BY DEF Merged
<1> HIDE DEF m
<1> QED BY <1>1, <1>2, <1>3, <1>4

\* Without a row there is nothing to write.
LEMMA FlushNothing ==
  ASSUME row \in [Keys -> Row], NEW snap, NEW new, Flush(NoKey, snap, new)
  PROVE  UNCHANGED row
<1>1. NoKey \notin Keys
  BY NumbersAssumption DEF NoKey, Keys
<1>2. row' = [j \in Keys |-> row[j]]
  BY <1>1, Zenon DEF Flush
<1> QED BY <1>2

-----------------------------------------------------------------------------
(* What holds of the calls and of the rows, whatever overlaps               *)

Tables ==
    /\ row \in [Keys -> Row]
    /\ selected \in Keys \cup {NoKey}
    /\ author \in [Keys -> Signature \cup {None, Crossing}]
    /\ strikes \in [Keys -> Nat]
    /\ edits \in 0..MaxEdits
    /\ edit # Idle => edits > 0

InCall == [at : {"calling"}, task : Tasks, key : Keys, model : Models, since : Nat,
           hadError : BOOLEAN]
ToReport == [at : {"report"}, task : Tasks, key : Keys, model : Models, since : Nat,
             kind : Outcomes, then : {"post", "end"}]
Reporting == [at : {"flush"}, task : Tasks, key : Keys, model : Models, since : Nat,
              kind : Outcomes, then : {"post", "end"}, on : Keys \cup {NoKey}, snap : Row]
ToPost == [at : {"post"}, task : Tasks]
Waiting == [at : {"calling"}, key : Keys, model : Models, sel : Keys \cup {NoKey}, since : Nat]
Recording == [at : {"flush"}, kind : Outcomes \ {"unusable_output"}, key : Keys, model : Models,
              since : Nat, on : Keys \cup {NoKey}, snap : Row]
Editing == [at : {"patch", "upsert"}, on : Keys, model : Models \cup {None},
            writing : Models \cup {None}, snap : Row]

Records ==
    /\ worker \in {Idle} \cup InCall \cup ToReport \cup Reporting \cup ToPost
    /\ caller \in [Callers -> {Idle} \cup Waiting \cup Recording]
    /\ edit \in {Idle} \cup Editing

\* A call that no change of the settings has crossed records on the key it was made with;
\* and what a handler counted is no more than what was reported.
Loaded(s) ==
    /\ s.since = Changes => s.on = s.key
    /\ s.on # NoKey => s.snap.streak <= strikes[s.on]

WorkerHolds ==
    /\ worker.at \in {"calling", "report", "flush"} =>
        /\ worker.since <= Changes
        /\ worker.since = Changes =>
            worker.key = ActiveKey(selected) /\ worker.model = row[worker.key].model
    /\ worker.at = "flush" => Loaded(worker)

CallerHolds(c) ==
    /\ caller[c].at \in {"calling", "flush"} => caller[c].since <= Changes
    /\ caller[c].at = "calling" /\ caller[c].since = Changes =>
        caller[c].sel = selected /\ caller[c].key = ActiveKey(selected)
    /\ caller[c].at = "flush" => Loaded(caller[c])

\* The verdict on a row is signed, by a call it is about unless something crossed it; an
\* accused model was reported often enough.
RowHolds(k) ==
    /\ row[k].kind # None =>
        /\ author[k] # None
        /\ author[k] # Crossing =>
            /\ author[k].key = k
            /\ row[k].kind \in ModelScoped => author[k].model = row[k].about
    /\ row[k].kind = "unusable_output" => strikes[k] >= StreakLimit
    /\ row[k].streak <= strikes[k]

EarnInv ==
    /\ Tables
    /\ Records
    /\ WorkerHolds
    /\ \A c \in Callers : CallerHolds(c)
    /\ \A k \in Keys : RowHolds(k)

LEMMA EarnStarts == ASSUME Init PROVE EarnInv
<1> PICK m \in Models, n \in 0..StreakLimit - 1 :
        /\ row = [k \in Keys |-> [FreshRow(m, None) EXCEPT !.streak = n]]
        /\ strikes = [k \in Keys |-> n]
  BY DEF Init
<1>1. n \in Nat
  BY NumbersAssumption
<1>2. \A k \in Keys : row[k] \in Row /\ row[k].kind = None /\ row[k].streak = n
  BY <1>1 DEF FreshRow, Row
<1>3. Tables
  BY <1>1, <1>2, NumbersAssumption DEF Init, Tables
<1>4. Records /\ WorkerHolds /\ \A c \in Callers : CallerHolds(c)
  BY DEF Init, Records, WorkerHolds, CallerHolds, Idle
<1>5. \A k \in Keys : RowHolds(k)
  BY <1>1, <1>2, NoneAssumption DEF RowHolds, Verdicts, Blocking
<1> QED BY <1>3, <1>4, <1>5 DEF EarnInv

LEMMA ChangesCounted ==
  ASSUME Tables
  PROVE  Changes \in Nat
<1>1. edits \in Nat /\ (edit # Idle => edits > 0)
  BY NumbersAssumption DEF Tables
<1> QED BY <1>1 DEF Changes

-----------------------------------------------------------------------------
(* Steps that change no settings                                            *)

\* The calls in flight stand on the settings only.
LEMMA CallsStand ==
  ASSUME EarnInv, UNCHANGED <<selected, edit, edits>>,
         \A k \in Keys : SameSettings(row'[k], row[k]),
         strikes' \in [Keys -> Nat], \A k \in Keys : strikes[k] <= strikes'[k]
  PROVE  /\ \A sel : ActiveKey(sel)' = ActiveKey(sel)
         /\ Changes' = Changes
         /\ worker' = worker => WorkerHolds'
         /\ \A c \in Callers : caller'[c] = caller[c] => CallerHolds(c)'
<1>1. \A sel : ActiveKey(sel)' = ActiveKey(sel)
  BY SameActive DEF SameSettings
<1>2. Changes' = Changes
  BY DEF Changes
<1>3. ASSUME NEW s, s.on \in Keys \cup {NoKey}, s.snap \in Row, Loaded(s),
             s.on # NoKey => s.snap.streak <= strikes'[s.on]
      PROVE  (s.since = Changes' => s.on = s.key)
  BY <1>2, <1>3 DEF Loaded
<1>4. ASSUME NEW k \in Keys, NEW r \in Row, r.streak <= strikes[k] PROVE r.streak <= strikes'[k]
  <2>1. r.streak \in Nat /\ strikes[k] \in Nat /\ strikes'[k] \in Nat /\ strikes[k] <= strikes'[k]
    BY DEF EarnInv, Tables, Row
  <2> QED BY <1>4, <2>1
<1>5. ASSUME worker' = worker PROVE WorkerHolds'
  <2>1. worker.at \in {"calling", "report", "flush"} => worker.key \in Keys
    BY DEF EarnInv, Records, Idle, InCall, ToReport, Reporting, ToPost
  <2>2. worker.at = "flush" => worker.on \in Keys \cup {NoKey} /\ worker.snap \in Row
    BY DEF EarnInv, Records, Idle, InCall, ToReport, Reporting, ToPost
  <2>3. worker.at = "flush" => Loaded(worker)'
    BY <1>2, <1>4, <1>5, <2>2 DEF EarnInv, WorkerHolds, Loaded
  <2>4. worker.at \in {"calling", "report", "flush"} =>
          /\ worker.since <= Changes
          /\ worker.since = Changes =>
              worker.key = ActiveKey(selected) /\ worker.model = row[worker.key].model
    BY DEF EarnInv, WorkerHolds
  <2> QED BY <1>1, <1>2, <1>5, <2>1, <2>3, <2>4 DEF WorkerHolds, SameSettings
<1>6. ASSUME NEW c \in Callers, caller'[c] = caller[c] PROVE CallerHolds(c)'
  <2>1. caller[c].at = "flush" => caller[c].on \in Keys \cup {NoKey} /\ caller[c].snap \in Row
    BY DEF EarnInv, Records, Idle, Waiting, Recording
  <2>2. caller[c].at = "flush" => Loaded(caller[c])'
    BY <1>2, <1>4, <1>6, <2>1 DEF EarnInv, CallerHolds, Loaded
  <2> QED BY <1>1, <1>2, <1>6, <2>2 DEF EarnInv, CallerHolds
<1> QED BY <1>1, <1>2, <1>5, <1>6

LEMMA EarnRests ==
  ASSUME EarnInv, UNCHANGED <<row, selected, edit, edits, author, strikes>>,
         Records', worker' = worker \/ WorkerHolds',
         \A c \in Callers : caller'[c] = caller[c] \/ CallerHolds(c)'
  PROVE  EarnInv'
<1>1. strikes' \in [Keys -> Nat] /\ \A k \in Keys : strikes[k] <= strikes'[k]
  BY DEF EarnInv, Tables
<1>2. \A k \in Keys : SameSettings(row'[k], row[k])
  BY DEF SameSettings
<1>3. WorkerHolds' /\ \A c \in Callers : CallerHolds(c)'
  BY <1>1, <1>2, CallsStand
<1>4. Tables' /\ \A k \in Keys : RowHolds(k)'
  BY DEF EarnInv, Tables, RowHolds
<1> QED BY <1>3, <1>4 DEF EarnInv

\* The review goes on with its call, or to its end, before anything is recorded.
LEMMA WorkerGoesOn ==
  ASSUME EarnInv, UNCHANGED <<row, selected, caller, edit, edits, author, strikes>>,
         \/ worker' \in {Idle} \cup ToPost
         \/ /\ worker' \in InCall \cup ToReport
            /\ worker'.since <= Changes
            /\ worker'.since = Changes =>
                worker'.key = ActiveKey(selected) /\ worker'.model = row[worker'.key].model
  PROVE  EarnInv'
<1>1. \A sel : ActiveKey(sel)' = ActiveKey(sel)
  BY SameActive
<1>2. Changes' = Changes
  BY DEF Changes
<1>3. WorkerHolds'
  BY <1>1, <1>2 DEF WorkerHolds, Idle, InCall, ToReport, ToPost
<1>4. Records'
  BY DEF EarnInv, Records
<1> QED BY <1>3, <1>4, EarnRests

-----------------------------------------------------------------------------
(* Verdicts are recorded                                                    *)

\* The flush of a handler that loaded snap from the row of the call s and leaves the
\* settings alone: it records kind, counts one more report at most, or changes nothing.
LEMMA VerdictWritten ==
  ASSUME EarnInv, UNCHANGED <<selected, edit, edits>>,
         NEW s, NEW k \in Keys \cup {NoKey}, k = s.on, s.key \in Keys, s.model \in Models,
         s.snap \in Row, s.since = Changes => k = s.key,
         NEW new \in Row, SameSettings(new, s.snap), Flush(k, s.snap, new),
         NEW kind \in Outcomes, Sign(k, s, kind),
         strikes' \in [Keys -> Nat], \A j \in Keys : strikes[j] <= strikes'[j],
         kind = None => new.kind = None \/ (new.kind = s.snap.kind /\ new.about = s.snap.about),
         kind # None => new.kind = kind,
         kind \in ModelScoped /\ s.since = Changes /\ k \in Keys /\ row[k] = s.snap =>
            new.about = s.model,
         k \in Keys /\ kind = "unusable_output" => strikes'[k] >= StreakLimit,
         k \in Keys => new.streak = s.snap.streak \/ new.streak <= strikes'[k]
  PROVE  /\ Tables'
         /\ \A j \in Keys : SameSettings(row'[j], row[j])
         /\ \A j \in Keys : RowHolds(j)'
<1> DEFINE sig == IF Crossed(s) THEN Crossing ELSE [key |-> s.key, model |-> s.model]
<1>1. /\ row \in [Keys -> Row] /\ strikes \in [Keys -> Nat]
      /\ author \in [Keys -> Signature \cup {None, Crossing}] /\ NoKey \notin Keys
  BY NumbersAssumption DEF EarnInv, Tables, NoKey, Keys
<1>2. /\ row' \in [Keys -> Row]
      /\ \A j \in Keys : j # k => row'[j] = row[j]
      /\ k \in Keys => \A c \in {"there", "model", "writing", "kind", "about", "streak"} :
                           row'[k][c] = Merged(c, new, s.snap, k)
  BY <1>1, FlushRow
<1>3. \A j \in Keys : SameSettings(row'[j], row[j])
  BY <1>1, <1>2 DEF SameSettings, Merged
<1>4. sig \in Signature \cup {Crossing} /\ sig # None
      /\ (sig # Crossing => ~Crossed(s) /\ sig = [key |-> s.key, model |-> s.model])
  BY NoneAssumption DEF Signature
<1>5. author' = [j \in Keys |-> IF j # k THEN author[j] ELSE Signed(k, kind # None, sig)]
  BY Zenon DEF Sign
<1> HIDE DEF sig
<1>6. k \in Keys => /\ author'[k] = Signed(k, kind # None, sig)
                    /\ author'[k] \in {None, author[k], sig}
  BY <1>5 DEF Signed
<1>7. author' \in [Keys -> Signature \cup {None, Crossing}]
      /\ \A j \in Keys : j # k => author'[j] = author[j]
  BY <1>1, <1>4, <1>5, <1>6
<1>8. Tables'
  BY <1>2, <1>7 DEF EarnInv, Tables
<1>9. ASSUME NEW j \in Keys PROVE RowHolds(j)'
  <2>1. RowHolds(j) /\ row[j].streak \in Nat /\ strikes[j] \in Nat /\ strikes'[j] \in Nat
        /\ strikes[j] <= strikes'[j] /\ StreakLimit \in Nat
    BY <1>1, NumbersAssumption DEF EarnInv, Row
  <2>2. CASE j # k
    BY <1>2, <1>7, <2>1, <2>2 DEF RowHolds
  <2>3. CASE j = k
    <3>1. /\ row'[k].kind = Merged("kind", new, s.snap, k)
          /\ row'[k].about = Merged("about", new, s.snap, k)
          /\ row'[k].streak = Merged("streak", new, s.snap, k)
      BY <1>2, <2>3
    <3>2. row'[k].streak <= strikes'[k]
      BY <2>1, <2>3, <3>1 DEF RowHolds, Merged, Row
    <3>3. row'[k].kind = "unusable_output" => strikes'[k] >= StreakLimit
      <4>1. "unusable_output" # None
        BY NoneAssumption DEF Verdicts, Blocking
      <4> QED BY <2>1, <2>3, <3>1, <4>1 DEF RowHolds, Merged
    <3>4. ASSUME row'[k].kind # None
          PROVE  /\ author'[k] # None
                 /\ author'[k] # Crossing =>
                      /\ author'[k].key = k
                      /\ row'[k].kind \in ModelScoped => author'[k].model = row'[k].about
      <4>1. CASE kind = None /\ row'[k].kind = row[k].kind /\ row'[k].about = row[k].about
        BY <1>6, <2>1, <2>3, <3>4, <4>1 DEF Signed, RowHolds
      <4>2. CASE ~(kind = None /\ row'[k].kind = row[k].kind /\ row'[k].about = row[k].about)
        <5>1. author'[k] = sig
          BY <1>6, <2>3, <3>4, <4>2 DEF Signed
        <5>2. ASSUME sig # Crossing
              PROVE  /\ sig.key = k
                     /\ row'[k].kind \in ModelScoped => sig.model = row'[k].about
          <6>1. s.since = Changes /\ row[k] = s.snap
            BY <1>1, <1>4, <2>3, <5>2 DEF Crossed
          <6>2. row'[k].kind = new.kind /\ row'[k].about = new.about
            BY <3>1, <6>1 DEF Merged
          <6>3. kind # None
            BY <3>4, <4>2, <6>1, <6>2
          <6> QED BY <1>4, <2>3, <5>2, <6>1, <6>2, <6>3
        <5> QED BY <1>4, <5>1, <5>2
      <4> QED BY <4>1, <4>2
    <3> QED BY <2>3, <3>2, <3>3, <3>4 DEF RowHolds
  <2> QED BY <2>2, <2>3
<1> QED BY <1>3, <1>8, <1>9

\* AfterReport leaves the review at the post, or over.
LEMMA ReportOver ==
  ASSUME EarnInv, worker.at \in {"report", "flush"}, AfterReport(worker.task, worker.then)
  PROVE  worker' \in {Idle} \cup ToPost
<1>1. worker.task \in Tasks
  BY DEF EarnInv, Records, Idle, InCall, ToReport, Reporting, ToPost
<1> QED BY <1>1 DEF AfterReport, End, ToPost

\* ReportFlush
LEMMA EarnFlushes ==
  ASSUME EarnInv, ReportFlush, NEW k, k = worker.on
  PROVE  EarnInv'
<1> DEFINE new == Reported(worker.snap, worker.kind)
           kind == IF worker.kind = "unusable_output" /\ new.streak < StreakLimit THEN None
                   ELSE worker.kind
<1>1. /\ worker.at = "flush" /\ worker \in Reporting
      /\ k \in Keys \cup {NoKey} /\ worker.key \in Keys
      /\ worker.model \in Models /\ worker.kind \in Outcomes /\ worker.snap \in Row
  BY DEF ReportFlush, EarnInv, Records, Idle, InCall, ToReport, Reporting, ToPost
<1>2. /\ worker.since = Changes => k = worker.key
      /\ k # NoKey => worker.snap.streak <= strikes[k]
      /\ worker.since = Changes => worker.model = row[worker.key].model
  BY <1>1 DEF EarnInv, WorkerHolds, Loaded
<1>3. /\ Flush(k, worker.snap, new) /\ Sign(k, worker, kind)
      /\ AfterReport(worker.task, worker.then)
      /\ UNCHANGED <<selected, caller, edit, edits>>
  BY Zenon DEF ReportFlush, workerRest
<1>4. /\ new \in Row /\ SameSettings(new, worker.snap)
      /\ worker.kind = None =>
           \/ new.kind = worker.snap.kind /\ new.about = worker.snap.about
           \/ new.kind = None
      /\ worker.kind \in Verdicts =>
           IF worker.kind = "unusable_output" /\ new.streak < StreakLimit
           THEN new.kind = worker.snap.kind /\ new.about = worker.snap.about
           ELSE /\ new.kind = worker.kind
                /\ worker.kind \in ModelScoped => new.about = worker.snap.model
      /\ new.streak = IF worker.kind = "unusable_output" THEN worker.snap.streak + 1 ELSE 0
  BY <1>1, ReportedRow
<1>5. /\ kind \in Outcomes
      /\ kind = None => new.kind = None
                        \/ (new.kind = worker.snap.kind /\ new.about = worker.snap.about)
      /\ kind # None => new.kind = kind
      /\ kind # None /\ kind \in ModelScoped => new.about = worker.snap.model
      /\ kind = "unusable_output" =>
            worker.kind = "unusable_output" /\ ~(new.streak < StreakLimit)
  BY <1>1, <1>4, NoneAssumption DEF Outcomes, Verdicts, Blocking
<1> HIDE DEF new, kind
<1>6. strikes' = [j \in Keys |-> IF j = k /\ worker.kind = "unusable_output"
                                THEN strikes[j] + 1 ELSE strikes[j]]
  BY DEF ReportFlush
<1>7. strikes' \in [Keys -> Nat] /\ \A j \in Keys : strikes[j] <= strikes'[j]
  BY <1>6 DEF EarnInv, Tables
<1>8. k \in Keys => /\ new.streak = worker.snap.streak \/ new.streak <= strikes'[k]
                    /\ kind = "unusable_output" => strikes'[k] >= StreakLimit
  <2> SUFFICES ASSUME k \in Keys
               PROVE  /\ new.streak <= strikes'[k]
                      /\ kind = "unusable_output" => strikes'[k] >= StreakLimit
    OBVIOUS
  <2>1. strikes[k] \in Nat /\ worker.snap.streak \in Nat /\ StreakLimit \in Nat /\ k # NoKey
        /\ new.streak \in Nat
    BY <1>1, <1>4, NumbersAssumption DEF EarnInv, Tables, Row, NoKey, Keys
  <2> QED BY <1>2, <1>4, <1>5, <1>6, <2>1
<1>9. kind \in ModelScoped /\ worker.since = Changes /\ k \in Keys /\ row[k] = worker.snap =>
        new.about = worker.model
  <2>1. None \notin ModelScoped
    BY NoneAssumption DEF ModelScoped, Verdicts, Blocking, Transient
  <2> QED BY <1>2, <1>5, <2>1
<1>10. /\ Tables'
       /\ \A j \in Keys : SameSettings(row'[j], row[j])
       /\ \A j \in Keys : RowHolds(j)'
  BY <1>1, <1>2, <1>3, <1>4, <1>5, <1>7, <1>8, <1>9, VerdictWritten
<1>11. worker' \in {Idle} \cup ToPost
  BY <1>1, <1>3, ReportOver
<1>12. WorkerHolds' /\ Records'
  BY <1>3, <1>11 DEF WorkerHolds, Idle, ToPost, EarnInv, Records
<1>13. \A c \in Callers : CallerHolds(c)'
  BY <1>3, <1>7, <1>10, CallsStand
<1> QED BY <1>10, <1>12, <1>13 DEF EarnInv

\* CallFlush
LEMMA CallFlushes ==
  ASSUME EarnInv, NEW c \in Callers, CallFlush(c), NEW k, k = caller[c].on
  PROVE  EarnInv'
<1> DEFINE s == caller[c]
           new == IF s.kind = None THEN Cleared(s.snap, s.model)
                                   ELSE Record(s.snap, s.kind, s.model)
<1>1. /\ s.at = "flush" /\ k \in Keys \cup {NoKey} /\ s.key \in Keys /\ s.model \in Models
      /\ s.kind \in Outcomes /\ s.kind # "unusable_output" /\ s.snap \in Row
  BY DEF CallFlush, EarnInv, Records, Idle, Waiting, Recording
<1>2. s.since = Changes => k = s.key
  BY <1>1 DEF EarnInv, CallerHolds, Loaded
<1>3. /\ Flush(k, s.snap, new) /\ Sign(k, s, s.kind)
      /\ caller' = [caller EXCEPT ![c] = Idle]
      /\ UNCHANGED <<selected, worker, edit, edits, strikes>>
  BY Zenon DEF CallFlush, callerRest
<1>4. /\ new \in Row /\ SameSettings(new, s.snap) /\ new.streak = s.snap.streak
      /\ s.kind = None => \/ new.kind = s.snap.kind /\ new.about = s.snap.about
                          \/ new.kind = None
      /\ s.kind # None => new.kind = s.kind /\ (s.kind \in ModelScoped => new.about = s.model)
  BY <1>1, ClearedRow, RecordedRow DEF Outcomes
<1>5. None \notin ModelScoped
  BY NoneAssumption DEF ModelScoped, Verdicts, Blocking, Transient
<1>6. strikes' \in [Keys -> Nat] /\ \A j \in Keys : strikes[j] <= strikes'[j]
  BY <1>3 DEF EarnInv, Tables
<1> HIDE DEF new
<1>7. /\ Tables'
      /\ \A j \in Keys : SameSettings(row'[j], row[j])
      /\ \A j \in Keys : RowHolds(j)'
  <2>1. s.kind \in ModelScoped => new.about = s.model
    BY <1>4, <1>5
  <2> HIDE DEF s
  <2> QED BY <1>1, <1>2, <1>3, <1>4, <1>6, <2>1, VerdictWritten DEF s
<1>8. WorkerHolds' /\ \A d \in Callers \ {c} : CallerHolds(d)'
  <2>1. \A d \in Callers \ {c} : caller'[d] = caller[d]
    BY <1>3 DEF EarnInv, Records
  <2> QED BY <1>3, <1>6, <1>7, <2>1, CallsStand
<1>9. CallerHolds(c)' /\ Records'
  BY <1>3 DEF CallerHolds, Idle, EarnInv, Records
<1> QED BY <1>7, <1>8, <1>9 DEF EarnInv

-----------------------------------------------------------------------------
(* Calls begin, are answered and are reported                               *)

LEMMA EarnFetches ==
  ASSUME EarnInv, NEW t \in Tasks, Fetch(t), NEW k, k = ActiveKey(selected)
  PROVE  EarnInv'
<1>1. /\ k # NoKey /\ row[k].model # None
      /\ worker' = [at |-> "calling", task |-> t, key |-> k, model |-> row[k].model,
                    since |-> Changes,
                    hadError |-> Applies(row[k], row[k].model) \/ row[k].streak > 0]
      /\ UNCHANGED <<row, selected, caller, edit, edits, author, strikes>>
  BY Zenon DEF Fetch, workerRest, history
<1>2. k \in Keys /\ Changes \in Nat
  BY <1>1, ActiveIsKey, ChangesCounted DEF EarnInv, Tables
<1>3. row[k].model \in Models
  BY <1>1, <1>2 DEF EarnInv, Tables, Row
<1>4. (Applies(row[k], row[k].model) \/ row[k].streak > 0) \in BOOLEAN
  BY DEF Applies
<1>5. worker' \in InCall /\ worker'.since = Changes /\ worker'.key = k
      /\ worker'.model = row[k].model
  BY <1>1, <1>2, <1>3, <1>4 DEF InCall
<1> QED BY <1>1, <1>2, <1>5, WorkerGoesOn

LEMMA EarnReports ==
  ASSUME EarnInv, worker.at = "calling", NEW kind \in Outcomes, NEW then \in {"post", "end"},
         ReportNext(kind, then), UNCHANGED <<row, selected, caller, edit, edits, author, strikes>>
  PROVE  EarnInv'
<1>1. /\ worker.task \in Tasks /\ worker.key \in Keys /\ worker.model \in Models
      /\ worker.since \in Nat
  BY DEF EarnInv, Records, Idle, InCall, ToReport, Reporting, ToPost
<1>2. /\ worker.since <= Changes
      /\ worker.since = Changes =>
            worker.key = ActiveKey(selected) /\ worker.model = row[worker.key].model
  BY DEF EarnInv, WorkerHolds
<1>3. worker' \in ToReport /\ worker'.key = worker.key /\ worker'.model = worker.model
      /\ worker'.since = worker.since
  BY <1>1 DEF ReportNext, ToReport
<1> QED BY <1>2, <1>3, WorkerGoesOn

LEMMA EarnLoads == ASSUME EarnInv, ReportLoad, NEW k, k = ActiveKey(selected) PROVE EarnInv'
<1>1. /\ worker.at = "report" /\ worker \in ToReport /\ k # NoKey
      /\ worker' = [at |-> "flush", task |-> worker.task, key |-> worker.key,
                    model |-> worker.model, since |-> worker.since, kind |-> worker.kind,
                    then |-> worker.then, on |-> k, snap |-> row[k]]
      /\ UNCHANGED <<row, selected, caller, edit, edits, author, strikes>>
  <2>1. worker.at = "report"
    BY DEF ReportLoad
  <2>2. worker \in ToReport
    BY <2>1 DEF EarnInv, Records, Idle, InCall, ToReport, Reporting, ToPost
  <2> QED BY <2>1, <2>2, Zenon DEF ReportLoad, workerRest, history
<1>2. k \in Keys /\ row[k] \in Row /\ row[k].streak <= strikes[k]
  BY <1>1, ActiveIsKey DEF EarnInv, Tables, RowHolds
<1>3. /\ worker' \in Reporting /\ worker'.at = "flush" /\ worker'.on = k /\ worker'.snap = row[k]
      /\ worker'.key = worker.key /\ worker'.model = worker.model
      /\ worker'.since = worker.since
  BY <1>1, <1>2 DEF ToReport, Reporting
<1>4. ActiveKey(selected)' = ActiveKey(selected) /\ Changes' = Changes
  BY <1>1, SameActive DEF Changes
<1>5. WorkerHolds'
  BY <1>1, <1>2, <1>3, <1>4 DEF EarnInv, WorkerHolds, Loaded
<1>6. Records'
  BY <1>1, <1>3 DEF EarnInv, Records
<1> QED BY <1>1, <1>5, <1>6, EarnRests

\* The step of a review that ends, or goes back to the queue
LEMMA EarnEnds ==
  ASSUME EarnInv, worker' = Idle, UNCHANGED <<row, selected, caller, edit, edits, author, strikes>>
  PROVE  EarnInv'
BY WorkerGoesOn

LEMMA WorkersStep == ASSUME EarnInv, WorkerStep \/ WorkerKilled PROVE EarnInv'
<1> USE DEF workerRest, history
<1>1. ASSUME NEW t \in Tasks, FetchFails(t) PROVE EarnInv'
  BY <1>1, EarnEnds DEF FetchFails, Retry
<1>2. ASSUME NEW t \in Tasks, Skip(t) PROVE EarnInv'
  BY <1>2, EarnEnds DEF Skip, End
<1>3. ASSUME NEW t \in Tasks, Fetch(t) PROVE EarnInv'
  BY <1>3, EarnFetches
<1>a. worker.at \in {"calling", "post"} => worker.task \in Tasks
  BY DEF EarnInv, Records, Idle, InCall, ToReport, Reporting, ToPost
<1>4. CASE CallScores
  <2>1. CASE worker.hadError
    <3>1. None \in Outcomes
      BY DEF Outcomes
    <3> QED BY <1>4, <2>1, <3>1, EarnReports DEF CallScores
  <2>2. CASE ~worker.hadError
    <3>1. worker' \in ToPost
      BY <1>4, <1>a, <2>2 DEF CallScores, ToPost
    <3> QED BY <1>4, <3>1, WorkerGoesOn DEF CallScores
  <2> QED BY <2>1, <2>2
<1>5. CASE CallUnusable
  <2>1. "unusable_output" \in Outcomes
    BY DEF Outcomes, Verdicts, Blocking
  <2> QED BY <1>5, <2>1, EarnReports DEF CallUnusable
<1>6. CASE CallTruncated
  BY <1>6, EarnEnds DEF CallTruncated, End
<1>7. CASE CallRejected
  <2>1. PICK kind \in {"invalid_model", "invalid_key"} : ReportNext(kind, "end")
    BY <1>7 DEF CallRejected
  <2>2. kind \in Outcomes
    BY DEF Outcomes, Verdicts, Blocking
  <2> QED BY <1>7, <2>1, <2>2, EarnReports DEF CallRejected
<1>8. CASE CallTransient
  <2>1. CASE retries[worker.task] < MaxRetries
    BY <1>8, <2>1, EarnEnds DEF CallTransient, Retry
  <2>2. CASE ~(retries[worker.task] < MaxRetries)
    <3>1. PICK kind \in Transient : ReportNext(kind, "end")
      BY <1>8, <2>2 DEF CallTransient
    <3>2. kind \in Outcomes
      BY DEF Outcomes, Verdicts
    <3> QED BY <1>8, <3>1, <3>2, EarnReports DEF CallTransient
  <2> QED BY <2>1, <2>2
<1>9. CASE ReportLost
  <2>1. worker' \in {Idle} \cup ToPost
    BY <1>9, ReportOver DEF ReportLost
  <2> QED BY <1>9, <2>1, WorkerGoesOn DEF ReportLost
<1>10. CASE ReportLoad
  BY <1>10, EarnLoads
<1>11. CASE ReportFlush
  BY <1>11, EarnFlushes
<1>12. CASE Post
  BY <1>12, EarnEnds DEF Post, End
<1>13. CASE PostFails
  BY <1>13, EarnEnds DEF PostFails, Retry
<1>14. CASE WorkerKilled
  BY <1>14, EarnEnds DEF WorkerKilled, End
<1> QED BY <1>1, <1>2, <1>3, <1>4, <1>5, <1>6, <1>7, <1>8, <1>9, <1>10, <1>11, <1>12, <1>13,
           <1>14 DEF WorkerStep

\* A foreground call begins, is answered, or is given up.
LEMMA CallersStep ==
  ASSUME EarnInv, NEW c \in Callers, CallerStep(c)
  PROVE  EarnInv'
<1> USE DEF callerRest, history
<1>a. ASSUME NEW w \in {Idle} \cup Waiting \cup Recording,
             caller' = [caller EXCEPT ![c] = w],
             UNCHANGED <<row, selected, worker, edit, edits, author, strikes>>,
             w.at \in {"calling", "flush"} => w.since <= Changes,
             w.at = "calling" /\ w.since = Changes =>
                w.sel = selected /\ w.key = ActiveKey(selected),
             w.at = "flush" => Loaded(w)
      PROVE  EarnInv'
  <2>1. caller'[c] = w /\ \A d \in Callers : d # c => caller'[d] = caller[d]
    BY <1>a DEF EarnInv, Records
  <2>2. ActiveKey(selected)' = ActiveKey(selected) /\ Changes' = Changes
    BY <1>a, SameActive DEF Changes
  <2>3. CallerHolds(c)'
    BY <1>a, <2>1, <2>2 DEF CallerHolds, Loaded
  <2>4. Records'
    BY <1>a DEF EarnInv, Records
  <2> QED BY <1>a, <2>1, <2>3, <2>4, EarnRests
<1>1. CASE CallBegins(c)
  <2> DEFINE k == ActiveKey(selected)
             w(m) == [at |-> "calling", key |-> k, model |-> m, sel |-> selected,
                      since |-> Changes]
  <2>1. k \in Keys /\ selected \in Keys \cup {NoKey} /\ Changes \in Nat
        /\ UNCHANGED <<row, selected, worker, edit, edits, author, strikes>>
    BY <1>1, ActiveIsKey, ChangesCounted DEF CallBegins, EarnInv, Tables
  <2>2. PICK m \in {row[k].model, WritingModel(row[k])} \ {None} :
          caller' = [caller EXCEPT ![c] = w(m)]
    BY <1>1, Zenon DEF CallBegins
  <2>3. m \in Models
    BY <2>1, <2>2 DEF WritingModel, EarnInv, Tables, Row
  <2>4. w(m) \in Waiting /\ w(m).at = "calling" /\ w(m).since = Changes
        /\ w(m).sel = selected /\ w(m).key = k
    BY <2>1, <2>3 DEF Waiting
  <2>5. Changes <= Changes
    BY <2>1
  <2> HIDE DEF w
  <2> QED BY <1>a, <2>1, <2>2, <2>4, <2>5
<1>2. CASE CallEnds(c)
  <2> DEFINE k == ActiveKey(caller[c].sel)
             w(kind) == [at |-> "flush", kind |-> kind, key |-> caller[c].key,
                         model |-> caller[c].model, since |-> caller[c].since,
                         on |-> k, snap |-> row[k]]
  <2>1. caller[c].at = "calling" /\ caller[c] \in Waiting /\ k # NoKey
        /\ UNCHANGED <<row, selected, worker, edit, edits, author, strikes>>
    BY <1>2 DEF CallEnds, EarnInv, Records, Idle, Waiting, Recording
  <2>2. k \in Keys
    BY <2>1, ActiveIsKey DEF Waiting
  <2>3. PICK kind \in {None, "invalid_model", "invalid_key"} \cup Transient :
          caller' = [caller EXCEPT ![c] = w(kind)]
    BY <1>2, Zenon DEF CallEnds
  <2>4. kind \in Outcomes \ {"unusable_output"}
    BY <2>3, NoneAssumption DEF Outcomes, Verdicts, Transient, Blocking
  <2>5. row[k] \in Row /\ row[k].streak <= strikes[k]
    BY <2>2 DEF EarnInv, Tables, RowHolds
  <2>6. w(kind) \in Recording /\ w(kind).at = "flush" /\ w(kind).on = k
        /\ w(kind).key = caller[c].key /\ w(kind).since = caller[c].since
        /\ w(kind).snap = row[k]
    BY <2>1, <2>2, <2>4, <2>5 DEF Waiting, Recording
  <2>7. caller[c].since <= Changes /\ (caller[c].since = Changes => k = caller[c].key)
    BY <2>1 DEF EarnInv, CallerHolds
  <2>8. Loaded(w(kind))
    BY <2>5, <2>6, <2>7 DEF Loaded
  <2> HIDE DEF w
  <2> QED BY <1>a, <2>1, <2>3, <2>6, <2>7, <2>8
<1>3. CASE CallForgotten(c)
  <2>1. Idle.at = "idle"
    BY DEF Idle
  <2> QED BY <1>3, <1>a, <2>1 DEF CallForgotten
<1>4. CASE CallFlush(c)
  BY <1>4, CallFlushes
<1> QED BY <1>1, <1>2, <1>3, <1>4 DEF CallerStep

-----------------------------------------------------------------------------
(* The settings change                                                      *)

\* A change that is saved crosses every call in flight.
LEMMA CallsCrossed ==
  ASSUME EarnInv, Changes' = Changes + 1,
         \/ worker' = worker /\ (worker.at = "flush" /\ worker.on # NoKey =>
                                    strikes'[worker.on] = strikes[worker.on])
         \/ worker.at = "flush" /\ worker' = [worker EXCEPT !.on = NoKey],
         \A c \in Callers :
            \/ caller'[c] = caller[c] /\ (caller[c].at = "flush" /\ caller[c].on # NoKey =>
                                            strikes'[caller[c].on] = strikes[caller[c].on])
            \/ caller[c].at = "flush" /\ caller'[c] = [caller[c] EXCEPT !.on = NoKey]
  PROVE  WorkerHolds' /\ \A c \in Callers : CallerHolds(c)'
<1>1. Changes \in Nat
  BY ChangesCounted DEF EarnInv
<1>2. ASSUME NEW n \in Nat, n <= Changes PROVE n <= Changes' /\ n # Changes'
  BY <1>1, <1>2
<1>3. WorkerHolds'
  <2>1. worker.at \in {"calling", "report", "flush"} =>
          worker.since \in Nat /\ worker.since <= Changes
    BY DEF EarnInv, WorkerHolds, Records, Idle, InCall, ToReport, Reporting, ToPost
  <2>2. CASE worker' = worker /\ (worker.at = "flush" /\ worker.on # NoKey =>
                                    strikes'[worker.on] = strikes[worker.on])
    <3>1. worker.at = "flush" => Loaded(worker)'
      BY <1>2, <2>1, <2>2 DEF EarnInv, WorkerHolds, Loaded
    <3> QED BY <1>2, <2>1, <2>2, <3>1 DEF WorkerHolds
  <2>3. CASE worker.at = "flush" /\ worker' = [worker EXCEPT !.on = NoKey]
    <3>1. worker \in Reporting
      BY <2>3 DEF EarnInv, Records, Idle, InCall, ToReport, Reporting, ToPost
    <3>2. worker'.at = "flush" /\ worker'.since = worker.since /\ worker'.on = NoKey
      BY <2>3, <3>1 DEF Reporting
    <3>3. worker'.since <= Changes' /\ worker'.since # Changes'
      BY <1>2, <2>1, <2>3, <3>2
    <3> QED BY <3>2, <3>3 DEF WorkerHolds, Loaded
  <2> QED BY <2>2, <2>3
<1>4. ASSUME NEW c \in Callers PROVE CallerHolds(c)'
  <2>1. caller[c].at \in {"calling", "flush"} =>
          caller[c].since \in Nat /\ caller[c].since <= Changes
    BY DEF EarnInv, CallerHolds, Records, Idle, Waiting, Recording
  <2>2. CASE caller'[c] = caller[c] /\ (caller[c].at = "flush" /\ caller[c].on # NoKey =>
                                          strikes'[caller[c].on] = strikes[caller[c].on])
    <3>1. caller[c].at = "flush" => Loaded(caller[c])'
      BY <1>2, <2>1, <2>2 DEF EarnInv, CallerHolds, Loaded
    <3> QED BY <1>2, <2>1, <2>2, <3>1 DEF CallerHolds
  <2>3. CASE caller[c].at = "flush" /\ caller'[c] = [caller[c] EXCEPT !.on = NoKey]
    <3>1. caller[c] \in Recording
      BY <2>3 DEF EarnInv, Records, Idle, Waiting, Recording
    <3>2. caller'[c].at = "flush" /\ caller'[c].since = caller[c].since /\ caller'[c].on = NoKey
      BY <2>3, <3>1 DEF Recording
    <3>3. caller'[c].since <= Changes' /\ caller'[c].since # Changes'
      BY <1>2, <2>1, <2>3, <3>2
    <3> QED BY <3>2, <3>3 DEF CallerHolds, Loaded
  <2> QED BY <2>2, <2>3
<1> QED BY <1>3, <1>4

\* EditPatch, and EditUpsert over a row that was there
LEMMA EditWritten ==
  ASSUME EarnInv, edit # Idle, NEW k, k = edit.on,
         NEW new \in Row, new.kind \in {None, edit.snap.kind},
         new.streak \in {0, edit.snap.streak},
         Flush(k, edit.snap, new), SignEdit, edit' = Idle,
         UNCHANGED <<selected, worker, caller, edits, strikes>>
  PROVE  EarnInv'
<1>1. edit \in Editing /\ k \in Keys /\ edit.snap \in Row
  BY DEF EarnInv, Records, Editing
<1>2. /\ row \in [Keys -> Row] /\ strikes \in [Keys -> Nat]
      /\ author \in [Keys -> Signature \cup {None, Crossing}]
      /\ NoKey \notin Keys /\ edits \in 0..MaxEdits /\ edits > 0 /\ edits \in Nat
  BY NumbersAssumption DEF EarnInv, Tables, NoKey, Keys
<1>3. /\ row' \in [Keys -> Row]
      /\ \A j \in Keys : j # k => row'[j] = row[j]
      /\ \A c \in {"there", "model", "writing", "kind", "about", "streak"} :
            row'[k][c] = Merged(c, new, edit.snap, k)
  BY <1>1, <1>2, FlushRow
<1>4. author' = [author EXCEPT ![k] = Signed(k, FALSE, Crossing)]
  BY DEF SignEdit
<1>5. Signed(k, FALSE, Crossing) \in Signature \cup {None, Crossing}
  BY <1>1, <1>2 DEF Signed
<1>6. Tables'
  BY <1>2, <1>3, <1>4, <1>5 DEF EarnInv, Tables
<1>7. Changes' = Changes + 1
  BY <1>2 DEF Changes
<1>8. WorkerHolds' /\ \A c \in Callers : CallerHolds(c)'
  BY <1>7, CallsCrossed
<1>9. Records'
  BY DEF EarnInv, Records
<1>10. ASSUME NEW j \in Keys PROVE RowHolds(j)'
  <2>1. RowHolds(j) /\ strikes[j] \in Nat
    BY <1>2 DEF EarnInv
  <2>2. CASE j # k
    BY <1>2, <1>3, <1>4, <2>1, <2>2 DEF RowHolds
  <2>3. CASE j = k
    <3>1. /\ row'[k].kind = Merged("kind", new, edit.snap, k)
          /\ row'[k].streak = Merged("streak", new, edit.snap, k)
      BY <1>3
    <3>2. row'[k].streak <= strikes'[k]
      BY <2>1, <2>3, <3>1 DEF RowHolds, Merged
    <3>3. row'[k].kind \in {None, row[k].kind}
      BY <3>1 DEF Merged
    <3>4. author'[k] = Signed(k, FALSE, Crossing)
      BY <1>1, <1>2, <1>4
    <3>5. Crossing # None /\ None # "unusable_output"
      BY NoneAssumption DEF Verdicts, Blocking
    <3> QED BY <2>1, <2>3, <3>2, <3>3, <3>4, <3>5 DEF RowHolds, Signed
  <2> QED BY <2>2, <2>3
<1> QED BY <1>6, <1>8, <1>9, <1>10 DEF EarnInv

\* EditUpsert, where there was no row
LEMMA EditInserts ==
  ASSUME EarnInv, edit # Idle, NEW k, k = edit.on, NEW new \in Row,
         new.kind = None, new.streak = 0,
         row' = [row EXCEPT ![k] = new], SignEdit, edit' = Idle,
         UNCHANGED <<selected, worker, caller, edits, strikes>>
  PROVE  EarnInv'
<1>1. edit \in Editing /\ k \in Keys
  BY DEF EarnInv, Records, Editing
<1>2. /\ row \in [Keys -> Row] /\ strikes \in [Keys -> Nat]
      /\ author \in [Keys -> Signature \cup {None, Crossing}]
      /\ edits > 0 /\ edits \in Nat
  BY NumbersAssumption DEF EarnInv, Tables
<1>3. row' \in [Keys -> Row] /\ row'[k] = new /\ \A j \in Keys : j # k => row'[j] = row[j]
  BY <1>1, <1>2
<1>4. author' = [author EXCEPT ![k] = None]
  BY <1>3 DEF SignEdit, Signed
<1>5. Tables'
  BY <1>2, <1>3, <1>4 DEF EarnInv, Tables
<1>6. Changes' = Changes + 1
  BY <1>2 DEF Changes
<1>7. WorkerHolds' /\ \A c \in Callers : CallerHolds(c)'
  BY <1>6, CallsCrossed
<1>8. Records'
  BY DEF EarnInv, Records
<1>9. \A j \in Keys : RowHolds(j)'
  <2>1. None # "unusable_output"
    BY NoneAssumption DEF Verdicts, Blocking
  <2> QED BY <1>1, <1>2, <1>3, <1>4, <2>1 DEF EarnInv, RowHolds
<1> QED BY <1>5, <1>7, <1>8, <1>9 DEF EarnInv

LEMMA EditEnds == ASSUME EarnInv, EditFlush, NEW k, k = edit.on PROVE EarnInv'
<1>1. edit.at # "idle" /\ edit # Idle
  BY DEF EditFlush, EditPatch, EditUpsert, Idle
<1>2. /\ k \in Keys /\ edit.snap \in Row
      /\ edit.model \in Models \cup {None} /\ edit.writing \in Models \cup {None}
  BY <1>1 DEF EarnInv, Records, Editing
<1>3. CASE EditPatch
  <2> DEFINE new == Patched(edit.snap, edit.model, edit.writing)
  <2>1. new \in Row /\ new.kind \in {None, edit.snap.kind} /\ new.streak \in {0, edit.snap.streak}
    BY <1>2, PatchedRow
  <2>2. /\ Flush(k, edit.snap, new) /\ SignEdit /\ edit' = Idle
        /\ UNCHANGED <<selected, worker, caller, edits, strikes>>
    BY <1>3, Zenon DEF EditPatch
  <2> HIDE DEF new
  <2> QED BY <1>1, <2>1, <2>2, EditWritten
<1>4. CASE EditUpsert
  <2> DEFINE new == Upserted(edit.model, edit.writing)
  <2>1. new \in Row /\ new.kind = None /\ new.streak = 0
    BY <1>2, FreshRows DEF Upserted
  <2>2. /\ SignEdit /\ edit' = Idle /\ UNCHANGED <<selected, worker, caller, edits, strikes>>
        /\ Flush(k, edit.snap, new) \/ row' = [row EXCEPT ![k] = new]
    BY <1>4, Zenon DEF EditUpsert
  <2> HIDE DEF new
  <2> QED BY <1>1, <2>1, <2>2, EditWritten, EditInserts
<1> QED BY <1>3, <1>4 DEF EditFlush

LEMMA EditDeletes == ASSUME EarnInv, NEW k \in Keys, DeleteKey(k) PROVE EarnInv'
<1> DEFINE Fails(s) == IF s.at = "flush" /\ s.on = k THEN [s EXCEPT !.on = NoKey] ELSE s
<1>1. /\ edit = Idle /\ edits < MaxEdits
      /\ row' = [row EXCEPT ![k] = AbsentRow]
      /\ worker' = Fails(worker)
      /\ caller' = [c \in Callers |-> Fails(caller[c])]
      /\ author' = [author EXCEPT ![k] = None]
      /\ strikes' = [strikes EXCEPT ![k] = 0]
      /\ edits' = edits + 1
      /\ UNCHANGED <<selected, edit>>
  BY Zenon DEF DeleteKey
<1>2. /\ row \in [Keys -> Row] /\ strikes \in [Keys -> Nat] /\ edits \in Nat
      /\ author \in [Keys -> Signature \cup {None, Crossing}] /\ NoKey \notin Keys
      /\ edits' \in 0..MaxEdits
  BY <1>1, NumbersAssumption DEF EarnInv, Tables, NoKey, Keys
<1>3. AbsentRow \in Row /\ AbsentRow.kind = None /\ AbsentRow.streak = 0
  BY FreshRows
<1>4. Tables'
  BY <1>1, <1>2, <1>3 DEF EarnInv, Tables
<1>5. Changes' = Changes + 1
  BY <1>1, <1>2 DEF Changes
<1>6. Records'
  <2>1. ASSUME NEW s \in Reporting PROVE [s EXCEPT !.on = NoKey] \in Reporting
    BY DEF Reporting
  <2>2. ASSUME NEW s \in Recording PROVE [s EXCEPT !.on = NoKey] \in Recording
    BY DEF Recording
  <2>3. Fails(worker) \in {Idle} \cup InCall \cup ToReport \cup Reporting \cup ToPost
    <3>1. worker.at = "flush" => worker \in Reporting
      BY DEF EarnInv, Records, Idle, InCall, ToReport, Reporting, ToPost
    <3> QED BY <2>1, <3>1 DEF EarnInv, Records
  <2>4. \A c \in Callers : Fails(caller[c]) \in {Idle} \cup Waiting \cup Recording
    <3>1. \A c \in Callers : caller[c].at = "flush" => caller[c] \in Recording
      BY DEF EarnInv, Records, Idle, Waiting, Recording
    <3> QED BY <2>2, <3>1 DEF EarnInv, Records
  <2> HIDE DEF Fails
  <2> QED BY <1>1, <2>3, <2>4 DEF EarnInv, Records
<1>7. WorkerHolds' /\ \A c \in Callers : CallerHolds(c)'
  <2>1. worker.at = "flush" => worker.on \in Keys \cup {NoKey}
    BY DEF EarnInv, Records, Idle, InCall, ToReport, Reporting, ToPost
  <2>2. \A c \in Callers : caller[c].at = "flush" => caller[c].on \in Keys \cup {NoKey}
    BY DEF EarnInv, Records, Idle, Waiting, Recording
  <2>3. \A j \in Keys : j # k => strikes'[j] = strikes[j]
    BY <1>1, <1>2
  <2>4. \/ worker' = worker /\ (worker.at = "flush" /\ worker.on # NoKey =>
                                    strikes'[worker.on] = strikes[worker.on])
        \/ worker.at = "flush" /\ worker' = [worker EXCEPT !.on = NoKey]
    BY <1>1, <2>1, <2>3
  <2>5. \A c \in Callers :
            \/ caller'[c] = caller[c] /\ (caller[c].at = "flush" /\ caller[c].on # NoKey =>
                                            strikes'[caller[c].on] = strikes[caller[c].on])
            \/ caller[c].at = "flush" /\ caller'[c] = [caller[c] EXCEPT !.on = NoKey]
    BY <1>1, <2>2, <2>3
  <2> QED BY <1>5, <2>4, <2>5, CallsCrossed
<1>8. \A j \in Keys : RowHolds(j)'
  <2>1. None # "unusable_output"
    BY NoneAssumption DEF Verdicts, Blocking
  <2> QED BY <1>1, <1>2, <1>3, <2>1 DEF EarnInv, RowHolds
<1> QED BY <1>4, <1>6, <1>7, <1>8 DEF EarnInv

LEMMA SettingsStep == ASSUME EarnInv, Settings \/ Select(NoKey) PROVE EarnInv'
<1>1. CASE EditFlush
  BY <1>1, EditEnds
<1>2. ASSUME NEW k \in Keys, DeleteKey(k) PROVE EarnInv'
  BY <1>2, EditDeletes
<1>a. edits \in 0..MaxEdits /\ edits \in Nat /\ MaxEdits \in Nat
  BY NumbersAssumption DEF EarnInv, Tables
<1>3. ASSUME NEW k \in Keys \cup {NoKey}, Select(k) PROVE EarnInv'
  <2>1. /\ edit = Idle /\ edits < MaxEdits /\ selected' = k /\ edits' = edits + 1
        /\ UNCHANGED <<row, worker, caller, edit, author, strikes>>
    BY <1>3 DEF Select, history
  <2>2. Tables' /\ Records' /\ \A j \in Keys : RowHolds(j)'
    BY <1>a, <2>1 DEF EarnInv, Tables, Records, RowHolds
  <2>3. Changes' = Changes + 1
    BY <1>a, <2>1 DEF Changes
  <2>4. WorkerHolds' /\ \A c \in Callers : CallerHolds(c)'
    BY <2>1, <2>3, CallsCrossed
  <2> QED BY <2>2, <2>4 DEF EarnInv
<1>4. ASSUME NEW k \in Keys, EditLoad(k) PROVE EarnInv'
  <2>1. PICK m \in Models \cup {None}, w \in Models \cup {None}, op \in {"patch", "upsert"} :
          edit' = [at |-> op, on |-> k, model |-> m, writing |-> w, snap |-> row[k]]
    BY <1>4 DEF EditLoad
  <2>2. /\ edit = Idle /\ edits < MaxEdits /\ edits' = edits + 1
        /\ UNCHANGED <<row, selected, worker, caller, author, strikes>>
    BY <1>4 DEF EditLoad, history
  <2>3. edit' \in Editing /\ edit' # Idle
    BY <2>1 DEF Editing, EarnInv, Tables, Idle
  <2>4. Tables' /\ Records' /\ \A j \in Keys : RowHolds(j)'
    BY <1>a, <2>2, <2>3 DEF EarnInv, Tables, Records, RowHolds
  <2>5. Changes' = Changes
    BY <1>a, <2>2, <2>3 DEF Changes
  <2>6. ActiveKey(selected)' = ActiveKey(selected)
    BY <2>2, SameActive
  <2>7. WorkerHolds' /\ \A c \in Callers : CallerHolds(c)'
    BY <2>2, <2>5, <2>6 DEF EarnInv, WorkerHolds, CallerHolds, Loaded
  <2> QED BY <2>4, <2>7 DEF EarnInv
<1> QED BY <1>1, <1>2, <1>3, <1>4 DEF Settings

LEMMA EarnStep == ASSUME EarnInv, [Next]_vars PROVE EarnInv'
<1>1. CASE UNCHANGED vars
  <2>1. Records'
    BY <1>1 DEF vars, EarnInv, Records
  <2> QED BY <1>1, <2>1, EarnRests DEF vars
<1>2. CASE Next
  BY <1>2, WorkersStep, CallersStep, SettingsStep DEF Next
<1> QED BY <1>1, <1>2

\* However calls, reports and settings overlap, a verdict stands on a key that the call it
\* came from was made with, and names that call's model, unless a change crossed the call;
\* and no model is accused of unusable output before it is reported often enough
\* (llm.py:264-275, models.py:122-131 and 146-152).
THEOREM VerdictsAreEarned == Spec => []VerdictEarned
<1>1. EarnInv => VerdictEarned
  BY DEF EarnInv, RowHolds, VerdictEarned
<1> QED BY <1>1, EarnStarts, EarnStep, PTL DEF Spec

\* The rows, the selection, the deliveries and what they cost keep their types, for any
\* number of providers, models, deliveries and callers.
THEOREM KeyTypes == Spec => []TypeOK
<1> DEFINE KeyInv == EarnInv /\ BillInv
<1>1. Init => KeyInv
  BY EarnStarts, BillStarts
<1>2. KeyInv /\ [Next]_vars => KeyInv'
  BY EarnStep, BillStep
<1>3. KeyInv => TypeOK
  BY DEF EarnInv, Tables, BillInv, States, TypeOK
<1> HIDE DEF KeyInv
<1> QED BY <1>1, <1>2, <1>3, PTL DEF Spec

-----------------------------------------------------------------------------
(* Verdicts that survive                                                    *)

Scoped(k) == row[k].kind \in ModelScoped /\ row[k].about # None

LEMMA SurvivesReport ==
  ASSUME EarnInv, ReportFlush, NEW k \in Keys, Scoped(k), row'[k].kind = None,
         NEW j, j = worker.on
  PROVE  Disproves(worker, k)
<1> DEFINE new == Reported(worker.snap, worker.kind)
<1>1. /\ worker.at = "flush" /\ j \in Keys \cup {NoKey} /\ worker.kind \in Outcomes
      /\ worker.snap \in Row /\ worker.model \in Models /\ worker.key \in Keys
  BY DEF ReportFlush, EarnInv, Records, Idle, InCall, ToReport, Reporting, ToPost
<1>2. /\ row \in [Keys -> Row] /\ NoKey \notin Keys
      /\ row[k].kind # None /\ None \notin Verdicts
  BY NoneAssumption, NumbersAssumption
  DEF EarnInv, Tables, Scoped, ModelScoped, Verdicts, Blocking, Transient, NoKey, Keys
<1>3. Flush(j, worker.snap, new)
  BY Zenon DEF ReportFlush
<1>4. /\ new \in Row
      /\ worker.kind = None =>
           \/ new.kind = worker.snap.kind
           \/ worker.snap.model # None /\ worker.snap.kind # None =>
                Applies(worker.snap, worker.snap.model)
      /\ worker.kind \in Verdicts => new.kind = worker.snap.kind \/ new.kind = worker.kind
  BY <1>1, ReportedRow
<1>5. /\ \A i \in Keys : i # j => row'[i] = row[i]
      /\ j \in Keys => row'[j].kind = Merged("kind", new, worker.snap, j)
  BY <1>1, <1>2, <1>3, <1>4, FlushRow
<1>6. k = j /\ new.kind = None /\ worker.snap.kind # None
  BY <1>2, <1>5 DEF Merged
<1> HIDE DEF new
<1>7. worker.kind = None
  BY <1>1, <1>2, <1>4, <1>6 DEF Outcomes
<1>8. ASSUME ~Crossed(worker) PROVE worker.model = row[k].about
  <2>1. worker.since = Changes /\ row[k] = worker.snap
    BY <1>2, <1>6, <1>8 DEF Crossed
  <2>2. worker.key = k /\ worker.model = row[k].model
    BY <1>1, <1>6, <2>1 DEF EarnInv, WorkerHolds, Loaded
  <2>3. worker.snap.model # None
    BY <1>1, <2>1, <2>2, NoneAssumption
  <2>4. Applies(worker.snap, worker.snap.model)
    BY <1>4, <1>6, <1>7, <2>3
  <2> QED BY <2>1, <2>2, <2>4 DEF Applies, Scoped
<1> QED BY <1>1, <1>6, <1>7, <1>8 DEF Disproves

LEMMA SurvivesCall ==
  ASSUME EarnInv, NEW c \in Callers, CallFlush(c), NEW k \in Keys, Scoped(k),
         row'[k].kind = None, NEW j, j = caller[c].on
  PROVE  Disproves(caller[c], k)
<1> DEFINE s == caller[c]
           new == IF s.kind = None THEN Cleared(s.snap, s.model)
                                   ELSE Record(s.snap, s.kind, s.model)
<1>1. /\ s.at = "flush" /\ j \in Keys \cup {NoKey} /\ s.model \in Models
      /\ s.kind \in Outcomes /\ s.snap \in Row
  BY DEF CallFlush, EarnInv, Records, Idle, Waiting, Recording
<1>2. /\ row \in [Keys -> Row] /\ NoKey \notin Keys
      /\ row[k].kind # None /\ None \notin Verdicts /\ None \notin Models
  BY NoneAssumption, NumbersAssumption
  DEF EarnInv, Tables, Scoped, ModelScoped, Verdicts, Blocking, Transient, NoKey, Keys
<1>3. Flush(j, s.snap, new)
  BY Zenon DEF CallFlush
<1>4. /\ new \in Row
      /\ s.kind = None => \/ new.kind = s.snap.kind
                          \/ s.snap.kind # None => Applies(s.snap, s.model)
      /\ s.kind # None => new.kind # None
  BY <1>1, <1>2, ClearedRow, RecordedRow DEF Outcomes
<1>5. /\ \A i \in Keys : i # j => row'[i] = row[i]
      /\ j \in Keys => row'[j].kind = Merged("kind", new, s.snap, j)
  BY <1>1, <1>2, <1>3, <1>4, FlushRow
<1>6. k = j /\ new.kind = None /\ s.snap.kind # None
  BY <1>2, <1>5 DEF Merged
<1> HIDE DEF new
<1>7. s.kind = None /\ Applies(s.snap, s.model)
  BY <1>4, <1>6
<1>8. ASSUME ~Crossed(s) PROVE s.model = row[k].about
  <2>1. row[k] = s.snap
    BY <1>2, <1>6, <1>8 DEF Crossed
  <2> QED BY <1>7, <2>1 DEF Applies, Scoped
<1> QED BY <1>1, <1>6, <1>7, <1>8 DEF Disproves

LEMMA SurvivesStep ==
  ASSUME EarnInv, [Next]_vars, NEW k \in Keys, Scoped(k), row'[k].there, row'[k].kind = None
  PROVE  edit # edit' \/ Disproves(worker, k) \/ \E c \in Callers : Disproves(caller[c], k)
<1>1. row[k].kind # None /\ row \in [Keys -> Row]
  BY NoneAssumption DEF EarnInv, Tables, Scoped, ModelScoped, Verdicts, Blocking, Transient
<1>2. row' # row
  BY <1>1
<1>3. CASE ReportFlush
  BY <1>3, SurvivesReport
<1>4. ASSUME NEW c \in Callers, CallerStep(c) PROVE Disproves(caller[c], k)
  <2>1. CASE CallFlush(c)
    BY <2>1, SurvivesCall
  <2>2. CASE CallBegins(c) \/ CallEnds(c) \/ CallForgotten(c)
    BY <1>2, <2>2 DEF CallBegins, CallEnds, CallForgotten
  <2> QED BY <1>4, <2>1, <2>2 DEF CallerStep
<1>5. CASE EditFlush
  BY <1>5 DEF EditFlush, EditPatch, EditUpsert, Idle
<1>6. ASSUME NEW j \in Keys, DeleteKey(j) PROVE FALSE
  <2>1. row' = [row EXCEPT ![j] = AbsentRow] /\ ~AbsentRow.there
    BY <1>6 DEF DeleteKey, AbsentRow, FreshRow
  <2> QED BY <1>1, <2>1
<1>7. ASSUME NEW j, EditLoad(j) \/ Select(j) PROVE FALSE
  BY <1>2, <1>7 DEF EditLoad, Select
<1>8. CASE (WorkerStep /\ ~ReportFlush) \/ WorkerKilled
  BY <1>2, <1>8 DEF WorkerStep, WorkerKilled, FetchFails, Skip, Fetch, CallScores, CallUnusable,
                    CallTruncated, CallRejected, CallTransient, ReportLost, ReportLoad, Post,
                    PostFails
<1>9. CASE UNCHANGED vars
  BY <1>2, <1>9 DEF vars
<1> QED BY <1>3, <1>4, <1>5, <1>6, <1>7, <1>8, <1>9 DEF Next, Settings

\* A verdict about a model goes only with a settings change, or with a success of a call
\* with that very model, or of one that something crossed: scoring well never clears what
\* is known of the writing model (llm.py, clear_key_error).
THEOREM VerdictsSurvive == Spec => VerdictSurvives
<1>1. EarnInv /\ [Next]_vars =>
        [\A k \in Keys :
          /\ row[k].kind \in ModelScoped /\ row[k].about # None
          /\ row'[k].there /\ row'[k].kind = None
          => edit # edit' \/ Disproves(worker, k) \/ \E c \in Callers : Disproves(caller[c], k)]_vars
  BY SurvivesStep DEF Scoped
<1>2. Init => EarnInv
  BY EarnStarts
<1>3. EarnInv /\ [Next]_vars => EarnInv'
  BY EarnStep
<1> QED BY <1>1, <1>2, <1>3, PTL DEF Spec, VerdictSurvives

-----------------------------------------------------------------------------
(* The mailbox and the workspace of a user (MailboxConfig)                  *)

\* What a request that is under way has done: a save that enables has found its whole
\* layout in the mailbox it loaded, and the channel it brings was chosen for the
\* connection it loaded.
Holds(w) ==
    /\ w.at = "put" /\ w.enabled => w.seen.id \in checked /\ Verified(w.seen, w.folders)
    /\ w.at = "channel" => w.seen.id \in chosen
    /\ w.at \in {"connect", "install"} => acts > 0

MailInv ==
    /\ MailTypeOK
    /\ EnabledByItsCheck
    /\ \A t \in Threads : Holds(thread[t])

-----------------------------------------------------------------------------
\* Which thread holds what, by the place it is at.
LEMMA MailAtWork ==
    ASSUME MailTypeOK, NEW t \in Threads
    PROVE  /\ thread[t].at = "put" =>
                /\ thread[t].seen \in Cred /\ thread[t].folders \in Folders
                /\ thread[t].enabled \in BOOLEAN
           /\ thread[t].at = "connect" =>
                /\ thread[t].seen \in Cred \cup {Nothing} /\ thread[t].box \in Boxes
                /\ thread[t].folders \in Folders \cup {Nothing}
           /\ thread[t].at = "install" =>
                thread[t].seen \in Slack \cup {Nothing} /\ thread[t].team \in Workspaces
           /\ thread[t].at = "channel" =>
                thread[t].seen \in Slack /\ thread[t].channel \in Channels
<1> DEFINE v == thread[t]
<1>1. v \in Work
  BY DEF MailTypeOK
<1>2. CASE v = AtRest
  BY <1>2 DEF AtRest
<1>3. CASE v \in [at : {"put"}, seen : Cred, folders : Folders, enabled : BOOLEAN]
  BY <1>3
<1>4. CASE v \in [at : {"connect"}, seen : Cred \cup {Nothing}, box : Boxes,
                  folders : Folders \cup {Nothing}]
  BY <1>4
<1>5. CASE v \in [at : {"disconnect", "uninstall"}, id : 1..MaxActs]
  BY <1>5
<1>6. CASE v \in [at : {"install"}, seen : Slack \cup {Nothing}, team : Workspaces]
  BY <1>6
<1>7. CASE v \in [at : {"channel"}, seen : Slack, channel : Channels]
  BY <1>7
<1> QED
  BY <1>1, <1>2, <1>3, <1>4, <1>5, <1>6, <1>7 DEF Work

\* An idle thread holds nothing.
LEMMA MailIdle == AtRest \in Work /\ AtRest.at = "idle"
  BY DEF AtRest, Work

\* The rows stand while a request begins, so a thread goes on holding what it held,
\* and the new one holds what it has just verified.
LEMMA BeginKeeps ==
    ASSUME MailInv, NEW t \in Threads, NEW work \in Work, Begin(t, work),
           checked \subseteq checked', checked' \subseteq 1..MaxActs,
           chosen \subseteq chosen', chosen' \subseteq 1..MaxActs,
           Holds(thread[t])'
    PROVE  MailInv'
<1>1. /\ acts \in Nat /\ acts' = acts + 1 /\ acts' \in 0..MaxActs
      /\ thread' = [thread EXCEPT ![t] = work] /\ thread' \in [Threads -> Work]
      /\ UNCHANGED <<cred, slack, flag, run, touched>>
  BY BoundAssumption DEF MailInv, MailTypeOK, Begin
<1>2. MailTypeOK'
  BY <1>1 DEF MailInv, MailTypeOK
<1>3. EnabledByItsCheck'
  BY <1>1 DEF MailInv, EnabledByItsCheck, Verified
<1>4. ASSUME NEW o \in Threads PROVE Holds(thread[o])'
  <2>1. CASE o = t
    BY <2>1
  <2>2. CASE o # t
    <3>1. thread'[o] = thread[o] /\ Holds(thread[o])
      BY <1>1, <2>2 DEF MailInv, MailTypeOK
    <3>2. thread[o].at \in {"connect", "install"} => acts' > 0
      BY <1>1
    <3>3. /\ thread[o].at = "put" /\ thread[o].enabled =>
                thread[o].seen.id \in checked' /\ Verified(thread[o].seen, thread[o].folders)
          /\ thread[o].at = "channel" => thread[o].seen.id \in chosen'
      BY <3>1 DEF Holds
    <3> QED
      BY <3>1, <3>2, <3>3 DEF Holds, Verified
  <2> QED
    BY <2>1, <2>2
<1> QED
  BY <1>2, <1>3, <1>4 DEF MailInv

\* A request that ends leaves what the other threads hold.
LEMMA EndKeeps ==
    ASSUME MailInv, NEW t \in Threads, Finish(t), UNCHANGED <<checked, chosen>>,
           cred' \in Cred \cup {Nothing}, slack' \in Slack \cup {Nothing},
           touched' \subseteq 1..MaxActs, EnabledByItsCheck'
    PROVE  MailInv'
<1>1. thread' = [thread EXCEPT ![t] = AtRest] /\ UNCHANGED <<flag, run, acts>>
  BY DEF Finish
<1>2. MailTypeOK'
  BY <1>1, MailIdle DEF MailInv, MailTypeOK
<1>3. thread'[t] = AtRest /\ \A o \in Threads \ {t} : thread'[o] = thread[o]
  BY <1>1 DEF MailInv, MailTypeOK
<1>4. \A o \in Threads : Holds(thread[o])'
  BY <1>1, <1>3, MailIdle DEF MailInv, Holds, Verified
<1> QED
  BY <1>2, <1>4 DEF MailInv

\* A save enables the connection it verified; over the row it loaded it writes the very
\* layout it verified, and over another one it is noted.
LEMMA PutKeeps ==
    ASSUME MailInv, NEW t \in Threads, PutEnd(t)
    PROVE  MailInv'
<1> DEFINE w == thread[t]
<1>1. /\ w.at = "put" /\ Finish(t) /\ UNCHANGED <<slack, checked, chosen>> /\ Holds(w)
      /\ w.seen \in Cred /\ w.folders \in Folders /\ w.enabled \in BOOLEAN
  BY MailAtWork DEF PutEnd, MailInv
<1>2. CASE cred = Nothing \/ cred.id # w.seen.id
  <2>1. UNCHANGED <<cred, touched>>
    BY <1>2 DEF PutEnd
  <2>2. EnabledByItsCheck'
    BY <1>1, <2>1 DEF MailInv, EnabledByItsCheck, Verified
  <2> QED
    BY <1>1, <2>1, <2>2, EndKeeps DEF MailInv, MailTypeOK
<1>3. CASE cred # Nothing /\ cred.id = w.seen.id
  <2>1. cred \in Cred
    BY <1>3 DEF MailInv, MailTypeOK
  <2> DEFINE folders == [c \in Columns |->
                           Column(cred.folders[c], w.seen.folders[c], w.folders[c])]
             enabled == Column(cred.enabled, w.seen.enabled, w.enabled)
  <2>2. /\ cred' = [cred EXCEPT !.folders = folders, !.enabled = enabled]
        /\ touched' = IF cred # w.seen THEN touched \cup {cred.id} ELSE touched
    BY <1>3 DEF PutEnd, Saved, Touch
  <2>3. folders \in Folders /\ enabled \in BOOLEAN /\ (enabled => w.enabled \/ cred.enabled)
    BY <1>1, <2>1 DEF Folders, Cred, Column
  <2>4. cred = w.seen => folders = w.folders /\ enabled = w.enabled
    <3>1. cred = w.seen =>
            \A c \in Columns : Column(cred.folders[c], w.seen.folders[c], w.folders[c])
                                 = w.folders[c]
      BY DEF Column
    <3>2. cred = w.seen => folders = w.folders
      BY <1>1, <3>1 DEF Folders
    <3> QED
      BY <3>2 DEF Column
  <2> HIDE DEF folders, enabled
  <2>5. /\ cred' \in Cred /\ cred'.id = cred.id /\ cred'.provider = cred.provider
        /\ cred'.box = cred.box /\ cred'.folders = folders /\ cred'.enabled = enabled
    BY <2>1, <2>2, <2>3 DEF Cred
  <2>6. touched' \subseteq 1..MaxActs
    BY <2>1, <2>2 DEF MailInv, MailTypeOK, Cred
  <2>7. enabled => cred.id \in checked
    BY <1>1, <1>3, <2>3 DEF MailInv, EnabledByItsCheck, Holds
  <2>8. enabled /\ cred.id \notin touched' => Verified(cred, folders)
    <3>1. cred.id \notin touched' => cred = w.seen
      BY <2>2
    <3> QED
      BY <1>1, <2>4, <3>1 DEF Holds
  <2>9. EnabledByItsCheck'
    BY <1>1, <2>5, <2>7, <2>8 DEF MailInv, EnabledByItsCheck, Verified
  <2> QED
    BY <1>1, <2>5, <2>6, <2>9, EndKeeps DEF MailInv, MailTypeOK
<1> QED
  BY <1>2, <1>3

\* A new row is disabled; what changes of one that is there is noted.
LEMMA ConnectKeeps ==
    ASSUME MailInv, NEW t \in Threads, ConnectEnd(t)
    PROVE  MailInv'
<1> DEFINE w == thread[t]
<1>1. /\ w.at = "connect" /\ Finish(t) /\ UNCHANGED <<slack, checked, chosen>> /\ Holds(w)
      /\ w.seen \in Cred \cup {Nothing} /\ w.box \in Boxes
      /\ w.folders \in Folders \cup {Nothing}
  BY MailAtWork DEF ConnectEnd, MailInv
<1>2. acts \in 1..MaxActs /\ ProviderOf[w.box] \in Providers
  BY <1>1, BoxAssumption DEF MailInv, MailTypeOK, Holds
<1>3. CASE w.seen = Nothing /\ cred = Nothing
  <2> DEFINE folders == IF w.folders = Nothing THEN Nowhere ELSE w.folders
  <2>1. /\ cred' = [id |-> acts, provider |-> ProviderOf[w.box], box |-> w.box,
                    enabled |-> FALSE, folders |-> folders]
        /\ touched' = touched
    BY <1>3 DEF ConnectEnd
  <2>2. folders \in Folders
    BY <1>1 DEF Nowhere, Folders
  <2> HIDE DEF folders
  <2>3. cred' \in Cred /\ ~cred'.enabled
    BY <1>1, <1>2, <2>1, <2>2 DEF Cred
  <2>4. EnabledByItsCheck'
    BY <1>1, <2>3 DEF MailInv, EnabledByItsCheck
  <2> QED
    BY <1>1, <2>1, <2>3, <2>4, EndKeeps DEF MailInv, MailTypeOK
<1>4. CASE w.seen # Nothing /\ cred # Nothing /\ cred.id = w.seen.id
  <2> DEFINE provider == Column(cred.provider, w.seen.provider, ProviderOf[w.box])
             folders == IF w.folders = Nothing THEN cred.folders
                        ELSE [c \in Columns |->
                                Column(cred.folders[c], w.seen.folders[c], w.folders[c])]
  <2>1. cred \in Cred /\ w.seen \in Cred
    BY <1>1, <1>4 DEF MailInv, MailTypeOK
  <2>2. /\ cred' = [cred EXCEPT !.provider = provider, !.box = w.box, !.folders = folders]
        /\ touched' = IF cred' # cred THEN touched \cup {cred.id} ELSE touched
    BY <1>4 DEF ConnectEnd, Touch
  <2>3. provider \in Providers /\ folders \in Folders
    BY <1>1, <1>2, <2>1 DEF Column, Cred, Folders
  <2> HIDE DEF provider, folders
  <2>4. cred' \in Cred /\ cred'.id = cred.id /\ cred'.enabled = cred.enabled
    BY <1>1, <2>1, <2>2, <2>3 DEF Cred
  <2>5. touched' \subseteq 1..MaxActs
    BY <2>1, <2>2 DEF MailInv, MailTypeOK, Cred
  <2>6. CASE cred' = cred
    <3>1. EnabledByItsCheck'
      BY <1>1, <2>2, <2>6 DEF MailInv, EnabledByItsCheck, Verified
    <3> QED
      BY <1>1, <2>4, <2>5, <3>1, EndKeeps DEF MailInv, MailTypeOK
  <2>7. CASE cred' # cred
    <3>1. cred'.id \in touched' /\ (cred'.enabled => cred'.id \in checked)
      BY <1>4, <2>2, <2>4, <2>7 DEF MailInv, EnabledByItsCheck
    <3>2. EnabledByItsCheck'
      BY <1>1, <3>1 DEF MailInv, EnabledByItsCheck
    <3> QED
      BY <1>1, <2>4, <2>5, <3>2, EndKeeps DEF MailInv, MailTypeOK
  <2> QED
    BY <2>6, <2>7
<1>5. CASE /\ ~(w.seen = Nothing /\ cred = Nothing)
           /\ ~(w.seen # Nothing /\ cred # Nothing /\ cred.id = w.seen.id)
  <2>1. cred' = cred
    BY <1>5 DEF ConnectEnd
  <2>2. touched' = touched
    BY <2>1 DEF ConnectEnd, Touch
  <2>3. EnabledByItsCheck'
    BY <1>1, <2>1, <2>2 DEF MailInv, EnabledByItsCheck, Verified
  <2> QED
    BY <1>1, <2>1, <2>2, <2>3, EndKeeps DEF MailInv, MailTypeOK
<1> QED
  BY <1>3, <1>4, <1>5

\* Slack, the same: a new row has no channel, and one that was there keeps its own.
LEMMA InstallKeeps ==
    ASSUME MailInv, NEW t \in Threads, InstallEnd(t)
    PROVE  MailInv'
<1> DEFINE w == thread[t]
<1>1. /\ w.at = "install" /\ Finish(t) /\ UNCHANGED <<cred, past>> /\ Holds(w)
      /\ w.seen \in Slack \cup {Nothing} /\ w.team \in Workspaces
  BY MailAtWork DEF InstallEnd, MailInv
<1>2. acts \in 1..MaxActs
  BY <1>1 DEF MailInv, MailTypeOK, Holds
<1>3. /\ slack' \in Slack \cup {Nothing}
      /\ slack' # Nothing /\ slack'.channel # Nothing =>
            slack # Nothing /\ slack'.id = slack.id /\ slack'.channel = slack.channel
  <2>1. CASE w.seen = Nothing /\ slack = Nothing
    <3>1. slack' = [id |-> acts, team |-> w.team, channel |-> Nothing]
      BY <2>1 DEF InstallEnd
    <3> QED
      BY <1>1, <1>2, <3>1 DEF Slack
  <2>2. CASE w.seen # Nothing /\ slack # Nothing /\ slack.id = w.seen.id
    <3>1. slack \in Slack /\ slack' = [slack EXCEPT !.team = w.team]
      BY <2>2 DEF InstallEnd, MailInv, MailTypeOK
    <3> QED
      BY <1>1, <2>2, <3>1 DEF Slack
  <2>3. CASE /\ ~(w.seen = Nothing /\ slack = Nothing)
             /\ ~(w.seen # Nothing /\ slack # Nothing /\ slack.id = w.seen.id)
    BY <2>3 DEF InstallEnd, MailInv, MailTypeOK
  <2> QED
    BY <2>1, <2>2, <2>3
<1>4. EnabledByItsCheck'
  BY <1>1, <1>3 DEF MailInv, EnabledByItsCheck, Verified, past
<1> QED
  BY <1>1, <1>3, <1>4, EndKeeps DEF MailInv, MailTypeOK, past

\* A channel is written to the connection it was chosen for.
LEMMA ChannelKeeps ==
    ASSUME MailInv, NEW t \in Threads, ChannelEnd(t)
    PROVE  MailInv'
<1> DEFINE w == thread[t]
<1>1. /\ w.at = "channel" /\ Finish(t) /\ UNCHANGED <<cred, past>> /\ Holds(w)
      /\ w.seen \in Slack /\ w.channel \in Channels
  BY MailAtWork DEF ChannelEnd, MailInv
<1>2. /\ slack' \in Slack \cup {Nothing}
      /\ slack' # Nothing => slack # Nothing /\ slack'.id = slack.id
      /\ slack' # slack => slack # Nothing /\ slack.id = w.seen.id
  <2>1. CASE slack = Nothing \/ slack.id # w.seen.id
    BY <2>1 DEF ChannelEnd, MailInv, MailTypeOK
  <2>2. CASE slack # Nothing /\ slack.id = w.seen.id
    <3> DEFINE channel == Column(slack.channel, w.seen.channel, w.channel)
    <3>1. slack \in Slack /\ slack' = [slack EXCEPT !.channel = channel]
      BY <2>2 DEF ChannelEnd, MailInv, MailTypeOK
    <3>2. channel \in Channels \cup {Nothing}
      BY <1>1, <3>1 DEF Column, Slack
    <3> HIDE DEF channel
    <3> QED
      BY <2>2, <3>1, <3>2 DEF Slack
  <2> QED
    BY <2>1, <2>2
<1>3. EnabledByItsCheck'
  BY <1>1, <1>2 DEF MailInv, EnabledByItsCheck, Verified, past, Holds
<1> QED
  BY <1>1, <1>2, <1>3, EndKeeps DEF MailInv, MailTypeOK, past

\* What is removed is neither enabled nor told anything.
LEMMA RemovalKeeps ==
    ASSUME MailInv, NEW t \in Threads, DisconnectEnd(t) \/ UninstallEnd(t)
    PROVE  MailInv'
<1>1. /\ Finish(t) /\ cred' \in {cred, Nothing} /\ slack' \in {slack, Nothing}
      /\ UNCHANGED past
  BY DEF DisconnectEnd, UninstallEnd
<1>2. EnabledByItsCheck'
  BY <1>1 DEF MailInv, EnabledByItsCheck, Verified, past
<1> QED
  BY <1>1, <1>2, EndKeeps DEF MailInv, MailTypeOK, past

-----------------------------------------------------------------------------
\* A request that begins has verified what it will enable.
LEMMA RequestKeeps ==
    ASSUME MailInv, NEW t \in Threads,
           \/ \E f \in Folders, e \in BOOLEAN : PutBegin(t, f, e)
           \/ \E b \in Boxes, f \in Folders \cup {Nothing} : ConnectBegin(t, b, f)
           \/ DisconnectBegin(t) \/ UninstallBegin(t)
           \/ \E w \in Workspaces : InstallBegin(t, w)
           \/ \E c \in Channels : ChannelBegin(t, c)
    PROVE  MailInv'
<1>1. /\ cred # Nothing => cred \in Cred /\ cred.id \in 1..MaxActs
      /\ slack # Nothing => slack \in Slack /\ slack.id \in 1..MaxActs
      /\ cred \in Cred \cup {Nothing} /\ slack \in Slack \cup {Nothing}
      /\ acts \in Nat /\ checked \subseteq 1..MaxActs /\ chosen \subseteq 1..MaxActs
  BY DEF MailInv, MailTypeOK, Cred, Slack
<1>2. ASSUME NEW f \in Folders, NEW e \in BOOLEAN, PutBegin(t, f, e)
      PROVE  MailInv'
  <2> DEFINE w == [at |-> "put", seen |-> cred, folders |-> f, enabled |-> e]
  <2>1. /\ Begin(t, w) /\ thread'[t] = w /\ w \in Work /\ cred # Nothing /\ UNCHANGED chosen
        /\ checked' = IF e THEN checked \cup {cred.id} ELSE checked
        /\ e => Verified(cred, f)
    BY <1>1, <1>2 DEF PutBegin, Begin, Work, MailInv, MailTypeOK
  <2>2. Holds(thread[t])'
    BY <2>1 DEF Holds, Verified, Begin
  <2> HIDE DEF w
  <2> QED
    BY <1>1, <2>1, <2>2, BeginKeeps
<1>3. ASSUME NEW b \in Boxes, NEW f \in Folders \cup {Nothing}, ConnectBegin(t, b, f)
      PROVE  MailInv'
  <2> DEFINE w == [at |-> "connect", seen |-> cred, box |-> b, folders |-> f]
  <2>1. Begin(t, w) /\ thread'[t] = w /\ w \in Work /\ UNCHANGED <<checked, chosen>>
    BY <1>1, <1>3 DEF ConnectBegin, Begin, Work, MailInv, MailTypeOK
  <2>2. Holds(thread[t])'
    BY <1>1, <2>1 DEF Holds, Begin
  <2> HIDE DEF w
  <2> QED
    BY <1>1, <2>1, <2>2, BeginKeeps
<1>4. CASE DisconnectBegin(t)
  <2> DEFINE w == [at |-> "disconnect", id |-> cred.id]
  <2>1. Begin(t, w) /\ thread'[t] = w /\ w \in Work /\ UNCHANGED <<checked, chosen>>
    BY <1>1, <1>4 DEF DisconnectBegin, Begin, Work, MailInv, MailTypeOK
  <2>2. Holds(thread[t])'
    BY <2>1 DEF Holds
  <2> HIDE DEF w
  <2> QED
    BY <1>1, <2>1, <2>2, BeginKeeps
<1>5. CASE UninstallBegin(t)
  <2> DEFINE w == [at |-> "uninstall", id |-> slack.id]
  <2>1. Begin(t, w) /\ thread'[t] = w /\ w \in Work /\ UNCHANGED <<checked, chosen>>
    BY <1>1, <1>5 DEF UninstallBegin, Begin, Work, MailInv, MailTypeOK
  <2>2. Holds(thread[t])'
    BY <2>1 DEF Holds
  <2> HIDE DEF w
  <2> QED
    BY <1>1, <2>1, <2>2, BeginKeeps
<1>6. ASSUME NEW team \in Workspaces, InstallBegin(t, team)
      PROVE  MailInv'
  <2> DEFINE w == [at |-> "install", seen |-> slack, team |-> team]
  <2>1. Begin(t, w) /\ thread'[t] = w /\ w \in Work /\ UNCHANGED <<checked, chosen>>
    BY <1>1, <1>6 DEF InstallBegin, Begin, Work, MailInv, MailTypeOK
  <2>2. Holds(thread[t])'
    BY <1>1, <2>1 DEF Holds, Begin
  <2> HIDE DEF w
  <2> QED
    BY <1>1, <2>1, <2>2, BeginKeeps
<1>7. ASSUME NEW c \in Channels, ChannelBegin(t, c)
      PROVE  MailInv'
  <2> DEFINE w == [at |-> "channel", seen |-> slack, channel |-> c]
  <2>1. /\ Begin(t, w) /\ thread'[t] = w /\ w \in Work /\ slack # Nothing /\ UNCHANGED checked
        /\ chosen' = chosen \cup {slack.id}
    BY <1>1, <1>7 DEF ChannelBegin, Begin, Work, MailInv, MailTypeOK
  <2>2. Holds(thread[t])'
    BY <2>1 DEF Holds
  <2> HIDE DEF w
  <2> QED
    BY <1>1, <2>1, <2>2, BeginKeeps
<1> QED
  BY <1>2, <1>3, <1>4, <1>5, <1>6, <1>7

\* The agent takes the rows as they are.
LEMMA AgentKeeps ==
    ASSUME MailInv, SetFlag \/ StartAgent \/ StopAgent \/ UNCHANGED mailVars
    PROVE  MailInv'
<1>1. UNCHANGED <<cred, slack, thread, acts, checked, chosen, touched>> /\ flag' \in BOOLEAN
  BY DEF MailInv, MailTypeOK, SetFlag, StartAgent, StopAgent, mailVars, past
<1>2. run' \in Config \cup {Nothing}
  <2>1. CASE StartAgent
    <3>1. cred \in Cred /\ (slack # Nothing => slack \in Slack) /\ run' = ConfigOf(cred, slack)
      BY <2>1 DEF StartAgent, MailInv, MailTypeOK
    <3> QED
      BY <3>1 DEF ConfigOf, Config, Cred, Slack
  <2>2. CASE StopAgent \/ SetFlag \/ UNCHANGED mailVars
    BY <2>2 DEF StopAgent, SetFlag, mailVars, MailInv, MailTypeOK
  <2> QED
    BY <2>1, <2>2
<1> QED
  BY <1>1, <1>2 DEF MailInv, MailTypeOK, EnabledByItsCheck, Verified, Holds

\* Nothing is connected, and nothing is under way.
LEMMA MailStarts ==
    MailInit => MailInv
<1> SUFFICES ASSUME MailInit PROVE MailInv
  OBVIOUS
<1>1. MailTypeOK
  <2>1. thread \in [Threads -> Work] /\ acts \in 0..MaxActs
    BY MailIdle, BoundAssumption DEF MailInit
  <2> QED
    BY <2>1 DEF MailInit, MailTypeOK
<1>2. \A t \in Threads : Holds(thread[t])
  BY MailIdle DEF MailInit, Holds
<1> QED
  BY <1>1, <1>2 DEF MailInit, MailInv, EnabledByItsCheck

\* Every step of the user and of the agent keeps it.
LEMMA MailStep == MailInv /\ [MailNext]_mailVars => MailInv'
<1> SUFFICES ASSUME MailInv, [MailNext]_mailVars PROVE MailInv'
  OBVIOUS
<1>1. ASSUME NEW t \in Threads, UserStep(t) PROVE MailInv'
  BY <1>1, RequestKeeps, PutKeeps, ConnectKeeps, InstallKeeps, ChannelKeeps, RemovalKeeps
     DEF UserStep
<1> QED
  BY <1>1, AgentKeeps DEF MailNext

-----------------------------------------------------------------------------
\* The rows, what each request holds of them and what the agent works with keep their
\* shapes, for any number of requests and however they overlap.
THEOREM MailTypes == MailSpec => []MailTypeOK
<1>1. MailInv => MailTypeOK
  BY DEF MailInv
<1> QED
  BY MailStarts, MailStep, <1>1, PTL DEF MailSpec

\* For any mailboxes, workspaces, threads and number of requests, in every interleaving:
\* a connection is enabled by a check of its own, has what was found there until
\* something is written over it, and Slack is told of a channel chosen for it
\* (agent.py:445-475, 820-845, 912-920).
THEOREM ChecksAreOfTheConnection == MailSpec => []EnabledByItsCheck
<1>1. MailInv => EnabledByItsCheck
  BY DEF MailInv
<1> QED
  BY MailStarts, MailStep, <1>1, PTL DEF MailSpec
=============================================================================
