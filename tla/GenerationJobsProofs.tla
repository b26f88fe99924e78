------------------------ MODULE GenerationJobsProofs ------------------------
(***************************************************************************)
(* Proofs about GenerationJobs, for every set of users, kinds, reviews,    *)
(* requests and readers, and every bound.                                  *)
(*                                                                         *)
(*  - SafeInv needs no assumption on timing: it gives OneActive,           *)
(*    AttachedToOwnReview and DoneIsTrue.                                  *)
(*  - PromptInv holds when a live run never outlasts STALE_AFTER           *)
(*    (~SlowRuns): it gives OneExecution, TimelineAgrees, FinalVerdict and *)
(*    the refinement of GenerationLedger.                                  *)
(***************************************************************************)
EXTENDS GenerationJobs, TLAPS

-----------------------------------------------------------------------------
(* The inductive invariants                                                 *)

\* Until its insert a request has no row and no task; a row about to be
\* dispatched has no task yet.
RowsComeFromInserts ==
    \A r \in Requests :
        /\ pc[r] \in {"idle"} \cup (AtWork \ {"dispatch"}) =>
                status[r] = "none" /\ task[r] = "none"
        /\ pc[r] = "dispatch" => status[r] # "none" /\ task[r] = "none"
        /\ task[r] # "none" \/ r \in timeline => status[r] # "none"
        /\ pc[r] = "idle" <=> ask[r] = NoAsk

\* The run a request holds has a row (or had one), of the request's user and kind.
SeenIsARun ==
    \A r \in Requests :
        /\ pc[r] = "idle" => seen[r] = NoRun
        /\ pc[r] \in {"expire", "recheck"} => seen[r] # NoRun
        /\ seen[r] # NoRun => status[seen[r]] # "none" /\ SameSlot(seen[r], r)

ReaderHoldsARun ==
    \A p \in Readers : reader[p] # NoRun => status[reader[p]] # "none"

SavedIsStored == \A r \in Requests : task[r] = "saved" => r \in stored

SafeInv ==
    /\ TypeOK
    /\ RowsComeFromInserts
    /\ SeenIsARun
    /\ ReaderHoldsARun
    /\ SavedIsStored
    /\ OneActive
    /\ AttachedToOwnReview
    /\ DoneIsTrue

\* The row of a live run follows its task.
RowFollowsTask ==
    \A r \in Requests :
        /\ pc[r] = "dispatch" \/ task[r] \in {"scheduled", "loaded"} =>
                status[r] \in {"queued", "gone"}
        /\ task[r] \in {"working", "saved", "raised"} => status[r] \in {"running", "gone"}

\* Nobody is executing a row that looks stale, or that someone holds as stale.
StaleIsDead ==
    /\ \A r \in Requests : old[r] /\ status[r] \in Active => ~Live(r)
    /\ \A r \in Requests :
        pc[r] = "expire" => ~Live(seen[r]) /\ status[seen[r]] # "done"
    /\ \A p \in Readers :
        reader[p] # NoRun => ~Live(reader[p]) /\ status[reader[p]] # "done"

PromptInv ==
    /\ SafeInv
    /\ RowFollowsTask
    /\ StaleIsDead
    /\ TimelineAgrees

-----------------------------------------------------------------------------
(* Safety without timing assumptions                                        *)

\* Every value has its type, and the invariants that need no timing, at the start.
LEMMA SafeInvInit == Init => SafeInv
  BY NoneAssumption, OwnerAssumption, BoundsAssumption
  DEF Init, SafeInv, TypeOK, RowsComeFromInserts, SeenIsARun, ReaderHoldsARun, SavedIsStored,
      OneActive, AttachedToOwnReview, DoneIsTrue, Status, Present, Active, Finished, AtWork,
      Answers, LiveTask, SameSlot

\* Every action preserves the types.
LEMMA TypeStep == TypeOK /\ [Next]_vars => TypeOK'
<1> SUFFICES ASSUME TypeOK, [Next]_vars PROVE TypeOK'
  OBVIOUS
<1> USE NoneAssumption, BoundsAssumption
    DEF TypeOK, Status, Present, Active, Finished, AtWork, Answers, LiveTask,
        requestVars, rowVars, effectVars
<1>1. ASSUME NEW r \in Requests, Arrive(r) PROVE TypeOK'
  BY <1>1 DEF Arrive, Goto, Ask
<1>2. ASSUME NEW r \in Requests, AskAttaching(r) PROVE TypeOK'
  BY <1>2 DEF AskAttaching, Goto
<1>3. ASSUME NEW r \in Requests, CheckLimit(r) PROVE TypeOK'
  BY <1>3 DEF CheckLimit, Goto
<1>4. ASSUME NEW r \in Requests, FindActive(r) PROVE TypeOK'
  BY <1>4 DEF FindActive, AttachOrRefuse, Goto, ActiveFor
<1>5. ASSUME NEW r \in Requests, ExpireSeen(r) PROVE TypeOK'
  BY <1>5 DEF ExpireSeen, Goto
<1>6. ASSUME NEW r \in Requests, Recheck(r) PROVE TypeOK'
  BY <1>6 DEF Recheck, ReloadAndAttach, AttachOrRefuse, Goto
<1>7. ASSUME NEW r \in Requests, Insert(r) PROVE TypeOK'
  BY <1>7 DEF Insert, Goto
<1>8. ASSUME NEW r \in Requests, LoseRace(r) PROVE TypeOK'
  BY <1>8 DEF LoseRace, ReloadAndAttach, AttachOrRefuse, Goto, ActiveFor
<1>9. ASSUME NEW r \in Requests, Dispatch(r) PROVE TypeOK'
  BY <1>9 DEF Dispatch, Goto
<1>10. ASSUME NEW r \in Requests, TaskLoad(r) PROVE TypeOK'
  BY <1>10 DEF TaskLoad, TaskAt
<1>11. ASSUME NEW r \in Requests, TaskClaim(r) PROVE TypeOK'
  BY <1>11 DEF TaskClaim, TaskAt
<1>12. ASSUME NEW r \in Requests, TaskStore(r) PROVE TypeOK'
  BY <1>12 DEF TaskStore, TaskAt
<1>13. ASSUME NEW r \in Requests, TaskRaise(r) PROVE TypeOK'
  BY <1>13 DEF TaskRaise, TaskAt
<1>14. ASSUME NEW r \in Requests, TaskFail(r) PROVE TypeOK'
  BY <1>14 DEF TaskFail, TaskAt
<1>15. ASSUME NEW r \in Requests, TaskDone(r) PROVE TypeOK'
  BY <1>15 DEF TaskDone, TaskAt
<1>16. ASSUME NEW r \in Requests, Purge(r) PROVE TypeOK'
  BY <1>16 DEF Purge
<1>17. ASSUME NEW r \in Requests, Age(r) PROVE TypeOK'
  BY <1>17 DEF Age
<1>18. ASSUME NEW p \in Readers, MarkStale(p) PROVE TypeOK'
  BY <1>18 DEF MarkStale
<1>19. ASSUME NEW p \in Readers, NEW r \in Requests, Look(p, r) PROVE TypeOK'
  BY <1>19 DEF Look
<1>20. ASSUME NEW v \in Reviews, DeleteReview(v) PROVE TypeOK'
  BY <1>20 DEF DeleteReview
<1>21. CASE Crash
  BY <1>21 DEF Crash
<1>22. CASE UNCHANGED vars
  BY <1>22 DEF vars
<1> QED
  BY <1>1, <1>2, <1>3, <1>4, <1>5, <1>6, <1>7, <1>8, <1>9, <1>10, <1>11, <1>12, <1>13,
        <1>14, <1>15, <1>16, <1>17, <1>18, <1>19, <1>20, <1>21, <1>22 DEF Next, Request,
        Task

\* Every action preserves the invariants that need no timing.
LEMMA SafeInvStep == SafeInv /\ [Next]_vars => SafeInv'
<1> SUFFICES ASSUME SafeInv, [Next]_vars PROVE SafeInv'
  OBVIOUS
<1>0. TypeOK'
  BY TypeStep DEF SafeInv
<1> USE <1>0, NoneAssumption
    DEF SafeInv, TypeOK, RowsComeFromInserts, SeenIsARun, ReaderHoldsARun, SavedIsStored,
        OneActive, AttachedToOwnReview, DoneIsTrue, Status, Present, Active, Finished,
        AtWork, Answers, LiveTask, SameSlot, requestVars, rowVars, effectVars
<1>1. ASSUME NEW r \in Requests, Arrive(r) PROVE SafeInv'
  <2>1. PICK v \in Reviews, k \in Kinds :
            ask' = [ask EXCEPT ![r] = [review |-> v, kind |-> k]]
    BY <1>1 DEF Arrive
  <2>2. ask'[r] # NoAsk /\ \A q \in Requests \ {r} : ask'[q] = ask[q]
    <3>1. [review |-> v, kind |-> k] \in Ask
      BY DEF Ask
    <3> QED
      BY <2>1, <3>1
  <2>3. status[r] = "none" /\ task[r] = "none" /\ seen[r] = NoRun
    BY <1>1 DEF Arrive
  <2>4. \A x \in Requests : seen[x] # r
    BY <2>3
  <2>5. RowsComeFromInserts'
    BY <1>1, <2>2, <2>3 DEF Arrive, Goto
  <2>6. SeenIsARun' /\ OneActive' /\ AttachedToOwnReview'
    BY <1>1, <2>2, <2>3, <2>4 DEF Arrive, Goto
  <2>7. ReaderHoldsARun' /\ SavedIsStored' /\ DoneIsTrue'
    BY <1>1 DEF Arrive, Goto
  <2> QED
    BY <2>5, <2>6, <2>7
<1>2. ASSUME NEW r \in Requests, AskAttaching(r) PROVE SafeInv'
  BY <1>2 DEF AskAttaching, Goto
<1>3. ASSUME NEW r \in Requests, CheckLimit(r) PROVE SafeInv'
  BY <1>3 DEF CheckLimit, Goto
<1>4. ASSUME NEW r \in Requests, FindActive(r) PROVE SafeInv'
  BY <1>4 DEF FindActive, AttachOrRefuse, Goto, ActiveFor
<1>5. ASSUME NEW r \in Requests, ExpireSeen(r) PROVE SafeInv'
  BY <1>5 DEF ExpireSeen, Goto
<1>6. ASSUME NEW r \in Requests, Recheck(r) PROVE SafeInv'
  BY <1>6 DEF Recheck, ReloadAndAttach, AttachOrRefuse, Goto
<1>7. ASSUME NEW r \in Requests, Insert(r) PROVE SafeInv'
  BY <1>7 DEF Insert, Goto, ActiveFor
<1>8. ASSUME NEW r \in Requests, LoseRace(r) PROVE SafeInv'
  BY <1>8 DEF LoseRace, ReloadAndAttach, AttachOrRefuse, Goto, ActiveFor
<1>9. ASSUME NEW r \in Requests, Dispatch(r) PROVE SafeInv'
  BY <1>9 DEF Dispatch, Goto
<1>10. ASSUME NEW r \in Requests, TaskLoad(r) PROVE SafeInv'
  BY <1>10 DEF TaskLoad, TaskAt
<1>11. ASSUME NEW r \in Requests, TaskClaim(r) PROVE SafeInv'
  BY <1>11 DEF TaskClaim, TaskAt, ActiveFor
<1>12. ASSUME NEW r \in Requests, TaskStore(r) PROVE SafeInv'
  BY <1>12 DEF TaskStore, TaskAt
<1>13. ASSUME NEW r \in Requests, TaskRaise(r) PROVE SafeInv'
  BY <1>13 DEF TaskRaise, TaskAt
<1>14. ASSUME NEW r \in Requests, TaskFail(r) PROVE SafeInv'
  BY <1>14 DEF TaskFail, TaskAt
<1>15. ASSUME NEW r \in Requests, TaskDone(r) PROVE SafeInv'
  BY <1>15 DEF TaskDone, TaskAt
<1>16. ASSUME NEW r \in Requests, Purge(r) PROVE SafeInv'
  BY <1>16 DEF Purge
<1>17. ASSUME NEW r \in Requests, Age(r) PROVE SafeInv'
  BY <1>17 DEF Age
<1>18. ASSUME NEW p \in Readers, MarkStale(p) PROVE SafeInv'
  BY <1>18 DEF MarkStale
<1>19. ASSUME NEW p \in Readers, NEW r \in Requests, Look(p, r) PROVE SafeInv'
  BY <1>19 DEF Look
<1>20. ASSUME NEW v \in Reviews, DeleteReview(v) PROVE SafeInv'
  BY <1>20 DEF DeleteReview
<1>21. CASE Crash
  BY <1>21 DEF Crash
<1>22. CASE UNCHANGED vars
  BY <1>22 DEF vars
<1> QED
  BY <1>1, <1>2, <1>3, <1>4, <1>5, <1>6, <1>7, <1>8, <1>9, <1>10, <1>11, <1>12, <1>13,
        <1>14, <1>15, <1>16, <1>17, <1>18, <1>19, <1>20, <1>21, <1>22 DEF Next, Request,
        Task

\* Type correctness, for every instance.
THEOREM TypeCorrect == Spec => []TypeOK
<1>1. Init => TypeOK
  BY SafeInvInit DEF SafeInv
<1> QED
  BY <1>1, TypeStep, PTL DEF Spec

\* The invariants that need no timing.
THEOREM Safety == Spec => []SafeInv
  BY SafeInvInit, SafeInvStep, PTL DEF Spec

\* One active run per user and kind: neither the race at the insert, nor a task
\* that revives a row marked failed, nor a reader can break the unique index.
THEOREM OneActiveHolds == Spec => []OneActive
<1>1. SafeInv => OneActive
  BY DEF SafeInv
<1> QED
  BY <1>1, Safety, PTL

\* A client told "attached" polls a run of its own review and kind.
THEOREM AttachedHolds == Spec => []AttachedToOwnReview
<1>1. SafeInv => AttachedToOwnReview
  BY DEF SafeInv
<1> QED
  BY <1>1, Safety, PTL

\* "done" means the result is stored and the timeline entry written.
THEOREM DoneHolds == Spec => []DoneIsTrue
<1>1. SafeInv => DoneIsTrue
  BY DEF SafeInv
<1> QED
  BY <1>1, Safety, PTL

-----------------------------------------------------------------------------
(* When no live run outlasts STALE_AFTER                                    *)

LEMMA PromptInvInit == Init => PromptInv
<1> SUFFICES ASSUME Init PROVE PromptInv
  OBVIOUS
<1>1. SafeInv
  BY SafeInvInit
<1> QED
  BY <1>1 DEF Init, PromptInv, RowFollowsTask, StaleIsDead, TimelineAgrees, Live, LiveTask,
              Active, Present

\* The key step: a row that somebody may mark failed has nobody executing it, and
\* only an executing task can finish a row.
LEMMA PromptInvStep ==
  ASSUME ~SlowRuns PROVE PromptInv /\ [Next]_vars => PromptInv'
<1> SUFFICES ASSUME PromptInv, [Next]_vars PROVE PromptInv'
  OBVIOUS
<1>0. SafeInv /\ SafeInv'
  BY SafeInvStep DEF PromptInv
<1> USE <1>0, NoneAssumption
    DEF PromptInv, SafeInv, TypeOK, RowFollowsTask, StaleIsDead, TimelineAgrees,
        RowsComeFromInserts, SeenIsARun, ReaderHoldsARun, Status, Present, Active, Finished,
        AtWork, Answers, LiveTask, Live, requestVars, rowVars, effectVars
<1>1. ASSUME NEW r \in Requests, Arrive(r) PROVE PromptInv'
  BY <1>1 DEF Arrive, Goto
<1>2. ASSUME NEW r \in Requests, AskAttaching(r) PROVE PromptInv'
  BY <1>2 DEF AskAttaching, Goto
<1>3. ASSUME NEW r \in Requests, CheckLimit(r) PROVE PromptInv'
  BY <1>3 DEF CheckLimit, Goto
<1>4. ASSUME NEW r \in Requests, FindActive(r) PROVE PromptInv'
  BY <1>4 DEF FindActive, AttachOrRefuse, Goto, ActiveFor
<1>5. ASSUME NEW r \in Requests, ExpireSeen(r) PROVE PromptInv'
  BY <1>5 DEF ExpireSeen, Goto
<1>6. ASSUME NEW r \in Requests, Recheck(r) PROVE PromptInv'
  BY <1>6 DEF Recheck, ReloadAndAttach, AttachOrRefuse, Goto
<1>7. ASSUME NEW r \in Requests, Insert(r) PROVE PromptInv'
  <2>1. RowFollowsTask' /\ TimelineAgrees'
    BY <1>7 DEF Insert, Goto
  <2>2. StaleIsDead'
    BY <1>7 DEF Insert, Goto
  <2> QED
    BY <2>1, <2>2
<1>8. ASSUME NEW r \in Requests, LoseRace(r) PROVE PromptInv'
  BY <1>8 DEF LoseRace, ReloadAndAttach, AttachOrRefuse, Goto, ActiveFor
<1>9. ASSUME NEW r \in Requests, Dispatch(r) PROVE PromptInv'
  BY <1>9 DEF Dispatch, Goto
<1>10. ASSUME NEW r \in Requests, TaskLoad(r) PROVE PromptInv'
  BY <1>10 DEF TaskLoad, TaskAt
<1>11. ASSUME NEW r \in Requests, TaskClaim(r) PROVE PromptInv'
  BY <1>11 DEF TaskClaim, TaskAt, ActiveFor
<1>12. ASSUME NEW r \in Requests, TaskStore(r) PROVE PromptInv'
  BY <1>12 DEF TaskStore, TaskAt
<1>13. ASSUME NEW r \in Requests, TaskRaise(r) PROVE PromptInv'
  BY <1>13 DEF TaskRaise, TaskAt
<1>14. ASSUME NEW r \in Requests, TaskFail(r) PROVE PromptInv'
  BY <1>14 DEF TaskFail, TaskAt
<1>15. ASSUME NEW r \in Requests, TaskDone(r) PROVE PromptInv'
  BY <1>15 DEF TaskDone, TaskAt
<1>16. ASSUME NEW r \in Requests, Purge(r) PROVE PromptInv'
  BY <1>16 DEF Purge
<1>17. ASSUME NEW r \in Requests, Age(r) PROVE PromptInv'
  BY <1>17 DEF Age
<1>18. ASSUME NEW p \in Readers, MarkStale(p) PROVE PromptInv'
  BY <1>18 DEF MarkStale
<1>19. ASSUME NEW p \in Readers, NEW r \in Requests, Look(p, r) PROVE PromptInv'
  BY <1>19 DEF Look
<1>20. ASSUME NEW v \in Reviews, DeleteReview(v) PROVE PromptInv'
  <2>1. \A r \in Requests : status'[r] = status[r] \/ status'[r] = "gone"
    BY <1>20 DEF DeleteReview
  <2>2. UNCHANGED <<pc, seen, old, task, timeline, reader>>
    BY <1>20 DEF DeleteReview
  <2>3. RowFollowsTask' /\ TimelineAgrees'
    BY <2>1, <2>2
  <2>4. StaleIsDead'
    BY <2>1, <2>2
  <2> QED
    BY <2>3, <2>4
<1>21. CASE Crash
  BY <1>21 DEF Crash
<1>22. CASE UNCHANGED vars
  BY <1>22 DEF vars
<1> QED
  BY <1>1, <1>2, <1>3, <1>4, <1>5, <1>6, <1>7, <1>8, <1>9, <1>10, <1>11, <1>12, <1>13,
        <1>14, <1>15, <1>16, <1>17, <1>18, <1>19, <1>20, <1>21, <1>22 DEF Next, Request,
        Task

\* The invariants of the timing assumption.
THEOREM Promptness == ASSUME ~SlowRuns PROVE Spec => []PromptInv
  BY PromptInvInit, PromptInvStep, PTL DEF Spec

\* The user's key is never billed by two runs of a kind at once: a run that
\* executes still holds its slot.
THEOREM OneExecutionHolds == ASSUME ~SlowRuns PROVE Spec => []OneExecution
<1>1. PromptInv => OneExecution
  BY DEF PromptInv, SafeInv, RowFollowsTask, OneActive, OneExecution, Executing, Active,
         Present, Finished
<1> QED
  BY <1>1, Promptness, PTL

\* A timeline entry "generated" is never contradicted by the run's row.
THEOREM TimelineHolds == ASSUME ~SlowRuns PROVE Spec => []TimelineAgrees
<1>1. PromptInv => TimelineAgrees
  BY DEF PromptInv
<1> QED
  BY <1>1, Promptness, PTL

-----------------------------------------------------------------------------
(* The refinement                                                           *)

Slot(r) ==
    IF status[r] = "none" THEN NoRun ELSE <<Owner[ask[r].review], ask[r].kind>>

\* A step that moves no row, but for requests that have none yet, is a stutter.
LEMMA StutterStep ==
  ASSUME status' = status,
         \A r \in Requests : status[r] # "none" => ask'[r] = ask[r]
  PROVE  UNCHANGED Ledger!ledgerVars
<1>1. \A r \in Requests : Slot(r)' = Slot(r)
  BY DEF Slot
<1> QED
  BY <1>1 DEF Ledger!ledgerVars, Slot

\* What happens to one row that was inserted: Begin, Complete, Fail, Drop or nothing.
LEMMA RowStep ==
  ASSUME TypeOK, ask' = ask, NEW r \in Requests, NEW st \in Present \cup {"gone"},
         status' = [status EXCEPT ![r] = st],
         \/ st = status[r]
         \/ status[r] = "queued" /\ st = "running"
         \/ status[r] = "running" /\ st = "done"
         \/ status[r] \in Active /\ st = "failed"
         \/ status[r] \in Finished /\ st = "gone"
  PROVE  [Ledger!LedgerNext]_(Ledger!ledgerVars)
<1>1. status[r] # "none" => \A q \in Requests : Slot(q)' = Slot(q)
  BY DEF Slot, TypeOK, Present, Active, Finished
<1>2. CASE st = status[r]
  <2>1. status' = status
    BY <1>2 DEF TypeOK
  <2> QED
    BY <2>1, StutterStep
<1>3. CASE status[r] = "queued" /\ st = "running"
  <2>1. Ledger!Begin(r)
    BY <1>1, <1>3 DEF Ledger!Begin, Slot
  <2> QED
    BY <2>1 DEF Ledger!LedgerNext
<1>4. CASE status[r] = "running" /\ st = "done"
  <2>1. Ledger!Complete(r)
    BY <1>1, <1>4 DEF Ledger!Complete, Slot
  <2> QED
    BY <2>1 DEF Ledger!LedgerNext
<1>5. CASE status[r] \in Active /\ st = "failed"
  <2>1. Ledger!Fail(r)
    BY <1>1, <1>5 DEF Ledger!Fail, Ledger!LedgerActive, Slot, Active
  <2> QED
    BY <2>1 DEF Ledger!LedgerNext
<1>6. CASE status[r] \in Finished /\ st = "gone"
  <2>1. status' = [q \in Requests |-> IF q \in {r} THEN "gone" ELSE status[q]]
    BY <1>6 DEF TypeOK
  <2>2. Ledger!Drop({r})
    BY <1>1, <1>6, <2>1
    DEF Ledger!Drop, Ledger!LedgerActive, Ledger!LedgerFinal, Slot, Active, Finished
  <2> QED
    BY <2>2 DEF Ledger!LedgerNext
<1> QED
  BY <1>2, <1>3, <1>4, <1>5, <1>6

\* The insert opens a run in a free slot.
LEMMA OpenStep ==
  ASSUME SafeInv, NEW r \in Requests, Insert(r)
  PROVE  [Ledger!LedgerNext]_(Ledger!ledgerVars)
<1> USE DEF SafeInv, TypeOK, RowsComeFromInserts, AtWork
<1>1. CASE ask[r].review \in reviews /\ ActiveFor(r) = {}
  <2>1. status[r] = "none" /\ status' = [status EXCEPT ![r] = "queued"] /\ ask' = ask
    BY <1>1 DEF Insert
  <2>2. ask[r] \in Ask
    BY DEF Insert
  <2> DEFINE s == <<Owner[ask[r].review], ask[r].kind>>
  <2>3. s \in Users \X Kinds
    BY <2>2, OwnerAssumption DEF Ask
  <2>4. ASSUME NEW q \in Requests, Slot(q) = s PROVE status[q] \notin Active
    <3>1. q \notin ActiveFor(r)
      BY <1>1
    <3>2. status[q] # "none"
      BY <2>3, <2>4, NoneAssumption DEF Slot
    <3>3. SameSlot(q, r)
      BY <2>4, <3>2 DEF Slot, SameSlot
    <3> QED
      BY <3>1, <3>3 DEF ActiveFor
  <2>5. [q \in Requests |-> Slot(q)]' = [[q \in Requests |-> Slot(q)] EXCEPT ![r] = s]
    BY <2>1 DEF Slot
  <2>6. Ledger!Open(r)
    BY <2>1, <2>3, <2>4, <2>5 DEF Ledger!Open, Ledger!LedgerActive, Slot, Active
  <2> QED
    BY <2>6 DEF Ledger!LedgerNext
<1>2. CASE ~(ask[r].review \in reviews /\ ActiveFor(r) = {})
  <2>1. status' = status /\ ask' = ask
    BY <1>2 DEF Insert, rowVars
  <2> QED
    BY <2>1, StutterStep
<1> QED
  BY <1>1, <1>2

\* A deleted review takes its runs with it.
LEMMA DropStep ==
  ASSUME SafeInv, NEW v \in Reviews, DeleteReview(v)
  PROVE  [Ledger!LedgerNext]_(Ledger!ledgerVars)
<1> DEFINE S == {r \in Requests : status[r] \in Present /\ ask[r].review = v}
<1>1. status' = [r \in Requests |-> IF r \in S THEN "gone" ELSE status[r]] /\ ask' = ask
  BY DEF DeleteReview, requestVars
<1>2. \A r \in Requests : Slot(r)' = Slot(r)
  BY <1>1 DEF Slot, Present, Active, Finished
<1>3. Ledger!Drop(S)
  BY <1>1, <1>2
  DEF Ledger!Drop, Ledger!LedgerActive, Ledger!LedgerFinal, Slot, Present, Active, Finished
<1> QED
  BY <1>3 DEF Ledger!LedgerNext

LEMMA LedgerInitHolds == Init => Ledger!LedgerInit
  BY DEF Init, Ledger!LedgerInit

\* Every step of the code is a step of the ledger or leaves it alone.
LEMMA LedgerStep ==
  ASSUME ~SlowRuns, PromptInv, [Next]_vars
  PROVE  [Ledger!LedgerNext]_(Ledger!ledgerVars)
<1>0. PromptInv /\ SafeInv /\ TypeOK
  BY DEF PromptInv, SafeInv
<1> DEFINE Goal == [Ledger!LedgerNext]_(Ledger!ledgerVars)
<1>1. ASSUME NEW r \in Requests, Arrive(r) PROVE Goal
  <2>1. status' = status /\ status[r] = "none"
    BY <1>0, <1>1 DEF Arrive, rowVars, SafeInv, RowsComeFromInserts
  <2>2. \A q \in Requests : q # r => ask'[q] = ask[q]
    BY <1>0, <1>1 DEF Arrive, TypeOK
  <2> QED
    BY <2>1, <2>2, StutterStep
<1>2. ASSUME NEW r \in Requests,
             \/ AskAttaching(r) \/ CheckLimit(r) \/ FindActive(r) \/ Recheck(r)
             \/ LoseRace(r) \/ Dispatch(r) \/ TaskLoad(r) \/ TaskStore(r)
             \/ TaskRaise(r) \/ Age(r)
      PROVE Goal
  <2>1. status' = status /\ ask' = ask
    BY <1>2 DEF AskAttaching, CheckLimit, FindActive, Recheck, LoseRace, Dispatch, TaskLoad,
                TaskStore, TaskRaise, Age, rowVars, requestVars
  <2> QED
    BY <2>1, StutterStep
<1>3. ASSUME NEW r \in Requests, Insert(r) PROVE Goal
  BY <1>0, <1>3, OpenStep
<1>4. ASSUME NEW r \in Requests, ExpireSeen(r) PROVE Goal
  <2>1. /\ seen[r] \in Requests
        /\ status[seen[r]] \in {"queued", "running", "failed", "gone"}
    BY <1>0, <1>4 DEF ExpireSeen, TypeOK, PromptInv, SafeInv, StaleIsDead, SeenIsARun,
                      Status, Present, Active, Finished
  <2>2. CASE status[seen[r]] \in Present
    <3>1. status' = [status EXCEPT ![seen[r]] = "failed"] /\ ask' = ask
      BY <1>4, <2>2 DEF ExpireSeen
    <3>2. status[seen[r]] = "failed" \/ status[seen[r]] \in Active
      BY <2>1, <2>2 DEF Present, Active, Finished
    <3> QED
      BY <1>0, <2>1, <3>1, <3>2, RowStep DEF Present, Finished
  <2>3. CASE status[seen[r]] \notin Present
    <3>1. status' = status /\ ask' = ask
      BY <1>4, <2>3 DEF ExpireSeen
    <3> QED
      BY <3>1, StutterStep
  <2> QED
    BY <2>2, <2>3
<1>5. ASSUME NEW r \in Requests, TaskClaim(r) PROVE Goal
  <2>1. status[r] \in {"queued", "gone"}
    BY <1>0, <1>5 DEF TaskClaim, PromptInv, RowFollowsTask
  <2>2. CASE status[r] \in Present /\ ActiveFor(r) \subseteq {r}
    <3>1. status' = [status EXCEPT ![r] = "running"] /\ ask' = ask /\ status[r] = "queued"
      BY <1>5, <2>1, <2>2 DEF TaskClaim, requestVars, Present, Active, Finished
    <3> QED
      BY <1>0, <3>1, RowStep DEF Present, Active
  <2>3. CASE ~(status[r] \in Present /\ ActiveFor(r) \subseteq {r})
    <3>1. status' = status /\ ask' = ask
      BY <1>5, <2>3 DEF TaskClaim, rowVars, requestVars
    <3> QED
      BY <3>1, StutterStep
  <2> QED
    BY <2>2, <2>3
<1>6. ASSUME NEW r \in Requests, TaskFail(r) \/ TaskDone(r) PROVE Goal
  <2>1. status[r] \in {"running", "gone"} /\ ask' = ask
    BY <1>0, <1>6 DEF TaskFail, TaskDone, requestVars, PromptInv, RowFollowsTask
  <2>2. \/ status' = [status EXCEPT ![r] = status[r]]
        \/ status[r] = "running" /\ status' = [status EXCEPT ![r] = "failed"]
        \/ status[r] = "running" /\ status' = [status EXCEPT ![r] = "done"]
    BY <1>0, <1>6, <2>1 DEF TaskFail, TaskDone, TypeOK, Present, Active, Finished
  <2> QED
    BY <1>0, <2>1, <2>2, RowStep DEF Present, Active, Finished
<1>7. ASSUME NEW p \in Readers, MarkStale(p) PROVE Goal
  <2> DEFINE r == reader[p]
  <2>1. /\ r \in Requests
        /\ status[r] \in {"queued", "running", "failed", "gone"}
        /\ ask' = ask
    BY <1>0, <1>7 DEF MarkStale, requestVars, TypeOK, PromptInv, SafeInv, StaleIsDead,
                      ReaderHoldsARun, Status, Present, Active, Finished
  <2>2. \/ status' = [status EXCEPT ![r] = status[r]]
        \/ status[r] \in Active /\ status' = [status EXCEPT ![r] = "failed"]
    BY <1>0, <1>7, <2>1 DEF MarkStale, TypeOK, Present, Active, Finished
  <2> QED
    BY <1>0, <2>1, <2>2, RowStep DEF Present, Active, Finished
<1>8. ASSUME NEW r \in Requests, Purge(r) PROVE Goal
  <2>1. status' = [status EXCEPT ![r] = "gone"] /\ ask' = ask /\ status[r] \in Finished
    BY <1>8 DEF Purge, requestVars
  <2> QED
    BY <1>0, <2>1, RowStep
<1>9. ASSUME NEW v \in Reviews, DeleteReview(v) PROVE Goal
  BY <1>0, <1>9, DropStep
<1>10. ASSUME (\E p \in Readers, r \in Requests : Look(p, r)) \/ Crash \/ UNCHANGED vars
       PROVE Goal
  <2>1. status' = status /\ ask' = ask
    BY <1>10 DEF Look, Crash, vars, rowVars, requestVars
  <2> QED
    BY <2>1, StutterStep
<1> QED
  BY <1>1, <1>2, <1>3, <1>4, <1>5, <1>6, <1>7, <1>8, <1>9, <1>10 DEF Next, Request, Task

\* The code implements the ledger its docstring promises.
THEOREM LedgerImplemented == ASSUME ~SlowRuns PROVE Spec => ImplementsLedger
<1>1. PromptInv /\ [Next]_vars => [Ledger!LedgerNext]_(Ledger!ledgerVars)
  BY LedgerStep
<1> QED
  BY <1>1, LedgerInitHolds, Promptness, PTL DEF Spec, ImplementsLedger, Ledger!LedgerSpec

\* A run that finished keeps its verdict.
THEOREM VerdictIsFinal == ASSUME ~SlowRuns PROVE Spec => FinalVerdict
<1> DEFINE Step == \A r \in Requests :
                     status[r] \in Finished => status'[r] \in {status[r], "gone"}
<1>1. PromptInv /\ [Ledger!LedgerNext]_(Ledger!ledgerVars) => Step
  <2> SUFFICES ASSUME PromptInv, [Ledger!LedgerNext]_(Ledger!ledgerVars),
                      NEW r \in Requests, status[r] \in Finished
               PROVE  status'[r] \in {status[r], "gone"}
    OBVIOUS
  <2>1. TypeOK
    BY DEF PromptInv, SafeInv
  <2> QED
    BY <2>1 DEF TypeOK, Finished, Ledger!LedgerNext, Ledger!ledgerVars, Ledger!Open,
                Ledger!Begin, Ledger!Complete, Ledger!Fail, Ledger!Drop, Ledger!LedgerActive,
                Ledger!LedgerFinal
<1>2. PromptInv /\ [Next]_vars => [Step]_vars
  BY <1>1, LedgerStep
<1> QED
  BY <1>2, Promptness, PTL DEF Spec, FinalVerdict

-----------------------------------------------------------------------------
(* The ledger, whoever keeps it                                             *)

VARIABLES slot, verdict

AnyLedger == INSTANCE GenerationLedger WITH
    Runs <- Requests, Slots <- Users \X Kinds, NoSlot <- NoRun

LedgerInv == AnyLedger!LedgerTypeOK /\ AnyLedger!OneActivePerSlot

\* A run becomes active only in a slot that is free, and stays in its slot: one
\* active run per user and kind, which uq_generation_jobs_active (models.py:337-345)
\* promises.
THEOREM LedgerPromise == AnyLedger!LedgerSpec => []AnyLedger!OneActivePerSlot
<1> USE DEF AnyLedger!LedgerTypeOK, AnyLedger!LedgerActive, AnyLedger!LedgerFinal
<1>1. AnyLedger!LedgerInit => LedgerInv
  BY DEF AnyLedger!LedgerInit, LedgerInv, AnyLedger!OneActivePerSlot
<1>2. LedgerInv /\ [AnyLedger!LedgerNext]_(AnyLedger!ledgerVars) => LedgerInv'
  <2> SUFFICES ASSUME LedgerInv, [AnyLedger!LedgerNext]_(AnyLedger!ledgerVars)
               PROVE  LedgerInv'
    OBVIOUS
  <2> USE DEF LedgerInv, AnyLedger!OneActivePerSlot
  <2>1. ASSUME NEW r \in Requests, AnyLedger!Open(r) PROVE LedgerInv'
    BY <2>1 DEF AnyLedger!Open
  <2>2. ASSUME NEW r \in Requests, AnyLedger!Begin(r) PROVE LedgerInv'
    BY <2>2 DEF AnyLedger!Begin
  <2>3. ASSUME NEW r \in Requests, AnyLedger!Complete(r) PROVE LedgerInv'
    BY <2>3 DEF AnyLedger!Complete
  <2>4. ASSUME NEW r \in Requests, AnyLedger!Fail(r) PROVE LedgerInv'
    BY <2>4 DEF AnyLedger!Fail
  <2>5. ASSUME NEW S \in SUBSET Requests, AnyLedger!Drop(S) PROVE LedgerInv'
    BY <2>5 DEF AnyLedger!Drop
  <2>6. CASE UNCHANGED AnyLedger!ledgerVars
    BY <2>6 DEF AnyLedger!ledgerVars
  <2> QED BY <2>1, <2>2, <2>3, <2>4, <2>5, <2>6 DEF AnyLedger!LedgerNext
<1>3. LedgerInv => AnyLedger!OneActivePerSlot
  BY DEF LedgerInv
<1> QED BY <1>1, <1>2, <1>3, PTL DEF AnyLedger!LedgerSpec
=============================================================================
