--------------------------- MODULE GenerationJobs ---------------------------
(***************************************************************************)
(* Background generation (company research, resume tailoring):             *)
(* services/tracker-api/app/generation_jobs.py and the endpoints of        *)
(* routers/generate.py that call it.                                       *)
(*                                                                         *)
(* A request records a GenerationJob row and answers 202; the work then    *)
(* runs as a background task of the same process; whoever reads the row    *)
(* later marks it failed when it sat active past STALE_AFTER.  Requests,   *)
(* background tasks and readers are threads of one process over one        *)
(* READ COMMITTED database, so every query and every commit is a step of   *)
(* its own and the others may run in between.                              *)
(*                                                                         *)
(* A request inserts at most one row, so the run a request starts bears    *)
(* the request's name: status[r] is the row request r inserted, task[r]    *)
(* the background task executing it.                                       *)
(***************************************************************************)
EXTENDS Naturals, FiniteSets

CONSTANTS
    Users,
    Kinds,        \* GENERATION_KINDS: research, tailor
    Reviews,      \* the users' job reviews
    Owner,        \* the user each review belongs to
    Requests,     \* the POST requests, and the runs they start
    Readers,      \* the threads that poll a run, or sweep the table
    AppRequests,  \* those sent by a connected assistant
    AppLimit,     \* LIMITS of an assistant's research / tailor requests a day
    MaxCrashes,   \* bound: restarts of the process
    SlowRuns,     \* may a run that is still executing outlast STALE_AFTER?
    NoRun,        \* None, where a run could be
    NoAsk         \* a request that has not arrived

ASSUME OwnerAssumption == Owner \in [Reviews -> Users]
ASSUME BoundsAssumption == AppLimit \in Nat /\ MaxCrashes \in Nat
ASSUME SlowRunsAssumption == SlowRuns \in BOOLEAN

Ask == [review : Reviews, kind : Kinds]

ASSUME NoneAssumption == NoRun \notin Requests \cup (Users \X Kinds) /\ NoAsk \notin Ask

Active == {"queued", "running"}                 \* GENERATION_ACTIVE
Finished == {"done", "failed"}
Present == Active \cup Finished
Status == Present \cup {"none", "gone"}          \* before the insert, after a delete

\* Where a request stands, and how it ended.
AtWork == {"attaching", "limit", "start", "expire", "recheck", "insert",
           "lost_race", "dispatch"}
Answers == {"created", "attached", "conflict", "limited", "error", "cut_off"}

LiveTask == {"scheduled", "loaded", "working", "saved", "raised"}

VARIABLES
    reviews,    \* the reviews that exist
    ask,        \* what each request asked for: review, kind
    pc,         \* where each request stands
    seen,       \* the run a request found active
    status,     \* the status column of each run's row
    old,        \* has the row been active for longer than STALE_AFTER?
    task,       \* where each run's background task stands
    stored,     \* the runs whose result was committed to their review
    timeline,   \* the runs with a timeline entry
    counted,    \* the runs recorded as an assistant's action
    reader,     \* the run each reader read as stale and is about to mark
    crashes

requestVars == <<ask, pc, seen>>
rowVars == <<status, old>>
effectVars == <<stored, timeline>>
vars == <<reviews, ask, pc, seen, status, old, task, stored, timeline, counted,
          reader, crashes>>

-----------------------------------------------------------------------------
(* The unique index and the queries                                         *)

SameSlot(q, r) ==
    /\ Owner[ask[q].review] = Owner[ask[r].review]
    /\ ask[q].kind = ask[r].kind

\* The active rows of r's user and kind.
ActiveFor(r) == {q \in Requests : status[q] \in Active /\ SameSlot(q, r)}

\* Assistant actions of r's user and kind inside the 24 h window.
Used(r) == Cardinality({q \in counted : SameSlot(q, r)})

\* A run someone is still executing, or whose request is about to schedule it.
Live(r) == pc[r] = "dispatch" \/ task[r] \in LiveTask

-----------------------------------------------------------------------------
Init ==
    /\ reviews = Reviews
    /\ ask = [r \in Requests |-> NoAsk]
    /\ pc = [r \in Requests |-> "idle"]
    /\ seen = [r \in Requests |-> NoRun]
    /\ status = [r \in Requests |-> "none"]
    /\ old = [r \in Requests |-> FALSE]
    /\ task = [r \in Requests |-> "none"]
    /\ stored = {}
    /\ timeline = {}
    /\ counted = {}
    /\ reader = [p \in Readers |-> NoRun]
    /\ crashes = 0

Goto(r, where) == pc' = [pc EXCEPT ![r] = where]

-----------------------------------------------------------------------------
(* The request: generate_research, tailor_resume_endpoint                   *)

\* _get_review finds the review; an assistant's request goes on to its limit.
Arrive(r) ==
    /\ pc[r] = "idle"
    /\ \E v \in reviews, k \in Kinds : ask' = [ask EXCEPT ![r] = [review |-> v, kind |-> k]]
    /\ Goto(r, IF r \in AppRequests THEN "attaching" ELSE "start")
    /\ UNCHANGED <<reviews, seen, rowVars, task, effectVars, counted, reader, crashes>>

\* _attaching: a request that will only re-attach is not held to the limit.
AskAttaching(r) ==
    /\ pc[r] = "attaching"
    /\ Goto(r, IF \E q \in ActiveFor(r) : ask[q].review = ask[r].review
                THEN "start" ELSE "limit")
    /\ UNCHANGED <<reviews, ask, seen, rowVars, task, effectVars, counted, reader, crashes>>

\* assistant.check: 429 at the limit.
CheckLimit(r) ==
    /\ pc[r] = "limit"
    /\ Goto(r, IF Used(r) >= AppLimit THEN "limited" ELSE "start")
    /\ UNCHANGED <<reviews, ask, seen, rowVars, task, effectVars, counted, reader, crashes>>

\* Mutant of ReloadAndAttach: the winner of a lost race is taken for our own run.
AttachToAnyWinner(r, q) ==
    IF ask[r].review \in reviews
    THEN Goto(r, "attached") /\ seen' = [seen EXCEPT ![r] = q]
    ELSE Goto(r, "error") /\ seen' = [seen EXCEPT ![r] = NoRun]

\* _attach_or_refuse
AttachOrRefuse(r, q) ==
    IF ask[q].review = ask[r].review
    THEN Goto(r, "attached") /\ seen' = [seen EXCEPT ![r] = q]
    ELSE Goto(r, "conflict") /\ seen' = [seen EXCEPT ![r] = NoRun]

\* The same once a commit or a rollback has expired the loaded review: it is
\* read again, and a deleted one is an error.
ReloadAndAttach(r, q) ==
    IF ask[r].review \in reviews
    THEN AttachOrRefuse(r, q)
    ELSE Goto(r, "error") /\ seen' = [seen EXCEPT ![r] = NoRun]

\* Mutant of FindActive: every active row is taken for a dead one.
FindActiveImpatiently(r) ==
    /\ pc[r] = "start"
    /\ IF ActiveFor(r) = {}
        THEN Goto(r, "insert") /\ UNCHANGED seen
        ELSE \E q \in ActiveFor(r) :
                Goto(r, "expire") /\ seen' = [seen EXCEPT ![r] = q]
    /\ UNCHANGED <<reviews, ask, rowVars, task, effectVars, counted, reader, crashes>>

\* start: the fast path's query, and refresh_if_stale's judgement of what it read.
FindActive(r) ==
    /\ pc[r] = "start"
    /\ IF ActiveFor(r) = {}
        THEN Goto(r, "insert") /\ UNCHANGED seen
        ELSE \E q \in ActiveFor(r) :
                IF old[q]
                THEN Goto(r, "expire") /\ seen' = [seen EXCEPT ![r] = q]
                ELSE AttachOrRefuse(r, q)
    /\ UNCHANGED <<reviews, ask, rowVars, task, effectVars, counted, reader, crashes>>

\* _finish(FAILED) on the run read above, whatever its row says by now: the
\* UPDATE is by primary key.  A row deleted meanwhile is an error.
ExpireSeen(r) ==
    /\ pc[r] = "expire"
    /\ IF status[seen[r]] \in Present
        THEN /\ status' = [status EXCEPT ![seen[r]] = "failed"]
             /\ Goto(r, "recheck")
        ELSE Goto(r, "error") /\ UNCHANGED status
    /\ UNCHANGED <<reviews, ask, seen, old, task, effectVars, counted, reader, crashes>>

\* existing.status, reloaded after the commit above.
Recheck(r) ==
    /\ pc[r] = "recheck"
    /\ IF status[seen[r]] \in Active
        THEN ReloadAndAttach(r, seen[r])
        ELSE /\ Goto(r, IF status[seen[r]] \in Finished THEN "insert" ELSE "error")
             /\ seen' = [seen EXCEPT ![r] = NoRun]
    /\ UNCHANGED <<reviews, ask, rowVars, task, effectVars, counted, reader, crashes>>

\* Mutant of Insert: the table has no partial unique index.
InsertUnindexed(r) ==
    /\ pc[r] = "insert"
    /\ IF ask[r].review \notin reviews
        THEN Goto(r, "error") /\ UNCHANGED rowVars
        ELSE /\ status' = [status EXCEPT ![r] = "queued"]
             /\ old' = [old EXCEPT ![r] = FALSE]
             /\ Goto(r, "dispatch")
    /\ UNCHANGED <<reviews, ask, seen, task, effectVars, counted, reader, crashes>>

\* The insert: the foreign key needs the review, the partial unique index
\* uq_generation_jobs_active refuses a second active row of the user and kind.
Insert(r) ==
    /\ pc[r] = "insert"
    /\ IF ask[r].review \in reviews /\ ActiveFor(r) = {}
        THEN /\ status' = [status EXCEPT ![r] = "queued"]
             /\ old' = [old EXCEPT ![r] = FALSE]
             /\ Goto(r, "dispatch")
        ELSE /\ Goto(r, IF ask[r].review \in reviews THEN "lost_race" ELSE "error")
             /\ UNCHANGED rowVars
    /\ UNCHANGED <<reviews, ask, seen, task, effectVars, counted, reader, crashes>>

\* Mutant of LoseRace: there is always a winner to attach to.
LoseRaceToSomeone(r) ==
    /\ pc[r] = "lost_race"
    /\ \E q \in ActiveFor(r) : ReloadAndAttach(r, q)
    /\ UNCHANGED <<reviews, ask, rowVars, task, effectVars, counted, reader, crashes>>

\* IntegrityError: attach to the winner, or start over when it has finished.
LoseRace(r) ==
    /\ pc[r] = "lost_race"
    /\ IF ActiveFor(r) = {}
        THEN Goto(r, "start") /\ UNCHANGED seen
        ELSE \E q \in ActiveFor(r) : ReloadAndAttach(r, q)
    /\ UNCHANGED <<reviews, ask, rowVars, task, effectVars, counted, reader, crashes>>

\* db.refresh, assistant.record with its commit, background.add_task.
Dispatch(r) ==
    /\ pc[r] = "dispatch"
    /\ IF status[r] \in Present
        THEN /\ task' = [task EXCEPT ![r] = "scheduled"]
             /\ counted' = IF r \in AppRequests THEN counted \cup {r} ELSE counted
             /\ Goto(r, "created")
        ELSE Goto(r, "error") /\ UNCHANGED <<task, counted>>
    /\ UNCHANGED <<reviews, ask, seen, rowVars, effectVars, reader, crashes>>

-----------------------------------------------------------------------------
(* The background task: run(job_id)                                         *)

TaskAt(r, where) == task' = [task EXCEPT ![r] = where]

\* db.get and the QUEUED test.
TaskLoad(r) ==
    /\ task[r] = "scheduled"
    /\ TaskAt(r, IF status[r] = "queued" THEN "loaded" ELSE "over")
    /\ UNCHANGED <<reviews, requestVars, rowVars, effectVars, counted, reader, crashes>>

\* Mutant of TaskClaim: the row is never set to running.
TaskClaimSilently(r) ==
    /\ task[r] = "loaded"
    /\ TaskAt(r, "working")
    /\ UNCHANGED <<reviews, requestVars, rowVars, effectVars, counted, reader, crashes>>

\* status = RUNNING, started_at = now, commit.  A row that was marked failed
\* since it was loaded is active again, unless another run took the slot: then
\* the unique index refuses the UPDATE and the task dies.
TaskClaim(r) ==
    /\ task[r] = "loaded"
    /\ IF status[r] \in Present /\ ActiveFor(r) \subseteq {r}
        THEN /\ status' = [status EXCEPT ![r] = "running"]
             /\ old' = [old EXCEPT ![r] = FALSE]
             /\ TaskAt(r, "working")
        ELSE TaskAt(r, "over") /\ UNCHANGED rowVars
    /\ UNCHANGED <<reviews, requestVars, effectVars, counted, reader, crashes>>

\* run_research / run_tailor commit the result to the review.
TaskStore(r) ==
    /\ task[r] = "working"
    /\ ask[r].review \in reviews
    /\ stored' = stored \cup {r}
    /\ TaskAt(r, "saved")
    /\ UNCHANGED <<reviews, requestVars, rowVars, timeline, counted, reader, crashes>>

\* The provider, the key or the parsing failed, or the review is gone.
TaskRaise(r) ==
    /\ task[r] = "working"
    /\ TaskAt(r, "raised")
    /\ UNCHANGED <<reviews, requestVars, rowVars, effectVars, counted, reader, crashes>>

\* rollback, _finish(FAILED).  A deleted row cannot be reloaded: the task dies.
TaskFail(r) ==
    /\ task[r] = "raised"
    /\ status' = [status EXCEPT ![r] = IF @ \in Present THEN "failed" ELSE @]
    /\ TaskAt(r, "over")
    /\ UNCHANGED <<reviews, requestVars, old, effectVars, counted, reader, crashes>>

\* Mutant of TaskDone: the run is finished without its timeline entry.
TaskDoneUntold(r) ==
    /\ task[r] = "saved"
    /\ status' = [status EXCEPT ![r] = IF @ \in Present THEN "done" ELSE @]
    /\ TaskAt(r, "over")
    /\ UNCHANGED <<reviews, requestVars, old, effectVars, counted, reader, crashes>>

\* The timeline entry and _finish(DONE), one commit, whatever the row says.
TaskDone(r) ==
    /\ task[r] = "saved"
    /\ IF status[r] \in Present
        THEN /\ status' = [status EXCEPT ![r] = "done"]
             /\ timeline' = timeline \cup {r}
        ELSE UNCHANGED <<status, timeline>>
    /\ TaskAt(r, "over")
    /\ UNCHANGED <<reviews, requestVars, old, stored, counted, reader, crashes>>

-----------------------------------------------------------------------------
(* Readers: latest_for_review, get_for_user, sweep                          *)

\* Mutant of Look: age is not tested.
LookImpatiently(p, r) ==
    /\ reader[p] = NoRun
    /\ status[r] \in Active
    /\ reader' = [reader EXCEPT ![p] = r]
    /\ UNCHANGED <<reviews, requestVars, rowVars, task, effectVars, counted, crashes>>

\* Mutant of Look: only running rows are judged, a queued one is left for ever.
LookAtRunning(p, r) ==
    /\ reader[p] = NoRun
    /\ status[r] = "running"
    /\ old[r]
    /\ reader' = [reader EXCEPT ![p] = r]
    /\ UNCHANGED <<reviews, requestVars, rowVars, task, effectVars, counted, crashes>>

\* The row is read, active, and judged stale.
Look(p, r) ==
    /\ reader[p] = NoRun
    /\ status[r] \in Active
    /\ old[r]
    /\ reader' = [reader EXCEPT ![p] = r]
    /\ UNCHANGED <<reviews, requestVars, rowVars, task, effectVars, counted, crashes>>

\* _finish(FAILED) of refresh_if_stale.
MarkStale(p) ==
    /\ reader[p] # NoRun
    /\ status' = [status EXCEPT ![reader[p]] = IF @ \in Present THEN "failed" ELSE @]
    /\ reader' = [reader EXCEPT ![p] = NoRun]
    /\ UNCHANGED <<reviews, requestVars, old, task, effectVars, counted, crashes>>

\* sweep deletes finished rows past terminal_ttl_days.
Purge(r) ==
    /\ status[r] \in Finished
    /\ status' = [status EXCEPT ![r] = "gone"]
    /\ UNCHANGED <<reviews, requestVars, old, task, effectVars, counted, reader, crashes>>

-----------------------------------------------------------------------------
(* The surroundings                                                         *)

\* The row's clock passes STALE_AFTER.
Age(r) ==
    /\ status[r] \in Active
    /\ ~old[r]
    /\ SlowRuns \/ ~Live(r)
    /\ old' = [old EXCEPT ![r] = TRUE]
    /\ UNCHANGED <<reviews, requestVars, status, task, effectVars, counted, reader, crashes>>

\* The user deletes the review: its runs and timeline go with it (ON DELETE CASCADE).
DeleteReview(v) ==
    /\ v \in reviews
    /\ reviews' = reviews \ {v}
    /\ status' = [r \in Requests |->
                    IF status[r] \in Present /\ ask[r].review = v THEN "gone" ELSE status[r]]
    /\ UNCHANGED <<requestVars, old, task, effectVars, counted, reader, crashes>>

\* The pod restarts: every thread of the process is lost, the rows stay.
Crash ==
    /\ crashes < MaxCrashes
    /\ crashes' = crashes + 1
    /\ pc' = [r \in Requests |-> IF pc[r] \in AtWork THEN "cut_off" ELSE pc[r]]
    /\ task' = [r \in Requests |-> IF task[r] \in LiveTask THEN "over" ELSE task[r]]
    /\ reader' = [p \in Readers |-> NoRun]
    /\ UNCHANGED <<reviews, ask, seen, rowVars, effectVars, counted>>

-----------------------------------------------------------------------------
Request(r) ==
    \/ Arrive(r) \/ AskAttaching(r) \/ CheckLimit(r) \/ FindActive(r)
    \/ ExpireSeen(r) \/ Recheck(r) \/ Insert(r) \/ LoseRace(r) \/ Dispatch(r)

Task(r) ==
    \/ TaskLoad(r) \/ TaskClaim(r) \/ TaskStore(r) \/ TaskRaise(r)
    \/ TaskFail(r) \/ TaskDone(r)

Next ==
    \/ \E r \in Requests : Request(r) \/ Task(r) \/ Purge(r) \/ Age(r)
    \/ \E p \in Readers : MarkStale(p) \/ \E r \in Requests : Look(p, r)
    \/ \E v \in Reviews : DeleteReview(v)
    \/ Crash

Spec == Init /\ [][Next]_vars

(***************************************************************************)
(* Fairness.  A request and a task are threads the process schedules until *)
(* they return (a provider call ends, with an answer or an error); the     *)
(* clock passes STALE_AFTER; the nightly sweep looks at every active row.  *)
(* Nobody has to send a request, to delete or to crash.                    *)
(***************************************************************************)
Fairness ==
    /\ \A r \in Requests :
        /\ WF_vars(Request(r) /\ pc[r] # "idle")
        /\ WF_vars(Task(r))
        /\ WF_vars(Age(r))
        /\ \A p \in Readers : SF_vars(Look(p, r))
    /\ \A p \in Readers : WF_vars(MarkStale(p))

FairSpec == Spec /\ Fairness

-----------------------------------------------------------------------------
TypeOK ==
    /\ reviews \subseteq Reviews
    /\ ask \in [Requests -> Ask \cup {NoAsk}]
    /\ pc \in [Requests -> {"idle"} \cup AtWork \cup Answers]
    /\ seen \in [Requests -> Requests \cup {NoRun}]
    /\ status \in [Requests -> Status]
    /\ old \in [Requests -> BOOLEAN]
    /\ task \in [Requests -> {"none", "over"} \cup LiveTask]
    /\ stored \subseteq Requests
    /\ timeline \subseteq Requests
    /\ counted \subseteq Requests
    /\ reader \in [Readers -> Requests \cup {NoRun}]
    /\ crashes \in Nat

\* One active run per user and kind, however requests race at the insert, tasks
\* revive a row that was marked failed, and readers mark rows
\* (generation_jobs.py:28, the partial unique index).
OneActive ==
    \A q, r \in Requests :
        status[q] \in Active /\ status[r] \in Active /\ SameSlot(q, r) => q = r

\* A client told "attached" polls a run of its own review and kind: every path to
\* that answer (fast path, stale row revived, lost race) compared the reviews.
AttachedToOwnReview ==
    \A r \in Requests :
        pc[r] = "attached" => /\ seen[r] # NoRun
                              /\ ask[seen[r]].review = ask[r].review
                              /\ ask[seen[r]].kind = ask[r].kind

\* A run that says "done" stored its result first and left its timeline entry,
\* whoever else wrote the row meanwhile (generation_jobs.py:189-194).
DoneIsTrue ==
    \A r \in Requests : status[r] = "done" => r \in stored /\ r \in timeline

-----------------------------------------------------------------------------
(* What holds when a live run never outlasts STALE_AFTER                    *)

Executing(r) == task[r] \in {"working", "saved", "raised"}

\* The user's key is never billed by two runs of a kind at once
\* (models.py:337-342), deleted reviews apart.
OneExecution ==
    \A q, r \in Requests :
        /\ Executing(q) /\ Executing(r) /\ SameSlot(q, r)
        /\ status[q] \in Present /\ status[r] \in Present
        => q = r

\* A run that finished keeps its verdict: what the client read is final.
FinalVerdict ==
    [][\A r \in Requests :
        status[r] \in Finished => status'[r] \in {status[r], "gone"}]_vars

\* A run whose timeline entry says it was generated does not say "failed".
TimelineAgrees ==
    \A r \in Requests : r \in timeline /\ status[r] \in Present => status[r] = "done"

\* The ledger a client sees.
Ledger == INSTANCE GenerationLedger WITH
    Runs <- Requests,
    Slots <- Users \X Kinds,
    NoSlot <- NoRun,
    slot <- [r \in Requests |->
                IF status[r] = "none" THEN NoRun
                ELSE <<Owner[ask[r].review], ask[r].kind>>],
    verdict <- status

\* The code implements the ledger.
ImplementsLedger == Ledger!LedgerSpec

\* Every row that is active is settled in the end: done, failed, or deleted with
\* its review, through restarts and lost tasks.
RunsSettle == \A r \in Requests : status[r] \in Active ~> status[r] \notin Active

\* Every request is answered or cut off by a restart: the retry after a lost
\* race does not go on for ever.
RequestsAnswered == \A r \in Requests : pc[r] \in AtWork ~> pc[r] \in Answers
=============================================================================
