-------------------------- MODULE GenerationLedger --------------------------
(***************************************************************************)
(* What background generation promises its clients                        *)
(* (services/tracker-api/app/generation_jobs.py:27-32): a ledger of runs.  *)
(* A slot is a user and a kind; a slot has one active run at most; a run   *)
(* goes from queued to running to done, or fails; a verdict is final; a    *)
(* finished or cancelled run can only disappear.                           *)
(***************************************************************************)
CONSTANTS Runs, Slots, NoSlot

VARIABLES
    slot,     \* the user and kind of each run that was started
    verdict   \* how each run stands

ledgerVars == <<slot, verdict>>

LedgerActive == {"queued", "running"}
LedgerFinal == {"done", "failed"}

LedgerTypeOK ==
    /\ slot \in [Runs -> Slots \cup {NoSlot}]
    /\ verdict \in [Runs -> {"none", "gone"} \cup LedgerActive \cup LedgerFinal]

LedgerInit ==
    /\ slot = [r \in Runs |-> NoSlot]
    /\ verdict = [r \in Runs |-> "none"]

\* A request is recorded: its slot must be free.
Open(r) ==
    /\ verdict[r] = "none"
    /\ \E s \in Slots :
        /\ \A q \in Runs : slot[q] = s => verdict[q] \notin LedgerActive
        /\ slot' = [slot EXCEPT ![r] = s]
    /\ verdict' = [verdict EXCEPT ![r] = "queued"]

Begin(r) ==
    /\ verdict[r] = "queued"
    /\ verdict' = [verdict EXCEPT ![r] = "running"]
    /\ UNCHANGED slot

\* Only a run that is running can end well.
Complete(r) ==
    /\ verdict[r] = "running"
    /\ verdict' = [verdict EXCEPT ![r] = "done"]
    /\ UNCHANGED slot

\* An active run can fail or be given up as lost.
Fail(r) ==
    /\ verdict[r] \in LedgerActive
    /\ verdict' = [verdict EXCEPT ![r] = "failed"]
    /\ UNCHANGED slot

\* Runs disappear with their review, or by the nightly sweep.
Drop(S) ==
    /\ \A r \in S : verdict[r] \in LedgerActive \cup LedgerFinal
    /\ verdict' = [r \in Runs |-> IF r \in S THEN "gone" ELSE verdict[r]]
    /\ UNCHANGED slot

LedgerNext ==
    \/ \E r \in Runs : Open(r) \/ Begin(r) \/ Complete(r) \/ Fail(r)
    \/ \E S \in SUBSET Runs : Drop(S)

LedgerSpec == LedgerInit /\ [][LedgerNext]_ledgerVars

\* The promise: one active run per slot.
OneActivePerSlot ==
    \A q, r \in Runs :
        verdict[q] \in LedgerActive /\ verdict[r] \in LedgerActive /\ slot[q] = slot[r]
        => q = r
=============================================================================
