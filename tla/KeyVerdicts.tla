---------------------------- MODULE KeyVerdicts ----------------------------
(***************************************************************************)
(* Verdicts on a user's AI keys, and the scoring that depends on them.     *)
(*                                                                         *)
(*   services/ai-reviewer/app/main.py      the Celery task review_job      *)
(*   services/tracker-api/app/routers/keys.py  the key settings and the    *)
(*                                         verdicts the worker reports     *)
(*   services/tracker-api/app/llm.py       the active key, foreground      *)
(*                                         calls and what they record      *)
(*                                                                         *)
(* The worker (one fork, one task at a time) fetches the active key, calls *)
(* the provider for seconds to minutes, then reports a verdict, which the  *)
(* API applies to the key and model that are active by then.  Foreground   *)
(* calls and the user's settings do the same to the same row.  An API      *)
(* handler loads the row, computes, and flushes only the columns it        *)
(* changed; other handlers may commit in between.                          *)
(*                                                                         *)
(* last_error and last_error_at come and go with last_error_kind.          *)
(***************************************************************************)
EXTENDS Naturals, FiniteSets

CONSTANTS
    NumKeys,          \* providers, numbered in priority order (LLM_PROVIDERS)
    Models,
    Tasks,            \* deliveries of review_job
    Callers,          \* threads making foreground calls (llm_complete)
    StreakLimit,      \* UNUSABLE_OUTPUT_STREAK
    MaxRetries,       \* max_retries of review_job
    MaxEdits,         \* bound: settings changes
    None

Keys == 1..NumKeys
NoKey == 0                                      \* no key, or one replaced since

ASSUME NumbersAssumption ==
    /\ NumKeys \in Nat /\ MaxRetries \in Nat /\ MaxEdits \in Nat
    /\ StreakLimit \in Nat \ {0}

Transient == {"rate_limited", "provider_unavailable"}          \* KEY_ERRORS_TRANSIENT
Blocking == {"invalid_model", "invalid_key", "unusable_output"} \* KEY_ERRORS_BLOCKING
ModelScoped == {"invalid_model", "unusable_output", "rate_limited"}
Verdicts == Transient \cup Blocking

Row == [there : BOOLEAN, model : Models \cup {None}, writing : Models \cup {None},
        kind : Verdicts \cup {None}, about : Models \cup {None}, streak : Nat]

FreshRow(m, w) ==
    [there |-> TRUE, model |-> m, writing |-> w, kind |-> None, about |-> None, streak |-> 0]
AbsentRow == [FreshRow(None, None) EXCEPT !.there = FALSE]

\* Of the call that a row's verdict came from: the key and the model it was made with,
\* or that something else was saved in the meantime.
Signature == [key : Keys, model : Models]
Crossing == [key |-> NoKey, model |-> None]

ASSUME NoneAssumption == None \notin Models \cup Verdicts \cup Signature \cup {Crossing}

VARIABLES
    row,        \* user_api_keys
    selected,   \* users.selected_llm_provider, NoKey for none
    task,       \* each delivery: waiting, or how it ended
    retries,    \* self.request.retries
    billed,     \* provider calls made for each delivery
    worker,     \* the review in progress
    caller,     \* the foreground calls in progress
    edit,       \* the settings change in progress
    edits,      \* how many were made
    author,     \* history: the call whose verdict a row got last
    strikes     \* history: the unusable answers reported on a row since it is there

history == <<author, strikes>>
vars == <<row, selected, task, retries, billed, worker, caller, edit, edits, author, strikes>>

Idle == [at |-> "idle"]

-----------------------------------------------------------------------------
(* llm.py: the active key, and what a verdict is about                      *)

\* get_active_llm_key, for a session that knows the user's selection as sel
ActiveKey(sel) ==
    LET here == {k \in Keys : row[k].there}
        usable == {k \in here : row[k].model # None}
        First(S) == CHOOSE k \in S : \A j \in S : k <= j
    IN  IF sel \in here THEN sel
        ELSE IF usable # {} THEN First(usable)
        ELSE IF here # {} THEN First(here)
        ELSE NoKey

\* model_for_key with MODEL_PURPOSE_WRITING; the analysis model is r.model.
WritingModel(r) == IF r.writing # None THEN r.writing ELSE r.model

\* error_applies_to
Applies(r, m) ==
    /\ r.kind # None
    /\ r.kind \in ModelScoped => r.about \in {None, m}

\* record_key_error
Record(r, kind, m) ==
    [r EXCEPT !.kind = kind, !.about = IF kind \in ModelScoped THEN m ELSE None]

NoVerdict(r) == [r EXCEPT !.kind = None, !.about = None]

\* Mutant of Cleared: a success clears whatever is recorded.
ClearedAlways(r, m) == NoVerdict(r)

\* clear_key_error
Cleared(r, m) ==
    IF m # None /\ r.kind # None /\ ~Applies(r, m) THEN r ELSE NoVerdict(r)

-----------------------------------------------------------------------------
(* keys.py: what each handler does to the row it loaded                     *)

\* Mutant of Reported: the first unusable answer accuses the model.
ReportedAtOnce(r, kind) ==
    IF kind = None THEN Cleared([r EXCEPT !.streak = 0], r.model)
    ELSE Record([r EXCEPT !.streak = IF kind = "unusable_output" THEN StreakLimit ELSE 0],
                kind, r.model)

\* report_llm_key_status: None is a success.
Reported(r, kind) ==
    LET counted == [r EXCEPT !.streak = r.streak + 1]
    IN  IF kind = None THEN Cleared([r EXCEPT !.streak = 0], r.model)
        ELSE IF kind # "unusable_output" THEN Record([r EXCEPT !.streak = 0], kind, r.model)
        ELSE IF counted.streak < StreakLimit THEN counted
        ELSE Record(counted, kind, r.model)

\* _clear_error_if_model_dropped
ClearedIfDropped(r) ==
    IF r.kind \in ModelScoped /\ r.about # None /\ r.about \in {r.model, WritingModel(r)}
    THEN r
    ELSE NoVerdict([r EXCEPT !.streak = IF r.kind = "unusable_output" THEN 0 ELSE r.streak])

\* update_key_model with both fields sent; sending one is keeping the other.
Patched(r, m, w) ==
    ClearedIfDropped([r EXCEPT !.streak = IF m # r.model THEN 0 ELSE r.streak,
                               !.model = m, !.writing = w])

\* upsert_key: a new secret deserves a fresh verdict.
Upserted(m, w) == FreshRow(m, w)

\* The flush of a session that loaded snap from key k and now holds new: only the
\* columns that changed are written.  A row deleted since fails the flush.
Flush(k, snap, new) ==
    row' = [j \in Keys |->
              IF j = k
              THEN [c \in DOMAIN new |-> IF new[c] # snap[c] THEN new[c] ELSE row[j][c]]
              ELSE row[j]]

-----------------------------------------------------------------------------
Init ==
    /\ \E m \in Models : \E n \in 0..StreakLimit - 1 :
        /\ row = [k \in Keys |-> [FreshRow(m, None) EXCEPT !.streak = n]]
        /\ strikes = [k \in Keys |-> n]          \* of earlier deliveries
    /\ selected = NoKey
    /\ task = [t \in Tasks |-> "waiting"]
    /\ retries = [t \in Tasks |-> 0]
    /\ billed = [t \in Tasks |-> 0]
    /\ worker = Idle
    /\ caller = [c \in Callers |-> Idle]
    /\ edit = Idle
    /\ edits = 0
    /\ author = [k \in Keys |-> None]

\* History: the settings changes saved so far.  A call notes their number when it begins.
Changes == IF edit = Idle THEN edits ELSE edits - 1

\* The settings were changed since the call s began, or the row since s loaded it.
Crossed(s) == s.since # Changes \/ (s.on # NoKey /\ row[s.on] # s.snap)

\* The signature on row k after a flush that recorded a verdict of its own, or none: it goes
\* with the verdict, and stays with one that stays as it is.
Signed(k, recorded, sig) ==
    IF row'[k].kind = None THEN None
    ELSE IF ~recorded /\ row'[k].kind = row[k].kind /\ row'[k].about = row[k].about
      THEN author[k]
    ELSE sig

\* The flush of the call s on row k recorded the verdict kind, or None.
Sign(k, s, kind) ==
    author' = [j \in Keys |->
                 IF j # k THEN author[j]
                 ELSE Signed(k, kind # None, IF Crossed(s) THEN Crossing
                                             ELSE [key |-> s.key, model |-> s.model])]

-----------------------------------------------------------------------------
(* The worker: review_job                                                   *)

workerRest == <<selected, caller, edit, edits>>

End(t, how) ==
    /\ task' = [task EXCEPT ![t] = how]
    /\ worker' = Idle

\* Mutant of Retry: one retry too many.
RetryOnceMore(t) ==
    /\ worker' = Idle
    /\ IF retries[t] <= MaxRetries
        THEN retries' = [retries EXCEPT ![t] = @ + 1] /\ UNCHANGED task
        ELSE task' = [task EXCEPT ![t] = "failed"] /\ UNCHANGED retries

\* self.retry: back to the queue, or failed when the retries are used up.
Retry(t) ==
    /\ worker' = Idle
    /\ IF retries[t] < MaxRetries
        THEN retries' = [retries EXCEPT ![t] = @ + 1] /\ UNCHANGED task
        ELSE task' = [task EXCEPT ![t] = "failed"] /\ UNCHANGED retries

\* The job, the criteria or the key could not be fetched.
FetchFails(t) ==
    /\ worker = Idle /\ task[t] = "waiting"
    /\ Retry(t)
    /\ UNCHANGED <<row, billed, history, workerRest>>

\* The job or the criteria are gone, there is no key, it has no model, or a
\* blocking verdict about the analysis model is recorded.
Skip(t) ==
    /\ worker = Idle /\ task[t] = "waiting"
    /\ End(t, "skipped")
    /\ UNCHANGED <<row, retries, billed, history, workerRest>>

\* get_best_llm_key: the key and model the call will use, and had_error.
Fetch(t) ==
    /\ worker = Idle /\ task[t] = "waiting"
    /\ LET k == ActiveKey(selected) IN
        /\ k # NoKey
        /\ row[k].model # None
        /\ ~(Applies(row[k], row[k].model) /\ row[k].kind \in Blocking)
        /\ worker' = [at |-> "calling", task |-> t, key |-> k, model |-> row[k].model,
                      since |-> Changes,
                      hadError |-> Applies(row[k], row[k].model) \/ row[k].streak > 0]
    /\ billed' = [billed EXCEPT ![t] = @ + 1]
    /\ UNCHANGED <<row, task, retries, history, workerRest>>

\* _report_key_status is called next; then the review is posted, or the task ends.
ReportNext(kind, then) ==
    worker' = [at |-> "report", task |-> worker.task, key |-> worker.key,
               model |-> worker.model, since |-> worker.since, kind |-> kind, then |-> then]

\* The answer was scored: the result is posted, after the success is reported
\* when there was something to clear.
CallScores ==
    /\ worker.at = "calling"
    /\ IF worker.hadError
        THEN ReportNext(None, "post")
        ELSE worker' = [at |-> "post", task |-> worker.task]
    /\ UNCHANGED <<row, task, retries, billed, history, workerRest>>

\* The answer was not the JSON asked for: reported, not retried.
CallUnusable ==
    /\ worker.at = "calling"
    /\ ReportNext("unusable_output", "end")
    /\ UNCHANGED <<row, task, retries, billed, history, workerRest>>

\* max_tokens was ours: nothing is recorded.
CallTruncated ==
    /\ worker.at = "calling"
    /\ End(worker.task, "dropped")
    /\ UNCHANGED <<row, retries, billed, history, workerRest>>

\* The provider rejected the key or the model: reported, not retried.
CallRejected ==
    /\ worker.at = "calling"
    /\ \E kind \in {"invalid_model", "invalid_key"} : ReportNext(kind, "end")
    /\ UNCHANGED <<row, task, retries, billed, history, workerRest>>

\* Throttled or not answering: retried; reported when the retries are used up.
CallTransient ==
    /\ worker.at = "calling"
    /\ IF retries[worker.task] < MaxRetries
        THEN Retry(worker.task)
        ELSE /\ \E kind \in Transient : ReportNext(kind, "end")
             /\ UNCHANGED <<task, retries>>
    /\ UNCHANGED <<row, billed, history, workerRest>>

\* After the report, or without it: fire and forget.
AfterReport(t, then) ==
    IF then = "post"
    THEN worker' = [at |-> "post", task |-> t] /\ UNCHANGED task
    ELSE End(t, "dropped")

ReportLost ==
    /\ worker.at = "report"
    /\ AfterReport(worker.task, worker.then)
    /\ UNCHANGED <<row, retries, billed, history, workerRest>>

\* report_llm_key_status loads the key that is active now, 404 without one.
ReportLoad ==
    /\ worker.at = "report"
    /\ LET k == ActiveKey(selected) IN
        /\ k # NoKey
        /\ worker' = [at |-> "flush", task |-> worker.task, key |-> worker.key,
                      model |-> worker.model, since |-> worker.since, kind |-> worker.kind,
                      then |-> worker.then, on |-> k, snap |-> row[k]]
    /\ UNCHANGED <<row, task, retries, billed, history, workerRest>>

\* Whether the flush succeeds or not, the worker goes on.
ReportFlush ==
    /\ worker.at = "flush"
    /\ LET new == Reported(worker.snap, worker.kind) IN
        /\ Flush(worker.on, worker.snap, new)
        /\ Sign(worker.on, worker,
                IF worker.kind = "unusable_output" /\ new.streak < StreakLimit THEN None
                ELSE worker.kind)
    /\ strikes' = [k \in Keys |-> IF k = worker.on /\ worker.kind = "unusable_output"
                                 THEN strikes[k] + 1 ELSE strikes[k]]
    /\ AfterReport(worker.task, worker.then)
    /\ UNCHANGED <<retries, billed, workerRest>>

\* The result reaches the API.
Post ==
    /\ worker.at = "post"
    /\ End(worker.task, "scored")
    /\ UNCHANGED <<row, retries, billed, history, workerRest>>

\* The post failed, or its answer was lost: the whole task is retried.
PostFails ==
    /\ worker.at = "post"
    /\ Retry(worker.task)
    /\ UNCHANGED <<row, billed, history, workerRest>>

\* The worker is killed: its delivery was acknowledged on receipt and is lost.
WorkerKilled ==
    /\ worker # Idle
    /\ End(worker.task, "lost")
    /\ UNCHANGED <<row, retries, billed, history, workerRest>>

-----------------------------------------------------------------------------
(* Foreground calls: get_llm_provider, llm_complete                         *)

callerRest == <<selected, task, retries, billed, worker, edit, edits>>

\* The session keeps the user it loaded, and so the selection of this moment.
CallBegins(c) ==
    /\ caller[c] = Idle
    /\ LET k == ActiveKey(selected) IN
        /\ k # NoKey
        /\ \E m \in {row[k].model, WritingModel(row[k])} \ {None} :
            caller' = [caller EXCEPT ![c] =
                         [at |-> "calling", key |-> k, model |-> m, sel |-> selected,
                          since |-> Changes]]
    /\ UNCHANGED <<row, history, callerRest>>

\* Success, or a failure worth remembering; others leave no trace (CallForgotten).
CallEnds(c) ==
    /\ caller[c].at = "calling"
    /\ \E kind \in {None, "invalid_model", "invalid_key"} \cup Transient :
        LET k == ActiveKey(caller[c].sel) IN
        /\ k # NoKey
        /\ caller' = [caller EXCEPT ![c] =
                        [at |-> "flush", kind |-> kind, key |-> caller[c].key,
                         model |-> caller[c].model, since |-> caller[c].since,
                         on |-> k, snap |-> row[k]]]
    /\ UNCHANGED <<row, history, callerRest>>

CallForgotten(c) ==
    /\ caller[c].at = "calling"
    /\ caller' = [caller EXCEPT ![c] = Idle]
    /\ UNCHANGED <<row, history, callerRest>>

\* _remember, or clear_key_error, with the model the call used.
CallFlush(c) ==
    /\ caller[c].at = "flush"
    /\ LET s == caller[c] IN
        /\ Flush(s.on, s.snap, IF s.kind = None THEN Cleared(s.snap, s.model)
                                                ELSE Record(s.snap, s.kind, s.model))
        /\ Sign(s.on, s, s.kind)
    /\ caller' = [caller EXCEPT ![c] = Idle]
    /\ UNCHANGED <<strikes, callerRest>>

-----------------------------------------------------------------------------
(* The user's settings, one request at a time                               *)

editRest == <<task, retries, billed>>

\* A handler loads the row it will change.
EditLoad(k) ==
    /\ edit = Idle /\ edits < MaxEdits
    /\ \E m, w \in Models \cup {None} : \E op \in {"patch", "upsert"} :
        /\ row[k].there \/ op = "upsert"
        /\ edit' = [at |-> op, on |-> k, model |-> m, writing |-> w, snap |-> row[k]]
    /\ edits' = edits + 1
    /\ UNCHANGED <<row, selected, worker, caller, history, editRest>>

\* The settings record no verdict; saved over one, they may leave half of it.
SignEdit == author' = [author EXCEPT ![edit.on] = Signed(edit.on, FALSE, Crossing)]

\* update_key_model
EditPatch ==
    /\ edit.at = "patch"
    /\ Flush(edit.on, edit.snap, Patched(edit.snap, edit.model, edit.writing))
    /\ SignEdit
    /\ edit' = Idle
    /\ UNCHANGED <<selected, worker, caller, edits, strikes, editRest>>

\* upsert_key: an insert when there was no row.
EditUpsert ==
    /\ edit.at = "upsert"
    /\ IF edit.snap.there
        THEN Flush(edit.on, edit.snap, Upserted(edit.model, edit.writing))
        ELSE row' = [row EXCEPT ![edit.on] = Upserted(edit.model, edit.writing)]
    /\ SignEdit
    /\ edit' = Idle
    /\ UNCHANGED <<selected, worker, caller, edits, strikes, editRest>>

\* delete_key: the flush of a handler that loaded the row fails.
DeleteKey(k) ==
    LET Fails(s) ==
            IF s.at = "flush" /\ s.on = k THEN [s EXCEPT !.on = NoKey] ELSE s
    IN  /\ edit = Idle /\ edits < MaxEdits
        /\ row[k].there
        /\ row' = [row EXCEPT ![k] = AbsentRow]
        /\ worker' = Fails(worker)
        /\ caller' = [c \in Callers |-> Fails(caller[c])]
        /\ author' = [author EXCEPT ![k] = None]
        /\ strikes' = [strikes EXCEPT ![k] = 0]
        /\ edits' = edits + 1
        /\ UNCHANGED <<selected, edit, editRest>>

\* set_active_llm: only a key that has a model can be selected.
Select(k) ==
    /\ edit = Idle /\ edits < MaxEdits
    /\ k # NoKey => row[k].there /\ row[k].model # None
    /\ selected' = k
    /\ edits' = edits + 1
    /\ UNCHANGED <<row, worker, caller, edit, history, editRest>>

-----------------------------------------------------------------------------
WorkerStep ==
    \/ \E t \in Tasks : FetchFails(t) \/ Skip(t) \/ Fetch(t)
    \/ CallScores \/ CallUnusable \/ CallTruncated \/ CallRejected \/ CallTransient
    \/ ReportLost \/ ReportLoad \/ ReportFlush \/ Post \/ PostFails

CallerStep(c) == CallBegins(c) \/ CallEnds(c) \/ CallForgotten(c) \/ CallFlush(c)

EditFlush == EditPatch \/ EditUpsert
Settings == EditFlush \/ \E k \in Keys : EditLoad(k) \/ DeleteKey(k) \/ Select(k)

Next ==
    \/ WorkerStep \/ WorkerKilled
    \/ \E c \in Callers : CallerStep(c)
    \/ Settings \/ Select(NoKey)

Spec == Init /\ [][Next]_vars

-----------------------------------------------------------------------------
TypeOK ==
    /\ row \in [Keys -> Row]
    /\ selected \in Keys \cup {NoKey}
    /\ task \in [Tasks -> {"waiting", "scored", "skipped", "dropped", "failed", "lost"}]
    /\ retries \in [Tasks -> 0..MaxRetries]
    /\ billed \in [Tasks -> Nat]
    /\ edits \in 0..MaxEdits
    /\ author \in [Keys -> Signature \cup {None, Crossing}]
    /\ strikes \in [Keys -> Nat]

\* A recorded verdict is about the key it is recorded on and, where it is about a model,
\* about the one it names: the call it came from was made with them, unless the settings
\* or the row were changed while that call was out, which nothing prevents.  Unusable
\* output is recorded only once UNUSABLE_OUTPUT_STREAK such answers were reported on the
\* row, whatever was changed meanwhile (llm.py:264-275, models.py:122-131 and 146-152).
VerdictEarned ==
    \A k \in Keys : row[k].there /\ row[k].kind # None =>
        /\ author[k] # None
        /\ author[k] # Crossing =>
            /\ author[k].key = k
            /\ row[k].kind \in ModelScoped => author[k].model = row[k].about
        /\ row[k].kind = "unusable_output" => strikes[k] >= StreakLimit

\* The user's key pays for a delivery MaxRetries + 1 times at most, whatever fails.
BilledAtMost == \A t \in Tasks : billed[t] <= MaxRetries + 1

\* The flush of the call s on row k is of a success with the model that the verdict is about,
\* or of one that another change crossed.
Disproves(s, k) ==
    s.at = "flush" /\ s.kind = None /\ s.on = k /\ (Crossed(s) \/ s.model = row[k].about)

\* A verdict about a model survives until the user changes the settings, another verdict
\* takes its place, or a call made with that very model succeeds: scoring well with the
\* analysis model never clears what is known of the writing model.  Only a success that
\* crossed another change may clear more (llm.py:371-387, keys.py:352-357).
VerdictSurvives ==
    [][\A k \in Keys :
        /\ row[k].kind \in ModelScoped /\ row[k].about # None
        /\ row'[k].there /\ row'[k].kind = None
        => edit # edit' \/ Disproves(worker, k) \/ \E c \in Callers : Disproves(caller[c], k)]_vars
=============================================================================
