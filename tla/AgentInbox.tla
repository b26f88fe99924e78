----------------------------- MODULE AgentInbox -----------------------------
(***************************************************************************)
(* What the mail agent writes for a user, and what the user does with it:  *)
(*                                                                         *)
(*   services/tracker-api/app/routers/agent.py  inbox entries, postings,   *)
(*                                              interactions, decisions    *)
(*                                              asked for in Slack         *)
(*   services/tracker-api/app/routers/jobs.py   apply_status_change and    *)
(*                                              the user's own PATCH       *)
(*   services/tracker-api/app/models.py         the rows                   *)
(*                                                                         *)
(* The agent is a program of its own.  It may repeat a request whose       *)
(* answer it lost, and two of its runs may overlap, so any request may     *)
(* come at any time and more than once.  Handlers run in a thread pool:    *)
(* one whose write depends on what it read is two steps, Begin and End.    *)
(* The Slack callback is a coroutine that never awaits between its read    *)
(* and its commit, in a deployment of one process: callbacks exclude each  *)
(* other, not the threads.                                                 *)
(*                                                                         *)
(* An email is named by its user and Message-ID (uq_inbox_user_message);   *)
(* its entry has at most one posting and one interaction here.             *)
(***************************************************************************)
EXTENDS Naturals

CONSTANTS
    Users,
    Reviews,     \* the users' reviews of jobs
    OwnerOf,     \* whose each review is
    Emails,      \* messages, each in one user's mailbox
    MailboxOf,
    Prompts,     \* hitl_ids
    Threads,     \* the thread pool
    MaxActs,     \* bound: requests that are not the agent's answer to a row it made
    None

ASSUME OwnerAssumption == OwnerOf \in [Reviews -> Users] /\ MailboxOf \in [Emails -> Users]
ASSUME BoundAssumption == MaxActs \in Nat

\* _AGENT_WRITABLE_STATUSES; "answered" is interviewing, offer and rejected.
Writable == {"applied", "answered"}
Status == Writable \cup {"new"}

VARIABLES
    review,       \* the reviews: status, and whether date_applied is set
    entry,        \* inbox_emails
    posting,      \* inbox_postings
    interaction,  \* inbox_interactions
    hitl,         \* hitl_decisions
    thread,       \* what each thread is in the middle of
    callback,     \* the Slack callback between its read and its commit
    acts,
    moves         \* history: status changes made by the email of an entry that exists

vars == <<review, entry, posting, interaction, hitl, thread, callback, acts, moves>>

Idle == [at |-> "idle"]

Review == [status : Status, dated : BOOLEAN]
Entry == {"processed", "needs_review", "discarded"}
Posting == [import : {"pending", "imported", "dismissed"},
            match : Reviews \cup {None}, ref : Reviews \cup {None}]
Interaction == [review : Reviews \cup {None}, applied : BOOLEAN]
Decision == [user : Users, status : {"pending", "resolved", "abandoned"},
             choice : Reviews \cup {None}, answered : BOOLEAN, old : BOOLEAN]
ASSUME NoneAssumption ==
    /\ None \notin Reviews \cup Entry
    /\ None \notin Review /\ None \notin Posting /\ None \notin Interaction
    /\ None \notin Decision

Work == {Idle}
        \cup [at : {"record"}, email : Emails, review : Reviews, to : Writable, seen : Review]
        \cup [at : {"patch"}, review : Reviews, to : Status, seen : Review]
        \cup [at : {"skip"}, email : Emails, to : {"pending", "dismissed"},
              seen : {"pending", "dismissed"}]

TypeOK ==
    /\ review \in [Reviews -> Review \cup {None}]
    /\ entry \in [Emails -> Entry \cup {None}]
    /\ posting \in [Emails -> Posting \cup {None}]
    /\ interaction \in [Emails -> Interaction \cup {None}]
    /\ hitl \in [Prompts -> Decision \cup {None}]
    /\ thread \in [Threads -> Work]
    /\ callback \in {Idle} \cup [at : {"store"}, prompt : Prompts, choice : Reviews \cup {None}]
    /\ acts \in 0..MaxActs
    /\ moves \in [Emails -> Nat]

Init ==
    /\ review = [r \in Reviews |-> [status |-> "new", dated |-> FALSE]]
    /\ entry = [m \in Emails |-> None]
    /\ posting = [m \in Emails |-> None]
    /\ interaction = [m \in Emails |-> None]
    /\ hitl = [h \in Prompts |-> None]
    /\ thread = [t \in Threads |-> Idle]
    /\ callback = Idle
    /\ acts = 0
    /\ moves = [m \in Emails |-> 0]

-----------------------------------------------------------------------------
Theirs(u) == {r \in Reviews : review[r] # None /\ OwnerOf[r] = u}

\* A request is accepted; it leaves work for a thread, or is done at once.
Acts == acts < MaxActs /\ acts' = acts + 1
Start(t, work) == thread[t] = Idle /\ thread' = [thread EXCEPT ![t] = work]
Finish(t) == thread' = [thread EXCEPT ![t] = Idle]

\* No transaction holds the key of this email, and none refers to an earlier row of it:
\* an insert of the same key waits for the other to commit, and ids are never reused.
Free(m) == \A t \in Threads : thread[t].at \in {"record", "skip"} => thread[t].email # m

inbox == <<entry, posting, interaction, moves>>

-----------------------------------------------------------------------------
(* Requests of the agent                                                    *)

\* create_inbox_entry, for an email without an entry; with one it answers with the
\* ids that are there.  matched_review_id is taken as it comes.
Ingest(m) ==
    /\ Acts /\ Free(m)
    /\ entry[m] = None
    /\ entry' = [entry EXCEPT ![m] = "processed"]
    /\ \/ \E r \in Reviews \cup {None} :
            /\ r # None => review[r] # None
            /\ posting' = [posting EXCEPT ![m] =
                             [import |-> "pending", match |-> r, ref |-> None]]
       \/ UNCHANGED posting
    /\ UNCHANGED <<review, interaction, hitl, thread, callback, moves>>

\* record_interaction without a match: the entry asks for a human.
RecordUnmatched(m) ==
    /\ Acts /\ Free(m)
    /\ entry[m] = None
    /\ entry' = [entry EXCEPT ![m] = "needs_review"]
    /\ interaction' = [interaction EXCEPT ![m] = [review |-> None, applied |-> FALSE]]
    /\ UNCHANGED <<review, posting, hitl, thread, callback, moves>>

\* Mutant of RecordBegin: no unique key on the email.
RecordBeginAgain(t, m, r, s) ==
    /\ Acts
    /\ r \in Theirs(MailboxOf[m])
    /\ Start(t, [at |-> "record", email |-> m, review |-> r, to |-> s, seen |-> review[r]])
    /\ UNCHANGED <<review, hitl, callback, inbox>>

\* record_interaction with a match: the new entry is flushed, which takes its key,
\* then the review is loaded.
RecordBegin(t, m, r, s) ==
    /\ Acts /\ Free(m)
    /\ entry[m] = None
    /\ r \in Theirs(MailboxOf[m])
    /\ Start(t, [at |-> "record", email |-> m, review |-> r, to |-> s, seen |-> review[r]])
    /\ UNCHANGED <<review, hitl, callback, inbox>>

\* apply_status_change on a review as it was loaded: only changed columns are written.
Applied(row, seen, s) ==
    IF s = seen.status THEN row
    ELSE [status |-> s, dated |-> row.dated \/ (s = "applied" /\ ~seen.dated)]

\* The commit.  A review deleted since makes it fail, and the entry goes too.
RecordEnd(t) ==
    LET w == thread[t] IN
    /\ w.at = "record"
    /\ Finish(t)
    /\ IF review[w.review] = None
        THEN UNCHANGED <<review, inbox>>
        ELSE /\ review' = [review EXCEPT ![w.review] = Applied(@, w.seen, w.to)]
             /\ entry' = [entry EXCEPT ![w.email] = "processed"]
             /\ interaction' = [interaction EXCEPT ![w.email] =
                                  [review |-> w.review, applied |-> TRUE]]
             /\ moves' = [moves EXCEPT ![w.email] =
                            IF w.to = w.seen.status THEN @ ELSE @ + 1]
             /\ UNCHANGED posting
    /\ UNCHANGED <<hitl, callback, acts>>

\* register_hitl: an id that is there already is left as it is.
Register(u, h) ==
    /\ hitl[h] = None
    /\ hitl' = [hitl EXCEPT ![h] = [user |-> u, status |-> "pending", choice |-> None,
                                    answered |-> FALSE, old |-> FALSE]]
    /\ UNCHANGED <<review, thread, callback, acts, inbox>>

\* get_pending_hitl: what waited too long is abandoned, what is resolved is returned.
Poll(u) ==
    /\ hitl' = [h \in Prompts |->
                  IF hitl[h] # None /\ hitl[h].user = u /\ hitl[h].status = "pending"
                       /\ hitl[h].old
                  THEN [hitl[h] EXCEPT !.status = "abandoned"]
                  ELSE hitl[h]]
    /\ UNCHANGED <<review, thread, callback, acts, inbox>>

\* consume_hitl, whatever the status was
Consume(u, h) ==
    /\ hitl[h] # None /\ hitl[h].user = u
    /\ hitl' = [hitl EXCEPT ![h].status = "abandoned"]
    /\ UNCHANGED <<review, thread, callback, acts, inbox>>

-----------------------------------------------------------------------------
(* The user's answer in Slack                                               *)

\* Mutant of CallbackRead: the status of the decision is not asked for.
CallbackReadAny(h, c) ==
    /\ callback = Idle
    /\ hitl[h] # None
    /\ c # None => c \in Theirs(hitl[h].user)
    /\ callback' = [at |-> "store", prompt |-> h, choice |-> c]
    /\ UNCHANGED <<review, hitl, thread, acts, inbox>>

\* Mutant of CallbackRead: any review may be named.
CallbackReadForeign(h, c) ==
    /\ callback = Idle
    /\ hitl[h] # None /\ hitl[h].status = "pending"
    /\ c # None => review[c] # None
    /\ callback' = [at |-> "store", prompt |-> h, choice |-> c]
    /\ UNCHANGED <<review, hitl, thread, acts, inbox>>

\* slack_hitl_callback, delivered once or more: the decision is pending, and the
\* review chosen, if any, is the asked user's own.
CallbackRead(h, c) ==
    /\ callback = Idle
    /\ hitl[h] # None /\ hitl[h].status = "pending"
    /\ c # None => c \in Theirs(hitl[h].user)
    /\ callback' = [at |-> "store", prompt |-> h, choice |-> c]
    /\ UNCHANGED <<review, hitl, thread, acts, inbox>>

Answered(d, c) ==
    [d EXCEPT !.status = "resolved", !.answered = TRUE, !.choice = IF c = None THEN @ ELSE c]

\* Its commit, which overwrites what a poll or a consume has committed since.
CallbackStore ==
    LET h == callback.prompt
        c == callback.choice IN
    /\ callback.at = "store"
    /\ callback' = Idle
    /\ hitl' = IF c # None /\ review[c] = None THEN hitl
               ELSE [hitl EXCEPT ![h] = Answered(@, c)]
    /\ UNCHANGED <<review, thread, acts, inbox>>

\* hitl_abandon_minutes pass.
GrowOld(h) ==
    /\ hitl[h] # None /\ hitl[h].status = "pending"
    /\ hitl' = [hitl EXCEPT ![h].old = TRUE]
    /\ UNCHANGED <<review, thread, callback, acts, inbox>>

-----------------------------------------------------------------------------
(* Requests of the user                                                     *)

\* update_job with a status
PatchBegin(t, r, s) ==
    /\ Acts
    /\ review[r] # None
    /\ Start(t, [at |-> "patch", review |-> r, to |-> s, seen |-> review[r]])
    /\ UNCHANGED <<review, hitl, callback, inbox>>

PatchEnd(t) ==
    LET w == thread[t] IN
    /\ w.at = "patch"
    /\ Finish(t)
    /\ review' = IF review[w.review] = None THEN review
                 ELSE [review EXCEPT ![w.review] = Applied(@, w.seen, w.to)]
    /\ UNCHANGED <<hitl, callback, acts, inbox>>

\* The review of a job is deleted: ON DELETE SET NULL.
DeleteReview(r) ==
    /\ Acts
    /\ review[r] # None
    /\ review' = [review EXCEPT ![r] = None]
    /\ posting' = [m \in Emails |->
                     IF posting[m] = None THEN None
                     ELSE [posting[m] EXCEPT !.match = IF @ = r THEN None ELSE @,
                                             !.ref = IF @ = r THEN None ELSE @]]
    /\ interaction' = [m \in Emails |->
                         IF interaction[m] = None THEN None
                         ELSE [interaction[m] EXCEPT !.review = IF @ = r THEN None ELSE @]]
    /\ hitl' = [h \in Prompts |->
                  IF hitl[h] = None THEN None
                  ELSE [hitl[h] EXCEPT !.choice = IF @ = r THEN None ELSE @]]
    /\ UNCHANGED <<entry, thread, callback, moves>>

\* mark_inbox_posting_imported: the latest save wins.
MarkImported(m, r) ==
    /\ Acts
    /\ posting[m] # None
    /\ r \in Theirs(MailboxOf[m])
    /\ posting' = [posting EXCEPT ![m].import = "imported", ![m].ref = r]
    /\ UNCHANGED <<review, entry, interaction, hitl, thread, callback, moves>>

\* update_inbox_posting: skip a posting, or undo that.
SkipBegin(t, m, to) ==
    /\ Acts
    /\ posting[m] # None /\ posting[m].import # "imported"
    /\ Start(t, [at |-> "skip", email |-> m, to |-> to, seen |-> posting[m].import])
    /\ UNCHANGED <<review, hitl, callback, inbox>>

SkipEnd(t) ==
    LET w == thread[t] IN
    /\ w.at = "skip"
    /\ Finish(t)
    /\ posting' = IF posting[w.email] = None \/ w.to = w.seen THEN posting
                  ELSE [posting EXCEPT ![w.email].import = w.to]
    /\ UNCHANGED <<review, entry, interaction, hitl, callback, acts, moves>>

\* update_inbox_entry
Triage(m, s) ==
    /\ Acts
    /\ entry[m] # None
    /\ entry' = [entry EXCEPT ![m] = s]
    /\ UNCHANGED <<review, posting, interaction, hitl, thread, callback, moves>>

\* delete_inbox_entry, with its posting and interaction
DeleteEntry(m) ==
    /\ Acts
    /\ entry[m] # None
    /\ entry' = [entry EXCEPT ![m] = None]
    /\ posting' = [posting EXCEPT ![m] = None]
    /\ interaction' = [interaction EXCEPT ![m] = None]
    /\ moves' = [moves EXCEPT ![m] = 0]
    /\ UNCHANGED <<review, hitl, thread, callback>>

-----------------------------------------------------------------------------
AgentStep ==
    \/ \E m \in Emails : Ingest(m) \/ RecordUnmatched(m)
    \/ \E t \in Threads, m \in Emails, r \in Reviews, s \in Writable : RecordBegin(t, m, r, s)
    \/ \E t \in Threads : RecordEnd(t)
    \/ \E u \in Users : Poll(u) \/ \E h \in Prompts : Register(u, h) \/ Consume(u, h)

SlackStep ==
    \/ \E h \in Prompts, c \in Reviews \cup {None} : CallbackRead(h, c)
    \/ CallbackStore
    \/ \E h \in Prompts : GrowOld(h)

UserStep ==
    \/ \E t \in Threads, r \in Reviews, s \in Status : PatchBegin(t, r, s)
    \/ \E t \in Threads : PatchEnd(t) \/ SkipEnd(t)
    \/ \E r \in Reviews : DeleteReview(r) \/ \E m \in Emails : MarkImported(m, r)
    \/ \E t \in Threads, m \in Emails, to \in {"pending", "dismissed"} : SkipBegin(t, m, to)
    \/ \E m \in Emails : DeleteEntry(m) \/ \E s \in Entry : Triage(m, s)

Next == AgentStep \/ SlackStep \/ UserStep

Spec == Init /\ [][Next]_vars

-----------------------------------------------------------------------------
\* However often the agent repeats an email, and however its runs overlap, the email
\* changes a status at most once while its entry is there, and then the entry says so
\* (agent.py:1085-1107, models.py:724-726).
OneMove ==
    \A m \in Emails :
        /\ moves[m] <= 1
        /\ moves[m] = 1 => entry[m] # None /\ interaction[m] # None /\ interaction[m].applied

\* What an import, an interaction or an answer points to is there and is the same
\* user's, although it was checked in an earlier statement than it is stored
\* (agent.py:1047-1059, 1215-1228, 1440-1449).
OwnRefs ==
    /\ \A m \in Emails :
        /\ posting[m] # None => posting[m].ref \in Theirs(MailboxOf[m]) \cup {None}
        /\ interaction[m] # None => interaction[m].review \in Theirs(MailboxOf[m]) \cup {None}
    /\ \A h \in Prompts :
        hitl[h] # None => hitl[h].choice \in Theirs(hitl[h].user) \cup {None}

\* A prompt is asked once and answered at most once: see HumanDecision.
PromptState(d) ==
    CASE d.status = "pending" -> "asked"
      [] d.status = "resolved" -> "answered"
      [] d.status = "abandoned" /\ d.answered -> "done"
      [] OTHER -> "given_up"
PromptOf(d) ==
    IF d = None THEN [asker |-> None, state |-> "unasked", choice |-> None]
    ELSE [asker |-> d.user, state |-> PromptState(d), choice |-> d.choice]

Promise == INSTANCE HumanDecision WITH prompt <- [h \in Prompts |-> PromptOf(hitl[h])]
ImplementsPromise == Promise!Spec
=============================================================================
