-------------------------- MODULE AgentInboxProofs --------------------------
(***************************************************************************)
(* Proofs about AgentInbox, for every set of users, reviews, emails,       *)
(* prompts and threads, and every bound: types, OneMove, OwnRefs, and that *)
(* the decisions implement HumanDecision.                                  *)
(***************************************************************************)
EXTENDS AgentInbox, TLAPS

-----------------------------------------------------------------------------
(* The inductive invariant                                                  *)

\* A thread between the insert of an entry and its commit holds the key of the email:
\* no row of it is committed, and no other thread works on one.
KeyHeld ==
    \A t \in Threads : thread[t].at = "record" =>
        /\ entry[thread[t].email] = None
        /\ OwnerOf[thread[t].review] = MailboxOf[thread[t].email]
        /\ \A s \in Threads \ {t} :
             thread[s].at \in {"record", "skip"} => thread[s].email # thread[t].email

\* What belongs to an entry goes with it.
EntryOwns ==
    \A m \in Emails : entry[m] = None =>
        posting[m] = None /\ interaction[m] = None /\ moves[m] = 0

\* Who asked, and what an answer that is under way may find
AnswerAgrees ==
    \A h \in Prompts : hitl[h] # None =>
        /\ hitl[h].status = "pending" => ~hitl[h].answered
        /\ hitl[h].status = "resolved" => hitl[h].answered
        /\ ~hitl[h].answered => hitl[h].choice = None

CallbackFound ==
    callback.at = "store" =>
        /\ hitl[callback.prompt] # None
        /\ ~hitl[callback.prompt].answered
        /\ callback.choice # None => OwnerOf[callback.choice] = hitl[callback.prompt].user

IInv ==
    /\ TypeOK
    /\ KeyHeld /\ EntryOwns /\ OneMove
    /\ OwnRefs
    /\ AnswerAgrees /\ CallbackFound

-----------------------------------------------------------------------------
(* Types                                                                    *)

LEMMA WorkFields ==
  ASSUME NEW w \in Work
  PROVE  /\ w.at \in {"idle", "record", "patch", "skip"}
         /\ w.at = "record" => w.email \in Emails /\ w.review \in Reviews
                               /\ w.to \in Writable /\ w.seen \in Review
         /\ w.at = "patch" => w.review \in Reviews /\ w.to \in Status /\ w.seen \in Review
         /\ w.at = "skip" => w.email \in Emails /\ w.to \in {"pending", "dismissed"}
  BY DEF Work, Idle

LEMMA InitType == ASSUME Init PROVE TypeOK
  BY BoundAssumption DEF Init, TypeOK, Review, Status, Work, Idle

LEMMA AppliedType ==
  ASSUME NEW row \in Review, NEW seen \in Review, NEW s \in Status
  PROVE  Applied(row, seen, s) \in Review
  BY DEF Applied, Review

LEMMA AnsweredType ==
  ASSUME NEW d \in Decision, NEW c \in Reviews \cup {None}
  PROVE  Answered(d, c) \in Decision
  BY DEF Answered, Decision

\* The records the handlers build have the types of their tables.
LEMMA NextType == ASSUME TypeOK, CallbackFound, [Next]_vars PROVE TypeOK'
<1> USE BoundAssumption, OwnerAssumption DEF TypeOK, inbox
<1>1. ASSUME NEW m \in Emails, Ingest(m) PROVE TypeOK'
  <2>1. PICK p \in Posting \cup {None} :
           posting' = [posting EXCEPT ![m] = p]
    BY <1>1 DEF Ingest, Posting
  <2> QED BY <1>1, <2>1 DEF Ingest, Acts, Entry
<1>2. ASSUME NEW m \in Emails, RecordUnmatched(m) PROVE TypeOK'
  <2>1. [review |-> None, applied |-> FALSE] \in Interaction
    BY DEF Interaction
  <2> QED BY <1>2, <2>1 DEF RecordUnmatched, Acts, Entry
<1>3. ASSUME NEW t \in Threads, NEW m \in Emails, NEW r \in Reviews, NEW s \in Writable,
             RecordBegin(t, m, r, s) PROVE TypeOK'
  <2>1. [at |-> "record", email |-> m, review |-> r, to |-> s, seen |-> review[r]] \in Work
    BY <1>3 DEF RecordBegin, Theirs, Work
  <2> QED BY <1>3, <2>1 DEF RecordBegin, Acts, Start
<1>4. ASSUME NEW t \in Threads, RecordEnd(t) PROVE TypeOK'
  <2> DEFINE w == thread[t]
  <2>1. w.review \in Reviews /\ w.email \in Emails /\ w.to \in Status /\ w.seen \in Review
    BY <1>4, WorkFields DEF RecordEnd, Status
  <2>2. thread' \in [Threads -> Work]
    BY <1>4 DEF RecordEnd, Finish, Work
  <2>3. CASE review[w.review] = None
    BY <1>4, <2>2, <2>3 DEF RecordEnd
  <2>4. CASE review[w.review] # None
    <3>1. Applied(review[w.review], w.seen, w.to) \in Review
      BY <2>1, <2>4, AppliedType
    <3>2. [review |-> w.review, applied |-> TRUE] \in Interaction
      BY <2>1 DEF Interaction
    <3>3. moves' \in [Emails -> Nat]
      BY <1>4, <2>1, <2>4 DEF RecordEnd
    <3> QED BY <1>4, <2>1, <2>2, <2>4, <3>1, <3>2, <3>3 DEF RecordEnd, Entry
  <2> QED BY <2>3, <2>4
<1>5. ASSUME NEW u \in Users, NEW h \in Prompts, Register(u, h) PROVE TypeOK'
  <2>1. [user |-> u, status |-> "pending", choice |-> None, answered |-> FALSE,
         old |-> FALSE] \in Decision
    BY DEF Decision
  <2> QED BY <1>5, <2>1 DEF Register
<1>6. ASSUME NEW u \in Users, Poll(u) PROVE TypeOK'
  <2>1. ASSUME NEW h \in Prompts, hitl[h] # None
        PROVE  [hitl[h] EXCEPT !.status = "abandoned"] \in Decision
    BY <2>1 DEF Decision
  <2> QED BY <1>6, <2>1 DEF Poll
<1>7. ASSUME NEW u \in Users, NEW h \in Prompts, Consume(u, h) PROVE TypeOK'
  <2>1. [hitl[h] EXCEPT !.status = "abandoned"] \in Decision
    BY <1>7 DEF Consume, Decision
  <2> QED BY <1>7, <2>1 DEF Consume
<1>8. ASSUME NEW h \in Prompts, NEW c \in Reviews \cup {None}, CallbackRead(h, c) PROVE TypeOK'
  BY <1>8 DEF CallbackRead
<1>9. ASSUME CallbackStore PROVE TypeOK'
  <2> DEFINE h == callback.prompt
             c == callback.choice
  <2>1. h \in Prompts /\ c \in Reviews \cup {None}
    BY <1>9 DEF CallbackStore, Idle
  <2>2. hitl[h] \in Decision
    BY <1>9, <2>1 DEF CallbackStore, CallbackFound
  <2>3. Answered(hitl[h], c) \in Decision
    BY <2>1, <2>2, AnsweredType
  <2> QED BY <1>9, <2>1, <2>3 DEF CallbackStore
<1>10. ASSUME NEW h \in Prompts, GrowOld(h) PROVE TypeOK'
  <2>1. [hitl[h] EXCEPT !.old = TRUE] \in Decision
    BY <1>10 DEF GrowOld, Decision
  <2> QED BY <1>10, <2>1 DEF GrowOld
<1>11. ASSUME NEW t \in Threads, NEW r \in Reviews, NEW s \in Status, PatchBegin(t, r, s)
       PROVE TypeOK'
  <2>1. [at |-> "patch", review |-> r, to |-> s, seen |-> review[r]] \in Work
    BY <1>11 DEF PatchBegin, Work
  <2> QED BY <1>11, <2>1 DEF PatchBegin, Acts, Start
<1>12. ASSUME NEW t \in Threads, PatchEnd(t) PROVE TypeOK'
  <2> DEFINE w == thread[t]
  <2>1. w.review \in Reviews /\ w.to \in Status /\ w.seen \in Review
    BY <1>12, WorkFields DEF PatchEnd
  <2>2. review[w.review] # None => Applied(review[w.review], w.seen, w.to) \in Review
    BY <2>1, AppliedType
  <2> QED BY <1>12, <2>1, <2>2 DEF PatchEnd, Finish, Work
<1>13. ASSUME NEW t \in Threads, NEW m \in Emails, NEW to \in {"pending", "dismissed"},
              SkipBegin(t, m, to) PROVE TypeOK'
  <2>1. posting[m].import \in {"pending", "dismissed"}
    BY <1>13 DEF SkipBegin, Posting
  <2>2. [at |-> "skip", email |-> m, to |-> to, seen |-> posting[m].import] \in Work
    BY <2>1 DEF Work
  <2> QED BY <1>13, <2>2 DEF SkipBegin, Acts, Start
<1>14. ASSUME NEW t \in Threads, SkipEnd(t) PROVE TypeOK'
  <2> DEFINE w == thread[t]
  <2>1. w.email \in Emails /\ w.to \in {"pending", "dismissed"}
    BY <1>14, WorkFields DEF SkipEnd
  <2>2. posting[w.email] # None => [posting[w.email] EXCEPT !.import = w.to] \in Posting
    BY <2>1 DEF Posting
  <2> QED BY <1>14, <2>1, <2>2 DEF SkipEnd, Finish, Work
<1>15. ASSUME NEW r \in Reviews, DeleteReview(r) PROVE TypeOK'
  <2> DEFINE without(x) == IF x = r THEN None ELSE x
  <2>1. posting' \in [Emails -> Posting \cup {None}]
    <3>1. ASSUME NEW p \in Posting
          PROVE  [p EXCEPT !.match = without(@), !.ref = without(@)] \in Posting
      BY DEF Posting
    <3> QED BY <1>15, <3>1 DEF DeleteReview
  <2>2. interaction' \in [Emails -> Interaction \cup {None}]
    <3>1. ASSUME NEW i \in Interaction
          PROVE  [i EXCEPT !.review = without(@)] \in Interaction
      BY DEF Interaction
    <3> QED BY <1>15, <3>1 DEF DeleteReview
  <2>3. hitl' \in [Prompts -> Decision \cup {None}]
    <3>1. ASSUME NEW d \in Decision PROVE [d EXCEPT !.choice = without(@)] \in Decision
      BY DEF Decision
    <3> QED BY <1>15, <3>1 DEF DeleteReview
  <2>4. Acts /\ review' = [review EXCEPT ![r] = None]
    BY <1>15, Zenon DEF DeleteReview
  <2>5. UNCHANGED <<entry, thread, callback, moves>>
    BY <1>15 DEF DeleteReview
  <2> QED BY <2>1, <2>2, <2>3, <2>4, <2>5 DEF Acts
<1>16. ASSUME NEW r \in Reviews, NEW m \in Emails, MarkImported(m, r) PROVE TypeOK'
  <2>1. [posting[m] EXCEPT !.import = "imported", !.ref = r] \in Posting
    BY <1>16 DEF MarkImported, Posting
  <2> QED BY <1>16, <2>1 DEF MarkImported, Acts
<1>17. ASSUME NEW m \in Emails, NEW s \in Entry, Triage(m, s) PROVE TypeOK'
  BY <1>17 DEF Triage, Acts
<1>18. ASSUME NEW m \in Emails, DeleteEntry(m) PROVE TypeOK'
  BY <1>18 DEF DeleteEntry, Acts
<1>19. CASE UNCHANGED vars
  BY <1>19 DEF vars
<1> QED BY <1>1, <1>2, <1>3, <1>4, <1>5, <1>6, <1>7, <1>8, <1>9, <1>10, <1>11, <1>12, <1>13,
           <1>14, <1>15, <1>16, <1>17, <1>18, <1>19
        DEF Next, AgentStep, SlackStep, UserStep

-----------------------------------------------------------------------------
(* The steps                                                                *)

LEMMA InitInv == ASSUME Init PROVE IInv
<1>1. TypeOK
  BY InitType
<1>2. KeyHeld /\ EntryOwns /\ OneMove
  BY DEF Init, Idle, KeyHeld, EntryOwns, OneMove
<1>3. OwnRefs /\ AnswerAgrees /\ CallbackFound
  BY DEF Init, Idle, OwnRefs, AnswerAgrees, CallbackFound
<1> QED BY <1>1, <1>2, <1>3 DEF IInv

\* The key of an email is held, and its row is written, by one thread.
LEMMA KeyNext == ASSUME IInv, [Next]_vars PROVE KeyHeld' /\ EntryOwns' /\ OneMove'
<1> USE DEF IInv, inbox
<1> DEFINE Kept == KeyHeld' /\ EntryOwns' /\ OneMove'
<1>a. TypeOK
  OBVIOUS
<1>b. \A t \in Threads :
        /\ thread[t].at = "record" => thread[t].email \in Emails /\ thread[t].review \in Reviews
        /\ thread[t].at = "skip" => thread[t].email \in Emails
  BY WorkFields DEF TypeOK
<1>1. ASSUME NEW m \in Emails, Ingest(m) PROVE Kept
  <2>1. UNCHANGED <<interaction, thread, moves>> /\ entry' = [entry EXCEPT ![m] = "processed"]
    BY <1>1 DEF Ingest
  <2>2. \A e \in Emails \ {m} : posting'[e] = posting[e]
    BY <1>1, <1>a DEF Ingest, TypeOK
  <2>3. Free(m) /\ entry[m] = None
    BY <1>1 DEF Ingest
  <2>4. KeyHeld'
    BY <1>a, <1>b, <2>1, <2>3 DEF KeyHeld, Free, TypeOK
  <2>5. EntryOwns'
    BY <1>a, <2>1, <2>2, NoneAssumption DEF EntryOwns, TypeOK, Entry
  <2>6. OneMove'
    BY <1>a, <2>1, NoneAssumption DEF OneMove, TypeOK, Entry
  <2> QED BY <2>4, <2>5, <2>6
<1>2. ASSUME NEW m \in Emails, RecordUnmatched(m) PROVE Kept
  <2>1. /\ UNCHANGED <<posting, thread, moves>>
        /\ entry' = [entry EXCEPT ![m] = "needs_review"]
        /\ interaction' = [interaction EXCEPT ![m] = [review |-> None, applied |-> FALSE]]
        /\ Free(m) /\ entry[m] = None
    BY <1>2 DEF RecordUnmatched
  <2>2. KeyHeld'
    BY <1>a, <1>b, <2>1 DEF KeyHeld, Free, TypeOK
  <2>3. EntryOwns'
    BY <1>a, <2>1, NoneAssumption DEF EntryOwns, TypeOK, Entry
  <2>4. moves[m] = 0
    BY <2>1 DEF EntryOwns
  <2>5. OneMove'
    BY <1>a, <2>1, <2>4, NoneAssumption DEF OneMove, TypeOK, Entry
  <2> QED BY <2>2, <2>3, <2>5
<1>3. ASSUME NEW t \in Threads, NEW m \in Emails, NEW r \in Reviews, NEW s \in Writable,
             RecordBegin(t, m, r, s) PROVE Kept
  <2>1. /\ UNCHANGED inbox /\ Free(m) /\ entry[m] = None
        /\ OwnerOf[r] = MailboxOf[m]
        /\ thread' = [thread EXCEPT ![t] = [at |-> "record", email |-> m, review |-> r,
                                            to |-> s, seen |-> review[r]]]
    BY <1>3 DEF RecordBegin, Start, Theirs
  <2>2. KeyHeld'
    BY <1>a, <1>b, <2>1 DEF KeyHeld, Free, TypeOK
  <2> QED BY <2>1, <2>2 DEF EntryOwns, OneMove
<1>4. ASSUME NEW t \in Threads, RecordEnd(t) PROVE Kept
  <2> DEFINE w == thread[t]
  <2>1. w.at = "record" /\ thread' = [thread EXCEPT ![t] = Idle]
    BY <1>4 DEF RecordEnd, Finish
  <2>2. w.email \in Emails /\ entry[w.email] = None /\ moves[w.email] = 0
    BY <1>b, <2>1 DEF KeyHeld, EntryOwns
  <2>3. CASE UNCHANGED inbox
    <3>1. KeyHeld'
      BY <1>a, <1>b, <2>1, <2>3 DEF KeyHeld, TypeOK, Idle
    <3> QED BY <2>3, <3>1 DEF EntryOwns, OneMove
  <2>4. CASE /\ entry' = [entry EXCEPT ![w.email] = "processed"]
             /\ interaction' = [interaction EXCEPT ![w.email] =
                                  [review |-> w.review, applied |-> TRUE]]
             /\ moves' = [moves EXCEPT ![w.email] =
                            IF w.to = w.seen.status THEN @ ELSE @ + 1]
             /\ UNCHANGED posting
    <3>1. KeyHeld'
      BY <1>a, <1>b, <2>1, <2>2, <2>4 DEF KeyHeld, TypeOK, Idle
    <3>2. EntryOwns'
      BY <1>a, <2>2, <2>4, NoneAssumption DEF EntryOwns, TypeOK, Entry
    <3>3. \A m \in Emails \ {w.email} : /\ moves'[m] = moves[m] /\ entry'[m] = entry[m]
                                        /\ interaction'[m] = interaction[m]
      BY <1>a, <2>4 DEF TypeOK
    <3>4. /\ moves'[w.email] <= 1 /\ entry'[w.email] = "processed"
          /\ interaction'[w.email] = [review |-> w.review, applied |-> TRUE]
      BY <1>a, <2>2, <2>4 DEF TypeOK
    <3>5. [review |-> w.review, applied |-> TRUE] \in Interaction
      BY <1>b, <2>1 DEF Interaction
    <3>6. OneMove'
      BY <3>3, <3>4, <3>5, NoneAssumption DEF OneMove, Entry
    <3> QED BY <3>1, <3>2, <3>6
  <2> QED BY <1>4, <2>3, <2>4 DEF RecordEnd
<1>5. ASSUME UNCHANGED <<thread, inbox>> PROVE Kept
  BY <1>5 DEF KeyHeld, EntryOwns, OneMove
<1>6. ASSUME NEW t \in Threads, NEW r \in Reviews, NEW s \in Status, PatchBegin(t, r, s)
      PROVE Kept
  <2>1. KeyHeld'
    BY <1>6, <1>a, <1>b DEF PatchBegin, Start, KeyHeld, TypeOK
  <2> QED BY <1>6, <2>1 DEF PatchBegin, EntryOwns, OneMove
<1>7. ASSUME NEW t \in Threads, PatchEnd(t) PROVE Kept
  <2>1. KeyHeld'
    BY <1>7, <1>a, <1>b DEF PatchEnd, Finish, KeyHeld, TypeOK, Idle
  <2> QED BY <1>7, <2>1 DEF PatchEnd, EntryOwns, OneMove
<1>8. ASSUME NEW t \in Threads, NEW m \in Emails, NEW to \in {"pending", "dismissed"},
             SkipBegin(t, m, to) PROVE Kept
  <2>1. entry[m] # None
    BY <1>8 DEF SkipBegin, EntryOwns
  <2>2. KeyHeld'
    BY <1>8, <1>a, <1>b, <2>1 DEF SkipBegin, Start, KeyHeld, TypeOK
  <2> QED BY <1>8, <2>2 DEF SkipBegin, EntryOwns, OneMove
<1>9. ASSUME NEW t \in Threads, SkipEnd(t) PROVE Kept
  <2>1. KeyHeld'
    BY <1>9, <1>a, <1>b DEF SkipEnd, Finish, KeyHeld, TypeOK, Idle
  <2>2. \A m \in Emails : posting[m] = None => posting'[m] = None
    BY <1>9, <1>a, <1>b DEF SkipEnd, TypeOK
  <2> QED BY <1>9, <2>1, <2>2 DEF SkipEnd, EntryOwns, OneMove
<1>10. ASSUME NEW r \in Reviews, DeleteReview(r) PROVE Kept
  <2>1. UNCHANGED <<entry, thread, moves>>
    BY <1>10 DEF DeleteReview
  <2>2. \A m \in Emails : /\ posting[m] = None => posting'[m] = None
                          /\ interaction[m] = None => interaction'[m] = None
    BY <1>10 DEF DeleteReview
  <2>3. ASSUME NEW m \in Emails, interaction[m] # None, interaction[m].applied
        PROVE  interaction'[m] # None /\ interaction'[m].applied
    <3>1. interaction'[m] = [interaction[m] EXCEPT !.review = IF @ = r THEN None ELSE @]
      BY <1>10, <2>3 DEF DeleteReview
    <3>2. interaction[m] \in Interaction
      BY <1>a, <2>3 DEF TypeOK
    <3>3. interaction'[m] \in Interaction /\ interaction'[m].applied
      BY <2>3, <3>1, <3>2 DEF Interaction
    <3> QED BY <3>3, NoneAssumption
  <2> QED BY <2>1, <2>2, <2>3 DEF KeyHeld, EntryOwns, OneMove
<1>11. ASSUME NEW r \in Reviews, NEW m \in Emails, MarkImported(m, r) PROVE Kept
  <2>1. UNCHANGED <<entry, interaction, thread, moves>> /\ posting[m] # None
    BY <1>11 DEF MarkImported
  <2>2. \A e \in Emails : posting[e] = None => posting'[e] = None
    BY <1>11, <1>a, <2>1 DEF MarkImported, TypeOK
  <2> QED BY <2>1, <2>2 DEF KeyHeld, EntryOwns, OneMove
<1>12. ASSUME NEW m \in Emails, NEW s \in Entry, Triage(m, s) PROVE Kept
  <2>1. /\ UNCHANGED <<posting, interaction, thread, moves>> /\ entry[m] # None
        /\ entry' = [entry EXCEPT ![m] = s]
    BY <1>12 DEF Triage
  <2>2. \A e \in Emails : entry'[e] = None <=> entry[e] = None
    BY <1>a, <2>1, NoneAssumption DEF TypeOK
  <2> QED BY <1>b, <2>1, <2>2 DEF KeyHeld, EntryOwns, OneMove
<1>13. ASSUME NEW m \in Emails, DeleteEntry(m) PROVE Kept
  <2>1. /\ UNCHANGED thread
        /\ entry' = [entry EXCEPT ![m] = None] /\ posting' = [posting EXCEPT ![m] = None]
        /\ interaction' = [interaction EXCEPT ![m] = None] /\ moves' = [moves EXCEPT ![m] = 0]
    BY <1>13 DEF DeleteEntry
  <2>2. KeyHeld'
    BY <1>a, <1>b, <2>1 DEF KeyHeld, TypeOK
  <2> QED BY <1>a, <2>1, <2>2 DEF EntryOwns, OneMove, TypeOK
<1>14. ASSUME NEW u \in Users, NEW h \in Prompts, Register(u, h) \/ Consume(u, h)
       PROVE  Kept
  BY <1>5, <1>14 DEF Register, Consume
<1>15. ASSUME NEW u \in Users, Poll(u) PROVE Kept
  BY <1>5, <1>15 DEF Poll
<1>16. ASSUME NEW h \in Prompts, NEW c \in Reviews \cup {None}, CallbackRead(h, c) PROVE Kept
  BY <1>5, <1>16 DEF CallbackRead
<1>17. ASSUME CallbackStore PROVE Kept
  BY <1>5, <1>17 DEF CallbackStore
<1>18. ASSUME NEW h \in Prompts, GrowOld(h) PROVE Kept
  BY <1>5, <1>18 DEF GrowOld
<1>19. CASE UNCHANGED vars
  BY <1>5, <1>19 DEF vars
<1> QED BY <1>1, <1>2, <1>3, <1>4, <1>6, <1>7, <1>8, <1>9, <1>10, <1>11, <1>12, <1>13,
           <1>14, <1>15, <1>16, <1>17, <1>18, <1>19
        DEF Next, AgentStep, SlackStep, UserStep

\* The user's own reviews, as they were read, are still the user's unless one was deleted.
LEMMA TheirsStay ==
  ASSUME NEW u, \A r \in Reviews : review[r] # None => review'[r] # None
  PROVE  Theirs(u) \subseteq Theirs(u)'
  BY DEF Theirs

LEMMA RefsNext == ASSUME IInv, [Next]_vars PROVE OwnRefs'
<1> USE DEF IInv, inbox
<1>a. TypeOK
  OBVIOUS
<1> DEFINE Refs(p, i) ==
      \A m \in Emails :
        /\ p[m] # None => p[m].ref \in Theirs(MailboxOf[m]) \cup {None}
        /\ i[m] # None => i[m].review \in Theirs(MailboxOf[m]) \cup {None}
           Choices(d) ==
      \A h \in Prompts : d[h] # None => d[h].choice \in Theirs(d[h].user) \cup {None}
<1>b. Refs(posting, interaction) /\ Choices(hitl)
  BY DEF OwnRefs
\* What is left to show of a step that deletes no review
<1>c. ASSUME \A r \in Reviews : review[r] # None => review'[r] # None,
             Refs(posting', interaction'), Choices(hitl')
      PROVE  OwnRefs'
  BY <1>c, TheirsStay DEF OwnRefs
<1>d. ASSUME UNCHANGED <<review, posting, interaction, hitl>> PROVE OwnRefs'
  BY <1>d DEF OwnRefs, Theirs
<1>1. ASSUME NEW m \in Emails, Ingest(m) PROVE OwnRefs'
  <2>1. Refs(posting', interaction')
    <3>1. CASE UNCHANGED posting
      BY <1>1, <1>b, <3>1 DEF Ingest
    <3>2. CASE \E r \in Reviews \cup {None} :
                 posting' = [posting EXCEPT ![m] =
                               [import |-> "pending", match |-> r, ref |-> None]]
      BY <1>1, <1>a, <1>b, <3>2 DEF Ingest, TypeOK
    <3> QED BY <1>1, <3>1, <3>2 DEF Ingest
  <2> QED BY <1>1, <1>b, <1>c, <2>1 DEF Ingest
<1>2. ASSUME NEW m \in Emails, RecordUnmatched(m) PROVE OwnRefs'
  <2>1. Refs(posting', interaction')
    BY <1>2, <1>a, <1>b DEF RecordUnmatched, TypeOK
  <2> QED BY <1>2, <1>b, <1>c, <2>1 DEF RecordUnmatched
<1>3. ASSUME NEW t \in Threads, NEW m \in Emails, NEW r \in Reviews, NEW s \in Writable,
             RecordBegin(t, m, r, s) PROVE OwnRefs'
  BY <1>3, <1>d DEF RecordBegin
<1>4. ASSUME NEW t \in Threads, RecordEnd(t) PROVE OwnRefs'
  <2> DEFINE w == thread[t]
  <2>1. /\ w.email \in Emails /\ w.review \in Reviews /\ w.to \in Status /\ w.seen \in Review
        /\ OwnerOf[w.review] = MailboxOf[w.email]
    BY <1>4, <1>a, WorkFields DEF RecordEnd, KeyHeld, TypeOK, Status
  <2>2. CASE review[w.review] = None
    BY <1>4, <1>d, <2>2 DEF RecordEnd
  <2>3. CASE review[w.review] # None
    <3>0. Applied(review[w.review], w.seen, w.to) \in Review
      BY <1>a, <2>1, <2>3, AppliedType DEF TypeOK
    <3>1. Applied(review[w.review], w.seen, w.to) # None
      BY <3>0, NoneAssumption
    <3>2. \A r \in Reviews : review[r] # None => review'[r] # None
      BY <1>4, <1>a, <2>1, <2>3, <3>1 DEF RecordEnd, TypeOK
    <3>3. Refs(posting', interaction')
      BY <1>4, <1>a, <1>b, <2>1, <2>3 DEF RecordEnd, TypeOK, Theirs
    <3> QED BY <1>4, <1>b, <1>c, <3>2, <3>3 DEF RecordEnd
  <2> QED BY <2>2, <2>3
<1>5. ASSUME NEW u \in Users, NEW h \in Prompts, Register(u, h) PROVE OwnRefs'
  <2>1. Choices(hitl')
    BY <1>5, <1>a, <1>b DEF Register, TypeOK
  <2> QED BY <1>5, <1>b, <1>c, <2>1 DEF Register
<1>6. ASSUME NEW u \in Users, Poll(u) PROVE OwnRefs'
  <2>1. \A h \in Prompts : hitl'[h] # None =>
          /\ hitl[h] # None /\ hitl'[h].choice = hitl[h].choice
          /\ hitl'[h].user = hitl[h].user
    BY <1>6, <1>a DEF Poll, TypeOK, Decision
  <2> QED BY <1>6, <1>b, <1>c, <2>1 DEF Poll
<1>7. ASSUME NEW u \in Users, NEW h \in Prompts, Consume(u, h) PROVE OwnRefs'
  <2>1. Choices(hitl')
    BY <1>7, <1>a, <1>b DEF Consume, TypeOK, Decision
  <2> QED BY <1>7, <1>b, <1>c, <2>1 DEF Consume
<1>8. ASSUME NEW h \in Prompts, NEW c \in Reviews \cup {None}, CallbackRead(h, c) PROVE OwnRefs'
  BY <1>8, <1>d DEF CallbackRead
<1>9. ASSUME CallbackStore PROVE OwnRefs'
  <2> DEFINE h == callback.prompt
             c == callback.choice
  <2>1. /\ h \in Prompts /\ c \in Reviews \cup {None} /\ hitl[h] \in Decision
        /\ c # None => OwnerOf[c] = hitl[h].user
    BY <1>9, <1>a DEF CallbackStore, CallbackFound, TypeOK, Idle
  <2>2. CASE hitl' = hitl
    BY <1>9, <1>d, <2>2 DEF CallbackStore
  <2>3. CASE hitl' = [hitl EXCEPT ![h] = Answered(@, c)] /\ (c # None => review[c] # None)
    <3>1. /\ Answered(hitl[h], c).user = hitl[h].user
          /\ Answered(hitl[h], c).choice = IF c = None THEN hitl[h].choice ELSE c
      BY <2>1 DEF Answered, Decision
    <3>2. hitl[h] # None /\ (c # None => c \in Theirs(hitl[h].user))
      BY <2>1, <2>3, NoneAssumption DEF Theirs
    <3>3. Answered(hitl[h], c).choice \in Theirs(hitl[h].user) \cup {None}
      BY <1>b, <2>1, <3>1, <3>2
    <3>4. hitl'[h] = Answered(hitl[h], c) /\ \A k \in Prompts \ {h} : hitl'[k] = hitl[k]
      BY <1>a, <2>1, <2>3 DEF TypeOK
    <3>5. Choices(hitl')
      BY <1>b, <3>1, <3>3, <3>4
    <3> QED BY <1>9, <1>b, <1>c, <3>5 DEF CallbackStore
  <2> QED BY <1>9, <2>1, <2>2, <2>3 DEF CallbackStore
<1>10. ASSUME NEW h \in Prompts, GrowOld(h) PROVE OwnRefs'
  <2>1. Choices(hitl')
    BY <1>10, <1>a, <1>b DEF GrowOld, TypeOK, Decision
  <2> QED BY <1>10, <1>b, <1>c, <2>1 DEF GrowOld
<1>11. ASSUME NEW t \in Threads, NEW r \in Reviews, NEW s \in Status, PatchBegin(t, r, s)
       PROVE OwnRefs'
  BY <1>11, <1>d DEF PatchBegin
<1>12. ASSUME NEW t \in Threads, PatchEnd(t) PROVE OwnRefs'
  <2> DEFINE w == thread[t]
  <2>1. w.review \in Reviews /\ w.to \in Status /\ w.seen \in Review
    BY <1>12, <1>a, WorkFields DEF PatchEnd, TypeOK
  <2>0. review[w.review] # None => Applied(review[w.review], w.seen, w.to) \in Review
    BY <1>a, <2>1, AppliedType DEF TypeOK
  <2>2. review[w.review] # None => Applied(review[w.review], w.seen, w.to) # None
    BY <2>0, NoneAssumption
  <2>3. \A r \in Reviews : review[r] # None => review'[r] # None
    BY <1>12, <1>a, <2>1, <2>2 DEF PatchEnd, TypeOK
  <2> QED BY <1>12, <1>b, <1>c, <2>3 DEF PatchEnd
<1>13. ASSUME NEW t \in Threads, NEW m \in Emails, NEW to \in {"pending", "dismissed"},
              SkipBegin(t, m, to) PROVE OwnRefs'
  BY <1>13, <1>d DEF SkipBegin
<1>14. ASSUME NEW t \in Threads, SkipEnd(t) PROVE OwnRefs'
  <2>1. thread[t].email \in Emails
    BY <1>14, <1>a, WorkFields DEF SkipEnd, TypeOK
  <2>2. \A m \in Emails : posting'[m] # None =>
          posting[m] # None /\ posting'[m].ref = posting[m].ref
    BY <1>14, <1>a, <2>1 DEF SkipEnd, TypeOK, Posting
  <2> QED BY <1>14, <1>b, <1>c, <2>2 DEF SkipEnd
<1>15. ASSUME NEW r \in Reviews, DeleteReview(r) PROVE OwnRefs'
  <2> DEFINE without(x) == IF x = r THEN None ELSE x
  <2>1. \A x \in Reviews \ {r} : review'[x] = review[x]
    BY <1>15, <1>a DEF DeleteReview, TypeOK
  <2>2. ASSUME NEW u, NEW x \in Theirs(u) \cup {None} PROVE without(x) \in Theirs(u)' \cup {None}
    BY <2>1, <2>2 DEF Theirs
  <2>3. ASSUME NEW m \in Emails, posting'[m] # None
        PROVE  posting[m] # None /\ posting'[m].ref = without(posting[m].ref)
    BY <1>15, <1>a, <2>3 DEF DeleteReview, TypeOK, Posting
  <2>4. ASSUME NEW m \in Emails, interaction'[m] # None
        PROVE  interaction[m] # None /\ interaction'[m].review = without(interaction[m].review)
    BY <1>15, <1>a, <2>4 DEF DeleteReview, TypeOK, Interaction
  <2>5. ASSUME NEW h \in Prompts, hitl'[h] # None
        PROVE  /\ hitl[h] # None /\ hitl'[h].choice = without(hitl[h].choice)
               /\ hitl'[h].user = hitl[h].user
    BY <1>15, <1>a, <2>5 DEF DeleteReview, TypeOK, Decision
  <2> HIDE DEF without
  <2> QED BY <1>b, <2>2, <2>3, <2>4, <2>5 DEF OwnRefs
<1>16. ASSUME NEW r \in Reviews, NEW m \in Emails, MarkImported(m, r) PROVE OwnRefs'
  <2>1. /\ posting' = [posting EXCEPT ![m].import = "imported", ![m].ref = r]
        /\ posting[m] # None /\ r \in Theirs(MailboxOf[m])
        /\ UNCHANGED <<review, interaction, hitl>>
    BY <1>16 DEF MarkImported
  <2>2. posting'[m].ref = r /\ \A e \in Emails \ {m} : posting'[e] = posting[e]
    BY <1>a, <2>1 DEF TypeOK, Posting
  <2>3. Refs(posting', interaction')
    BY <1>b, <2>1, <2>2
  <2> QED BY <1>b, <1>c, <2>1, <2>3
<1>17. ASSUME NEW m \in Emails, NEW s \in Entry, Triage(m, s) PROVE OwnRefs'
  BY <1>17, <1>d DEF Triage
<1>18. ASSUME NEW m \in Emails, DeleteEntry(m) PROVE OwnRefs'
  <2>1. Refs(posting', interaction')
    BY <1>18, <1>a, <1>b DEF DeleteEntry, TypeOK
  <2> QED BY <1>18, <1>b, <1>c, <2>1 DEF DeleteEntry
<1>19. CASE UNCHANGED vars
  BY <1>d, <1>19 DEF vars
<1> QED BY <1>1, <1>2, <1>3, <1>4, <1>5, <1>6, <1>7, <1>8, <1>9, <1>10, <1>11, <1>12, <1>13,
           <1>14, <1>15, <1>16, <1>17, <1>18, <1>19
        DEF Next, AgentStep, SlackStep, UserStep

LEMMA AnswerNext == ASSUME IInv, [Next]_vars PROVE AnswerAgrees' /\ CallbackFound'
<1>a. TypeOK /\ AnswerAgrees /\ CallbackFound
  BY DEF IInv
<1> DEFINE Agrees(d) == /\ d.status = "pending" => ~d.answered
                        /\ d.status = "resolved" => d.answered
                        /\ ~d.answered => d.choice = None
           Same(d, e) == d # None => e # None /\ e.user = d.user /\ e.answered = d.answered
           Kept == AnswerAgrees' /\ CallbackFound'
<1>b. ASSUME \A h \in Prompts : Same(hitl[h], hitl'[h]), UNCHANGED callback PROVE CallbackFound'
  <2>1. callback.at = "store" => callback.prompt \in Prompts
    BY <1>a DEF TypeOK, Idle
  <2> QED BY <1>a, <1>b, <2>1 DEF CallbackFound
<1>c. ASSUME \A h \in Prompts : hitl'[h] # None => Agrees(hitl'[h]) PROVE AnswerAgrees'
  BY <1>c DEF AnswerAgrees
<1>d. \A h \in Prompts : hitl[h] # None => Agrees(hitl[h]) /\ hitl[h] \in Decision
  BY <1>a DEF AnswerAgrees, TypeOK
<1>e. ASSUME UNCHANGED <<hitl, callback>> PROVE Kept
  BY <1>a, <1>e DEF AnswerAgrees, CallbackFound
<1>1. ASSUME NEW u \in Users, NEW h \in Prompts, Register(u, h) PROVE Kept
  <2> DEFINE d == [user |-> u, status |-> "pending", choice |-> None, answered |-> FALSE,
                   old |-> FALSE]
  <2>1. hitl'[h] = d /\ \A k \in Prompts \ {h} : hitl'[k] = hitl[k]
    BY <1>1, <1>a DEF Register, TypeOK
  <2>2. Agrees(d)
    OBVIOUS
  <2>3. hitl[h] = None /\ UNCHANGED callback
    BY <1>1 DEF Register
  <2> HIDE DEF d
  <2> QED BY <1>b, <1>c, <1>d, <2>1, <2>2, <2>3
<1>2. ASSUME NEW u \in Users, Poll(u) PROVE Kept
  <2>1. \A h \in Prompts : hitl[h] # None => [hitl[h] EXCEPT !.status = "abandoned"] \in Decision
    BY <1>d DEF Decision
  <2>2. ASSUME NEW h \in Prompts, hitl[h] # None
        PROVE  hitl'[h] # None /\ Same(hitl[h], hitl'[h]) /\ Agrees(hitl'[h])
    <3>1. CASE hitl'[h] = hitl[h]
      BY <1>d, <2>2, <3>1
    <3>2. CASE hitl'[h] = [hitl[h] EXCEPT !.status = "abandoned"]
      BY <1>d, <2>1, <2>2, <3>2, NoneAssumption DEF Decision
    <3> QED BY <1>2, <3>1, <3>2 DEF Poll
  <2>3. \A h \in Prompts : hitl[h] = None => hitl'[h] = None
    BY <1>2 DEF Poll
  <2>4. UNCHANGED callback
    BY <1>2 DEF Poll
  <2> QED BY <1>b, <1>c, <2>2, <2>3, <2>4
<1>3. ASSUME NEW u \in Users, NEW h \in Prompts, Consume(u, h) PROVE Kept
  <2> DEFINE d == [hitl[h] EXCEPT !.status = "abandoned"]
  <2>1. d \in Decision /\ d.user = hitl[h].user /\ d.answered = hitl[h].answered
        /\ d.choice = hitl[h].choice /\ d.status = "abandoned"
    BY <1>3, <1>d DEF Consume, Decision
  <2>2. hitl'[h] = d /\ \A k \in Prompts \ {h} : hitl'[k] = hitl[k]
    BY <1>3, <1>a DEF Consume, TypeOK
  <2>3. hitl[h] # None /\ UNCHANGED callback
    BY <1>3 DEF Consume
  <2> HIDE DEF d
  <2> QED BY <1>b, <1>c, <1>d, <2>1, <2>2, <2>3, NoneAssumption
<1>4. ASSUME NEW h \in Prompts, NEW c \in Reviews \cup {None}, CallbackRead(h, c) PROVE Kept
  <2>1. AnswerAgrees'
    BY <1>4, <1>a DEF CallbackRead, AnswerAgrees
  <2>2. hitl[h] # None /\ ~hitl[h].answered
    BY <1>4, <1>d DEF CallbackRead
  <2>3. CallbackFound'
    BY <1>4, <2>2 DEF CallbackRead, CallbackFound, Theirs
  <2> QED BY <2>1, <2>3
<1>5. ASSUME CallbackStore PROVE Kept
  <2> DEFINE h == callback.prompt
             c == callback.choice
  <2>1. h \in Prompts /\ hitl[h] \in Decision
    BY <1>5, <1>a DEF CallbackStore, CallbackFound, TypeOK, Idle
  <2>2. CallbackFound'
    BY <1>5 DEF CallbackStore, CallbackFound, Idle
  <2>3. Agrees(Answered(hitl[h], c))
    BY <2>1 DEF Answered, Decision
  <2>4. hitl' = hitl \/ hitl' = [hitl EXCEPT ![h] = Answered(@, c)]
    BY <1>5 DEF CallbackStore
  <2>5. AnswerAgrees'
    BY <1>a, <1>c, <1>d, <2>1, <2>3, <2>4 DEF TypeOK
  <2> QED BY <2>2, <2>5
<1>6. ASSUME NEW h \in Prompts, GrowOld(h) PROVE Kept
  <2> DEFINE d == [hitl[h] EXCEPT !.old = TRUE]
  <2>1. d \in Decision /\ d.user = hitl[h].user /\ d.answered = hitl[h].answered
        /\ d.choice = hitl[h].choice /\ d.status = hitl[h].status
    BY <1>6, <1>d DEF GrowOld, Decision
  <2>2. hitl'[h] = d /\ \A k \in Prompts \ {h} : hitl'[k] = hitl[k]
    BY <1>6, <1>a DEF GrowOld, TypeOK
  <2>3. hitl[h] # None /\ UNCHANGED callback
    BY <1>6 DEF GrowOld
  <2> HIDE DEF d
  <2> QED BY <1>b, <1>c, <1>d, <2>1, <2>2, <2>3, NoneAssumption
<1>7. ASSUME NEW r \in Reviews, DeleteReview(r) PROVE Kept
  <2> DEFINE d(h) == [hitl[h] EXCEPT !.choice = IF @ = r THEN None ELSE @]
  <2>1. ASSUME NEW h \in Prompts, hitl[h] # None
        PROVE  /\ d(h) \in Decision
               /\ d(h).user = hitl[h].user /\ d(h).answered = hitl[h].answered
               /\ d(h).status = hitl[h].status
               /\ hitl[h].choice = None => d(h).choice = None
    BY <1>d, <2>1 DEF Decision
  <2>2. \A h \in Prompts : hitl'[h] = IF hitl[h] = None THEN None ELSE d(h)
    BY <1>7 DEF DeleteReview
  <2>3. UNCHANGED callback
    BY <1>7 DEF DeleteReview
  <2> HIDE DEF d
  <2> QED BY <1>b, <1>c, <1>d, <2>1, <2>2, <2>3, NoneAssumption
<1>8. ASSUME NEW m \in Emails, Ingest(m) \/ RecordUnmatched(m) \/ DeleteEntry(m) PROVE Kept
  BY <1>8, <1>e DEF Ingest, RecordUnmatched, DeleteEntry
<1>9. ASSUME NEW t \in Threads, NEW m \in Emails, NEW r \in Reviews, NEW s \in Writable,
             RecordBegin(t, m, r, s) PROVE Kept
  BY <1>9, <1>e DEF RecordBegin
<1>10. ASSUME NEW t \in Threads, RecordEnd(t) \/ PatchEnd(t) \/ SkipEnd(t) PROVE Kept
  BY <1>10, <1>e DEF RecordEnd, PatchEnd, SkipEnd
<1>11. ASSUME NEW t \in Threads, NEW r \in Reviews, NEW s \in Status, PatchBegin(t, r, s)
       PROVE Kept
  BY <1>11, <1>e DEF PatchBegin
<1>12. ASSUME NEW t \in Threads, NEW m \in Emails, NEW to \in {"pending", "dismissed"},
              SkipBegin(t, m, to) PROVE Kept
  BY <1>12, <1>e DEF SkipBegin
<1>13. ASSUME NEW r \in Reviews, NEW m \in Emails, MarkImported(m, r) PROVE Kept
  BY <1>13, <1>e DEF MarkImported
<1>14. ASSUME NEW m \in Emails, NEW s \in Entry, Triage(m, s) PROVE Kept
  BY <1>14, <1>e DEF Triage
<1>15. CASE UNCHANGED vars
  BY <1>15, <1>e DEF vars
<1> QED BY <1>1, <1>2, <1>3, <1>4, <1>5, <1>6, <1>7, <1>8, <1>9, <1>10, <1>11, <1>12, <1>13,
           <1>14, <1>15
        DEF Next, AgentStep, SlackStep, UserStep

-----------------------------------------------------------------------------
(* The theorems                                                             *)

THEOREM Invariance == Spec => []IInv
<1>1. Init => IInv
  BY InitInv
<1>2. IInv /\ [Next]_vars => IInv'
  BY NextType, KeyNext, RefsNext, AnswerNext DEF IInv
<1> QED BY <1>1, <1>2, PTL DEF Spec

\* Whatever is requested, and however often, the tables keep their types.
THEOREM TypeCorrect == Spec => []TypeOK
  BY Invariance, PTL DEF IInv

\* An email changes a status at most once, for any number of overlapping requests.
THEOREM MovesOnce == Spec => []OneMove
  BY Invariance, PTL DEF IInv

\* References stay within the user's own reviews that exist.
THEOREM RefersToOwn == Spec => []OwnRefs
  BY Invariance, PTL DEF IInv

-----------------------------------------------------------------------------
(* The refinement                                                           *)

Bar == [h \in Prompts |-> PromptOf(hitl[h])]

\* What a row stands for
LEMMA PromptFields ==
  ASSUME NEW d \in Decision
  PROVE  /\ PromptOf(d) = [asker |-> d.user, state |-> PromptOf(d).state, choice |-> d.choice]
         /\ d.status = "pending" => PromptOf(d).state = "asked"
         /\ d.status = "resolved" => PromptOf(d).state = "answered"
         /\ d.status = "abandoned" /\ d.answered => PromptOf(d).state = "done"
         /\ d.status = "abandoned" /\ ~d.answered => PromptOf(d).state = "given_up"
<1>1. d # None /\ d.status \in {"pending", "resolved", "abandoned"}
  BY NoneAssumption DEF Decision
<1>2. PromptOf(d) = [asker |-> d.user, state |-> PromptState(d), choice |-> d.choice]
  BY <1>1 DEF PromptOf
<1>3. /\ d.status = "pending" => PromptState(d) = "asked"
      /\ d.status = "resolved" => PromptState(d) = "answered"
      /\ d.status = "abandoned" /\ d.answered => PromptState(d) = "done"
      /\ d.status = "abandoned" /\ ~d.answered => PromptState(d) = "given_up"
  BY <1>1 DEF PromptState
<1> QED BY <1>2, <1>3

\* Every step asks, answers, gives up, finishes or forgets, or changes no prompt.
LEMMA StepSimulation == ASSUME IInv, [Next]_vars PROVE [Promise!Next]_Bar
<1>a. TypeOK /\ AnswerAgrees /\ CallbackFound
  BY DEF IInv
<1>b. \A h \in Prompts : hitl[h] # None =>
        /\ hitl[h] \in Decision
        /\ hitl[h].status = "pending" => ~hitl[h].answered
        /\ hitl[h].status = "resolved" => hitl[h].answered
  BY <1>a DEF AnswerAgrees, TypeOK
<1>c. PromptOf(None) = [asker |-> None, state |-> "unasked", choice |-> None]
  BY DEF PromptOf
<1>d. ASSUME UNCHANGED hitl PROVE UNCHANGED Bar
  BY <1>d DEF Bar
<1>1. ASSUME NEW u \in Users, NEW h \in Prompts, Register(u, h) PROVE Promise!Next
  <2> DEFINE d == [user |-> u, status |-> "pending", choice |-> None, answered |-> FALSE,
                   old |-> FALSE]
  <2>1. d \in Decision /\ d.user = u /\ d.status = "pending" /\ d.choice = None
    BY DEF Decision
  <2>2. hitl' = [hitl EXCEPT ![h] = d] /\ hitl[h] = None
    BY <1>1 DEF Register
  <2> HIDE DEF d
  <2>3. PromptOf(d) = [asker |-> u, state |-> "asked", choice |-> None]
    BY <2>1, PromptFields
  <2>4. Bar' = [Bar EXCEPT ![h] = PromptOf(d)]
    BY <1>a, <2>2 DEF Bar, TypeOK
  <2>5. Promise!Ask(h, u)
    BY <1>c, <2>2, <2>3, <2>4 DEF Promise!Ask, Bar
  <2> QED BY <2>5 DEF Promise!Next
<1>2. ASSUME NEW u \in Users, Poll(u) PROVE Promise!Next
  <2> DEFINE H == {h \in Prompts : /\ hitl[h] # None /\ hitl[h].user = u
                                   /\ hitl[h].status = "pending" /\ hitl[h].old}
             d(h) == [hitl[h] EXCEPT !.status = "abandoned"]
  <2>1. \A h \in H : /\ d(h) \in Decision /\ d(h).user = hitl[h].user
                     /\ d(h).choice = hitl[h].choice
                     /\ d(h).status = "abandoned" /\ ~d(h).answered
    BY <1>b DEF Decision
  <2>2. \A h \in Prompts : hitl'[h] = IF h \in H THEN d(h) ELSE hitl[h]
    BY <1>2 DEF Poll
  <2>3. \A h \in H : PromptOf(hitl[h]).state = "asked"
    BY <1>b, PromptFields
  <2>4. ASSUME NEW h \in H PROVE PromptOf(d(h)) = [PromptOf(hitl[h]) EXCEPT !.state = "given_up"]
    <3>1. PromptOf(hitl[h]) =
            [asker |-> hitl[h].user, state |-> PromptOf(hitl[h]).state, choice |-> hitl[h].choice]
      BY <1>b, PromptFields
    <3> HIDE DEF d
    <3>2. PromptOf(d(h)) = [asker |-> d(h).user, state |-> "given_up", choice |-> d(h).choice]
      BY <2>1, PromptFields
    <3> QED BY <2>1, <3>1, <3>2
  <2> HIDE DEF H, d
  <2>5. Promise!GiveUp(H)
    <3>1. H \subseteq Prompts
      BY DEF H
    <3> QED BY <2>2, <2>3, <2>4, <3>1 DEF Promise!GiveUp, Bar
  <2>6. H \in SUBSET Prompts
    BY DEF H
  <2> QED BY <2>5, <2>6 DEF Promise!Next
<1>3. ASSUME NEW u \in Users, NEW h \in Prompts, Consume(u, h) PROVE Promise!Next \/ UNCHANGED Bar
  <2> DEFINE d == [hitl[h] EXCEPT !.status = "abandoned"]
  <2>1. hitl[h] \in Decision /\ hitl' = [hitl EXCEPT ![h] = d]
    BY <1>3, <1>b DEF Consume
  <2>2. /\ d \in Decision /\ d.user = hitl[h].user /\ d.answered = hitl[h].answered
        /\ d.choice = hitl[h].choice /\ d.status = "abandoned"
    BY <2>1 DEF Decision
  <2>3. PromptOf(hitl[h]) =
          [asker |-> hitl[h].user, state |-> PromptOf(hitl[h]).state, choice |-> hitl[h].choice]
    BY <2>1, PromptFields
  <2>4. hitl[h].status = "abandoned" => d = hitl[h]
    BY <2>1 DEF Decision
  <2> HIDE DEF d
  <2>5. PromptOf(d) = [asker |-> hitl[h].user, state |-> PromptOf(d).state,
                       choice |-> hitl[h].choice]
    BY <2>2, PromptFields
  <2>6. Bar' = [Bar EXCEPT ![h] = PromptOf(d)]
    BY <1>a, <2>1 DEF Bar, TypeOK
  <2>7. CASE hitl[h].status = "pending"
    <3>1. PromptOf(hitl[h]).state = "asked" /\ PromptOf(d).state = "given_up"
      BY <1>b, <2>1, <2>2, <2>7, NoneAssumption, PromptFields
    <3>2. PromptOf(d) = [PromptOf(hitl[h]) EXCEPT !.state = "given_up"]
      BY <2>3, <2>5, <3>1
    <3>3. Promise!GiveUp({h})
      BY <2>6, <3>1, <3>2 DEF Promise!GiveUp, Bar
    <3> QED BY <3>3 DEF Promise!Next
  <2>8. CASE hitl[h].status = "resolved"
    <3>1. PromptOf(hitl[h]).state = "answered" /\ PromptOf(d).state = "done"
      BY <1>b, <2>1, <2>2, <2>8, NoneAssumption, PromptFields
    <3>2. PromptOf(d) = [PromptOf(hitl[h]) EXCEPT !.state = "done"]
      BY <2>3, <2>5, <3>1
    <3>3. Promise!Finish(h)
      BY <2>6, <3>1, <3>2 DEF Promise!Finish, Bar
    <3> QED BY <3>3 DEF Promise!Next
  <2>9. CASE hitl[h].status = "abandoned"
    BY <1>a, <1>d, <2>1, <2>4, <2>9 DEF TypeOK
  <2> QED BY <2>1, <2>7, <2>8, <2>9 DEF Decision
<1>4. ASSUME CallbackStore PROVE Promise!Next \/ UNCHANGED Bar
  <2> DEFINE h == callback.prompt
             c == callback.choice
             d == Answered(hitl[h], c)
  <2>1. h \in Prompts /\ c \in Reviews \cup {None} /\ hitl[h] \in Decision /\ ~hitl[h].answered
    BY <1>4, <1>a DEF CallbackStore, CallbackFound, TypeOK, Idle
  <2>2. CASE hitl' = hitl
    BY <1>d, <2>2
  <2>3. CASE hitl' = [hitl EXCEPT ![h] = d]
    <3>1. hitl[h].choice = None
      BY <1>a, <2>1, NoneAssumption DEF AnswerAgrees
    <3>2. d \in Decision /\ d.status = "resolved" /\ d.user = hitl[h].user /\ d.choice = c
      BY <2>1, <3>1 DEF Answered, Decision
    <3> HIDE DEF h, c, d
    <3>3. PromptOf(d) = [asker |-> hitl[h].user, state |-> "answered", choice |-> c]
      BY <3>2, PromptFields
    <3>4. /\ PromptOf(hitl[h]).state \in {"asked", "given_up"}
          /\ PromptOf(hitl[h]) = [asker |-> hitl[h].user, state |-> PromptOf(hitl[h]).state,
                                  choice |-> hitl[h].choice]
      <4>1. hitl[h].status \in {"pending", "abandoned"}
        BY <1>b, <2>1, NoneAssumption DEF Decision
      <4> QED BY <2>1, <4>1, PromptFields
    <3>5. PromptOf(d) = [asker |-> PromptOf(hitl[h]).asker, state |-> "answered", choice |-> c]
      BY <3>3, <3>4
    <3>6. Bar' = [Bar EXCEPT ![h] = PromptOf(d)]
      BY <1>a, <2>1, <2>3 DEF Bar, TypeOK
    <3>7. Promise!Answer(h, c)
      BY <2>1, <3>4, <3>5, <3>6 DEF Promise!Answer, Bar
    <3> QED BY <2>1, <3>7 DEF Promise!Next
  <2> QED BY <1>4, <2>2, <2>3 DEF CallbackStore
<1>5. ASSUME NEW h \in Prompts, GrowOld(h) PROVE UNCHANGED Bar
  <2> DEFINE d == [hitl[h] EXCEPT !.old = TRUE]
  <2>1. hitl[h] \in Decision /\ hitl' = [hitl EXCEPT ![h] = d]
    BY <1>5, <1>b DEF GrowOld
  <2>2. /\ d \in Decision /\ d.user = hitl[h].user /\ d.status = "pending"
        /\ hitl[h].status = "pending" /\ d.choice = hitl[h].choice
    BY <1>5, <2>1 DEF GrowOld, Decision
  <2> HIDE DEF d
  <2>3. PromptOf(d) = PromptOf(hitl[h])
    BY <2>1, <2>2, PromptFields
  <2> QED BY <1>a, <2>1, <2>3 DEF Bar, TypeOK
<1>6. ASSUME NEW r \in Reviews, DeleteReview(r) PROVE Promise!Next
  <2> DEFINE d(h) == [hitl[h] EXCEPT !.choice = IF @ = r THEN None ELSE @]
  <2>1. \A h \in Prompts : hitl'[h] = IF hitl[h] = None THEN None ELSE d(h)
    BY <1>6 DEF DeleteReview
  <2>2. ASSUME NEW h \in Prompts, hitl[h] # None
        PROVE  /\ d(h) \in Decision /\ d(h).user = hitl[h].user
               /\ d(h).status = hitl[h].status /\ d(h).answered = hitl[h].answered
               /\ d(h).choice = IF hitl[h].choice = r THEN None ELSE hitl[h].choice
    BY <1>b, <2>2 DEF Decision
  <2> HIDE DEF d
  <2>3. ASSUME NEW h \in Prompts
        PROVE  PromptOf(hitl'[h]) = IF PromptOf(hitl[h]).choice = r
                                    THEN [PromptOf(hitl[h]) EXCEPT !.choice = None]
                                    ELSE PromptOf(hitl[h])
    <3>1. CASE hitl[h] = None
      BY <1>c, <2>1, <3>1, NoneAssumption
    <3>2. CASE hitl[h] # None
      <4>1. hitl[h].status \in {"pending", "resolved", "abandoned"} /\ hitl[h].answered \in BOOLEAN
        BY <1>b, <3>2 DEF Decision
      <4>2. PromptOf(d(h)).state = PromptOf(hitl[h]).state
        BY <1>b, <2>2, <3>2, <4>1, PromptFields
      <4>3. PromptOf(hitl[h]) = [asker |-> hitl[h].user, state |-> PromptOf(hitl[h]).state,
                                 choice |-> hitl[h].choice]
        BY <1>b, <3>2, PromptFields
      <4>4. PromptOf(d(h)) = [asker |-> hitl[h].user, state |-> PromptOf(hitl[h]).state,
                              choice |-> d(h).choice]
        BY <2>2, <3>2, <4>2, PromptFields
      <4> QED BY <2>1, <2>2, <3>2, <4>3, <4>4
    <3> QED BY <3>1, <3>2
  <2>4. Promise!Forget(r)
    BY <2>3 DEF Promise!Forget, Bar
  <2> QED BY <2>4 DEF Promise!Next
<1>7. ASSUME NEW m \in Emails, Ingest(m) \/ RecordUnmatched(m) \/ DeleteEntry(m)
      PROVE  UNCHANGED Bar
  BY <1>7, <1>d DEF Ingest, RecordUnmatched, DeleteEntry
<1>8. ASSUME NEW t \in Threads, NEW m \in Emails, NEW r \in Reviews, NEW s \in Writable,
             RecordBegin(t, m, r, s) PROVE UNCHANGED Bar
  BY <1>8, <1>d DEF RecordBegin
<1>9. ASSUME NEW t \in Threads, RecordEnd(t) \/ PatchEnd(t) \/ SkipEnd(t) PROVE UNCHANGED Bar
  BY <1>9, <1>d DEF RecordEnd, PatchEnd, SkipEnd
<1>10. ASSUME NEW t \in Threads, NEW r \in Reviews, NEW s \in Status, PatchBegin(t, r, s)
       PROVE UNCHANGED Bar
  BY <1>10, <1>d DEF PatchBegin
<1>11. ASSUME NEW t \in Threads, NEW m \in Emails, NEW to \in {"pending", "dismissed"},
              SkipBegin(t, m, to) PROVE UNCHANGED Bar
  BY <1>11, <1>d DEF SkipBegin
<1>12. ASSUME NEW r \in Reviews, NEW m \in Emails, MarkImported(m, r) PROVE UNCHANGED Bar
  BY <1>12, <1>d DEF MarkImported
<1>13. ASSUME NEW m \in Emails, NEW s \in Entry, Triage(m, s) PROVE UNCHANGED Bar
  BY <1>13, <1>d DEF Triage
<1>14. ASSUME NEW h \in Prompts, NEW c \in Reviews \cup {None}, CallbackRead(h, c)
       PROVE  UNCHANGED Bar
  BY <1>14, <1>d DEF CallbackRead
<1>15. CASE UNCHANGED vars
  BY <1>15, <1>d DEF vars
<1> QED BY <1>1, <1>2, <1>3, <1>4, <1>5, <1>6, <1>7, <1>8, <1>9, <1>10, <1>11, <1>12, <1>13,
           <1>14, <1>15
        DEF Next, AgentStep, SlackStep, UserStep

\* The rows of hitl_decisions keep what HumanDecision promises the agent.
THEOREM KeepsPromise == Spec => ImplementsPromise
<1>1. Init => Promise!Init
  BY DEF Init, Promise!Init, PromptOf
<1>2. IInv /\ [Next]_vars => [Promise!Next]_Bar
  BY StepSimulation
<1> QED BY <1>1, <1>2, Invariance, PTL DEF Spec, ImplementsPromise, Promise!Spec, Bar

=============================================================================
