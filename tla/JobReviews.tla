----------------------------- MODULE JobReviews -----------------------------
(***************************************************************************)
(* The shared job pool and each user's reviews of it:                      *)
(*                                                                         *)
(*   services/tracker-api/app/routers/jobs.py   scraper, user and worker   *)
(*                                              endpoints                  *)
(*   services/tracker-api/app/routers/admin.py  the nightly expiry and     *)
(*                                              cleanup                    *)
(*   services/scraper/app/main.py               the runs that call them    *)
(*                                                                         *)
(* A listing seen by the scraper, or imported by a user, becomes a Job row *)
(* shared by all users and a review of it for that user, whose scoring is  *)
(* then enqueued.  Each endpoint is one or more transactions followed by a *)
(* send to the queue.  One that writes what it decided from rows it loaded *)
(* or counted before is two steps, and others may commit in between.       *)
(*                                                                         *)
(* A review is named by its user and job (uq_user_job).  Which of several  *)
(* rows a query's first() returns is left open.  What the worker does with *)
(* a delivery before its result is posted is KeyVerdicts.                  *)
(***************************************************************************)
EXTENDS Naturals, FiniteSets

CONSTANTS
    Users,
    Jobs,         \* ids of Job rows
    Listings,     \* postings out there, each with its id and link
    SourceOf,     \* the source each listing is found at
    RoleOf,       \* match_key of each listing: company, title, city
    Datings,      \* how each listing may be dated when it is scraped
    Aggregators,  \* dedup.AGGREGATOR_SOURCES
    MissLimit,    \* BOARD_MISS_THRESHOLD
    MaxQueue,     \* bound: deliveries waiting for a review
    MaxActs,      \* bound: things the users do
    MaxScrapes,   \* bound: listings the scraper posts
    None

Board == "board"      \* BOARD_SOURCES
Manual == "manual"
Sources == Aggregators \cup {Board, Manual}

ASSUME ListingAssumption ==
    /\ SourceOf \in [Listings -> Aggregators \cup {Board}]
    /\ DOMAIN RoleOf = Listings
ASSUME LimitAssumption ==
    /\ MissLimit \in Nat \ {0} /\ MaxQueue \in Nat /\ MaxActs \in Nat
    /\ MaxScrapes \in Nat
ASSUME SourceAssumption == {Board, Manual} \cap Aggregators = {}

\* "decided": referral_requested, applied, interviewing, offer; "dismissed" is
\* rejected too.
Expirable == {"new", "reviewed"}
Terminal == {"dismissed", "expired"}
Decisions == {"decided", "dismissed"}
Status == Expirable \cup Terminal \cup Decisions

Posted == {"recent", "old", "undated"}       \* against posting_max_age_days

ASSUME DatingAssumption == Datings \in [Listings -> SUBSET Posted]

VARIABLES
    job,       \* the Job rows
    review,    \* each user's review of each job
    queue,     \* deliveries of review_job that wait
    scraper,   \* the create_job in progress
    user,      \* what is left to do of each user's request
    worker,    \* the delivery being scored
    nightly,   \* the orphans the cleanup is about to delete
    acts, scrapes,
    late,      \* history: the reviews inserted after the reviews of their job were counted
    dropped    \* history: the reviews without a score a delivery of which came to nothing

vars == <<job, review, queue, scraper, user, worker, nightly, acts, scrapes, late,
          dropped>>

Idle == [at |-> "idle"]

Row == [ext : Listings \cup {None}, link : Listings, source : Sources,
        role : {RoleOf[l] : l \in Listings}, posted : Posted, missing : 0..MissLimit]
Review == [status : Status, scored : BOOLEAN, starred : BOOLEAN, old : BOOLEAN]

ASSUME NoneAssumption == None \notin Row \cup Review \cup Status

NewReview == [status |-> "new", scored |-> FALSE, starred |-> FALSE, old |-> FALSE]

-----------------------------------------------------------------------------
Here == {j \in Jobs : job[j] # None}
Held(u) == {j \in Jobs : review[<<u, j>>] # None}
Twins(u, role) == {j \in Held(u) : role # None /\ job[j].role = role}

\* A row id nothing refers to: ids are never used twice, their names are.
Unused(j) ==
    /\ job[j] = None
    /\ \A u \in Users : queue[<<u, j>>] = 0 /\ user[u] # [at |-> "drop", job |-> j]
    /\ worker # Idle => worker.job # j
    /\ scraper # Idle => scraper.job # j
    /\ j \notin nightly

\* The UPDATE of a review sets updated_at; setting a column to what it was is none.
Set(u, j, new) ==
    review' = [review EXCEPT ![<<u, j>>] =
                 IF new = review[<<u, j>>] THEN new ELSE [new EXCEPT !.old = FALSE]]

NewRow(l, source, role, posted) ==
    [ext |-> IF source = Manual THEN None ELSE l, link |-> l, source |-> source,
     role |-> role, posted |-> posted, missing |-> 0]

AddRow(j, row) ==
    /\ Unused(j)
    /\ job' = [job EXCEPT ![j] = row]

\* Somebody has found the job without reviews, and is about to delete it.
Counted(j) == j \in nightly \/ \E u \in Users : user[u] = [at |-> "drop", job |-> j]
Insert(u, j) == late' = IF Counted(j) THEN late \cup {<<u, j>>} ELSE late

AddReview(u, j) ==
    /\ review' = [review EXCEPT ![<<u, j>>] = NewReview]
    /\ Insert(u, j)
    /\ dropped' = dropped \ {<<u, j>>}

Enqueue(S) ==
    /\ \A p \in S : queue[p] < MaxQueue
    /\ queue' = [p \in Users \X Jobs |-> IF p \in S THEN queue[p] + 1 ELSE queue[p]]

Drop(u, j) == dropped' = dropped \cup {<<u, j>>}

\* DELETE of reviews
Erase(S) ==
    /\ review' = [p \in Users \X Jobs |-> IF p \in S THEN None ELSE review[p]]
    /\ late' = late \ S
    /\ dropped' = dropped \ S

\* DELETE of rows: their reviews go with them (ON DELETE CASCADE).
DeleteJobs(S) ==
    /\ job' = [j \in Jobs |-> IF j \in S THEN None ELSE job[j]]
    /\ Erase({p \in Users \X Jobs : p[2] \in S})

Init ==
    /\ job = [j \in Jobs |-> None]
    /\ review = [p \in Users \X Jobs |-> None]
    /\ queue = [p \in Users \X Jobs |-> 0]
    /\ scraper = Idle
    /\ user = [u \in Users |-> Idle]
    /\ worker = Idle
    /\ nightly = {}
    /\ acts = 0
    /\ scrapes = 0
    /\ late = {}
    /\ dropped = {}

-----------------------------------------------------------------------------
(* The scraper: one pass at a time                                          *)

scraperRest == <<user, worker, nightly, acts>>
scraperMore == <<scrapes, scraperRest>>

\* What being listed again does to the row, and the status with which a review of it
\* that had expired comes back.
Relisted(row, l, posted) ==
    IF row.source = SourceOf[l]
    THEN [row EXCEPT !.link = l, !.posted = IF posted = "undated" THEN row.posted ELSE posted]
    ELSE row

Revived(r, posted) ==
    IF r.status # "expired" \/ posted = "old" THEN None
    ELSE IF r.scored THEN "reviewed" ELSE "new"

\* _seen_again, for a listing dated posted: the row and the review are loaded.
SeenAgain(u, j, l, posted) ==
    scraper' = [at |-> "seen", user |-> u, job |-> j, listing |-> l, posted |-> posted,
                status |-> Revived(review[<<u, j>>], posted)]

\* What changed of them is written, both or, if what is to change is gone, neither.
SeenFlush ==
    LET w == scraper
        p == <<w.user, w.job>> IN
    /\ w.at = "seen"
    /\ IF job[w.job] = None \/ (w.status # None /\ review[p] = None)
        THEN UNCHANGED <<job, review>>
        ELSE /\ job' = [job EXCEPT ![w.job] = Relisted(@, w.listing, w.posted)]
             /\ IF w.status = None THEN UNCHANGED review
                ELSE review' = [review EXCEPT ![p].status = w.status, ![p].old = FALSE]
    /\ scraper' = Idle
    /\ UNCHANGED <<queue, late, dropped, scraperMore>>

\* create_job: the listing is known, or a twin of it is, or it gets a row.
Scrape(u, l, posted) ==
    LET known == {j \in Here : job[j].ext = l /\ job[j].source = SourceOf[l]}
        mine == known \cap Held(u)
        twins == IF SourceOf[l] \in Aggregators THEN Twins(u, RoleOf[l]) ELSE {}
    IN  /\ scraper = Idle /\ scrapes < MaxScrapes
        /\ scrapes' = scrapes + 1
        /\ \/ \E j \in mine : SeenAgain(u, j, l, posted) /\ UNCHANGED job
           \/ mine = {} /\ \E j \in twins : SeenAgain(u, j, l, posted) /\ UNCHANGED job
           \/ /\ mine = {} /\ twins = {}
              /\ \E j \in Jobs :
                    /\ \/ j \in known /\ UNCHANGED job
                       \/ known = {} /\ AddRow(j, NewRow(l, SourceOf[l], RoleOf[l], posted))
                    /\ scraper' = [at |-> "ensure", user |-> u, job |-> j]
        /\ UNCHANGED <<review, queue, late, dropped, scraperRest>>

\* _ensure_review_for_user, in a transaction of its own: the row may be gone.
Ensure ==
    /\ scraper.at = "ensure"
    /\ IF job[scraper.job] = None \/ review[<<scraper.user, scraper.job>>] # None
        THEN scraper' = Idle /\ UNCHANGED <<review, late, dropped>>
        ELSE /\ AddReview(scraper.user, scraper.job)
             /\ scraper' = [scraper EXCEPT !.at = "send"]
    /\ UNCHANGED <<job, queue, scraperMore>>

ScraperSends ==
    /\ scraper.at = "send"
    /\ Enqueue({<<scraper.user, scraper.job>>})
    /\ scraper' = Idle
    /\ UNCHANGED <<job, review, late, dropped, scraperMore>>

\* The process dies, or the queue refuses, after the commit.
ScraperCut ==
    /\ scraper # Idle
    /\ IF scraper.at = "send" THEN Drop(scraper.user, scraper.job) ELSE UNCHANGED dropped
    /\ scraper' = Idle
    /\ UNCHANGED <<job, review, queue, late, scraperMore>>

\* board_sync: a pass of the scraper read the board and found live on it.
BoardSync(live) ==
    LET held == {j \in Here : job[j].source = Board}
        missed == {j \in held : job[j].ext \notin live}
        struck == {j \in missed : job[j].missing + 1 >= MissLimit}
    IN  /\ scraper = Idle
        /\ job' = [j \in Jobs |->
                     IF j \in struck THEN [job[j] EXCEPT !.missing = MissLimit]
                     ELSE IF j \in missed THEN [job[j] EXCEPT !.missing = @ + 1]
                     ELSE IF j \in held THEN [job[j] EXCEPT !.missing = 0]
                     ELSE job[j]]
        /\ review' = [p \in Users \X Jobs |->
                        IF p[2] \in struck /\ review[p] # None /\ review[p].status \in Expirable
                        THEN [review[p] EXCEPT !.status = "expired", !.old = FALSE]
                        ELSE review[p]]
        /\ UNCHANGED <<queue, scraper, late, dropped, scraperMore>>

-----------------------------------------------------------------------------
(* The user                                                                 *)

userRest == <<scraper, worker, nightly, scrapes>>

Ready(u) == user[u] = Idle /\ acts < MaxActs
Acts == acts' = acts + 1
Sending(u, j) == user' = [user EXCEPT ![u] = [at |-> "send", job |-> j]]

\* create_manual_job: a row with this link is there, and the user has no review
\* of it, or there is none and no twin (or the user wants it apart).
Import(u, l) ==
    LET linked == {j \in Here : job[j].link = l} IN
    /\ Ready(u) /\ Acts
    /\ \/ \E j \in linked \ Held(u) :
            AddReview(u, j) /\ Sending(u, j) /\ UNCHANGED job
       \/ /\ linked = {}
          /\ \E j \in Jobs :
                /\ AddRow(j, NewRow(l, Manual, RoleOf[l], "undated"))
                /\ AddReview(u, j)
                /\ Sending(u, j)
    /\ UNCHANGED <<queue, userRest>>

\* The review of job i moves to job j and becomes new.
Move(u, i, j, new) ==
    /\ review' = [review EXCEPT ![<<u, i>>] = None, ![<<u, j>>] = [new EXCEPT !.old = FALSE]]
    /\ late' = (late \ {<<u, i>>}) \cup IF Counted(j) THEN {<<u, j>>} ELSE {}

\* Mutant of Adopt: the shared row takes the link.
AdoptInPlace(u, l) ==
    /\ Ready(u) /\ Acts
    /\ ~\E j \in Here : job[j].link = l
    /\ \E i \in Twins(u, RoleOf[l]) :
        /\ job[i].source \in Aggregators
        /\ job' = [job EXCEPT ![i].link = l]
    /\ UNCHANGED <<queue, user, userRest, review, late, dropped>>

\* create_manual_job with a twin at an aggregator: _adopt_imported_link moves the
\* review to a row of its own.  Nothing is enqueued.
Adopt(u, l) ==
    /\ Ready(u) /\ Acts
    /\ ~\E j \in Here : job[j].link = l
    /\ \E i \in Twins(u, RoleOf[l]), j \in Jobs :
        /\ job[i].source \in Aggregators
        /\ AddRow(j, NewRow(l, Manual, RoleOf[l], "undated"))
        /\ Move(u, i, j, review[<<u, i>>])
        /\ dropped' = (dropped \ {<<u, i>>}) \cup {<<u, j>>}
    /\ UNCHANGED <<queue, user, userRest>>

\* Mutant of Replace: the moved review is not enqueued again.
ReplaceOnly(u, i, l) ==
    /\ Ready(u) /\ Acts
    /\ i \in Held(u)
    /\ ~\E j \in Here : job[j].link = l
    /\ \E j \in Jobs :
        /\ AddRow(j, NewRow(l, Manual, RoleOf[l], "undated"))
        /\ Move(u, i, j, review[<<u, i>>])
    /\ dropped' = dropped \ {<<u, i>>}
    /\ UNCHANGED <<queue, user, userRest>>

\* _replace_with_import: the user's review of job i moves to the row with this
\* link, made if there is none, and is scored again.
Replace(u, i, l) ==
    LET linked == {j \in Here : job[j].link = l}
        old == review[<<u, i>>]
        key == IF job[i].role # None THEN job[i].role ELSE RoleOf[l]
        new == [old EXCEPT !.status = IF @ = "expired" THEN "new" ELSE @]
    IN  /\ Ready(u) /\ Acts
        /\ i \in Held(u)
        /\ \E j \in Jobs :
            /\ \/ j \in linked \ Held(u) /\ UNCHANGED job
               \/ linked = {} /\ AddRow(j, NewRow(l, Manual, key, "undated"))
            /\ Move(u, i, j, new)
            /\ dropped' = dropped \ {<<u, i>>, <<u, j>>}
            /\ Sending(u, j)
        /\ UNCHANGED <<queue, userRest>>

\* The send after the commit, and a restart or a broker that refuses instead.
UserSends(u) ==
    /\ user[u].at = "send"
    /\ Enqueue({<<u, user[u].job>>})
    /\ user' = [user EXCEPT ![u] = Idle]
    /\ UNCHANGED <<job, review, acts, late, dropped, userRest>>

UserCut(u) ==
    /\ user[u].at = "send"
    /\ Drop(u, user[u].job)
    /\ user' = [user EXCEPT ![u] = Idle]
    /\ UNCHANGED <<job, review, queue, acts, late, userRest>>

\* enqueue_review
EnqueueReview(u) ==
    /\ Ready(u) /\ Acts
    /\ Enqueue({u} \X {j \in Held(u) : review[<<u, j>>].status = "new"})
    /\ UNCHANGED <<job, review, user, late, dropped, userRest>>

\* update_job: a status, or the star.
Patch(u, j) ==
    /\ Ready(u) /\ Acts
    /\ j \in Held(u)
    /\ \/ \E s \in Status : Set(u, j, [review[<<u, j>>] EXCEPT !.status = s])
       \/ Set(u, j, [review[<<u, j>>] EXCEPT !.starred = ~@])
    /\ UNCHANGED <<job, queue, user, late, dropped, userRest>>

\* delete_job: the review, and the count of what remains.
DeleteReview(u, j) ==
    /\ Ready(u) /\ Acts
    /\ j \in Held(u)
    /\ Erase({<<u, j>>})
    /\ user' = IF \A v \in Users \ {u} : review[<<v, j>>] = None
                THEN [user EXCEPT ![u] = [at |-> "drop", job |-> j]] ELSE user
    /\ UNCHANGED <<job, queue, userRest>>

\* The job, when none remained.
DropJob(u) ==
    /\ user[u].at = "drop"
    /\ DeleteJobs({user[u].job})
    /\ user' = [user EXCEPT ![u] = Idle]
    /\ UNCHANGED <<queue, acts, userRest>>

-----------------------------------------------------------------------------
(* The worker                                                               *)

workerRest == <<job, scraper, user, nightly, acts, scrapes, late>>

\* A delivery is taken; its job is gone, and it ends, or it is scored.
Take(u, j) ==
    /\ worker = Idle /\ queue[<<u, j>>] > 0
    /\ queue' = [queue EXCEPT ![<<u, j>>] = @ - 1]
    /\ worker' = IF job[j] = None THEN Idle ELSE [at |-> "scoring", user |-> u, job |-> j]
    /\ UNCHANGED <<review, dropped, workerRest>>

\* It ends without a score: skipped, failed, killed.
GiveUp ==
    /\ worker.at = "scoring"
    /\ LET r == review[<<worker.user, worker.job>>] IN
        IF r # None /\ ~r.scored THEN Drop(worker.user, worker.job) ELSE UNCHANGED dropped
    /\ worker' = Idle
    /\ UNCHANGED <<review, queue, workerRest>>

\* self.retry: back in the queue, or nothing once the retries are used up.
RetryPost == Enqueue({<<worker.user, worker.job>>}) \/ UNCHANGED queue

\* post_ai_review: the review is loaded; 404 without one, and the task is retried
\* or has no retries left.
PostLoad ==
    /\ worker.at = "scoring"
    /\ IF review[<<worker.user, worker.job>>] = None
        THEN worker' = Idle /\ RetryPost
        ELSE /\ worker' = [at |-> "flush", user |-> worker.user, job |-> worker.job,
                           status |-> review[<<worker.user, worker.job>>].status]
             /\ UNCHANGED queue
    /\ UNCHANGED <<review, dropped, workerRest>>

\* Mutant of PostFlush: whatever is scored has been reviewed.
PostFlushAsReviewed ==
    LET r == review[<<worker.user, worker.job>>] IN
    /\ worker.at = "flush"
    /\ IF r = None
        THEN UNCHANGED review
        ELSE review' = [review EXCEPT ![<<worker.user, worker.job>>] =
                          [r EXCEPT !.scored = TRUE, !.status = "reviewed", !.old = FALSE]]
    /\ worker' = Idle
    /\ UNCHANGED <<queue, dropped, workerRest>>

\* What changed of the loaded review is written: the score, and NEW to REVIEWED.
\* A review deleted since fails the flush.
PostFlush ==
    LET r == review[<<worker.user, worker.job>>] IN
    /\ worker.at = "flush"
    /\ IF r = None
        THEN RetryPost /\ UNCHANGED <<review, dropped>>
        ELSE /\ review' = [review EXCEPT ![<<worker.user, worker.job>>] =
                    [r EXCEPT !.scored = TRUE, !.old = FALSE,
                              !.status = IF worker.status = "new" THEN "reviewed"
                                         ELSE r.status]]
             /\ dropped' = dropped \ {<<worker.user, worker.job>>}
             /\ UNCHANGED queue
    /\ worker' = Idle
    /\ UNCHANGED workerRest

-----------------------------------------------------------------------------
(* Time and the nightly tasks                                               *)

nightlyRest == <<queue, scraper, user, worker, acts, scrapes>>

\* A review is left alone past the TTL of its status, if that has one; a posting
\* grows old.
Age ==
    /\ \/ \E u \in Users, j \in Jobs :
            /\ review[<<u, j>>] # None /\ review[<<u, j>>].status \in Expirable \cup Terminal
            /\ review' = [review EXCEPT ![<<u, j>>].old = TRUE]
            /\ UNCHANGED job
       \/ \E j \in Here :
            /\ job[j].posted = "recent"
            /\ job' = [job EXCEPT ![j].posted = "old"]
            /\ UNCHANGED review
    /\ UNCHANGED <<nightly, late, dropped, nightlyRest>>

\* Rule 2 of _do_expire, which spares the sources that are evidence themselves.
Outdated(row) == row.posted = "old" /\ row.source \in Aggregators

\* _do_expire
Expire ==
    /\ review' = [p \in Users \X Jobs |->
                    IF /\ review[p] # None
                       /\ review[p].status \in Expirable /\ ~review[p].starred
                       /\ review[p].old \/ Outdated(job[p[2]])
                    THEN [review[p] EXCEPT !.status = "expired", !.old = FALSE]
                    ELSE review[p]]
    /\ UNCHANGED <<job, nightly, late, dropped, nightlyRest>>

\* What _do_cleanup deletes of the reviews.
Overdue(r) == r # None /\ r.status \in Terminal /\ r.old /\ ~r.starred

\* Mutant of Cleanup: stars are forgotten.
CleanupStarred ==
    LET gone == {p \in Users \X Jobs : /\ review[p] # None
                                       /\ review[p].status \in Terminal /\ review[p].old}
    IN  /\ nightly = {}
        /\ Erase(gone)
        /\ nightly' = {j \in Here : \A u \in Users :
                          <<u, j>> \in gone \/ review[<<u, j>>] = None}
    /\ UNCHANGED <<job, nightlyRest>>

\* _do_cleanup: the overdue reviews, and the snapshot of the jobs without any.
Cleanup ==
    LET gone == {p \in Users \X Jobs : Overdue(review[p])}
    IN  /\ nightly = {}
        /\ Erase(gone)
        /\ nightly' = {j \in Here : \A u \in Users :
                          <<u, j>> \in gone \/ review[<<u, j>>] = None}
    /\ UNCHANGED <<job, nightlyRest>>

\* The jobs of that snapshot are deleted.
DropOrphans ==
    /\ nightly # {}
    /\ DeleteJobs(nightly)
    /\ nightly' = {}
    /\ UNCHANGED nightlyRest

-----------------------------------------------------------------------------
ScraperStep ==
    \/ \E u \in Users, l \in Listings : \E posted \in Datings[l] : Scrape(u, l, posted)
    \/ SeenFlush \/ Ensure \/ ScraperSends \/ ScraperCut

BoardReads == SUBSET {l \in Listings : SourceOf[l] = Board}
BoardStep == \E live \in BoardReads : BoardSync(live)

UserRequest(u) ==
    \/ \E l \in Listings : Import(u, l) \/ Adopt(u, l) \/ \E i \in Jobs : Replace(u, i, l)
    \/ \E j \in Jobs : Patch(u, j) \/ DeleteReview(u, j)
    \/ EnqueueReview(u)

UserStep(u) == UserRequest(u) \/ UserSends(u) \/ UserCut(u) \/ DropJob(u)

ScoringStep == (\E u \in Users, j \in Jobs : Take(u, j)) \/ GiveUp \/ PostLoad \/ PostFlush

NightlyStep == Age \/ Expire \/ Cleanup \/ DropOrphans

Next ==
    \/ ScraperStep \/ BoardStep
    \/ \E u \in Users : UserStep(u)
    \/ ScoringStep \/ NightlyStep

Spec == Init /\ [][Next]_vars

-----------------------------------------------------------------------------
TypeOK ==
    /\ job \in [Jobs -> Row \cup {None}]
    /\ review \in [Users \X Jobs -> Review \cup {None}]
    /\ \A u \in Users : \A j \in Held(u) : job[j] # None
    /\ queue \in [Users \X Jobs -> 0..MaxQueue]
    /\ scraper \in {Idle} \cup [at : {"ensure", "send"}, user : Users, job : Jobs]
                   \cup [at : {"seen"}, user : Users, job : Jobs, listing : Listings,
                         posted : Posted, status : {"new", "reviewed", None}]
    /\ user \in [Users -> {Idle} \cup [at : {"send", "drop"}, job : Jobs]]
    /\ worker \in {Idle} \cup [at : {"scoring"}, user : Users, job : Jobs]
                  \cup [at : {"flush"}, user : Users, job : Jobs, status : Status]
    /\ nightly \subseteq Jobs
    /\ acts \in 0..MaxActs /\ scrapes \in 0..MaxScrapes
    /\ late \subseteq Users \X Jobs
    /\ dropped \subseteq Users \X Jobs

\* A review without a score waits for one: a delivery for this very user and job is
\* queued, being scored or about to be sent, unless one ended without a score, was
\* lost on the way, or the review was adopted by an import (jobs.py:135-165, 634-675).
ScoringAwaited ==
    \A u \in Users, j \in Jobs :
        review[<<u, j>>] # None /\ ~review[<<u, j>>].scored =>
            \/ queue[<<u, j>>] > 0
            \/ worker # Idle /\ worker.user = u /\ worker.job = j
            \/ user[u] = [at |-> "send", job |-> j]
            \/ scraper = [at |-> "send", user |-> u, job |-> j]
            \/ <<u, j>> \in dropped

\* What the user decided (applied, dismissed, ...) stands until the user changes it:
\* late scores, listings seen again, boards and the nightly rules leave it alone, but for
\* a score, or a listing seen again, that was writing a review it had loaded as new, or as
\* expired, when the user decided (jobs.py:111-112, 563-564; admin.py:147-150).
Overtaken(u, j) ==
    \/ worker.at = "flush" /\ worker.user = u /\ worker.job = j /\ worker.status = "new"
    \/ scraper.at = "seen" /\ scraper.user = u /\ scraper.job = j /\ scraper.status # None
DecisionStands ==
    [][\A u \in Users, j \in Jobs :
        /\ review[<<u, j>>] # None /\ review[<<u, j>>].status \in Decisions
        /\ review'[<<u, j>>] # None
        => \/ review'[<<u, j>>].status = review[<<u, j>>].status
           \/ UserStep(u) \/ Overtaken(u, j)]_vars

\* Nothing a user does changes what another user has: the reviews, and the shared rows
\* they hold, but for a review inserted after its job was found without any
\* (jobs.py:510-525, 596-600, 647-650).
OthersUntouched ==
    [][\A u \in Users : UserStep(u) =>
        \A v \in Users \ {u} : \A j \in Held(v) :
            \/ review'[<<v, j>>] = review[<<v, j>>] /\ job'[j] = job[j]
            \/ <<v, j>> \in late]_vars

\* A review goes only by its own user's hand, or terminal, without a star and left alone
\* past the TTL: deleting jobs without reviews takes along those at most that were inserted
\* after the count (admin.py:55-60, 75-80; jobs.py:510-525).
KeptUnlessOld ==
    [][\A u \in Users, j \in Jobs :
        review[<<u, j>>] # None /\ review'[<<u, j>>] = None
        => Overdue(review[<<u, j>>]) \/ UserStep(u) \/ <<u, j>> \in late]_vars

\* A review that comes back because it was listed again is not one the posting-age
\* rule expires again tonight (jobs.py:110-111).
RevivalLasts ==
    [][\A u \in Users, j \in Jobs :
        /\ review[<<u, j>>] # None /\ review[<<u, j>>].status = "expired"
        /\ review'[<<u, j>>] # None /\ review'[<<u, j>>].status \in Expirable
        => ~Outdated(job'[j]) \/ UserStep(u)]_vars
=============================================================================
