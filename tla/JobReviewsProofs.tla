--------------------------- MODULE JobReviewsProofs ---------------------------
(***************************************************************************)
(* What the pool of jobs and its reviews keep for any number of users,     *)
(* jobs and listings.                                                      *)
(*                                                                         *)
(*    SafeInv   the types, and a review without a score waits for one: it  *)
(*              is inductive however transactions interleave.              *)
(*    LateInv   a review of a job that somebody has found without reviews  *)
(*              was inserted after that count.                             *)
(*    TurnInv   at the end, about ScrapeRuns: what a run has read of the   *)
(*              boards it reports to BoardSync.                            *)
(***************************************************************************)
EXTENDS JobReviews, ScrapeRuns, TLAPS

Pairs == Users \X Jobs

\* What a review without a score waits for.
Coming(u, j) ==
    \/ queue[<<u, j>>] > 0
    \/ worker # Idle /\ worker.user = u /\ worker.job = j
    \/ user[u] = [at |-> "send", job |-> j]
    \/ scraper = [at |-> "send", user |-> u, job |-> j]
    \/ <<u, j>> \in dropped

Unscored(u, j) == review[<<u, j>>] # None /\ ~review[<<u, j>>].scored

\* The foreign key.
HeldHere == \A u \in Users, j \in Jobs : review[<<u, j>>] # None => job[j] # None

SafeInv == TypeOK /\ ScoringAwaited

LateInv == \A u \in Users, j \in Jobs :
              review[<<u, j>>] # None /\ Counted(j) => <<u, j>> \in late

-----------------------------------------------------------------------------
(* What the variables hold                                                  *)

\* Who is at a step is not idle, and the record says of which user and job.
LEMMA AtWork ==
  ASSUME TypeOK
  PROVE  /\ scraper.at \in {"ensure", "send"} =>
              /\ scraper # Idle /\ scraper.user \in Users /\ scraper.job \in Jobs
              /\ scraper = [at |-> scraper.at, user |-> scraper.user, job |-> scraper.job]
         /\ scraper.at = "seen" =>
              /\ scraper # Idle /\ scraper.user \in Users /\ scraper.job \in Jobs
              /\ scraper.listing \in Listings /\ scraper.posted \in Posted
              /\ scraper.status \in {"new", "reviewed", None}
         /\ scraper # Idle => scraper.at \in {"ensure", "send", "seen"}
         /\ worker.at \in {"scoring", "flush"} =>
              worker # Idle /\ worker.user \in Users /\ worker.job \in Jobs
         /\ worker.at = "flush" => worker.status \in Status
         /\ worker # Idle => worker.at \in {"scoring", "flush"}
         /\ \A u \in Users : user[u].at \in {"send", "drop"} =>
              user[u].job \in Jobs /\ user[u] = [at |-> user[u].at, job |-> user[u].job]
<1>1. \/ scraper = Idle
      \/ scraper \in [at : {"ensure", "send"}, user : Users, job : Jobs]
      \/ scraper \in [at : {"seen"}, user : Users, job : Jobs, listing : Listings,
                      posted : Posted, status : {"new", "reviewed", None}]
  BY DEF TypeOK
<1>2. \/ worker = Idle
      \/ worker \in [at : {"scoring"}, user : Users, job : Jobs]
      \/ worker \in [at : {"flush"}, user : Users, job : Jobs, status : Status]
  BY DEF TypeOK
<1>3. \A u \in Users : user[u] = Idle \/ user[u] \in [at : {"send", "drop"}, job : Jobs]
  BY DEF TypeOK
<1>4. Idle.at = "idle"
  BY DEF Idle
<1>5. /\ scraper.at \in {"ensure", "send"} =>
            /\ scraper # Idle /\ scraper.user \in Users /\ scraper.job \in Jobs
            /\ scraper = [at |-> scraper.at, user |-> scraper.user, job |-> scraper.job]
      /\ scraper.at = "seen" =>
            /\ scraper # Idle /\ scraper.user \in Users /\ scraper.job \in Jobs
            /\ scraper.listing \in Listings /\ scraper.posted \in Posted
            /\ scraper.status \in {"new", "reviewed", None}
      /\ scraper # Idle => scraper.at \in {"ensure", "send", "seen"}
  BY <1>1, <1>4
<1>6. /\ worker.at \in {"scoring", "flush"} =>
            worker # Idle /\ worker.user \in Users /\ worker.job \in Jobs
      /\ worker.at = "flush" => worker.status \in Status
      /\ worker # Idle => worker.at \in {"scoring", "flush"}
  BY <1>2, <1>4
<1>7. \A u \in Users : user[u].at \in {"send", "drop"} =>
            user[u].job \in Jobs /\ user[u] = [at |-> user[u].at, job |-> user[u].job]
  BY <1>3, <1>4
<1> QED BY <1>5, <1>6, <1>7

LEMMA NewIsReview == NewReview \in Review
  BY DEF NewReview, Review, Status, Expirable

LEMMA Starts == Init => SafeInv
<1> SUFFICES ASSUME Init PROVE SafeInv
  OBVIOUS
<1>1. \A p \in Users \X Jobs : review[p] = None
  BY DEF Init
<1>2. \A u \in Users, j \in Jobs : review[<<u, j>>] = None
  BY <1>1
<1>3. /\ job \in [Jobs -> Row \cup {None}]
      /\ review \in [Users \X Jobs -> Review \cup {None}]
      /\ queue \in [Users \X Jobs -> 0..MaxQueue]
      /\ user \in [Users -> {Idle} \cup [at : {"send", "drop"}, job : Jobs]]
  BY LimitAssumption DEF Init
<1> QED BY <1>2, <1>3, LimitAssumption
        DEF Init, SafeInv, TypeOK, ScoringAwaited, Held

\* An update of a review that keeps its score keeps the rest of the reviews.
LEMMA SetKeeps ==
  ASSUME TypeOK, NEW u \in Users, NEW j \in Jobs, NEW new \in Review, Set(u, j, new)
  PROVE  /\ review' \in [Pairs -> Review \cup {None}]
         /\ \A p \in Pairs : p # <<u, j>> => review'[p] = review[p]
         /\ review'[<<u, j>>] \in Review
         /\ review'[<<u, j>>].status = new.status
         /\ review'[<<u, j>>].scored = new.scored
         /\ review'[<<u, j>>].starred = new.starred
<1>1. <<u, j>> \in Pairs
  BY DEF Pairs
<1>2. review \in [Pairs -> Review \cup {None}]
  BY DEF TypeOK, Pairs
<1>3. [new EXCEPT !.old = FALSE] \in Review
  BY DEF Review
<1> QED BY <1>1, <1>2, <1>3 DEF Set, Review

\* A new row, whose id nothing refers to.
LEMMA AddRowKeeps ==
  ASSUME TypeOK, NEW j \in Jobs, NEW l \in Listings, NEW source \in Sources,
         NEW role \in {RoleOf[k] : k \in Listings}, NEW posted \in Posted,
         AddRow(j, NewRow(l, source, role, posted))
  PROVE  /\ job' \in [Jobs -> Row \cup {None}]
         /\ \A i \in Jobs : i # j => job'[i] = job[i]
         /\ job[j] = None /\ job'[j] \in Row /\ job'[j] # None /\ job'[j].missing = 0
         /\ \A u \in Users : review[<<u, j>>] = None
<1>1. NewRow(l, source, role, posted) \in Row
  BY LimitAssumption DEF NewRow, Row
<1>2. NewRow(l, source, role, posted) # None
  BY <1>1, NoneAssumption
<1>3. NewRow(l, source, role, posted).missing = 0
  BY DEF NewRow
<1>4. job[j] = None /\ \A u \in Users : review[<<u, j>>] = None
  BY DEF AddRow, Unused, TypeOK, Held
<1> QED BY <1>1, <1>2, <1>3, <1>4 DEF AddRow, TypeOK

LEMMA EnqueueKeeps ==
  ASSUME TypeOK, NEW S \in SUBSET Pairs, Enqueue(S)
  PROVE  /\ queue' \in [Users \X Jobs -> 0..MaxQueue]
         /\ \A p \in Pairs : queue'[p] >= queue[p]
         /\ \A p \in S : queue'[p] > 0
<1>1. queue \in [Users \X Jobs -> 0..MaxQueue]
  BY DEF TypeOK
<1>2. \A p \in S : queue[p] < MaxQueue
  BY DEF Enqueue
<1>3. queue' = [p \in Users \X Jobs |-> IF p \in S THEN queue[p] + 1 ELSE queue[p]]
  BY DEF Enqueue
<1>4. \A p \in S : queue[p] + 1 \in 0..MaxQueue
  BY <1>1, <1>2, LimitAssumption DEF Pairs
<1>5. queue' \in [Users \X Jobs -> 0..MaxQueue]
  BY <1>1, <1>3, <1>4
<1>6. \A p \in Pairs : queue[p] \in Nat
  BY <1>1, LimitAssumption DEF Pairs
<1> QED BY <1>3, <1>5, <1>6 DEF Pairs

-----------------------------------------------------------------------------
(* The scraper                                                              *)

\* A listing seen again changes the link and date of its row, and the review of it at
\* most when it was loaded expired.
LEMMA SeenFlushKeeps ==
  ASSUME TypeOK, SeenFlush
  PROVE  LET p == <<scraper.user, scraper.job>>
         IN  /\ scraper.at = "seen" /\ p \in Pairs
             /\ job' \in [Jobs -> Row \cup {None}]
             /\ \A i \in Jobs : job'[i] = None <=> job[i] = None
             /\ review' \in [Pairs -> Review \cup {None}]
             /\ \A q \in Pairs : q # p => review'[q] = review[q]
             /\ scraper.status = None => UNCHANGED review
             /\ review'[p] = None <=> review[p] = None
             /\ review[p] # None => review'[p].scored = review[p].scored
             /\ scraper' = Idle
             /\ UNCHANGED <<queue, late, dropped, scrapes, user, worker, nightly, acts>>
<1> DEFINE w == scraper
           p == <<w.user, w.job>>
           item == Relisted(job[w.job], w.listing, w.posted)
           new == [review[p] EXCEPT !.status = w.status, !.old = FALSE]
<1>1. /\ w.at = "seen" /\ w.user \in Users /\ w.job \in Jobs /\ w.listing \in Listings
      /\ w.posted \in Posted /\ w.status \in {"new", "reviewed", None}
  BY AtWork DEF SeenFlush
<1>2. p \in Pairs
  BY <1>1 DEF Pairs
<1>3. /\ scraper' = Idle
      /\ UNCHANGED <<queue, late, dropped, scrapes, user, worker, nightly, acts>>
  BY DEF SeenFlush, scraperMore, scraperRest
<1>4. job \in [Jobs -> Row \cup {None}] /\ review \in [Pairs -> Review \cup {None}]
  BY DEF TypeOK, Pairs
<1>5. CASE UNCHANGED <<job, review>>
  BY <1>1, <1>2, <1>3, <1>4, <1>5
<1>6. CASE /\ job[w.job] # None
           /\ job' = [job EXCEPT ![w.job] = item]
           /\ \/ w.status = None /\ UNCHANGED review
              \/ /\ w.status # None /\ review[p] # None
                 /\ review' = [review EXCEPT ![p] = new]
  <2>1. job[w.job] \in Row
    BY <1>1, <1>4, <1>6
  <2>2. item \in Row
    BY <1>1, <2>1 DEF Row, Relisted
  <2>3. item # None
    BY <2>2, NoneAssumption
  <2> HIDE DEF item
  <2>4. /\ job' \in [Jobs -> Row \cup {None}]
        /\ \A i \in Jobs : job'[i] = None <=> job[i] = None
    BY <1>1, <1>4, <1>6, <2>2, <2>3
  <2>5. CASE w.status = None /\ UNCHANGED review
    BY <1>1, <1>2, <1>3, <1>4, <2>4, <2>5
  <2>6. CASE w.status # None /\ review[p] # None /\ review' = [review EXCEPT ![p] = new]
    <3>1. review[p] \in Review
      BY <1>2, <1>4, <2>6
    <3>2. w.status \in Status
      BY <1>1, <2>6 DEF Status, Expirable
    <3>3. new \in Review /\ new.scored = review[p].scored
      BY <3>1, <3>2 DEF Review
    <3>4. new # None
      BY <3>3, NoneAssumption
    <3> HIDE DEF new, p
    <3>5. /\ review' \in [Pairs -> Review \cup {None}]
          /\ \A q \in Pairs : q # p => review'[q] = review[q]
          /\ review'[p] = new
      BY <1>2, <1>4, <2>6, <3>3
    <3>6. /\ w.status = None => UNCHANGED review
          /\ review'[p] = None <=> review[p] = None
          /\ review[p] # None => review'[p].scored = review[p].scored
      BY <2>6, <3>3, <3>4, <3>5
    <3> QED BY <1>1, <1>2, <1>3, <2>4, <3>5, <3>6 DEF p
  <2> QED BY <1>6, <2>5, <2>6
<1> QED BY <1>5, <1>6 DEF SeenFlush

LEMMA SeenFlushSafe == ASSUME SafeInv, SeenFlush PROVE SafeInv'
<1>1. /\ TypeOK /\ scraper.at = "seen" /\ scraper' = Idle
      /\ job' \in [Jobs -> Row \cup {None}]
      /\ \A i \in Jobs : job'[i] = None <=> job[i] = None
      /\ review' \in [Pairs -> Review \cup {None}]
      /\ \A q \in Pairs : /\ review'[q] = None <=> review[q] = None
                          /\ review[q] # None => review'[q].scored = review[q].scored
      /\ UNCHANGED <<queue, late, dropped, scrapes, user, worker, nightly, acts>>
  BY SeenFlushKeeps DEF SafeInv
<1>2. \A v \in Users, i \in Jobs : /\ review'[<<v, i>>] = None <=> review[<<v, i>>] = None
                                   /\ Unscored(v, i)' <=> Unscored(v, i)
  BY <1>1 DEF Pairs, Unscored
<1>3. TypeOK'
  BY <1>1, <1>2 DEF TypeOK, Held, Pairs
<1>4. ScoringAwaited'
  BY <1>1, <1>2 DEF SafeInv, ScoringAwaited, Unscored
<1> QED BY <1>3, <1>4 DEF SafeInv

LEMMA ScrapeSafe ==
  ASSUME SafeInv, NEW u \in Users, NEW l \in Listings, NEW posted \in Datings[l],
         Scrape(u, l, posted)
  PROVE  SafeInv'
<1>1. /\ TypeOK /\ scraper = Idle
      /\ UNCHANGED <<review, queue, late, dropped, user, worker, nightly, acts>>
      /\ scrapes' \in 0..MaxScrapes
  <2>1. scrapes \in 0..MaxScrapes
    BY DEF SafeInv, TypeOK
  <2> QED BY <2>1, LimitAssumption DEF Scrape, scraperRest, SafeInv
<1>2. posted \in Posted /\ SourceOf[l] \in Sources /\ RoleOf[l] \in {RoleOf[k] : k \in Listings}
  BY DatingAssumption, ListingAssumption DEF Sources
<1>3. \/ \E j \in Held(u) : SeenAgain(u, j, l, posted) /\ UNCHANGED job
      \/ \E j \in Jobs :
            /\ scraper' = [at |-> "ensure", user |-> u, job |-> j]
            /\ \/ UNCHANGED job
               \/ AddRow(j, NewRow(l, SourceOf[l], RoleOf[l], posted))
  BY DEF Scrape, Twins, Here
<1>4. CASE \E j \in Held(u) : SeenAgain(u, j, l, posted) /\ UNCHANGED job
  <2> PICK j \in Held(u) : SeenAgain(u, j, l, posted) /\ UNCHANGED job
    BY <1>4
  <2> DEFINE status == Revived(review[<<u, j>>], posted)
  <2>1. j \in Jobs
    BY DEF Held
  <2>2. status \in {"new", "reviewed", None}
    BY DEF Revived
  <2>3. scraper' = [at |-> "seen", user |-> u, job |-> j, listing |-> l, posted |-> posted,
                    status |-> status]
    BY DEF SeenAgain
  <2> HIDE DEF status
  <2>4. TypeOK'
    BY <1>1, <1>2, <2>1, <2>2, <2>3 DEF TypeOK, Held
  <2>5. ScoringAwaited'
    BY <1>1 DEF SafeInv, ScoringAwaited, Idle
  <2> QED BY <2>4, <2>5 DEF SafeInv
<1>5. ASSUME NEW j \in Jobs, scraper' = [at |-> "ensure", user |-> u, job |-> j],
             \/ UNCHANGED job
             \/ AddRow(j, NewRow(l, SourceOf[l], RoleOf[l], posted))
      PROVE  SafeInv'
  <2>1. job' \in [Jobs -> Row \cup {None}] /\ \A i \in Jobs : job[i] # None => job'[i] # None
    <3>1. CASE UNCHANGED job
      BY <1>1, <3>1 DEF TypeOK
    <3>2. CASE AddRow(j, NewRow(l, SourceOf[l], RoleOf[l], posted))
      BY <1>1, <1>2, <3>2, AddRowKeeps
    <3> QED BY <1>5, <3>1, <3>2
  <2>2. TypeOK'
    BY <1>1, <1>5, <2>1 DEF TypeOK, Held
  <2>3. ScoringAwaited'
    BY <1>1, <1>5 DEF SafeInv, ScoringAwaited, Idle
  <2> QED BY <2>2, <2>3 DEF SafeInv
<1> QED BY <1>3, <1>4, <1>5

LEMMA EnsureSafe == ASSUME SafeInv, Ensure PROVE SafeInv'
<1>1. /\ TypeOK /\ scraper.at = "ensure" /\ scraper # Idle
      /\ scraper.user \in Users /\ scraper.job \in Jobs
  BY AtWork DEF SafeInv, Ensure
<1>2. UNCHANGED <<job, queue, scrapes, user, worker, nightly, acts>>
  BY DEF Ensure, scraperMore, scraperRest
<1>3. CASE scraper' = Idle /\ UNCHANGED <<review, late, dropped>>
  <2>1. TypeOK'
    BY <1>1, <1>2, <1>3 DEF TypeOK, Held
  <2>2. ScoringAwaited'
    BY <1>1, <1>2, <1>3 DEF SafeInv, ScoringAwaited
  <2> QED BY <2>1, <2>2 DEF SafeInv
<1>4. CASE /\ job[scraper.job] # None
           /\ review[<<scraper.user, scraper.job>>] = None
           /\ AddReview(scraper.user, scraper.job)
           /\ scraper' = [scraper EXCEPT !.at = "send"]
  <2>1. scraper' = [at |-> "send", user |-> scraper.user, job |-> scraper.job]
    BY <1>1, <1>4, AtWork
  <2>2. review' = [review EXCEPT ![<<scraper.user, scraper.job>>] = NewReview]
    BY <1>4 DEF AddReview
  <2>3. dropped' = dropped \ {<<scraper.user, scraper.job>>} /\ late' \subseteq Users \X Jobs
    BY <1>1, <1>4 DEF AddReview, Insert, TypeOK
  <2>4. /\ review' \in [Users \X Jobs -> Review \cup {None}]
        /\ \A v \in Users, i \in Jobs : <<v, i>> # <<scraper.user, scraper.job>> =>
              review'[<<v, i>>] = review[<<v, i>>]
    BY <1>1, <2>2, NewIsReview DEF TypeOK
  <2>5. HeldHere'
    BY <1>1, <1>2, <1>4, <2>4 DEF TypeOK, Held, HeldHere
  <2>6. TypeOK'
    BY <1>1, <1>2, <2>1, <2>3, <2>4, <2>5 DEF TypeOK, Held, HeldHere
  <2>7. ScoringAwaited'
    BY <1>1, <1>2, <2>1, <2>3, <2>4 DEF SafeInv, ScoringAwaited
  <2> QED BY <2>6, <2>7 DEF SafeInv
<1> QED BY <1>3, <1>4 DEF Ensure

LEMMA ScraperSendsSafe == ASSUME SafeInv, ScraperSends PROVE SafeInv'
<1>1. /\ TypeOK /\ scraper.at = "send" /\ scraper # Idle
      /\ scraper.user \in Users /\ scraper.job \in Jobs
      /\ scraper = [at |-> "send", user |-> scraper.user, job |-> scraper.job]
  BY AtWork DEF SafeInv, ScraperSends
<1>2. /\ UNCHANGED <<job, review, late, dropped, scrapes, user, worker, nightly, acts>>
      /\ scraper' = Idle
  BY DEF ScraperSends, scraperMore, scraperRest
<1>3. /\ queue' \in [Users \X Jobs -> 0..MaxQueue]
      /\ \A p \in Pairs : queue'[p] >= queue[p]
      /\ queue'[<<scraper.user, scraper.job>>] > 0
  <2>1. {<<scraper.user, scraper.job>>} \in SUBSET Pairs
    BY <1>1 DEF Pairs
  <2> QED BY <1>1, <2>1, EnqueueKeeps DEF ScraperSends
<1>4. \A v \in Users, i \in Jobs : queue[<<v, i>>] > 0 => queue'[<<v, i>>] > 0
  <2>1. \A p \in Pairs : queue[p] \in Nat /\ queue'[p] \in Nat
    BY <1>1, <1>3, LimitAssumption DEF TypeOK, Pairs
  <2> QED BY <1>3, <2>1 DEF Pairs
<1>5. TypeOK'
  BY <1>1, <1>2, <1>3 DEF TypeOK, Held
<1>6. ScoringAwaited'
  BY <1>1, <1>2, <1>3, <1>4 DEF SafeInv, ScoringAwaited
<1> QED BY <1>5, <1>6 DEF SafeInv

LEMMA ScraperCutSafe == ASSUME SafeInv, ScraperCut PROVE SafeInv'
<1>1. /\ TypeOK /\ scraper # Idle /\ scraper.at \in {"ensure", "send", "seen"}
      /\ scraper.user \in Users /\ scraper.job \in Jobs
  BY AtWork DEF SafeInv, ScraperCut
<1>2. /\ UNCHANGED <<job, review, queue, late, scrapes, user, worker, nightly, acts>>
      /\ scraper' = Idle
  BY DEF ScraperCut, scraperMore, scraperRest
<1>3. /\ dropped \subseteq dropped' /\ dropped' \subseteq Users \X Jobs
      /\ scraper.at = "send" => <<scraper.user, scraper.job>> \in dropped'
  BY <1>1 DEF ScraperCut, Drop, TypeOK
<1>4. TypeOK'
  BY <1>1, <1>2, <1>3 DEF TypeOK, Held
<1>5. ScoringAwaited'
  BY <1>1, <1>2, <1>3 DEF SafeInv, ScoringAwaited
<1> QED BY <1>4, <1>5 DEF SafeInv

\* A report of the board leaves the rows where they are.
LEMMA BoardSyncKeeps ==
  ASSUME TypeOK, NEW live, BoardSync(live)
  PROVE  /\ job' \in [Jobs -> Row \cup {None}]
         /\ \A j \in Jobs : job'[j] = None <=> job[j] = None
<1> DEFINE held == {j \in Here : job[j].source = Board}
           missed == {j \in held : job[j].ext \notin live}
           struck == {j \in missed : job[j].missing + 1 >= MissLimit}
           item(j) == IF j \in struck THEN [job[j] EXCEPT !.missing = MissLimit]
                     ELSE IF j \in missed THEN [job[j] EXCEPT !.missing = job[j].missing + 1]
                     ELSE IF j \in held THEN [job[j] EXCEPT !.missing = 0]
                     ELSE job[j]
<1>1. job' = [j \in Jobs |-> item(j)]
  BY DEF BoardSync
<1>2. job \in [Jobs -> Row \cup {None}]
  BY DEF TypeOK
<1>3. ASSUME NEW j \in Here PROVE item(j) \in Row /\ item(j) # None
  <2>1. j \in Jobs /\ job[j] \in Row /\ job[j].missing \in 0..MissLimit
    BY <1>2 DEF Here, Row
  <2>2. CASE j \in struck
    BY <2>1, <2>2, LimitAssumption, NoneAssumption DEF Row
  <2>3. CASE j \notin struck /\ j \in missed
    <3>1. job[j].missing + 1 \in 0..MissLimit
      BY <2>1, <2>3, LimitAssumption
    <3> QED BY <2>1, <2>3, <3>1, NoneAssumption DEF Row
  <2>4. CASE j \notin missed /\ j \in held
    BY <2>1, <2>4, LimitAssumption, NoneAssumption DEF Row
  <2>5. CASE j \notin held
    BY <2>1, <2>5, NoneAssumption
  <2> QED BY <2>2, <2>3, <2>4, <2>5
<1>4. \A j \in Jobs \ Here : item(j) = None
  BY DEF Here
<1>5. \A j \in Jobs : j \in Here <=> job[j] # None
  BY DEF Here
<1> HIDE DEF held, missed, struck, item
<1>6. \A j \in Jobs : job'[j] = item(j)
  BY <1>1
<1> QED BY <1>1, <1>3, <1>4, <1>5, <1>6

\* It expires reviews the user has not decided, and changes no other.
LEMMA BoardSyncReviews ==
  ASSUME TypeOK, NEW live, BoardSync(live)
  PROVE  /\ review' \in [Pairs -> Review \cup {None}]
         /\ \A p \in Pairs :
              \/ review'[p] = review[p]
              \/ /\ review[p] # None /\ review[p].status \in Expirable /\ review'[p] # None
                 /\ review'[p].status = "expired" /\ review'[p].scored = review[p].scored
<1> DEFINE struck == {j \in {i \in {k \in Here : job[k].source = Board} : job[i].ext \notin live} :
                        job[j].missing + 1 >= MissLimit}
           hit(p) == p[2] \in struck /\ review[p] # None /\ review[p].status \in Expirable
<1>1. review' = [p \in Users \X Jobs |->
                   IF hit(p) THEN [review[p] EXCEPT !.status = "expired", !.old = FALSE]
                   ELSE review[p]]
  BY DEF BoardSync
<1>2. \A p \in Pairs : hit(p) => /\ review[p] # None
                                 /\ review[p].status \in Expirable
  OBVIOUS
<1> HIDE DEF hit
<1>3. ASSUME NEW p \in Pairs, hit(p)
      PROVE  /\ [review[p] EXCEPT !.status = "expired", !.old = FALSE] \in Review
             /\ [review[p] EXCEPT !.status = "expired", !.old = FALSE] # None
             /\ [review[p] EXCEPT !.status = "expired", !.old = FALSE].status = "expired"
             /\ [review[p] EXCEPT !.status = "expired", !.old = FALSE].scored = review[p].scored
  <2>1. review[p] \in Review
    BY <1>2, <1>3 DEF TypeOK, Pairs
  <2>2. [review[p] EXCEPT !.status = "expired", !.old = FALSE] \in Review
    BY <2>1 DEF Review, Status, Terminal
  <2> QED BY <2>1, <2>2, NoneAssumption DEF Review
<1>4. review \in [Pairs -> Review \cup {None}]
  BY DEF TypeOK, Pairs
<1>5. review' \in [Pairs -> Review \cup {None}]
  BY <1>1, <1>3, <1>4 DEF Pairs
<1>6. \A p \in Pairs :
        \/ review'[p] = review[p]
        \/ hit(p) /\ review'[p] = [review[p] EXCEPT !.status = "expired", !.old = FALSE]
  BY <1>1 DEF Pairs
<1> QED BY <1>2, <1>3, <1>5, <1>6

LEMMA BoardSyncSafe ==
  ASSUME SafeInv, NEW live, BoardSync(live)
  PROVE  SafeInv'
<1>1. UNCHANGED <<queue, scraper, late, dropped, scrapes, user, worker, nightly, acts>>
  BY DEF BoardSync, scraperMore, scraperRest
<1>2. /\ job' \in [Jobs -> Row \cup {None}]
      /\ \A j \in Jobs : job'[j] = None <=> job[j] = None
  BY BoardSyncKeeps DEF SafeInv
<1>3. /\ review' \in [Pairs -> Review \cup {None}]
      /\ \A p \in Pairs : /\ review'[p] = None <=> review[p] = None
                          /\ review[p] # None => review'[p].scored = review[p].scored
  BY BoardSyncReviews DEF SafeInv
<1>4. \A v \in Users, i \in Jobs : /\ review'[<<v, i>>] = None <=> review[<<v, i>>] = None
                                   /\ Unscored(v, i)' <=> Unscored(v, i)
  BY <1>3 DEF Pairs, Unscored
<1>5. TypeOK'
  BY <1>1, <1>2, <1>3, <1>4 DEF SafeInv, TypeOK, Held, Pairs
<1>6. ScoringAwaited'
  BY <1>1, <1>4 DEF SafeInv, ScoringAwaited, Unscored
<1> QED BY <1>5, <1>6 DEF SafeInv

-----------------------------------------------------------------------------
(* The user                                                                 *)

LEMMA MoveKeeps ==
  ASSUME TypeOK, NEW u \in Users, NEW i \in Jobs, NEW j \in Jobs, i # j,
         NEW new \in Review, Move(u, i, j, new)
  PROVE  /\ review' \in [Pairs -> Review \cup {None}]
         /\ \A p \in Pairs : p \notin {<<u, i>>, <<u, j>>} => review'[p] = review[p]
         /\ review'[<<u, i>>] = None
         /\ review'[<<u, j>>] # None /\ review'[<<u, j>>].status = new.status
         /\ review'[<<u, j>>].scored = new.scored
         /\ late' \subseteq Users \X Jobs
<1>1. <<u, i>> \in Pairs /\ <<u, j>> \in Pairs /\ <<u, i>> # <<u, j>>
  BY DEF Pairs
<1>2. review \in [Pairs -> Review \cup {None}]
  BY DEF TypeOK, Pairs
<1>3. /\ [new EXCEPT !.old = FALSE] \in Review
      /\ [new EXCEPT !.old = FALSE].status = new.status
      /\ [new EXCEPT !.old = FALSE].scored = new.scored
  BY DEF Review
<1> DEFINE moved == [new EXCEPT !.old = FALSE]
<1>4. moved # None
  BY <1>3, NoneAssumption
<1>5. review' = [review EXCEPT ![<<u, i>>] = None, ![<<u, j>>] = moved]
  BY DEF Move
<1> HIDE DEF moved
<1>6. review' \in [Pairs -> Review \cup {None}]
  BY <1>1, <1>2, <1>3, <1>5 DEF moved
<1>7. /\ \A p \in Pairs : p \notin {<<u, i>>, <<u, j>>} => review'[p] = review[p]
      /\ review'[<<u, i>>] = None /\ review'[<<u, j>>] = moved
  BY <1>1, <1>2, <1>5
<1>8. late' \subseteq Users \X Jobs
  BY <1>1 DEF Move, TypeOK, Pairs
<1> QED BY <1>3, <1>4, <1>6, <1>7, <1>8 DEF moved

\* What a request that starts leaves alone, and what the counter may be.
LEMMA RequestKeeps ==
  ASSUME TypeOK, NEW u \in Users, Ready(u), Acts
  PROVE  user[u] = Idle /\ acts' \in 0..MaxActs
  BY LimitAssumption DEF TypeOK, Ready, Acts

LEMMA SendingKeeps ==
  ASSUME TypeOK, NEW u \in Users, NEW j \in Jobs, user[u] = Idle, Sending(u, j)
  PROVE  /\ user' \in [Users -> {Idle} \cup [at : {"send", "drop"}, job : Jobs]]
         /\ user'[u] = [at |-> "send", job |-> j]
         /\ \A v \in Users, i \in Jobs : user[v] = [at |-> "send", job |-> i] =>
              user'[v] = user[v]
<1>1. \A i \in Jobs : [at |-> "send", job |-> i] # Idle
  BY DEF Idle
<1>2. /\ user' \in [Users -> {Idle} \cup [at : {"send", "drop"}, job : Jobs]]
      /\ user'[u] = [at |-> "send", job |-> j]
      /\ \A v \in Users \ {u} : user'[v] = user[v]
  BY DEF Sending, TypeOK
<1> QED BY <1>1, <1>2

\* A request that makes a review, here or by moving one, and goes on to send it.
LEMMA SentIsAwaited ==
  ASSUME SafeInv, NEW u \in Users, NEW j \in Jobs, user[u] = Idle, Sending(u, j),
         UNCHANGED <<queue, scraper, worker>>,
         \A v \in Users, i \in Jobs :
            <<v, i>> # <<u, j>> /\ Unscored(v, i)' =>
                Unscored(v, i) /\ (<<v, i>> \in dropped => <<v, i>> \in dropped')
  PROVE  ScoringAwaited'
<1>1. /\ user'[u] = [at |-> "send", job |-> j]
      /\ \A v \in Users, i \in Jobs : user[v] = [at |-> "send", job |-> i] =>
            user'[v] = user[v]
  BY SendingKeeps DEF SafeInv
<1>2. ASSUME NEW v \in Users, NEW i \in Jobs, Unscored(v, i)'
      PROVE  Coming(v, i)'
  <2>1. CASE <<v, i>> = <<u, j>>
    BY <1>1, <2>1 DEF Coming
  <2>2. CASE <<v, i>> # <<u, j>>
    <3>1. Coming(v, i)
      BY <1>2, <2>2 DEF SafeInv, ScoringAwaited, Unscored, Coming
    <3> QED BY <1>1, <1>2, <2>2, <3>1 DEF Coming
  <2> QED BY <2>1, <2>2
<1> QED BY <1>2 DEF ScoringAwaited, Unscored, Coming

LEMMA ImportSafe ==
  ASSUME SafeInv, NEW u \in Users, NEW l \in Listings, Import(u, l)
  PROVE  SafeInv'
<1>1. TypeOK /\ user[u] = Idle /\ acts' \in 0..MaxActs
  BY RequestKeeps DEF SafeInv, Import
<1>2. UNCHANGED <<queue, scraper, worker, nightly, scrapes>>
  BY DEF Import, userRest
<1>3. PICK j \in Jobs :
        /\ AddReview(u, j) /\ Sending(u, j)
        /\ \/ job[j] # None /\ UNCHANGED job
           \/ AddRow(j, NewRow(l, Manual, RoleOf[l], "undated"))
  BY DEF Import, Here
<1>4. /\ job' \in [Jobs -> Row \cup {None}]
      /\ \A i \in Jobs : job[i] # None => job'[i] # None
      /\ job'[j] # None
  <2>1. CASE job[j] # None /\ UNCHANGED job
    BY <1>1, <2>1 DEF TypeOK
  <2>2. CASE AddRow(j, NewRow(l, Manual, RoleOf[l], "undated"))
    <3>1. Manual \in Sources /\ RoleOf[l] \in {RoleOf[k] : k \in Listings}
             /\ "undated" \in Posted
      BY DEF Sources, Posted
    <3>2. /\ job' \in [Jobs -> Row \cup {None}]
          /\ \A i \in Jobs : i # j => job'[i] = job[i]
          /\ job'[j] # None
      BY <1>1, <2>2, <3>1, AddRowKeeps
    <3> QED BY <3>2
  <2> QED BY <1>3, <2>1, <2>2
<1>5. /\ review' \in [Users \X Jobs -> Review \cup {None}]
      /\ \A v \in Users, i \in Jobs : <<v, i>> # <<u, j>> => review'[<<v, i>>] = review[<<v, i>>]
  BY <1>1, <1>3, NewIsReview DEF AddReview, TypeOK
<1>6. dropped' = dropped \ {<<u, j>>} /\ late' \subseteq Users \X Jobs
  BY <1>1, <1>3 DEF AddReview, Insert, TypeOK
<1>7. user' \in [Users -> {Idle} \cup [at : {"send", "drop"}, job : Jobs]]
  BY <1>1, <1>3, SendingKeeps
<1>8. HeldHere'
  BY <1>1, <1>4, <1>5 DEF HeldHere, TypeOK, Held
<1>9. TypeOK'
  BY <1>1, <1>2, <1>4, <1>5, <1>6, <1>7, <1>8 DEF TypeOK, Held, HeldHere
<1>10. ScoringAwaited'
  <2>1. \A v \in Users, i \in Jobs :
           <<v, i>> # <<u, j>> /\ Unscored(v, i)' =>
                Unscored(v, i) /\ (<<v, i>> \in dropped => <<v, i>> \in dropped')
    BY <1>5, <1>6 DEF Unscored
  <2> QED BY <1>1, <1>2, <1>3, <2>1, SentIsAwaited
<1> QED BY <1>9, <1>10 DEF SafeInv

LEMMA AdoptSafe ==
  ASSUME SafeInv, NEW u \in Users, NEW l \in Listings, Adopt(u, l)
  PROVE  SafeInv'
<1>1. TypeOK /\ user[u] = Idle /\ acts' \in 0..MaxActs
  BY RequestKeeps DEF SafeInv, Adopt
<1>2. UNCHANGED <<queue, user, scraper, worker, nightly, scrapes>>
  BY DEF Adopt, userRest
<1>3. PICK i \in Held(u), j \in Jobs :
        /\ AddRow(j, NewRow(l, Manual, RoleOf[l], "undated"))
        /\ Move(u, i, j, review[<<u, i>>])
        /\ dropped' = (dropped \ {<<u, i>>}) \cup {<<u, j>>}
  BY DEF Adopt, Twins
<1>4. /\ i \in Jobs /\ job[i] # None /\ review[<<u, i>>] # None
      /\ review[<<u, i>>] \in Review
  BY <1>1 DEF TypeOK, Held
<1>5. Manual \in Sources /\ RoleOf[l] \in {RoleOf[k] : k \in Listings} /\ "undated" \in Posted
  BY DEF Sources, Posted
<1>6. /\ job' \in [Jobs -> Row \cup {None}]
      /\ \A k \in Jobs : k # j => job'[k] = job[k]
      /\ job[j] = None /\ job'[j] # None
  BY <1>1, <1>3, <1>5, AddRowKeeps
<1>7. /\ review' \in [Pairs -> Review \cup {None}]
      /\ \A p \in Pairs : p \notin {<<u, i>>, <<u, j>>} => review'[p] = review[p]
      /\ review'[<<u, i>>] = None /\ late' \subseteq Users \X Jobs
  BY <1>1, <1>3, <1>4, <1>6, MoveKeeps
<1>8. HeldHere'
  <2>1. ASSUME NEW v \in Users, NEW k \in Jobs, review'[<<v, k>>] # None PROVE job'[k] # None
    <3>1. CASE k = j
      BY <1>6, <3>1
    <3>2. CASE k # j
      <4>1. review[<<v, k>>] # None
        BY <1>4, <1>7, <2>1, <3>2 DEF Pairs
      <4> QED BY <1>1, <1>6, <3>2, <4>1 DEF TypeOK, Held
    <3> QED BY <3>1, <3>2
  <2> QED BY <2>1 DEF HeldHere
<1>9. TypeOK'
  BY <1>1, <1>2, <1>3, <1>4, <1>6, <1>7, <1>8 DEF TypeOK, Held, HeldHere, Pairs
<1>10. ScoringAwaited'
  <2>1. ASSUME NEW v \in Users, NEW k \in Jobs, Unscored(v, k)' PROVE Coming(v, k)'
    <3>1. CASE <<v, k>> = <<u, j>>
      BY <1>3, <3>1 DEF Coming
    <3>2. CASE <<v, k>> # <<u, j>>
      <4>1. <<v, k>> # <<u, i>> /\ Unscored(v, k)
        BY <1>7, <2>1, <3>2 DEF Pairs, Unscored
      <4>2. Coming(v, k)
        BY <4>1 DEF SafeInv, ScoringAwaited, Unscored, Coming
      <4> QED BY <1>2, <1>3, <4>1, <4>2 DEF Coming
    <3> QED BY <3>1, <3>2
  <2> QED BY <2>1 DEF ScoringAwaited, Unscored, Coming
<1> QED BY <1>9, <1>10 DEF SafeInv

LEMMA ReplaceSafe ==
  ASSUME SafeInv, NEW u \in Users, NEW i \in Jobs, NEW l \in Listings, Replace(u, i, l)
  PROVE  SafeInv'
<1> DEFINE old == review[<<u, i>>]
           new == [old EXCEPT !.status = IF old.status = "expired" THEN "new" ELSE old.status]
           key == IF job[i].role # None THEN job[i].role ELSE RoleOf[l]
<1>1. TypeOK /\ user[u] = Idle /\ acts' \in 0..MaxActs
  BY RequestKeeps DEF SafeInv, Replace
<1>2. UNCHANGED <<queue, scraper, worker, nightly, scrapes>>
  BY DEF Replace, userRest
<1>3. i \in Held(u)
  BY DEF Replace
<1>4. PICK j \in Jobs :
        /\ \/ job[j] # None /\ j \notin Held(u) /\ UNCHANGED job
           \/ AddRow(j, NewRow(l, Manual, key, "undated"))
        /\ Move(u, i, j, new)
        /\ dropped' = dropped \ {<<u, i>>, <<u, j>>}
        /\ Sending(u, j)
  BY DEF Replace, Here
<1>5. job[i] \in Row /\ old # None /\ old \in Review
  BY <1>1, <1>3 DEF TypeOK, Held
<1>6. new \in Review
  BY <1>5 DEF Review, Status, Expirable
<1>7. key \in {RoleOf[k] : k \in Listings}
  BY <1>5 DEF Row
<1> HIDE DEF old, new, key
<1>8. /\ job' \in [Jobs -> Row \cup {None}]
      /\ \A k \in Jobs : job[k] # None => job'[k] # None
      /\ i # j /\ job'[j] # None
  <2>1. CASE job[j] # None /\ j \notin Held(u) /\ UNCHANGED job
    BY <1>1, <1>3, <2>1 DEF TypeOK
  <2>2. CASE AddRow(j, NewRow(l, Manual, key, "undated"))
    <3>1. Manual \in Sources /\ "undated" \in Posted
      BY DEF Sources, Posted
    <3>2. /\ job' \in [Jobs -> Row \cup {None}]
          /\ \A k \in Jobs : k # j => job'[k] = job[k]
          /\ job[j] = None /\ job'[j] # None
      BY <1>1, <1>7, <2>2, <3>1, AddRowKeeps
    <3> QED BY <1>5, <3>2, NoneAssumption
  <2> QED BY <1>4, <2>1, <2>2
<1>9. /\ review' \in [Pairs -> Review \cup {None}]
      /\ \A p \in Pairs : p \notin {<<u, i>>, <<u, j>>} => review'[p] = review[p]
      /\ review'[<<u, i>>] = None /\ late' \subseteq Users \X Jobs
  BY <1>1, <1>4, <1>6, <1>8, MoveKeeps
<1>10. user' \in [Users -> {Idle} \cup [at : {"send", "drop"}, job : Jobs]]
  BY <1>1, <1>4, SendingKeeps
<1>11. HeldHere'
  <2>1. ASSUME NEW v \in Users, NEW k \in Jobs, review'[<<v, k>>] # None PROVE job'[k] # None
    <3>1. CASE k = j
      BY <1>8, <3>1
    <3>2. CASE k # j
      <4>1. review[<<v, k>>] # None
        BY <1>9, <2>1, <3>2 DEF Pairs
      <4> QED BY <1>1, <1>8, <4>1 DEF TypeOK, Held
    <3> QED BY <3>1, <3>2
  <2> QED BY <2>1 DEF HeldHere
<1>12. TypeOK'
  BY <1>1, <1>2, <1>4, <1>8, <1>9, <1>10, <1>11 DEF TypeOK, Held, HeldHere, Pairs
<1>13. ScoringAwaited'
  <2>1. \A v \in Users, k \in Jobs :
           <<v, k>> # <<u, j>> /\ Unscored(v, k)' =>
                Unscored(v, k) /\ (<<v, k>> \in dropped => <<v, k>> \in dropped')
    BY <1>4, <1>9 DEF Pairs, Unscored
  <2> QED BY <1>1, <1>2, <1>4, <2>1, SentIsAwaited
<1> QED BY <1>12, <1>13 DEF SafeInv

LEMMA UserSendsSafe == ASSUME SafeInv, NEW u \in Users, UserSends(u) PROVE SafeInv'
<1>1. /\ TypeOK /\ user[u].at = "send" /\ user[u].job \in Jobs
      /\ user[u] = [at |-> "send", job |-> user[u].job]
  BY AtWork DEF SafeInv, UserSends
<1>2. /\ UNCHANGED <<job, review, acts, late, dropped, scraper, worker, nightly, scrapes>>
      /\ user' = [user EXCEPT ![u] = Idle]
  BY DEF UserSends, userRest
<1>3. /\ queue' \in [Users \X Jobs -> 0..MaxQueue]
      /\ \A p \in Pairs : queue'[p] >= queue[p]
      /\ queue'[<<u, user[u].job>>] > 0
  <2>1. {<<u, user[u].job>>} \in SUBSET Pairs
    BY <1>1 DEF Pairs
  <2> QED BY <1>1, <2>1, EnqueueKeeps DEF UserSends
<1>4. \A v \in Users, i \in Jobs : queue[<<v, i>>] > 0 => queue'[<<v, i>>] > 0
  <2>1. \A p \in Pairs : queue[p] \in Nat /\ queue'[p] \in Nat
    BY <1>1, <1>3, LimitAssumption DEF TypeOK, Pairs
  <2> QED BY <1>3, <2>1 DEF Pairs
<1>5. TypeOK'
  BY <1>1, <1>2, <1>3 DEF TypeOK, Held
<1>6. ASSUME NEW v \in Users, NEW i \in Jobs, Coming(v, i) PROVE Coming(v, i)'
  <2>1. CASE user[v] = [at |-> "send", job |-> i]
    <3>1. CASE v = u
      <4>1. i = user[u].job
        BY <2>1, <3>1
      <4> QED BY <1>3, <3>1, <4>1 DEF Coming
    <3>2. CASE v # u
      <4>1. user'[v] = user[v]
        BY <1>1, <1>2, <3>2 DEF TypeOK
      <4> QED BY <2>1, <4>1 DEF Coming
    <3> QED BY <3>1, <3>2
  <2>2. CASE user[v] # [at |-> "send", job |-> i]
    BY <1>2, <1>4, <1>6, <2>2 DEF Coming
  <2> QED BY <2>1, <2>2
<1>7. ScoringAwaited'
  BY <1>2, <1>6 DEF SafeInv, ScoringAwaited, Coming
<1> QED BY <1>5, <1>7 DEF SafeInv

LEMMA UserCutSafe == ASSUME SafeInv, NEW u \in Users, UserCut(u) PROVE SafeInv'
<1>1. /\ TypeOK /\ user[u].at = "send" /\ user[u].job \in Jobs
      /\ user[u] = [at |-> "send", job |-> user[u].job]
  BY AtWork DEF SafeInv, UserCut
<1>2. /\ UNCHANGED <<job, review, queue, acts, late, scraper, worker, nightly, scrapes>>
      /\ user' = [user EXCEPT ![u] = Idle] /\ dropped' = dropped \cup {<<u, user[u].job>>}
  BY DEF UserCut, userRest, Drop
<1>3. TypeOK'
  BY <1>1, <1>2 DEF TypeOK, Held
<1>4. \A v \in Users, i \in Jobs : Coming(v, i) => Coming(v, i)'
  BY <1>1, <1>2 DEF Coming, TypeOK
<1>5. ScoringAwaited'
  BY <1>2, <1>4 DEF SafeInv, ScoringAwaited, Coming
<1> QED BY <1>3, <1>5 DEF SafeInv

LEMMA EnqueueReviewSafe == ASSUME SafeInv, NEW u \in Users, EnqueueReview(u) PROVE SafeInv'
<1>1. TypeOK /\ user[u] = Idle /\ acts' \in 0..MaxActs
  BY RequestKeeps DEF SafeInv, EnqueueReview
<1>2. UNCHANGED <<job, review, user, late, dropped, scraper, worker, nightly, scrapes>>
  BY DEF EnqueueReview, userRest
<1>3. /\ queue' \in [Users \X Jobs -> 0..MaxQueue]
      /\ \A p \in Pairs : queue'[p] >= queue[p]
  <2>1. {u} \X {j \in Held(u) : review[<<u, j>>].status = "new"} \in SUBSET Pairs
    BY DEF Pairs, Held
  <2> QED BY <1>1, <2>1, EnqueueKeeps DEF EnqueueReview
<1>4. \A v \in Users, i \in Jobs : queue[<<v, i>>] > 0 => queue'[<<v, i>>] > 0
  <2>1. \A p \in Pairs : queue[p] \in Nat /\ queue'[p] \in Nat
    BY <1>1, <1>3, LimitAssumption DEF TypeOK, Pairs
  <2> QED BY <1>3, <2>1 DEF Pairs
<1>5. TypeOK'
  BY <1>1, <1>2, <1>3 DEF TypeOK, Held
<1>6. ScoringAwaited'
  BY <1>2, <1>4 DEF SafeInv, ScoringAwaited
<1> QED BY <1>5, <1>6 DEF SafeInv

LEMMA PatchSafe ==
  ASSUME SafeInv, NEW u \in Users, NEW j \in Jobs, Patch(u, j)
  PROVE  SafeInv'
<1>1. TypeOK /\ user[u] = Idle /\ acts' \in 0..MaxActs
  BY RequestKeeps DEF SafeInv, Patch
<1>2. UNCHANGED <<job, queue, user, late, dropped, scraper, worker, nightly, scrapes>>
  BY DEF Patch, userRest
<1>3. review[<<u, j>>] # None /\ review[<<u, j>>] \in Review
  BY <1>1 DEF Patch, Held, TypeOK
<1>4. PICK new \in Review : new.scored = review[<<u, j>>].scored /\ Set(u, j, new)
  <2>1. CASE \E s \in Status : Set(u, j, [review[<<u, j>>] EXCEPT !.status = s])
    <3> PICK s \in Status : Set(u, j, [review[<<u, j>>] EXCEPT !.status = s])
      BY <2>1
    <3>1. /\ [review[<<u, j>>] EXCEPT !.status = s] \in Review
          /\ [review[<<u, j>>] EXCEPT !.status = s].scored = review[<<u, j>>].scored
      BY <1>3 DEF Review
    <3> QED BY <3>1
  <2>2. CASE Set(u, j, [review[<<u, j>>] EXCEPT !.starred = ~review[<<u, j>>].starred])
    <3>1. /\ [review[<<u, j>>] EXCEPT !.starred = ~review[<<u, j>>].starred] \in Review
          /\ [review[<<u, j>>] EXCEPT !.starred = ~review[<<u, j>>].starred].scored
                = review[<<u, j>>].scored
      BY <1>3 DEF Review
    <3> QED BY <2>2, <3>1
  <2> QED BY <2>1, <2>2 DEF Patch
<1>5. /\ review' \in [Pairs -> Review \cup {None}]
      /\ \A p \in Pairs : p # <<u, j>> => review'[p] = review[p]
      /\ review'[<<u, j>>] # None /\ review'[<<u, j>>].scored = review[<<u, j>>].scored
  BY <1>1, <1>4, SetKeeps, NoneAssumption
<1>6. \A v \in Users, i \in Jobs :
        /\ review'[<<v, i>>] = None <=> review[<<v, i>>] = None
        /\ Unscored(v, i)' <=> Unscored(v, i)
  BY <1>3, <1>5 DEF Pairs, Unscored
<1>7. TypeOK'
  BY <1>1, <1>2, <1>5, <1>6 DEF TypeOK, Held, Pairs
<1>8. ScoringAwaited'
  BY <1>2, <1>6 DEF SafeInv, ScoringAwaited, Unscored
<1> QED BY <1>7, <1>8 DEF SafeInv

\* The reviews of S are gone, and the others as they were.
LEMMA EraseKeeps ==
  ASSUME TypeOK, NEW S, Erase(S)
  PROVE  /\ review' \in [Users \X Jobs -> Review \cup {None}]
         /\ \A u \in Users, j \in Jobs :
              review'[<<u, j>>] = IF <<u, j>> \in S THEN None ELSE review[<<u, j>>]
         /\ late \ S \subseteq late' /\ dropped \ S \subseteq dropped'
         /\ late' \subseteq Users \X Jobs /\ dropped' \subseteq Users \X Jobs
<1>1. /\ review' = [p \in Users \X Jobs |-> IF p \in S THEN None ELSE review[p]]
      /\ late' = late \ S /\ dropped' = dropped \ S
  BY DEF Erase
<1>2. \A u \in Users, j \in Jobs :
        review'[<<u, j>>] = IF <<u, j>> \in S THEN None ELSE review[<<u, j>>]
  BY <1>1
<1> QED BY <1>1, <1>2 DEF TypeOK

LEMMA EraseOneKeeps ==
  ASSUME TypeOK, NEW u \in Users, NEW j \in Jobs, Erase({<<u, j>>})
  PROVE  /\ review' \in [Users \X Jobs -> Review \cup {None}]
         /\ \A v \in Users, i \in Jobs :
              review'[<<v, i>>] = IF <<v, i>> = <<u, j>> THEN None ELSE review[<<v, i>>]
         /\ late \ {<<u, j>>} \subseteq late' /\ dropped \ {<<u, j>>} \subseteq dropped'
         /\ late' \subseteq Users \X Jobs /\ dropped' \subseteq Users \X Jobs
<1> DEFINE S == {<<u, j>>}
<1>1. Erase(S)
  OBVIOUS
<1>2. \A v \in Users, i \in Jobs : <<v, i>> \in S <=> <<v, i>> = <<u, j>>
  OBVIOUS
<1> HIDE DEF S
<1>3. /\ review' \in [Users \X Jobs -> Review \cup {None}]
      /\ \A v \in Users, i \in Jobs :
           review'[<<v, i>>] = IF <<v, i>> \in S THEN None ELSE review[<<v, i>>]
      /\ late \ S \subseteq late' /\ dropped \ S \subseteq dropped'
      /\ late' \subseteq Users \X Jobs /\ dropped' \subseteq Users \X Jobs
  BY <1>1, EraseKeeps
<1>4. \A v \in Users, i \in Jobs :
        review'[<<v, i>>] = IF <<v, i>> = <<u, j>> THEN None ELSE review[<<v, i>>]
  BY <1>2, <1>3
<1> QED BY <1>3, <1>4 DEF S

LEMMA DeleteReviewSafe ==
  ASSUME SafeInv, NEW u \in Users, NEW j \in Jobs, DeleteReview(u, j)
  PROVE  SafeInv'
<1>1. TypeOK /\ user[u] = Idle /\ acts' \in 0..MaxActs
  BY RequestKeeps DEF SafeInv, DeleteReview
<1>2. /\ UNCHANGED <<job, queue, scraper, worker, nightly, scrapes>>
      /\ Erase({<<u, j>>})
      /\ user' = user \/ user' = [user EXCEPT ![u] = [at |-> "drop", job |-> j]]
  BY DEF DeleteReview, userRest
<1>3. /\ review' \in [Users \X Jobs -> Review \cup {None}]
      /\ \A v \in Users, i \in Jobs :
           review'[<<v, i>>] = IF <<v, i>> = <<u, j>> THEN None ELSE review[<<v, i>>]
      /\ dropped \ {<<u, j>>} \subseteq dropped'
      /\ late' \subseteq Users \X Jobs /\ dropped' \subseteq Users \X Jobs
  BY <1>1, <1>2, EraseOneKeeps
<1>4. user' \in [Users -> {Idle} \cup [at : {"send", "drop"}, job : Jobs]]
  BY <1>1, <1>2 DEF TypeOK
<1>5. TypeOK'
  BY <1>1, <1>2, <1>3, <1>4 DEF TypeOK, Held
<1>6. \A v \in Users, i \in Jobs : <<v, i>> # <<u, j>> /\ Coming(v, i) => Coming(v, i)'
  BY <1>1, <1>2, <1>3 DEF Coming, TypeOK, Idle
<1>7. ScoringAwaited'
  BY <1>3, <1>6 DEF SafeInv, ScoringAwaited, Coming
<1> QED BY <1>5, <1>7 DEF SafeInv

LEMMA DeleteJobsKeeps ==
  ASSUME TypeOK, NEW S \in SUBSET Jobs, DeleteJobs(S)
  PROVE  /\ job' \in [Jobs -> Row \cup {None}]
         /\ \A j \in Jobs : job'[j] = IF j \in S THEN None ELSE job[j]
         /\ review' \in [Users \X Jobs -> Review \cup {None}]
         /\ \A u \in Users, j \in Jobs :
              review'[<<u, j>>] = IF j \in S THEN None ELSE review[<<u, j>>]
         /\ \A u \in Users, j \in Jobs \ S : <<u, j>> \in late => <<u, j>> \in late'
         /\ \A u \in Users, j \in Jobs \ S : <<u, j>> \in dropped => <<u, j>> \in dropped'
         /\ late' \subseteq Users \X Jobs /\ dropped' \subseteq Users \X Jobs
<1> DEFINE theirs == {p \in Users \X Jobs : p[2] \in S}
<1>1. job' \in [Jobs -> Row \cup {None}] /\ \A j \in Jobs : job'[j] = IF j \in S THEN None ELSE job[j]
  BY DEF DeleteJobs, TypeOK
<1>2. Erase(theirs)
  BY DEF DeleteJobs
<1>3. \A u \in Users, j \in Jobs : <<u, j>> \in theirs <=> j \in S
  OBVIOUS
<1> HIDE DEF theirs
<1> QED BY <1>1, <1>2, <1>3, EraseKeeps

LEMMA DropJobSafe == ASSUME SafeInv, NEW u \in Users, DropJob(u) PROVE SafeInv'
<1>1. /\ TypeOK /\ user[u].at = "drop" /\ user[u].job \in Jobs
      /\ user[u] = [at |-> "drop", job |-> user[u].job]
  BY AtWork DEF SafeInv, DropJob
<1>2. /\ UNCHANGED <<queue, acts, scraper, worker, nightly, scrapes>>
      /\ user' = [user EXCEPT ![u] = Idle]
      /\ DeleteJobs({user[u].job})
  BY DEF DropJob, userRest
<1>3. /\ job' \in [Jobs -> Row \cup {None}]
      /\ review' \in [Users \X Jobs -> Review \cup {None}]
      /\ \A j \in Jobs : j # user[u].job => job'[j] = job[j]
      /\ \A v \in Users, j \in Jobs : review'[<<v, j>>] # None =>
            j # user[u].job /\ review'[<<v, j>>] = review[<<v, j>>]
      /\ \A v \in Users, j \in Jobs : j # user[u].job =>
            (<<v, j>> \in dropped => <<v, j>> \in dropped')
      /\ late' \subseteq Users \X Jobs /\ dropped' \subseteq Users \X Jobs
  <2>1. {user[u].job} \in SUBSET Jobs
    BY <1>1
  <2>2. \A j \in Jobs : j \in {user[u].job} <=> j = user[u].job
    OBVIOUS
  <2> DEFINE S == {user[u].job}
  <2>3. DeleteJobs(S) /\ S \in SUBSET Jobs
    BY <1>2, <2>1
  <2> HIDE DEF S
  <2>4. /\ job' \in [Jobs -> Row \cup {None}]
        /\ \A j \in Jobs : job'[j] = IF j \in S THEN None ELSE job[j]
        /\ review' \in [Users \X Jobs -> Review \cup {None}]
        /\ \A v \in Users, j \in Jobs :
              review'[<<v, j>>] = IF j \in S THEN None ELSE review[<<v, j>>]
        /\ \A v \in Users, j \in Jobs \ S : <<v, j>> \in dropped => <<v, j>> \in dropped'
        /\ late' \subseteq Users \X Jobs /\ dropped' \subseteq Users \X Jobs
    BY <1>1, <2>3, DeleteJobsKeeps
  <2>5. \A j \in Jobs : j \in S <=> j = user[u].job
    BY <2>2 DEF S
  <2>6. \A v \in Users, j \in Jobs : review'[<<v, j>>] # None =>
           j # user[u].job /\ review'[<<v, j>>] = review[<<v, j>>]
    BY <2>4, <2>5
  <2>7. \A v \in Users, j \in Jobs : j # user[u].job =>
           (<<v, j>> \in dropped => <<v, j>> \in dropped')
    BY <2>4, <2>5
  <2> QED BY <2>4, <2>5, <2>6, <2>7
<1>4. TypeOK'
  <2>1. HeldHere
    BY <1>1 DEF HeldHere, TypeOK, Held
  <2>2. HeldHere'
    BY <1>3, <2>1 DEF HeldHere
  <2>3. \A v \in Users : \A j \in Held(v)' : job'[j] # None
    BY <2>2 DEF Held, HeldHere
  <2>4. user' \in [Users -> {Idle} \cup [at : {"send", "drop"}, job : Jobs]]
    BY <1>1, <1>2 DEF TypeOK
  <2> QED BY <1>1, <1>2, <1>3, <2>3, <2>4 DEF TypeOK
<1>5. \A v \in Users, j \in Jobs : j # user[u].job /\ Coming(v, j) => Coming(v, j)'
  BY <1>1, <1>2, <1>3 DEF Coming, TypeOK
<1>6. ScoringAwaited'
  BY <1>3, <1>5 DEF SafeInv, ScoringAwaited, Coming
<1> QED BY <1>4, <1>6 DEF SafeInv

-----------------------------------------------------------------------------
(* The worker                                                               *)

LEMMA TakeSafe ==
  ASSUME SafeInv, NEW u \in Users, NEW j \in Jobs, Take(u, j)
  PROVE  SafeInv'
<1>1. /\ TypeOK /\ worker = Idle
      /\ UNCHANGED <<review, dropped, job, scraper, user, nightly, acts, scrapes, late>>
      /\ queue' = [queue EXCEPT ![<<u, j>>] = queue[<<u, j>>] - 1]
      /\ worker' = IF job[j] = None THEN Idle ELSE [at |-> "scoring", user |-> u, job |-> j]
  BY DEF SafeInv, Take, workerRest
<1>2. queue[<<u, j>>] \in 0..MaxQueue /\ queue[<<u, j>>] > 0
  BY <1>1 DEF TypeOK, Take
<1>3. queue[<<u, j>>] - 1 \in 0..MaxQueue
  BY <1>2, LimitAssumption
<1>4. /\ queue' \in [Users \X Jobs -> 0..MaxQueue]
      /\ \A v \in Users, i \in Jobs : <<v, i>> # <<u, j>> => queue'[<<v, i>>] = queue[<<v, i>>]
  BY <1>1, <1>3 DEF TypeOK
<1>5. TypeOK'
  BY <1>1, <1>4 DEF TypeOK, Held
<1>6. ASSUME NEW v \in Users, NEW i \in Jobs, Unscored(v, i)' PROVE Coming(v, i)'
  <2>1. Unscored(v, i) /\ Coming(v, i)
    BY <1>1, <1>6 DEF Unscored, SafeInv, ScoringAwaited, Coming
  <2>2. CASE <<v, i>> = <<u, j>>
    <3>1. v = u /\ i = j /\ job[j] # None
      BY <1>1, <2>1, <2>2 DEF Unscored, TypeOK, Held
    <3>2. worker' # Idle /\ worker'.user = v /\ worker'.job = i
      BY <1>1, <3>1 DEF Idle
    <3> QED BY <3>2 DEF Coming
  <2>3. CASE <<v, i>> # <<u, j>>
    BY <1>1, <1>4, <2>1, <2>3 DEF Coming
  <2> QED BY <2>2, <2>3
<1>7. ScoringAwaited'
  BY <1>6 DEF ScoringAwaited, Unscored, Coming
<1> QED BY <1>5, <1>7 DEF SafeInv

LEMMA GiveUpSafe == ASSUME SafeInv, GiveUp PROVE SafeInv'
<1>1. /\ TypeOK /\ worker.at = "scoring" /\ worker.user \in Users /\ worker.job \in Jobs
      /\ UNCHANGED <<review, queue, job, scraper, user, nightly, acts, scrapes, late>>
      /\ worker' = Idle
  BY AtWork DEF SafeInv, GiveUp, workerRest
<1>2. /\ dropped \subseteq dropped' /\ dropped' \subseteq Users \X Jobs
      /\ Unscored(worker.user, worker.job) => <<worker.user, worker.job>> \in dropped'
  BY <1>1 DEF GiveUp, Drop, TypeOK, Unscored
<1>3. TypeOK'
  BY <1>1, <1>2 DEF TypeOK, Held
<1>4. ScoringAwaited'
  BY <1>1, <1>2 DEF SafeInv, ScoringAwaited, Unscored
<1> QED BY <1>3, <1>4 DEF SafeInv

\* A retry adds a delivery or none.
LEMMA RetryKeeps ==
  ASSUME TypeOK, worker.user \in Users, worker.job \in Jobs, RetryPost
  PROVE  /\ queue' \in [Users \X Jobs -> 0..MaxQueue]
         /\ \A v \in Users, i \in Jobs : queue[<<v, i>>] > 0 => queue'[<<v, i>>] > 0
<1>1. CASE UNCHANGED queue
  BY <1>1 DEF TypeOK
<1>2. CASE Enqueue({<<worker.user, worker.job>>})
  <2>1. {<<worker.user, worker.job>>} \in SUBSET Pairs
    BY DEF Pairs
  <2>2. queue' \in [Users \X Jobs -> 0..MaxQueue] /\ \A p \in Pairs : queue'[p] >= queue[p]
    BY <1>2, <2>1, EnqueueKeeps
  <2>3. \A p \in Pairs : queue[p] \in Nat /\ queue'[p] \in Nat
    BY <2>2, LimitAssumption DEF TypeOK, Pairs
  <2> QED BY <2>2, <2>3 DEF Pairs
<1> QED BY <1>1, <1>2 DEF RetryPost

LEMMA PostLoadSafe == ASSUME SafeInv, PostLoad PROVE SafeInv'
<1>1. /\ TypeOK /\ worker.at = "scoring" /\ worker.user \in Users /\ worker.job \in Jobs
      /\ UNCHANGED <<review, dropped, job, scraper, user, nightly, acts, scrapes, late>>
  BY AtWork DEF SafeInv, PostLoad, workerRest
<1> DEFINE r == review[<<worker.user, worker.job>>]
<1>2. CASE r = None
  <2>1. worker' = Idle /\ RetryPost
    BY <1>2 DEF PostLoad
  <2>2. /\ queue' \in [Users \X Jobs -> 0..MaxQueue]
        /\ \A v \in Users, i \in Jobs : queue[<<v, i>>] > 0 => queue'[<<v, i>>] > 0
    BY <1>1, <2>1, RetryKeeps
  <2>3. TypeOK'
    BY <1>1, <2>1, <2>2 DEF TypeOK, Held
  <2>4. ScoringAwaited'
    BY <1>1, <1>2, <2>1, <2>2 DEF SafeInv, ScoringAwaited
  <2> QED BY <2>3, <2>4 DEF SafeInv
<1>3. CASE r # None
  <2>1. /\ worker' = [at |-> "flush", user |-> worker.user, job |-> worker.job,
                      status |-> r.status]
        /\ UNCHANGED queue
    BY <1>3 DEF PostLoad
  <2>2. r.status \in Status
    <3>1. r \in Review
      BY <1>1, <1>3 DEF TypeOK
    <3> QED BY <3>1 DEF Review
  <2> HIDE DEF r
  <2>3. TypeOK'
    BY <1>1, <2>1, <2>2 DEF TypeOK, Held
  <2>4. worker' # Idle /\ worker'.user = worker.user /\ worker'.job = worker.job
    BY <2>1 DEF Idle
  <2>5. ScoringAwaited'
    BY <1>1, <2>1, <2>4 DEF SafeInv, ScoringAwaited
  <2> QED BY <2>3, <2>5 DEF SafeInv
<1> QED BY <1>2, <1>3

\* What is written over the review the worker has loaded.
LEMMA PostFlushKeeps ==
  ASSUME TypeOK, PostFlush
  PROVE  LET p == <<worker.user, worker.job>>
         IN  /\ worker.at = "flush" /\ worker.user \in Users /\ worker.job \in Jobs
             /\ worker' = Idle /\ p \in Pairs
             /\ \/ RetryPost /\ UNCHANGED <<review, dropped>> /\ review[p] = None
                \/ /\ review[p] # None /\ UNCHANGED queue /\ dropped' = dropped \ {p}
                   /\ review' \in [Pairs -> Review \cup {None}]
                   /\ \A q \in Pairs : q # p => review'[q] = review[q]
                   /\ review'[p] # None /\ review'[p].scored
                   /\ worker.status # "new" => review'[p].status = review[p].status
             /\ UNCHANGED <<job, scraper, user, nightly, acts, scrapes, late>>
<1> DEFINE p == <<worker.user, worker.job>>
           r == review[p]
           new == [r EXCEPT !.scored = TRUE, !.old = FALSE,
                            !.status = IF worker.status = "new" THEN "reviewed" ELSE r.status]
<1>1. worker.at = "flush" /\ worker.user \in Users /\ worker.job \in Jobs
  BY AtWork DEF PostFlush
<1>2. worker' = Idle /\ UNCHANGED <<job, scraper, user, nightly, acts, scrapes, late>>
  BY DEF PostFlush, workerRest
<1>3. p \in Pairs
  BY <1>1 DEF Pairs
<1>4. CASE r = None
  BY <1>1, <1>2, <1>3, <1>4 DEF PostFlush
<1>5. CASE r # None
  <2>1. review' = [review EXCEPT ![p] = new] /\ dropped' = dropped \ {p} /\ UNCHANGED queue
    BY <1>5 DEF PostFlush
  <2>2. r \in Review
    BY <1>3, <1>5 DEF TypeOK, Pairs
  <2>3. /\ new \in Review /\ new.scored
        /\ worker.status # "new" => new.status = r.status
    BY <2>2 DEF Review, Status, Expirable
  <2> HIDE DEF new
  <2>4. /\ review' \in [Pairs -> Review \cup {None}]
        /\ \A q \in Pairs : q # p => review'[q] = review[q]
        /\ review'[p] = new
    BY <1>3, <2>1, <2>3 DEF TypeOK, Pairs
  <2>5. review'[p] # None
    BY <2>3, <2>4, NoneAssumption
  <2> QED BY <1>1, <1>2, <1>3, <1>5, <2>1, <2>3, <2>4, <2>5
<1> QED BY <1>4, <1>5

LEMMA PostFlushSafe == ASSUME SafeInv, PostFlush PROVE SafeInv'
<1> DEFINE p == <<worker.user, worker.job>>
<1>1. /\ TypeOK /\ worker.at = "flush" /\ worker.user \in Users /\ worker.job \in Jobs
      /\ worker' = Idle /\ p \in Pairs
      /\ UNCHANGED <<job, scraper, user, nightly, acts, scrapes, late>>
  BY PostFlushKeeps DEF SafeInv
<1>2. CASE RetryPost /\ UNCHANGED <<review, dropped>> /\ review[p] = None
  <2>1. /\ queue' \in [Users \X Jobs -> 0..MaxQueue]
        /\ \A v \in Users, i \in Jobs : queue[<<v, i>>] > 0 => queue'[<<v, i>>] > 0
    BY <1>1, <1>2, RetryKeeps
  <2>2. TypeOK'
    BY <1>1, <1>2, <2>1 DEF TypeOK, Held
  <2>3. ScoringAwaited'
    BY <1>1, <1>2, <2>1 DEF SafeInv, ScoringAwaited
  <2> QED BY <2>2, <2>3 DEF SafeInv
<1>3. CASE /\ review[p] # None /\ UNCHANGED queue /\ dropped' = dropped \ {p}
           /\ review' \in [Pairs -> Review \cup {None}]
           /\ \A q \in Pairs : q # p => review'[q] = review[q]
           /\ review'[p] # None /\ review'[p].scored
  <2>1. \A v \in Users, i \in Jobs :
          /\ review'[<<v, i>>] = None <=> review[<<v, i>>] = None
          /\ Unscored(v, i)' => <<v, i>> # p /\ Unscored(v, i)
    BY <1>3 DEF Pairs, Unscored
  <2>2. TypeOK'
    BY <1>1, <1>3, <2>1 DEF TypeOK, Held, Pairs
  <2>3. ASSUME NEW v \in Users, NEW i \in Jobs, Unscored(v, i)' PROVE Coming(v, i)'
    <3>1. <<v, i>> # p /\ Coming(v, i)
      BY <2>1, <2>3 DEF SafeInv, ScoringAwaited, Unscored, Coming
    <3> QED BY <1>1, <1>3, <3>1 DEF Coming
  <2>4. ScoringAwaited'
    BY <2>3 DEF ScoringAwaited, Unscored, Coming
  <2> QED BY <2>2, <2>4 DEF SafeInv
<1> QED BY <1>2, <1>3, PostFlushKeeps DEF SafeInv

-----------------------------------------------------------------------------
(* Time and the nightly tasks                                               *)

\* Time, and the rules of the night, change no review the user has decided.
LEMMA AgeKeeps ==
  ASSUME TypeOK, Age
  PROVE  /\ job' \in [Jobs -> Row \cup {None}]
         /\ \A j \in Jobs : job'[j] = None <=> job[j] = None
         /\ review' \in [Pairs -> Review \cup {None}]
         /\ \A p \in Pairs :
              /\ review'[p] = None <=> review[p] = None
              /\ review[p] # None => /\ review'[p].status = review[p].status
                                     /\ review'[p].scored = review[p].scored
         /\ UNCHANGED <<nightly, late, dropped, nightlyRest>>
<1>1. CASE \E u \in Users, j \in Jobs :
             /\ review[<<u, j>>] # None
             /\ review' = [review EXCEPT ![<<u, j>>].old = TRUE]
             /\ UNCHANGED job
  <2> PICK u \in Users, j \in Jobs :
             /\ review[<<u, j>>] # None
             /\ review' = [review EXCEPT ![<<u, j>>].old = TRUE]
             /\ UNCHANGED job
    BY <1>1
  <2> DEFINE new == [review[<<u, j>>] EXCEPT !.old = TRUE]
  <2>1. review[<<u, j>>] \in Review
    BY DEF TypeOK
  <2>2. /\ new \in Review /\ new.status = review[<<u, j>>].status
        /\ new.scored = review[<<u, j>>].scored
    BY <2>1 DEF Review
  <2>3. new # None
    BY <2>2, NoneAssumption
  <2>4. review' = [review EXCEPT ![<<u, j>>] = new]
    OBVIOUS
  <2> HIDE DEF new
  <2>5. review' \in [Pairs -> Review \cup {None}]
    BY <2>2, <2>4 DEF TypeOK, Pairs
  <2>6. \A p \in Pairs :
              /\ review'[p] = None <=> review[p] = None
              /\ review[p] # None => /\ review'[p].status = review[p].status
                                     /\ review'[p].scored = review[p].scored
    BY <2>2, <2>3, <2>4 DEF TypeOK, Pairs
  <2> QED BY <2>5, <2>6 DEF TypeOK, Age
<1>2. CASE \E j \in Here : job' = [job EXCEPT ![j].posted = "old"] /\ UNCHANGED review
  <2> PICK j \in Here : job' = [job EXCEPT ![j].posted = "old"] /\ UNCHANGED review
    BY <1>2
  <2> DEFINE item == [job[j] EXCEPT !.posted = "old"]
  <2>1. j \in Jobs /\ job[j] \in Row /\ job[j] # None
    BY DEF Here, TypeOK
  <2>2. item \in Row
    BY <2>1 DEF Row, Posted
  <2>3. item # None
    BY <2>2, NoneAssumption
  <2>4. job' = [job EXCEPT ![j] = item]
    OBVIOUS
  <2> HIDE DEF item
  <2>5. job \in [Jobs -> Row \cup {None}] /\ review \in [Pairs -> Review \cup {None}]
    BY DEF TypeOK, Pairs
  <2>6. job' \in [Jobs -> Row \cup {None}]
    BY <2>2, <2>4, <2>5
  <2>7. \A i \in Jobs : job'[i] = IF i = j THEN item ELSE job[i]
    BY <2>1, <2>4, <2>5
  <2>8. \A i \in Jobs : job'[i] = None <=> job[i] = None
    BY <2>1, <2>3, <2>7
  <2> QED BY <2>5, <2>6, <2>8 DEF Age
<1> QED BY <1>1, <1>2 DEF Age

LEMMA ExpireKeeps ==
  ASSUME TypeOK, Expire
  PROVE  /\ review' \in [Pairs -> Review \cup {None}]
         /\ \A p \in Pairs :
              \/ review'[p] = review[p]
              \/ /\ review[p] # None /\ review[p].status \in Expirable /\ review'[p] # None
                 /\ review'[p].status = "expired" /\ review'[p].scored = review[p].scored
<1> DEFINE hit(p) == /\ review[p] # None
                     /\ review[p].status \in Expirable /\ ~review[p].starred
                     /\ review[p].old \/ Outdated(job[p[2]])
<1>1. review' = [p \in Users \X Jobs |->
                   IF hit(p) THEN [review[p] EXCEPT !.status = "expired", !.old = FALSE]
                   ELSE review[p]]
  BY DEF Expire
<1>2. \A p \in Pairs : hit(p) => review[p] # None /\ review[p].status \in Expirable
  OBVIOUS
<1> HIDE DEF hit
<1>3. ASSUME NEW p \in Pairs, hit(p)
      PROVE  /\ [review[p] EXCEPT !.status = "expired", !.old = FALSE] \in Review
             /\ [review[p] EXCEPT !.status = "expired", !.old = FALSE] # None
             /\ [review[p] EXCEPT !.status = "expired", !.old = FALSE].status = "expired"
             /\ [review[p] EXCEPT !.status = "expired", !.old = FALSE].scored = review[p].scored
  <2>1. review[p] \in Review
    BY <1>2, <1>3 DEF TypeOK, Pairs
  <2>2. [review[p] EXCEPT !.status = "expired", !.old = FALSE] \in Review
    BY <2>1 DEF Review, Status, Terminal
  <2> QED BY <2>1, <2>2, NoneAssumption DEF Review
<1>4. review \in [Pairs -> Review \cup {None}]
  BY DEF TypeOK, Pairs
<1>5. review' \in [Pairs -> Review \cup {None}]
  BY <1>1, <1>3, <1>4 DEF Pairs
<1>6. \A p \in Pairs :
        \/ review'[p] = review[p]
        \/ hit(p) /\ review'[p] = [review[p] EXCEPT !.status = "expired", !.old = FALSE]
  BY <1>1 DEF Pairs
<1> QED BY <1>2, <1>3, <1>5, <1>6

LEMMA AgeSafe == ASSUME SafeInv, Age PROVE SafeInv'
<1>1. /\ job' \in [Jobs -> Row \cup {None}]
      /\ \A j \in Jobs : job'[j] = None <=> job[j] = None
      /\ review' \in [Pairs -> Review \cup {None}]
      /\ \A p \in Pairs : /\ review'[p] = None <=> review[p] = None
                          /\ review[p] # None => review'[p].scored = review[p].scored
      /\ UNCHANGED <<nightly, late, dropped, queue, scraper, user, worker, acts, scrapes>>
  BY AgeKeeps DEF SafeInv, nightlyRest
<1>2. \A v \in Users, i \in Jobs : /\ review'[<<v, i>>] = None <=> review[<<v, i>>] = None
                                   /\ Unscored(v, i)' <=> Unscored(v, i)
  BY <1>1 DEF Pairs, Unscored
<1>3. TypeOK'
  BY <1>1, <1>2 DEF SafeInv, TypeOK, Held, Pairs
<1>4. ScoringAwaited'
  BY <1>1, <1>2 DEF SafeInv, ScoringAwaited, Unscored
<1> QED BY <1>3, <1>4 DEF SafeInv

LEMMA ExpireSafe == ASSUME SafeInv, Expire PROVE SafeInv'
<1>1. UNCHANGED <<job, nightly, late, dropped, queue, scraper, user, worker, acts, scrapes>>
  BY DEF Expire, nightlyRest
<1>2. /\ review' \in [Pairs -> Review \cup {None}]
      /\ \A p \in Pairs : /\ review'[p] = None <=> review[p] = None
                          /\ review[p] # None => review'[p].scored = review[p].scored
  BY ExpireKeeps DEF SafeInv
<1>3. \A v \in Users, i \in Jobs : /\ review'[<<v, i>>] = None <=> review[<<v, i>>] = None
                                   /\ Unscored(v, i)' <=> Unscored(v, i)
  BY <1>2 DEF Pairs, Unscored
<1>4. TypeOK'
  BY <1>1, <1>2, <1>3 DEF SafeInv, TypeOK, Held, Pairs
<1>5. ScoringAwaited'
  BY <1>1, <1>3 DEF SafeInv, ScoringAwaited, Unscored
<1> QED BY <1>4, <1>5 DEF SafeInv

\* The cleanup deletes the overdue reviews, and takes the jobs without another.
LEMMA CleanupKeeps ==
  ASSUME TypeOK, Cleanup
  PROVE  /\ review' \in [Users \X Jobs -> Review \cup {None}]
         /\ \A u \in Users, j \in Jobs :
              /\ Overdue(review[<<u, j>>]) => review'[<<u, j>>] = None
              /\ ~Overdue(review[<<u, j>>]) =>
                    /\ review'[<<u, j>>] = review[<<u, j>>]
                    /\ <<u, j>> \in dropped => <<u, j>> \in dropped'
         /\ late' \subseteq Users \X Jobs /\ dropped' \subseteq Users \X Jobs
         /\ nightly' \subseteq Jobs
         /\ \A u \in Users, j \in nightly' : review'[<<u, j>>] = None
<1> DEFINE gone == {p \in Users \X Jobs : Overdue(review[p])}
<1>1. Erase(gone)
  BY DEF Cleanup
<1>2. nightly' = {j \in Here : \A u \in Users : <<u, j>> \in gone \/ review[<<u, j>>] = None}
  BY DEF Cleanup
<1>3. \A u \in Users, j \in Jobs : <<u, j>> \in gone <=> Overdue(review[<<u, j>>])
  OBVIOUS
<1> HIDE DEF gone
<1>4. /\ review' \in [Users \X Jobs -> Review \cup {None}]
      /\ \A u \in Users, j \in Jobs :
           review'[<<u, j>>] = IF <<u, j>> \in gone THEN None ELSE review[<<u, j>>]
      /\ dropped \ gone \subseteq dropped'
      /\ late' \subseteq Users \X Jobs /\ dropped' \subseteq Users \X Jobs
  BY <1>1, EraseKeeps
<1>5. nightly' \subseteq Jobs
  BY <1>2 DEF Here
<1>6. \A u \in Users, j \in nightly' : review'[<<u, j>>] = None
  BY <1>2, <1>4, <1>5
<1> QED BY <1>3, <1>4, <1>5, <1>6

LEMMA CleanupSafe == ASSUME SafeInv, Cleanup PROVE SafeInv'
<1>1. TypeOK /\ UNCHANGED <<job, queue, scraper, user, worker, acts, scrapes>>
  BY DEF SafeInv, Cleanup, nightlyRest
<1>2. /\ review' \in [Users \X Jobs -> Review \cup {None}]
      /\ \A u \in Users, j \in Jobs : review'[<<u, j>>] # None =>
            /\ review'[<<u, j>>] = review[<<u, j>>]
            /\ <<u, j>> \in dropped => <<u, j>> \in dropped'
      /\ late' \subseteq Users \X Jobs /\ dropped' \subseteq Users \X Jobs
      /\ nightly' \subseteq Jobs
  BY <1>1, CleanupKeeps
<1>3. TypeOK'
  BY <1>1, <1>2 DEF TypeOK, Held
<1>4. ScoringAwaited'
  BY <1>1, <1>2 DEF SafeInv, ScoringAwaited
<1> QED BY <1>3, <1>4 DEF SafeInv

LEMMA DropOrphansSafe == ASSUME SafeInv, DropOrphans PROVE SafeInv'
<1>1. /\ TypeOK /\ UNCHANGED <<queue, scraper, user, worker, acts, scrapes>>
      /\ nightly' = {}
      /\ DeleteJobs(nightly) /\ nightly \in SUBSET Jobs
  BY DEF SafeInv, DropOrphans, nightlyRest, TypeOK
<1>2. /\ job' \in [Jobs -> Row \cup {None}]
      /\ review' \in [Users \X Jobs -> Review \cup {None}]
      /\ \A j \in Jobs : j \notin nightly => job'[j] = job[j]
      /\ \A v \in Users, j \in Jobs : review'[<<v, j>>] # None =>
            /\ j \notin nightly /\ review'[<<v, j>>] = review[<<v, j>>]
            /\ <<v, j>> \in dropped => <<v, j>> \in dropped'
      /\ late' \subseteq Users \X Jobs /\ dropped' \subseteq Users \X Jobs
  BY <1>1, DeleteJobsKeeps
<1>3. TypeOK'
  <2>1. HeldHere'
    BY <1>1, <1>2 DEF HeldHere, TypeOK, Held
  <2> QED BY <1>1, <1>2, <2>1 DEF TypeOK, Held, HeldHere
<1>4. ScoringAwaited'
  BY <1>1, <1>2 DEF SafeInv, ScoringAwaited
<1> QED BY <1>3, <1>4 DEF SafeInv

-----------------------------------------------------------------------------
(* The theorems                                                             *)

LEMMA SafeStep == SafeInv /\ [Next]_vars => SafeInv'
<1> SUFFICES ASSUME SafeInv, [Next]_vars PROVE SafeInv'
  OBVIOUS
<1>1. ASSUME ScraperStep \/ BoardStep PROVE SafeInv'
  BY <1>1, ScrapeSafe, SeenFlushSafe, EnsureSafe, ScraperSendsSafe, ScraperCutSafe, BoardSyncSafe
     DEF ScraperStep, BoardStep
<1>2. ASSUME NEW u \in Users, UserStep(u) PROVE SafeInv'
  BY <1>2, ImportSafe, AdoptSafe, ReplaceSafe, PatchSafe, DeleteReviewSafe, EnqueueReviewSafe,
     UserSendsSafe, UserCutSafe, DropJobSafe DEF UserStep, UserRequest
<1>3. ASSUME ScoringStep \/ NightlyStep PROVE SafeInv'
  BY <1>3, TakeSafe, GiveUpSafe, PostLoadSafe, PostFlushSafe, AgeSafe, ExpireSafe, CleanupSafe,
     DropOrphansSafe DEF ScoringStep, NightlyStep
<1>4. CASE UNCHANGED vars
  <2>1. TypeOK'
    BY <1>4 DEF SafeInv, TypeOK, vars, Held
  <2>2. ScoringAwaited'
    BY <1>4 DEF SafeInv, ScoringAwaited, vars
  <2> QED BY <2>1, <2>2 DEF SafeInv
<1> QED BY <1>1, <1>2, <1>3, <1>4 DEF Next

\* Every variable keeps its type, and a review its job, however the transactions
\* interleave (models.py, the ON DELETE CASCADE of user_job_reviews).
THEOREM TypeCorrect == Spec => []TypeOK
<1>1. SafeInv => TypeOK
  BY DEF SafeInv
<1> QED BY <1>1, Starts, SafeStep, PTL DEF Spec

\* A review without a score waits for a delivery of its own, or one of its deliveries
\* came to nothing, for any number of users and jobs, however transactions
\* overlap (jobs.py:135-165, 634-675).
THEOREM ReviewsAwaited == Spec => []ScoringAwaited
<1>1. SafeInv => ScoringAwaited
  BY DEF SafeInv
<1> QED BY <1>1, Starts, SafeStep, PTL DEF Spec

-----------------------------------------------------------------------------
(* Reviews inserted after the count                                         *)

LEMMA LateStarts == Init => LateInv
<1> SUFFICES ASSUME Init PROVE LateInv
  OBVIOUS
<1>1. \A p \in Users \X Jobs : review[p] = None
  BY DEF Init
<1>2. \A u \in Users, j \in Jobs : review[<<u, j>>] = None
  BY <1>1
<1> QED BY <1>2 DEF LateInv

\* Nobody counts in a step that leaves what the users are about to drop and the nightly
\* snapshot.
LEMMA CountedFrame ==
  ASSUME TypeOK, UNCHANGED nightly,
         \A u \in Users : user'[u] # user[u] => user'[u].at # "drop",
         NEW j \in Jobs, Counted(j)'
  PROVE  Counted(j)
<1>1. CASE j \in nightly'
  BY <1>1 DEF Counted
<1>2. CASE \E u \in Users : user'[u] = [at |-> "drop", job |-> j]
  <2> PICK u \in Users : user'[u] = [at |-> "drop", job |-> j]
    BY <1>2
  <2>1. user'[u] = user[u]
    OBVIOUS
  <2> QED BY <2>1 DEF Counted
<1> QED BY <1>1, <1>2 DEF Counted

\* So the invariant stays, when a review that is new to its job is noted.
LEMMA LateFrame ==
  ASSUME TypeOK, LateInv, UNCHANGED nightly,
         \A u \in Users : user'[u] # user[u] => user'[u].at # "drop",
         \A u \in Users, j \in Jobs : review'[<<u, j>>] # None =>
            \/ review[<<u, j>>] # None /\ (<<u, j>> \in late => <<u, j>> \in late')
            \/ Counted(j) => <<u, j>> \in late'
  PROVE  LateInv'
<1> SUFFICES ASSUME NEW u \in Users, NEW j \in Jobs, review'[<<u, j>>] # None, Counted(j)'
             PROVE  <<u, j>> \in late'
  BY DEF LateInv
<1>1. Counted(j)
  BY CountedFrame
<1>2. review[<<u, j>>] # None => <<u, j>> \in late
  BY <1>1 DEF LateInv
<1> QED BY <1>1, <1>2

LEMMA AddReviewLate ==
  ASSUME TypeOK, LateInv, UNCHANGED nightly, NEW u \in Users, NEW j \in Jobs, AddReview(u, j),
         \A v \in Users : user'[v] # user[v] => user'[v].at # "drop"
  PROVE  LateInv'
<1>1. /\ review' = [review EXCEPT ![<<u, j>>] = NewReview]
      /\ late' = IF Counted(j) THEN late \cup {<<u, j>>} ELSE late
  BY DEF AddReview, Insert
<1>2. \A v \in Users, i \in Jobs : <<v, i>> # <<u, j>> => review'[<<v, i>>] = review[<<v, i>>]
  BY <1>1 DEF TypeOK
<1> QED BY <1>1, <1>2, LateFrame

LEMMA MoveLate ==
  ASSUME TypeOK, LateInv, UNCHANGED nightly, NEW u \in Users, NEW i \in Jobs, NEW j \in Jobs,
         i # j, NEW new \in Review, Move(u, i, j, new),
         \A v \in Users : user'[v] # user[v] => user'[v].at # "drop"
  PROVE  LateInv'
<1>1. /\ \A p \in Pairs : p \notin {<<u, i>>, <<u, j>>} => review'[p] = review[p]
      /\ review'[<<u, i>>] = None
  BY MoveKeeps
<1>2. late' = (late \ {<<u, i>>}) \cup IF Counted(j) THEN {<<u, j>>} ELSE {}
  BY DEF Move
<1>3. ASSUME NEW v \in Users, NEW k \in Jobs, review'[<<v, k>>] # None
      PROVE  \/ review[<<v, k>>] # None /\ (<<v, k>> \in late => <<v, k>> \in late')
             \/ Counted(k) => <<v, k>> \in late'
  <2>1. <<v, k>> # <<u, i>>
    BY <1>1, <1>3
  <2>2. CASE <<v, k>> = <<u, j>>
    BY <1>2, <2>2
  <2>3. CASE <<v, k>> # <<u, j>>
    BY <1>1, <1>2, <1>3, <2>1, <2>3 DEF Pairs
  <2> QED BY <2>2, <2>3
<1> QED BY <1>3, LateFrame

LEMMA SendingLate ==
  ASSUME TypeOK, NEW u \in Users, NEW j \in Jobs, Sending(u, j)
  PROVE  \A v \in Users : user'[v] # user[v] => user'[v].at # "drop"
<1>1. \A v \in Users : user'[v] = IF v = u THEN [at |-> "send", job |-> j] ELSE user[v]
  BY DEF Sending, TypeOK
<1> QED BY <1>1

LEMMA IdleLate ==
  ASSUME TypeOK, NEW u \in Users, user' = [user EXCEPT ![u] = Idle]
  PROVE  \A v \in Users : user'[v] # user[v] => user'[v].at # "drop"
<1>1. \A v \in Users : user'[v] = IF v = u THEN Idle ELSE user[v]
  BY DEF TypeOK
<1> QED BY <1>1 DEF Idle

LEMMA ImportLate ==
  ASSUME TypeOK, LateInv, NEW u \in Users, NEW l \in Listings, Import(u, l)
  PROVE  LateInv'
<1>1. UNCHANGED nightly
  BY DEF Import, userRest
<1>2. PICK j \in Jobs : AddReview(u, j) /\ Sending(u, j)
  BY DEF Import, Here
<1> QED BY <1>1, <1>2, SendingLate, AddReviewLate

LEMMA AdoptLate ==
  ASSUME TypeOK, LateInv, NEW u \in Users, NEW l \in Listings, Adopt(u, l)
  PROVE  LateInv'
<1>1. UNCHANGED <<nightly, user>>
  BY DEF Adopt, userRest
<1>2. PICK i \in Held(u), j \in Jobs :
        /\ AddRow(j, NewRow(l, Manual, RoleOf[l], "undated"))
        /\ Move(u, i, j, review[<<u, i>>])
  BY DEF Adopt, Twins
<1>3. i \in Jobs /\ job[i] # None /\ review[<<u, i>>] \in Review
  BY DEF TypeOK, Held
<1>4. job[j] = None
  BY <1>2 DEF AddRow, Unused
<1> QED BY <1>1, <1>2, <1>3, <1>4, MoveLate

LEMMA ReplaceLate ==
  ASSUME TypeOK, LateInv, NEW u \in Users, NEW i \in Jobs, NEW l \in Listings, Replace(u, i, l)
  PROVE  LateInv'
<1> DEFINE old == review[<<u, i>>]
           new == [old EXCEPT !.status = IF old.status = "expired" THEN "new" ELSE old.status]
<1>1. UNCHANGED nightly
  BY DEF Replace, userRest
<1>2. i \in Held(u) /\ job[i] # None /\ old \in Review
  BY DEF Replace, Held, TypeOK
<1>3. PICK j \in Jobs : (j \notin Held(u) \/ job[j] = None) /\ Move(u, i, j, new) /\ Sending(u, j)
  BY DEF Replace, AddRow, Unused
<1>4. i # j
  BY <1>2, <1>3
<1>5. new \in Review
  BY <1>2 DEF Review, Status, Expirable
<1> HIDE DEF new
<1> QED BY <1>1, <1>3, <1>4, <1>5, SendingLate, MoveLate

\* The job that is found without reviews has none.
LEMMA DeleteReviewLate ==
  ASSUME TypeOK, LateInv, NEW u \in Users, NEW j \in Jobs, DeleteReview(u, j)
  PROVE  LateInv'
<1>1. UNCHANGED nightly /\ Erase({<<u, j>>})
  BY DEF DeleteReview, userRest
<1>2. /\ \A v \in Users, i \in Jobs :
           review'[<<v, i>>] = IF <<v, i>> = <<u, j>> THEN None ELSE review[<<v, i>>]
      /\ late \ {<<u, j>>} \subseteq late'
  BY <1>1, EraseOneKeeps
<1>3. CASE UNCHANGED user
  BY <1>1, <1>2, <1>3, LateFrame
<1>4. CASE /\ \A v \in Users \ {u} : review[<<v, j>>] = None
           /\ user' = [user EXCEPT ![u] = [at |-> "drop", job |-> j]]
  <2>1. \A v \in Users : review'[<<v, j>>] = None
    BY <1>2, <1>4
  <2>2. \A v \in Users : user'[v] = IF v = u THEN [at |-> "drop", job |-> j] ELSE user[v]
    BY <1>4 DEF TypeOK
  <2>3. ASSUME NEW v \in Users, NEW i \in Jobs, review'[<<v, i>>] # None, Counted(i)'
        PROVE  <<v, i>> \in late'
    <3>1. i # j
      BY <2>1, <2>3
    <3>2. Counted(i)
      BY <1>1, <2>2, <2>3, <3>1 DEF Counted
    <3> QED BY <1>2, <2>3, <3>1, <3>2 DEF LateInv
  <2> QED BY <2>3 DEF LateInv
<1> QED BY <1>3, <1>4 DEF DeleteReview

LEMMA DropJobLate ==
  ASSUME TypeOK, LateInv, NEW u \in Users, DropJob(u)
  PROVE  LateInv'
<1> DEFINE S == {user[u].job}
<1>1. /\ S \in SUBSET Jobs /\ DeleteJobs(S)
      /\ UNCHANGED nightly /\ user' = [user EXCEPT ![u] = Idle]
  BY AtWork DEF DropJob, userRest
<1> HIDE DEF S
<1>2. \A v \in Users, i \in Jobs :
        review'[<<v, i>>] = IF i \in S THEN None ELSE review[<<v, i>>]
  BY <1>1, DeleteJobsKeeps
<1>3. \A v \in Users, i \in Jobs \ S : <<v, i>> \in late => <<v, i>> \in late'
  BY <1>1, DeleteJobsKeeps
<1>4. \A v \in Users, i \in Jobs : review'[<<v, i>>] # None =>
         review[<<v, i>>] # None /\ (<<v, i>> \in late => <<v, i>> \in late')
  BY <1>2, <1>3
<1> QED BY <1>1, <1>4, IdleLate, LateFrame

LEMMA NightlyLate == ASSUME TypeOK, LateInv, NightlyStep PROVE LateInv'
<1>1. CASE Age \/ Expire
  <2>1. UNCHANGED <<nightly, late, user>>
    BY <1>1, AgeKeeps DEF Expire, nightlyRest
  <2>2. \A p \in Pairs : review'[p] # None => review[p] # None
    BY <1>1, AgeKeeps, ExpireKeeps
  <2> QED BY <2>1, <2>2, LateFrame DEF Pairs
<1>2. CASE Cleanup
  <2>1. UNCHANGED user /\ Erase({p \in Users \X Jobs : Overdue(review[p])})
    BY <1>2 DEF Cleanup, nightlyRest
  <2>2. \A u \in Users, j \in nightly' : review'[<<u, j>>] = None
    BY <1>2, CleanupKeeps
  <2>3. \A u \in Users, j \in Jobs : review'[<<u, j>>] # None =>
            review[<<u, j>>] # None /\ (<<u, j>> \in late => <<u, j>> \in late')
    BY <2>1, EraseKeeps
  <2>4. ASSUME NEW u \in Users, NEW j \in Jobs, review'[<<u, j>>] # None, Counted(j)'
        PROVE  <<u, j>> \in late'
    <3>1. j \notin nightly'
      BY <2>2, <2>4
    <3>2. Counted(j)
      BY <2>1, <2>4, <3>1 DEF Counted
    <3> QED BY <2>3, <2>4, <3>2 DEF LateInv
  <2> QED BY <2>4 DEF LateInv
<1>3. CASE DropOrphans
  <2>1. DeleteJobs(nightly) /\ nightly \in SUBSET Jobs /\ nightly' = {} /\ UNCHANGED user
    BY <1>3 DEF DropOrphans, nightlyRest, TypeOK
  <2>2. \A v \in Users, i \in Jobs :
          review'[<<v, i>>] = IF i \in nightly THEN None ELSE review[<<v, i>>]
    BY <2>1, DeleteJobsKeeps
  <2>4. \A v \in Users, i \in Jobs \ nightly : <<v, i>> \in late => <<v, i>> \in late'
    BY <2>1, DeleteJobsKeeps
  <2>3. ASSUME NEW u \in Users, NEW j \in Jobs, review'[<<u, j>>] # None, Counted(j)'
        PROVE  <<u, j>> \in late'
    <3>1. j \notin nightly /\ Counted(j)
      BY <2>1, <2>2, <2>3 DEF Counted
    <3>2. <<u, j>> \in late
      BY <2>2, <2>3, <3>1 DEF LateInv
    <3> QED BY <2>4, <3>1, <3>2
  <2> QED BY <2>3 DEF LateInv
<1> QED BY <1>1, <1>2, <1>3 DEF NightlyStep

LEMMA LateStep == TypeOK /\ LateInv /\ [Next]_vars => LateInv'
<1> SUFFICES ASSUME TypeOK, LateInv, [Next]_vars PROVE LateInv'
  OBVIOUS
<1>1. ASSUME UNCHANGED <<nightly, user, late>>,
             \A u \in Users, j \in Jobs : review'[<<u, j>>] # None => review[<<u, j>>] # None
      PROVE  LateInv'
  BY <1>1, LateFrame
<1>2. ASSUME ScraperStep PROVE LateInv'
  <2>1. ASSUME NEW u \in Users, NEW l \in Listings, NEW posted, Scrape(u, l, posted)
        PROVE  LateInv'
    BY <1>1, <2>1 DEF Scrape, scraperRest
  <2>2. CASE SeenFlush
    <3>1. UNCHANGED <<nightly, user, late>> /\ \A p \in Pairs : review'[p] # None => review[p] # None
      BY <2>2, SeenFlushKeeps
    <3> QED BY <1>1, <3>1 DEF Pairs
  <2>3. CASE Ensure
    <3>1. UNCHANGED <<nightly, user>> /\ scraper.user \in Users /\ scraper.job \in Jobs
      BY <2>3, AtWork DEF Ensure, scraperMore, scraperRest
    <3>2. CASE UNCHANGED <<review, late>>
      BY <1>1, <3>1, <3>2
    <3>3. CASE AddReview(scraper.user, scraper.job)
      BY <3>1, <3>3, AddReviewLate
    <3> QED BY <2>3, <3>2, <3>3 DEF Ensure
  <2>4. CASE ScraperSends \/ ScraperCut
    BY <1>1, <2>4 DEF ScraperSends, ScraperCut, scraperMore, scraperRest
  <2> QED BY <1>2, <2>1, <2>2, <2>3, <2>4 DEF ScraperStep
<1>3. ASSUME BoardStep PROVE LateInv'
  <2> PICK live : BoardSync(live)
    BY <1>3 DEF BoardStep
  <2>1. UNCHANGED <<nightly, user, late>>
    BY DEF BoardSync, scraperMore, scraperRest
  <2>2. \A p \in Pairs : review'[p] # None => review[p] # None
    BY BoardSyncReviews
  <2> QED BY <1>1, <2>1, <2>2 DEF Pairs
<1>4. ASSUME NEW u \in Users, UserStep(u) PROVE LateInv'
  <2>1. CASE UserSends(u) \/ UserCut(u)
    <3>1. UNCHANGED <<nightly, review, late>> /\ user' = [user EXCEPT ![u] = Idle]
      BY <2>1 DEF UserSends, UserCut, userRest
    <3> QED BY <3>1, IdleLate, LateFrame
  <2>2. CASE EnqueueReview(u)
    BY <1>1, <2>2 DEF EnqueueReview, userRest
  <2>3. ASSUME NEW j \in Jobs, Patch(u, j) PROVE LateInv'
    <3>1. UNCHANGED <<nightly, user, late>>
      BY <2>3 DEF Patch, userRest
    <3>2. \E new : Set(u, j, new)
      BY <2>3 DEF Patch
    <3>3. \A v \in Users, i \in Jobs : <<v, i>> # <<u, j>> => review'[<<v, i>>] = review[<<v, i>>]
      BY <3>2 DEF Set, TypeOK
    <3>4. review[<<u, j>>] # None
      BY <2>3 DEF Patch, Held
    <3> QED BY <1>1, <3>1, <3>3, <3>4
  <2> QED BY <1>4, <2>1, <2>2, <2>3, ImportLate, AdoptLate, ReplaceLate, DeleteReviewLate,
          DropJobLate DEF UserStep, UserRequest
<1>5. ASSUME ScoringStep PROVE LateInv'
  <2>1. UNCHANGED <<nightly, user, late>>
    BY <1>5, PostFlushKeeps DEF ScoringStep, Take, GiveUp, PostLoad, workerRest
  <2>2. CASE PostFlush
    <3>1. \A p \in Pairs : review'[p] # None => review[p] # None
      BY <2>2, PostFlushKeeps
    <3> QED BY <1>1, <2>1, <3>1 DEF Pairs
  <2>3. CASE UNCHANGED review
    BY <1>1, <2>1, <2>3
  <2> QED BY <1>5, <2>2, <2>3 DEF ScoringStep, Take, GiveUp, PostLoad
<1>6. CASE UNCHANGED vars
  BY <1>1, <1>6 DEF vars
<1> QED BY <1>2, <1>3, <1>4, <1>5, <1>6, NightlyLate DEF Next

-----------------------------------------------------------------------------
(* What a step leaves alone                                                 *)

\* A user's step changes none of the reviews and rows another user holds, but for the
\* deletion of a job counted before the review came.
LEMMA OthersKept ==
  ASSUME TypeOK, LateInv, NEW u \in Users, UserStep(u), NEW v \in Users \ {u}, NEW j \in Held(v)
  PROVE  \/ review'[<<v, j>>] = review[<<v, j>>] /\ job'[j] = job[j]
         \/ review'[<<v, j>>] = None /\ <<v, j>> \in late
<1>1. j \in Jobs /\ review[<<v, j>>] # None /\ job[j] # None /\ <<v, j>> \in Pairs
  BY DEF Held, TypeOK, Pairs
<1>2. \A i \in Jobs : <<u, i>> # <<v, j>>
  OBVIOUS
<1>3. \A l \in Listings : /\ Manual \in Sources /\ RoleOf[l] \in {RoleOf[k] : k \in Listings}
                          /\ "undated" \in Posted
  BY DEF Sources, Posted
<1>4. ASSUME NEW i \in Jobs, NEW l \in Listings, NEW role \in {RoleOf[k] : k \in Listings},
             AddRow(i, NewRow(l, Manual, role, "undated"))
      PROVE  job'[j] = job[j]
  BY <1>1, <1>3, <1>4, AddRowKeeps
<1>5. ASSUME NEW i \in Jobs, AddReview(u, i) PROVE review'[<<v, j>>] = review[<<v, j>>]
  BY <1>1, <1>2, <1>5 DEF AddReview, TypeOK
<1>6. ASSUME NEW i \in Jobs, NEW new \in Review, Set(u, i, new)
      PROVE  review'[<<v, j>>] = review[<<v, j>>]
  BY <1>1, <1>2, <1>6, SetKeeps
<1>7. ASSUME NEW i \in Jobs, NEW k \in Jobs, NEW new, Move(u, i, k, new)
      PROVE  review'[<<v, j>>] = review[<<v, j>>]
  BY <1>1, <1>2, <1>7 DEF Move, TypeOK
<1>8. ASSUME NEW l \in Listings, Import(u, l)
      PROVE  review'[<<v, j>>] = review[<<v, j>>] /\ job'[j] = job[j]
  BY <1>3, <1>4, <1>5, <1>8 DEF Import, Here
<1>9. ASSUME NEW l \in Listings, Adopt(u, l)
      PROVE  review'[<<v, j>>] = review[<<v, j>>] /\ job'[j] = job[j]
  BY <1>3, <1>4, <1>7, <1>9 DEF Adopt, Twins, Held
<1>10. ASSUME NEW l \in Listings, NEW i \in Jobs, Replace(u, i, l)
       PROVE  review'[<<v, j>>] = review[<<v, j>>] /\ job'[j] = job[j]
  <2> DEFINE key == IF job[i].role # None THEN job[i].role ELSE RoleOf[l]
  <2>1. key \in {RoleOf[k] : k \in Listings}
    <3>1. job[i] \in Row
      BY <1>10 DEF Replace, Held, TypeOK
    <3> QED BY <3>1 DEF Row
  <2>2. UNCHANGED job \/ \E k \in Jobs : AddRow(k, NewRow(l, Manual, key, "undated"))
    BY <1>10 DEF Replace
  <2>3. review'[<<v, j>>] = review[<<v, j>>]
    BY <1>7, <1>10 DEF Replace
  <2> HIDE DEF key
  <2> QED BY <1>4, <2>1, <2>2, <2>3
<1>11. ASSUME NEW i \in Jobs, Patch(u, i)
       PROVE  review'[<<v, j>>] = review[<<v, j>>] /\ job'[j] = job[j]
  <2>1. UNCHANGED job /\ review[<<u, i>>] \in Review
    BY <1>11 DEF Patch, Held, TypeOK
  <2>2. CASE \E s \in Status : Set(u, i, [review[<<u, i>>] EXCEPT !.status = s])
    <3> PICK s \in Status : Set(u, i, [review[<<u, i>>] EXCEPT !.status = s])
      BY <2>2
    <3>1. [review[<<u, i>>] EXCEPT !.status = s] \in Review
      BY <2>1 DEF Review
    <3> QED BY <1>6, <2>1, <3>1
  <2>3. CASE Set(u, i, [review[<<u, i>>] EXCEPT !.starred = ~review[<<u, i>>].starred])
    <3>1. [review[<<u, i>>] EXCEPT !.starred = ~review[<<u, i>>].starred] \in Review
      BY <2>1 DEF Review
    <3> QED BY <1>6, <2>1, <2>3, <3>1
  <2> QED BY <1>11, <2>2, <2>3 DEF Patch
<1>12. ASSUME NEW i \in Jobs, DeleteReview(u, i)
       PROVE  review'[<<v, j>>] = review[<<v, j>>] /\ job'[j] = job[j]
  <2>1. Erase({<<u, i>>}) /\ UNCHANGED job
    BY <1>12 DEF DeleteReview
  <2> QED BY <1>1, <1>2, <2>1, EraseOneKeeps
<1>13. ASSUME EnqueueReview(u) \/ UserSends(u) \/ UserCut(u)
       PROVE  review'[<<v, j>>] = review[<<v, j>>] /\ job'[j] = job[j]
  BY <1>13 DEF EnqueueReview, UserSends, UserCut
<1>14. ASSUME DropJob(u)
       PROVE  \/ review'[<<v, j>>] = review[<<v, j>>] /\ job'[j] = job[j]
              \/ review'[<<v, j>>] = None /\ <<v, j>> \in late
  <2> DEFINE S == {user[u].job}
  <2>1. /\ user[u] = [at |-> "drop", job |-> user[u].job] /\ user[u].job \in Jobs
        /\ DeleteJobs(S)
    BY <1>14, AtWork DEF DropJob
  <2>2. S \in SUBSET Jobs /\ (j \in S => Counted(j))
    BY <2>1 DEF Counted
  <2> HIDE DEF S
  <2>3. /\ job'[j] = IF j \in S THEN None ELSE job[j]
        /\ j \in S => review'[<<v, j>>] = None
        /\ j \notin S => review'[<<v, j>>] = review[<<v, j>>]
    BY <1>1, <2>1, <2>2, DeleteJobsKeeps
  <2> QED BY <1>1, <2>2, <2>3 DEF LateInv
<1> QED BY <1>8, <1>9, <1>10, <1>11, <1>12, <1>13, <1>14 DEF UserStep, UserRequest

\* Where its own user takes no step, a review goes only when overdue or inserted after
\* the count, and keeps its status once decided, unless overtaken.
LEMMA LeftAlone ==
  ASSUME TypeOK, LateInv, [Next]_vars, NEW u \in Users, NEW j \in Jobs, ~UserStep(u),
         review[<<u, j>>] # None
  PROVE  /\ review'[<<u, j>>] = None => Overdue(review[<<u, j>>]) \/ <<u, j>> \in late
         /\ review'[<<u, j>>] # None /\ review[<<u, j>>].status \in Decisions =>
              review'[<<u, j>>].status = review[<<u, j>>].status \/ Overtaken(u, j)
<1> DEFINE p == <<u, j>>
           Goal == /\ review'[p] = None => Overdue(review[p]) \/ p \in late
                   /\ review'[p] # None /\ review[p].status \in Decisions =>
                        review'[p].status = review[p].status \/ Overtaken(u, j)
<1>1. p \in Pairs /\ j \in Held(u)
  BY DEF Pairs, Held
<1>2. review'[p] = review[p] => Goal
  OBVIOUS
<1>3. \A s \in Decisions : s \notin Expirable /\ s # "new" /\ s # "expired"
  BY DEF Decisions, Expirable
<1>4. ASSUME NEW v \in Users, UserStep(v) PROVE Goal
  <2>1. v # u
    BY <1>4
  <2> QED BY <1>1, <1>2, <1>4, <2>1, OthersKept
<1>5. ASSUME SeenFlush PROVE Goal
  <2> DEFINE q == <<scraper.user, scraper.job>>
  <2>1. /\ scraper.at = "seen"
        /\ \A r \in Pairs : r # q => review'[r] = review[r]
        /\ scraper.status = None => UNCHANGED review
        /\ review'[q] = None <=> review[q] = None
    BY <1>5, SeenFlushKeeps
  <2>2. CASE scraper.status = None \/ p # q
    BY <1>1, <1>2, <2>1, <2>2
  <2>3. CASE scraper.status # None /\ p = q
    <3>1. Overtaken(u, j)
      BY <2>1, <2>3 DEF Overtaken
    <3> QED BY <2>1, <2>3, <3>1
  <2> QED BY <2>2, <2>3
<1>6. ASSUME Ensure PROVE Goal
  <2>1. CASE UNCHANGED review
    BY <1>2, <2>1
  <2>2. CASE /\ review[<<scraper.user, scraper.job>>] = None
             /\ AddReview(scraper.user, scraper.job)
    <3>1. p # <<scraper.user, scraper.job>>
      BY <2>2
    <3> QED BY <1>1, <1>2, <2>2, <3>1 DEF AddReview, TypeOK, Pairs
  <2> QED BY <1>6, <2>1, <2>2 DEF Ensure
<1>7. ASSUME NEW live, BoardSync(live) PROVE Goal
  BY <1>1, <1>2, <1>3, <1>7, BoardSyncReviews
<1>8. ASSUME \/ ScraperSends \/ ScraperCut \/ GiveUp \/ PostLoad
             \/ \E v \in Users, l \in Listings, posted \in Posted : Scrape(v, l, posted)
             \/ \E v \in Users, i \in Jobs : Take(v, i)
             \/ UNCHANGED vars
      PROVE  Goal
  BY <1>2, <1>8 DEF Scrape, ScraperSends, ScraperCut, GiveUp, PostLoad, Take, vars
<1>9. ASSUME PostFlush PROVE Goal
  <2> DEFINE q == <<worker.user, worker.job>>
  <2>1. /\ worker.at = "flush"
        /\ \/ UNCHANGED review
           \/ /\ \A r \in Pairs : r # q => review'[r] = review[r]
              /\ review'[q] # None
              /\ worker.status # "new" => review'[q].status = review[q].status
    BY <1>9, PostFlushKeeps
  <2>2. CASE p = q /\ worker.status = "new"
    <3>1. Overtaken(u, j)
      BY <2>1, <2>2 DEF Overtaken
    <3> QED BY <1>2, <2>1, <2>2, <3>1
  <2>3. CASE p = q /\ worker.status # "new"
    BY <1>2, <2>1, <2>3
  <2>4. CASE p # q
    BY <1>1, <1>2, <2>1, <2>4
  <2> QED BY <2>2, <2>3, <2>4
<1>10. ASSUME Age PROVE Goal
  BY <1>1, <1>10, AgeKeeps
<1>11. ASSUME Expire PROVE Goal
  BY <1>1, <1>2, <1>3, <1>11, ExpireKeeps
<1>12. ASSUME Cleanup PROVE Goal
  BY <1>12, CleanupKeeps
<1>13. ASSUME DropOrphans PROVE Goal
  <2>1. DeleteJobs(nightly) /\ nightly \in SUBSET Jobs
    BY <1>13 DEF DropOrphans, TypeOK
  <2>2. /\ j \in nightly => review'[p] = None
        /\ j \notin nightly => review'[p] = review[p]
    BY <2>1, DeleteJobsKeeps
  <2>3. j \in nightly => p \in late
    BY DEF LateInv, Counted
  <2> QED BY <1>2, <2>2, <2>3
<1> HIDE DEF Goal
<1>14. ScraperStep => Goal
  <2>1. \A l \in Listings : Datings[l] \subseteq Posted
    BY DatingAssumption
  <2> QED BY <1>5, <1>6, <1>8, <2>1 DEF ScraperStep
<1>15. Goal
  BY <1>4, <1>7, <1>8, <1>9, <1>10, <1>11, <1>12, <1>13, <1>14
     DEF Next, BoardStep, ScoringStep, NightlyStep
<1> QED BY <1>15 DEF Goal

LEMMA LateNoted == Spec => [](TypeOK /\ LateInv)
<1>1. TypeOK /\ LateInv /\ [Next]_vars => LateInv'
  BY LateStep
<1> QED BY <1>1, LateStarts, TypeCorrect, PTL DEF Spec

\* What the user decided is left alone by late scores, listings seen again, boards and the
\* rules of the night, but for the two that were writing a review they had loaded before
\* the user decided (jobs.py:111-112, 563-564; admin.py:147-150).
THEOREM DecisionsStand == Spec => DecisionStands
<1> DEFINE Step == \A u \in Users, j \in Jobs :
                     /\ review[<<u, j>>] # None /\ review[<<u, j>>].status \in Decisions
                     /\ review'[<<u, j>>] # None
                     => \/ review'[<<u, j>>].status = review[<<u, j>>].status
                        \/ UserStep(u) \/ Overtaken(u, j)
<1>1. TypeOK /\ LateInv /\ [Next]_vars => Step
  BY LeftAlone
<1> QED BY <1>1, LateNoted, PTL DEF Spec, DecisionStands

\* And a review goes by its own user's hand, or terminal, without a star and past the
\* TTL: a deleted job takes along those at most that were inserted after its reviews were
\* counted (admin.py:55-60, 75-80; jobs.py:510-525).
THEOREM ReviewsKept == Spec => KeptUnlessOld
<1> DEFINE Step == \A u \in Users, j \in Jobs :
                     review[<<u, j>>] # None /\ review'[<<u, j>>] = None
                     => Overdue(review[<<u, j>>]) \/ UserStep(u) \/ <<u, j>> \in late
<1>1. TypeOK /\ LateInv /\ [Next]_vars => Step
  BY LeftAlone
<1> QED BY <1>1, LateNoted, PTL DEF Spec, KeptUnlessOld

\* And no user's request changes the reviews of another, or the rows they hold, but for
\* those inserted after the count (jobs.py:510-525, 596-600, 647-650).
THEOREM OthersLeftAlone == Spec => OthersUntouched
<1> DEFINE Step == \A u \in Users : UserStep(u) =>
                     \A v \in Users \ {u} : \A j \in Held(v) :
                        \/ review'[<<v, j>>] = review[<<v, j>>] /\ job'[j] = job[j]
                        \/ <<v, j>> \in late
<1>1. TypeOK /\ LateInv => Step
  BY OthersKept
<1> QED BY <1>1, LateNoted, PTL DEF OthersUntouched

-----------------------------------------------------------------------------
(* What the board pass is told.  BoardSync takes the ids that are on the   *)
(* boards a run has read; the run is ScrapeRuns'.  Its tasks are not the   *)
(* deliveries of review_job.                                               *)

\* A turn is a configuration's, and what it has still to search is counted down.
Underway ==
    /\ run.at \in {"jsearch", "boards"} => run.cfg \in Config
    /\ run.at = "jsearch" => run.searches > 0

\* Since the turn began, whatever is off its board now, or was when it was read, is noted.
Noted ==
    run.at \in {"jsearch", "boards"} =>
        /\ \A p \in Postings :
              board[BoardOf[p]] = Absent \/ p \notin board[BoardOf[p]] => p \in off
        /\ Missing \subseteq off

TurnInv == RunsTypeOK /\ Underway /\ Noted

\* What a run holds.
RunTask == [at : {"next", "jsearch", "boards"}, todo : SUBSET Config,
            cfg : Config \cup {Absent}, searches : 0..Locations, left : SUBSET Companies,
            live : Boards]

LEMMA RunAtWork ==
    ASSUME RunsTypeOK
    PROVE  /\ BetweenTasks \in Work /\ BetweenTasks.at = "idle"
           /\ run = BetweenTasks <=> run.at = "idle"
           /\ run # BetweenTasks => run \in RunTask
           /\ run.at \in {"next", "jsearch", "boards"} => run \in RunTask
  BY DEF RunsTypeOK, Work, BetweenTasks, RunTask

LEMMA RunStarts == RunsInit => TurnInv
<1> SUFFICES ASSUME RunsInit PROVE TurnInv
  OBVIOUS
<1>1. BetweenTasks \in Work /\ BetweenTasks.at = "idle"
  BY DEF Work, BetweenTasks
<1>2. RunsTypeOK
  <2>1. Nowhere \in Boards /\ Nowhere \in Slug
    BY DEF Nowhere, Boards, Slug
  <2>2. /\ row \in [Rows -> Criterion \cup {Absent}] /\ stamp \in Stamp
        /\ scraped \in [Rows -> 0..MaxEdits]
        /\ edits \in 0..MaxEdits /\ deaths \in 0..MaxDeaths
    BY BoundAssumption DEF RunsInit, Stamp
  <2>3. \A c \in Companies : board[c] = Absent
    BY DEF RunsInit, Nowhere
  <2> QED
    BY <1>1, <2>1, <2>2, <2>3 DEF RunsInit, RunsTypeOK
<1> QED BY <1>1, <1>2 DEF RunsInit, TurnInv, Underway, Noted

\* The tables that a change of the criteria writes.
Criteria ==
    /\ row \in [Rows -> Criterion \cup {Absent}]
    /\ debounce \subseteq Owners /\ tasks \subseteq Owners \cup {All}
    /\ scraped \in [Rows -> 0..MaxEdits]
    /\ edits \in 0..MaxEdits

LEMMA SaveKeeps ==
    ASSUME RunsTypeOK, CriteriaStep
    PROVE  Criteria' /\ UNCHANGED <<run, board, off, deaths, slug, mySlug, stamp>>
<1> USE DEF RunsTypeOK, Criteria
<1>1. ASSUME NEW r \in Rows, NEW i \in Inputs, Update(r, i) PROVE Criteria'
  <2>1. edits + 1 \in 1..MaxEdits /\ row[r] \in Criterion
    BY <1>1, BoundAssumption DEF Update
  <2>2. [row[r] EXCEPT !.inputs = i, !.rev = edits + 1] \in Criterion
    BY <2>1 DEF Criterion
  <2>3. row' = [row EXCEPT ![r] = [row[r] EXCEPT !.inputs = i, !.rev = edits + 1]]
    BY <1>1 DEF Update
  <2>4. row' \in [Rows -> Criterion \cup {Absent}]
    BY <2>2, <2>3
  <2>5. debounce' \subseteq Owners /\ tasks' \subseteq Owners \cup {All}
    BY <1>1, RowAssumption DEF Update, MaybeEnqueue
  <2> QED BY <1>1, <2>1, <2>4, <2>5 DEF Update
<1>2. ASSUME NEW u \in Owners, NEW S \in SUBSET Rows, NEW i \in Inputs, Create(u, S, i)
      PROVE  Criteria'
  <2>1. edits + 1 \in 1..MaxEdits
    BY <1>2, BoundAssumption DEF Create
  <2>2. [on |-> TRUE, inputs |-> i, rev |-> edits + 1] \in Criterion
    BY <2>1 DEF Criterion
  <2>3. row' \in [Rows -> Criterion \cup {Absent}]
    BY <1>2, <2>2 DEF Create
  <2>4. scraped' \in [Rows -> 0..MaxEdits]
    BY <1>2, BoundAssumption DEF Create
  <2>5. debounce' \subseteq Owners /\ tasks' \subseteq Owners \cup {All}
    BY <1>2 DEF Create, MaybeEnqueue
  <2>6. edits' \in 0..MaxEdits
    BY <1>2, <2>1 DEF Create
  <2> QED BY <2>3, <2>4, <2>5, <2>6
<1>3. ASSUME NEW r \in Rows, Activate(r) PROVE Criteria'
  <2>1. edits + 1 \in 1..MaxEdits
    BY <1>3, BoundAssumption DEF Activate
  <2>2. ASSUME NEW s \in Rows, row[s] # Absent PROVE [row[s] EXCEPT !.on = s = r] \in Criterion
    BY <2>2 DEF Criterion
  <2>3. row' \in [Rows -> Criterion \cup {Absent}]
    BY <1>3, <2>2 DEF Activate
  <2>4. debounce' \subseteq Owners /\ tasks' \subseteq Owners \cup {All}
    BY <1>3, RowAssumption DEF Activate, MaybeEnqueue
  <2> QED BY <1>3, <2>1, <2>3, <2>4 DEF Activate
<1>4. ASSUME NEW r \in Rows, Delete(r) PROVE Criteria'
  BY <1>4 DEF Delete, history
<1>5. UNCHANGED <<run, board, off, deaths, slug, mySlug, stamp>>
  BY DEF CriteriaStep, Update, Create, Activate, Delete, Elsewhere,
         caches, history
<1> QED BY <1>1, <1>2, <1>3, <1>4, <1>5 DEF CriteriaStep

LEMMA SaveNoted == ASSUME TurnInv, CriteriaStep PROVE TurnInv'
  BY SaveKeeps DEF TurnInv, RunsTypeOK, Criteria, Underway, Noted, Missing

\* An employer changes a board: what that takes down is noted at once.
LEMMA ChangeNoted ==
    ASSUME TurnInv, NEW c \in Companies, NEW b \in (SUBSET Postings) \cup {Absent},
           Change(c, b)
    PROVE  TurnInv'
<1> USE DEF TurnInv
<1>1. /\ board' = [board EXCEPT ![c] = b] /\ run' = run
      /\ (b # Absent => b \subseteq PostingsOf(c))
      /\ off' = off \cup (PostingsOf(c) \ (IF b = Absent THEN {} ELSE b))
  BY DEF Change
<1>2. RunsTypeOK'
  <2>1. board' \in Boards
    BY <1>1 DEF RunsTypeOK, Boards
  <2>2. \A d \in Companies : board'[d] # Absent => board'[d] \subseteq PostingsOf(d)
    BY <1>1 DEF RunsTypeOK, Boards
  <2>3. off' \subseteq Postings
    BY <1>1 DEF RunsTypeOK, PostingsOf
  <2>4. UNCHANGED <<row, debounce, tasks, slug, mySlug, stamp, scraped, edits, deaths>>
    BY DEF Change, criteria, caches
  <2> QED BY <1>1, <2>1, <2>2, <2>3, <2>4 DEF RunsTypeOK, PostingsOf
<1>3. Underway'
  BY <1>1 DEF Underway
<1>4. Noted'
  <2> SUFFICES ASSUME run.at \in {"jsearch", "boards"} PROVE Noted'
    BY <1>1 DEF Noted
  <2>1. ASSUME NEW p \in Postings, board'[BoardOf[p]] = Absent \/ p \notin board'[BoardOf[p]]
        PROVE  p \in off'
    <3>1. BoardOf[p] \in Companies
      BY BoardAssumption
    <3>2. CASE BoardOf[p] = c
      BY <1>1, <2>1, <3>1, <3>2 DEF PostingsOf, RunsTypeOK, Boards
    <3>3. CASE BoardOf[p] # c
      BY <1>1, <2>1, <3>1, <3>3 DEF Noted, RunsTypeOK, Boards
    <3> QED BY <3>2, <3>3
  <2>2. Missing' = Missing /\ Missing \subseteq off
    BY <1>1 DEF Missing, Noted
  <2> QED BY <1>1, <2>1, <2>2 DEF Noted
<1> QED BY <1>2, <1>3, <1>4

LEMMA TimeNoted == ASSUME TurnInv, Time PROVE TurnInv'
<1> USE DEF TurnInv
<1>1. ASSUME Beat PROVE TurnInv'
  BY <1>1 DEF Beat, criteria, caches, history, RunsTypeOK, Underway,
              Noted, Missing
<1>2. ASSUME NEW u \in Owners, DebounceEnds(u) PROVE TurnInv'
  BY <1>2 DEF DebounceEnds, caches, history, RunsTypeOK, Underway, Noted,
              Missing
<1>3. ASSUME NEW u \in Owners, StampAges(u) PROVE TurnInv'
  <2>1. stamp' \in Stamp
    BY <1>3 DEF StampAges, Older, Stamp, RunsTypeOK
  <2> QED BY <1>3, <2>1 DEF StampAges, criteria, history, RunsTypeOK, Underway,
                            Noted, Missing
<1>4. ASSUME NEW c \in Companies, Forget(c) PROVE TurnInv'
  <2>1. slug' \in Slug
    BY <1>4 DEF Forget, Slug, RunsTypeOK
  <2> QED BY <1>4, <2>1 DEF Forget, criteria, history, RunsTypeOK, Underway,
                            Noted, Missing
<1> QED BY <1>1, <1>2, <1>3, <1>4, ChangeNoted DEF Time

-----------------------------------------------------------------------------
(* The tasks                                                                *)

LEMMA ConfigsTyped ==
    ASSUME RunsTypeOK, NEW task, NEW todo \in Configs(task)
    PROVE  todo \subseteq Config
<1>1. ASSUME NEW u, NEW r \in Active(u) PROVE ConfigOf(r) \in Config
  BY <1>1 DEF Active, RunsTypeOK, Criterion, ConfigOf, Config
<1> QED BY <1>1 DEF Configs

LEMMA TakeNoted ==
    ASSUME TurnInv, NEW t \in Owners \cup {All},
           TakeTask(t) \/ TakeNothing(t)
    PROVE  TurnInv'
<1> USE DEF TurnInv
<1>1. CASE TakeTask(t)
  <2>1. PICK todo \in Configs(t) :
          run' = [at |-> "next", todo |-> todo, cfg |-> Absent, searches |-> 0, left |-> {},
                     live |-> Nowhere]
    BY <1>1 DEF TakeTask
  <2>2. Nowhere \in Boards /\ Nowhere \in Slug
    BY DEF Nowhere, Boards, Slug
  <2>3. run' \in Work
    BY <2>1, <2>2, ConfigsTyped, BoundAssumption DEF Work
  <2>4. mySlug' \in Slug
    BY <1>1, <2>2 DEF TakeTask, RunsTypeOK
  <2>5. UNCHANGED <<row, debounce, board, slug, stamp, scraped, off, edits, deaths>>
      /\ tasks' \subseteq tasks
    BY <1>1 DEF TakeTask, criteria, history
  <2>6. RunsTypeOK'
    BY <2>3, <2>4, <2>5 DEF RunsTypeOK
  <2> QED BY <2>1, <2>6 DEF Underway, Noted
<1>2. CASE TakeNothing(t)
  BY <1>2 DEF TakeNothing, criteria, caches, history, RunsTypeOK,
              Underway, Noted, Missing
<1> QED BY <1>1, <1>2

\* A turn begins: nothing was read yet, and what is off its board is noted.
LEMMA TurnNoted == ASSUME TurnInv, Turn PROVE TurnInv'
<1> USE DEF TurnInv
<1>1. run \in RunTask
  BY RunAtWork DEF Turn
<1>2. /\ UNCHANGED <<row, debounce, tasks, board, slug, mySlug, stamp, scraped, edits, deaths>>
      /\ off' = {p \in Postings : board[BoardOf[p]] = Absent \/ p \notin board[BoardOf[p]]}
  BY DEF Turn, criteria, caches
<1>3. CASE run.todo = {}
  <2>1. run' = BetweenTasks
    BY <1>3 DEF Turn
  <2>2. BetweenTasks \in Work /\ BetweenTasks.at = "idle"
    BY RunAtWork
  <2> QED BY <1>2, <2>1, <2>2 DEF RunsTypeOK, Underway, Noted
<1>4. CASE run.todo # {}
  <2>1. PICK cfg \in run.todo :
          run' = [run EXCEPT
                       !.todo = @ \ {cfg}, !.cfg = cfg, !.live = Nowhere,
                       !.at = CASE ~cfg.inputs.titles -> "next"
                                [] cfg.inputs.titles /\ UserOf[cfg.row] \in Keyed -> "jsearch"
                                [] OTHER -> "boards",
                       !.searches = IF UserOf[cfg.row] \in Keyed THEN Locations ELSE 0,
                       !.left = cfg.inputs.watch]
    BY <1>4 DEF Turn
  <2>2. /\ cfg \in Config /\ cfg.inputs.watch \subseteq Companies
        /\ cfg.inputs.titles \in BOOLEAN
    BY <1>1, <2>1, InputAssumption DEF RunTask, Config
  <2>3. Nowhere \in Boards /\ \A c \in Companies : Nowhere[c] = Absent
    BY DEF Nowhere, Boards
  <2>4. PICK at \in {"next", "jsearch", "boards"}, n \in {0, Locations} :
          /\ run' = [run EXCEPT !.todo = run.todo \ {cfg}, !.cfg = cfg, !.live = Nowhere,
                               !.at = at, !.searches = n, !.left = cfg.inputs.watch]
          /\ at = "jsearch" => n = Locations
    <3> DEFINE keyed == UserOf[cfg.row] \in Keyed
               place == CASE ~cfg.inputs.titles -> "next"
                          [] cfg.inputs.titles /\ keyed -> "jsearch"
                          [] OTHER -> "boards"
               n == IF keyed THEN Locations ELSE 0
    <3>1. place \in {"next", "jsearch", "boards"} /\ (place = "jsearch" => keyed)
      BY <2>2
    <3>2. n \in {0, Locations} /\ (keyed => n = Locations)
      OBVIOUS
    <3>3. run' = [run EXCEPT !.todo = run.todo \ {cfg}, !.cfg = cfg, !.live = Nowhere,
                                   !.at = place, !.searches = n, !.left = cfg.inputs.watch]
      BY <1>1, <2>1 DEF RunTask
    <3> HIDE DEF place, n, keyed
    <3> QED BY <3>1, <3>2, <3>3
  <2>5. /\ run' \in RunTask /\ run'.cfg = cfg /\ run'.live = Nowhere
        /\ run'.at = "jsearch" => run'.searches = Locations
    <3>1. n \in 0..Locations
      BY BoundAssumption
    <3>2. run.todo \ {cfg} \in SUBSET Config
      BY <1>1 DEF RunTask
    <3> QED BY <1>1, <2>4, <2>2, <2>3, <3>1, <3>2 DEF RunTask
  <2>6. run' \in Work
    BY <2>5 DEF Work, RunTask
  <2>7. RunsTypeOK'
    BY <1>2, <2>6 DEF RunsTypeOK
  <2>8. Underway'
    BY <2>2, <2>5, BoundAssumption DEF Underway
  <2>9. Missing' = {}
    BY <2>3, <2>5, BoardAssumption DEF Missing
  <2>10. Noted'
    BY <1>2, <2>9 DEF Noted
  <2> QED BY <2>7, <2>8, <2>10
<1> QED BY <1>3, <1>4

LEMMA SearchNoted ==
    ASSUME TurnInv, NEW u \in Keyed, NEW asked \in BOOLEAN, Search(u, asked)
    PROVE  TurnInv'
<1> USE DEF TurnInv
<1>1. run \in RunTask /\ run.at = "jsearch" /\ run.searches > 0
  BY RunAtWork DEF Search, Underway
<1>2. run.searches \in 1..Locations /\ Locations \in Nat
  BY <1>1, BoundAssumption DEF RunTask
<1>3. PICK at \in {"jsearch", "boards"} :
        /\ run' = [run EXCEPT !.searches = run.searches - 1, !.at = at]
        /\ at = "jsearch" => run.searches # 1
  <2>1. run' = [run EXCEPT !.searches = run.searches - 1,
                                 !.at = IF run.searches = 1 THEN "boards" ELSE run.at]
    BY <1>1 DEF Search, RunTask
  <2> QED BY <1>1, <2>1
<1>4. run.searches - 1 \in 0..Locations
  BY <1>2
<1>5. run' \in RunTask /\ run'.cfg = run.cfg /\ run'.live = run.live
      /\ run'.at = at /\ run'.searches = run.searches - 1
  BY <1>1, <1>3, <1>4 DEF RunTask
<1>6. run'.at = "jsearch" => run'.searches > 0
  BY <1>2, <1>3, <1>5
<1>7. stamp' \in Stamp
  BY DEF Search, RunsTypeOK, Stamp
<1>8. UNCHANGED <<row, debounce, tasks, board, slug, mySlug, scraped, off, edits, deaths>>
  BY DEF Search, criteria, history
<1>9. run' \in Work
  BY <1>5 DEF Work, RunTask
<1>10. RunsTypeOK'
  BY <1>7, <1>8, <1>9 DEF RunsTypeOK
<1>11. Underway' /\ Noted'
  BY <1>1, <1>5, <1>6, <1>8 DEF Underway, Noted, Missing
<1> QED BY <1>10, <1>11

\* A board was read, or not: what is not on it then is off it now.
LEMMA PassNoted ==
    ASSUME TurnInv, NEW c \in Companies, NEW content \in {Absent, board[c]},
           Fetched(c), Pass(c, content),
           slug' \in Slug, mySlug' \in Slug
    PROVE  TurnInv'
<1> USE DEF TurnInv
<1>1. run \in RunTask /\ run.at = "boards"
  BY RunAtWork DEF Fetched
<1>2. content \in (SUBSET Postings) \cup {Absent}
  BY DEF RunsTypeOK, Boards
<1>3. run' = [run EXCEPT !.left = run.left \ {c}, !.live = [run.live EXCEPT ![c] = content]]
  BY <1>1 DEF Pass, RunTask
<1>4. run.live \in Boards /\ [run.live EXCEPT ![c] = content] \in Boards
  BY <1>1, <1>2 DEF RunTask, Boards
<1>5. /\ run' \in RunTask /\ run'.at = "boards" /\ run'.cfg = run.cfg
      /\ run'.live = [run.live EXCEPT ![c] = content]
  BY <1>1, <1>3, <1>4 DEF RunTask
<1>6. UNCHANGED <<row, debounce, tasks, board, stamp, scraped, off, edits, deaths>>
  BY DEF Pass, criteria, history
<1>7. run' \in Work
  BY <1>5 DEF Work, RunTask
<1>8. RunsTypeOK'
  BY <1>6, <1>7 DEF RunsTypeOK
<1>9. Underway'
  BY <1>1, <1>5 DEF Underway
<1>10. Missing' \subseteq off
  <2> SUFFICES ASSUME NEW p \in Postings, run'.live[BoardOf[p]] # Absent,
                      p \notin run'.live[BoardOf[p]]
               PROVE  p \in off
    BY DEF Missing
  <2>1. BoardOf[p] \in Companies
    BY BoardAssumption
  <2>2. CASE BoardOf[p] = c
    BY <1>1, <1>4, <1>5, <2>1, <2>2 DEF Noted, Boards
  <2>3. CASE BoardOf[p] # c
    BY <1>1, <1>4, <1>5, <2>1, <2>3 DEF Noted, Missing, Boards
  <2> QED BY <2>2, <2>3
<1>11. Noted'
  BY <1>1, <1>6, <1>10 DEF Noted
<1> QED BY <1>8, <1>9, <1>11

LEMMA FetchNoted ==
    ASSUME TurnInv, NEW c \in Companies, NEW answers \in BOOLEAN,
           BoardFails(c) \/ ReadBoard(c, answers) \/ NoBoard(c, answers)
    PROVE  TurnInv'
<1>1. slug \in Slug /\ mySlug \in Slug
  BY DEF TurnInv, RunsTypeOK
<1>2. ASSUME NEW value \in {"miss", "slug"}, Cache(c, value)
      PROVE  slug' \in Slug /\ mySlug' \in Slug
  BY <1>1, <1>2 DEF Cache, Slug
<1>3. slug' \in Slug /\ mySlug' \in Slug
  BY <1>1, <1>2 DEF BoardFails, ReadBoard, NoBoard
<1>4. Fetched(c) /\ \E content \in {Absent, board[c]} : Pass(c, content)
  BY DEF BoardFails, ReadBoard, NoBoard
<1> QED BY <1>3, <1>4, PassNoted

LEMMA ReportNoted == ASSUME TurnInv, Report PROVE TurnInv'
<1> USE DEF TurnInv
<1>1. run \in RunTask /\ run.cfg \in Config
  BY RunAtWork DEF Report, Underway
<1>2. run' \in RunTask /\ run'.at = "next"
  BY <1>1 DEF Report, RunTask
<1>3. scraped' \in [Rows -> 0..MaxEdits]
  BY <1>1 DEF Report, RunsTypeOK, Config
<1>4. UNCHANGED <<row, debounce, tasks, board, slug, mySlug, stamp, off, edits, deaths>>
  BY DEF Report, criteria, caches
<1>5. run' \in Work
  BY <1>2 DEF Work, RunTask
<1>6. RunsTypeOK'
  BY <1>3, <1>4, <1>5 DEF RunsTypeOK
<1> QED BY <1>2, <1>6 DEF Underway, Noted

LEMMA DieNoted == ASSUME TurnInv, Die PROVE TurnInv'
<1>1. BetweenTasks \in Work /\ BetweenTasks.at = "idle" /\ Nowhere \in Slug
  BY RunAtWork DEF TurnInv, Nowhere, Slug
<1>2. deaths' \in 0..MaxDeaths
  BY BoundAssumption DEF Die, TurnInv, RunsTypeOK
<1>3. RunsTypeOK'
  BY <1>1, <1>2 DEF Die, TurnInv, RunsTypeOK, criteria, history
<1> QED BY <1>1, <1>3 DEF Die, TurnInv, Underway, Noted

LEMMA NextNoted == TurnInv /\ [RunsNext]_runsVars => TurnInv'
<1> SUFFICES ASSUME TurnInv, [RunsNext]_runsVars PROVE TurnInv'
  OBVIOUS
<1>1. ASSUME UNCHANGED runsVars PROVE TurnInv'
  BY <1>1 DEF runsVars, TurnInv, RunsTypeOK, Underway, Noted, Missing
<1>2. ASSUME WorkerStep PROVE TurnInv'
  BY <1>2, TurnNoted, ReportNoted, SearchNoted, FetchNoted DEF WorkerStep
<1> QED BY <1>1, <1>2, SaveNoted, TimeNoted, DieNoted, TakeNoted DEF RunsNext

-----------------------------------------------------------------------------
\* The criteria, the tasks, the caches and a run keep their shapes for any number of users,
\* companies, postings and changes.
THEOREM ScrapeTypes == RunsSpec => []RunsTypeOK
<1>1. RunsInit => TurnInv
  BY RunStarts
<1>2. TurnInv /\ [RunsNext]_runsVars => TurnInv'
  BY NextNoted
<1>3. TurnInv => RunsTypeOK
  BY DEF TurnInv
<1> QED BY <1>1, <1>2, <1>3, PTL DEF RunsSpec

\* For any users, companies and postings, and whatever employers do to their boards while a
\* run goes on: what a run reports as gone was off its board during that row's turn, so
\* a miss that OneBadRun counts is never a fetch that failed (ats_boards.py:100-113,
\* base.py:45-54).
THEOREM MissingIsOff == RunsSpec => MissingWasOff
<1>1. RunsInit => TurnInv
  BY RunStarts
<1>2. TurnInv /\ [RunsNext]_runsVars => TurnInv'
  BY NextNoted
<1>3. TurnInv /\ [RunsNext]_runsVars => [Report => Missing \subseteq off]_runsVars
  BY DEF TurnInv, Noted, Report
<1> QED BY <1>1, <1>2, <1>3, PTL DEF RunsSpec, MissingWasOff
=============================================================================
