----------------------------- MODULE ScrapeRuns -----------------------------
(***************************************************************************)
(* From a user's search criteria to the scraper's runs:                    *)
(*                                                                         *)
(*   services/tracker-api/app/routers/criteria.py  the criteria, the       *)
(*                                                 scrape a change asks for*)
(*   services/scraper/app/main.py                  the tasks and a run     *)
(*   services/scraper/app/scrapers/jsearch.py      the daily throttle      *)
(*   services/scraper/app/scrapers/ats_boards.py   reading company boards  *)
(*   services/scraper/app/scrapers/slugs.py        which board is whose    *)
(*                                                                         *)
(* A change of what scrapers look for sends one task; the beat sends one   *)
(* for everybody every six hours.  The worker runs one task at a time: it  *)
(* asks for the configurations and goes through them one by one.  Redis    *)
(* keys expire by themselves; each process has a copy of what it wrote,    *)
(* for when Redis does not answer.                                         *)
(*                                                                         *)
(* What the aggregators find is posted and changes nothing here; what      *)
(* becomes of a posting, and of a board's report, is JobReviews.  A        *)
(* company has one board; its address is tried under several names.        *)
(***************************************************************************)
EXTENDS Naturals, FiniteSets

CONSTANTS
    Owners,      \* approved users
    Keyed,       \* those with a JSearch key
    Rows,        \* ids of criteria rows
    UserOf,
    Companies,
    Postings,
    BoardOf,     \* the company of each posting
    Inputs,      \* what _SCRAPE_FIELDS may say: any job titles? which companies?
    Locations,   \* _JSEARCH_MAX_LOCATIONS
    FreshChild,  \* does every task get a new process (--max-tasks-per-child=1)?
    MaxEdits,    \* bound: saved changes
    MaxDeaths,   \* bound: workers killed in the middle of a task
    Absent

ASSUME RowAssumption == UserOf \in [Rows -> Owners] /\ Keyed \subseteq Owners
ASSUME BoardAssumption == BoardOf \in [Postings -> Companies]
ASSUME InputAssumption == Inputs \subseteq [titles : BOOLEAN, watch : SUBSET Companies]
ASSUME BoundAssumption ==
    Locations \in Nat \ {0} /\ MaxEdits \in Nat /\ MaxDeaths \in Nat /\ FreshChild \in BOOLEAN
ASSUME AbsentAssumption == Absent \notin Rows \cup Postings

VARIABLES
    row,       \* the criteria rows
    debounce,  \* users with a scrape_debounce key
    tasks,     \* tasks that wait
    run,       \* the task in progress
    board,     \* what is on each company's board
    slug,      \* what Redis says of the company's board
    mySlug,    \* and the worker's own copy
    stamp,     \* jsearch:last of each user, by its age
    scraped,   \* history: the latest version of each row that was scraped
    off,       \* history: postings that were off their board since the row's turn began
    edits, deaths

runsVars == <<row, debounce, tasks, run, board, slug, mySlug, stamp,
          scraped, off, edits, deaths>>

criteria == <<row, debounce, edits>>
caches == <<slug, mySlug, stamp>>
history == <<scraped, off>>

BetweenTasks == [at |-> "idle"]
All == "all"                      \* scrape_all; a user's name stands for its scrape_user

PostingsOf(c) == {p \in Postings : BoardOf[p] = c}
Nowhere == [c \in Companies |-> Absent]

Criterion == [on : BOOLEAN, inputs : Inputs, rev : 1..MaxEdits]
Config == [row : Rows, inputs : Inputs, rev : 1..MaxEdits]
Boards == [Companies -> (SUBSET Postings) \cup {Absent}]      \* Absent: it has none
Slug == [Companies -> {Absent, "miss", "slug"}]
Stamp == [Owners -> {Absent, "grace", "day"}]
Work == {BetweenTasks} \cup
        [at : {"next", "jsearch", "boards"}, todo : SUBSET Config,
         cfg : Config \cup {Absent}, searches : 0..Locations, left : SUBSET Companies,
         live : Boards]

RunsTypeOK ==
    /\ row \in [Rows -> Criterion \cup {Absent}]
    /\ debounce \subseteq Owners
    /\ tasks \subseteq Owners \cup {All}
    /\ run \in Work
    /\ board \in Boards
    /\ \A c \in Companies : board[c] # Absent => board[c] \subseteq PostingsOf(c)
    /\ slug \in Slug /\ mySlug \in Slug
    /\ stamp \in Stamp
    /\ scraped \in [Rows -> 0..MaxEdits]
    /\ off \subseteq Postings
    /\ edits \in 0..MaxEdits /\ deaths \in 0..MaxDeaths

RunsInit ==
    /\ row = [r \in Rows |-> Absent]
    /\ debounce = {} /\ tasks = {}
    /\ run = BetweenTasks
    /\ board = Nowhere
    /\ slug = Nowhere /\ mySlug = Nowhere
    /\ stamp = [u \in Owners |-> Absent]
    /\ scraped = [r \in Rows |-> 0]
    /\ off = {}
    /\ edits = 0 /\ deaths = 0

-----------------------------------------------------------------------------
(* The criteria                                                             *)

Active(u) == {r \in Rows : UserOf[r] = u /\ row[r] # Absent /\ row[r].on}

\* _maybe_enqueue_scrape: a change within the debounce time sends nothing.
MaybeEnqueue(u) ==
    /\ debounce' = debounce \cup {u}
    /\ tasks' = IF u \in debounce THEN tasks ELSE tasks \cup {u}

\* Is the row in the task in progress?  Ids are never used twice, their names are.
InTurn(r) ==
    run # BetweenTasks /\ \E cfg \in run.todo \cup {run.cfg} : cfg # Absent /\ cfg.row = r

Elsewhere == UNCHANGED <<run, board, off, deaths, caches>>

\* upsert_criteria, and update_criteria: only a change of the inputs counts.
Update(r, inputs) ==
    /\ row[r] # Absent /\ row[r].inputs # inputs
    /\ edits < MaxEdits /\ edits' = edits + 1
    /\ row' = [row EXCEPT ![r].inputs = inputs, ![r].rev = edits + 1]
    /\ MaybeEnqueue(UserOf[r])
    /\ UNCHANGED scraped /\ Elsewhere

\* upsert_criteria without an active row; of two such saves at once, both insert one.
Create(u, S, inputs) ==
    /\ Active(u) = {}
    /\ S # {} /\ Cardinality(S) <= 2
    /\ \A r \in S : UserOf[r] = u /\ row[r] = Absent /\ ~InTurn(r)
    /\ edits < MaxEdits /\ edits' = edits + 1
    /\ row' = [r \in Rows |->
                 IF r \in S THEN [on |-> TRUE, inputs |-> inputs, rev |-> edits + 1] ELSE row[r]]
    /\ scraped' = [r \in Rows |-> IF r \in S THEN 0 ELSE scraped[r]]
    /\ MaybeEnqueue(u)
    /\ Elsewhere

\* activate_criteria: the others are switched off in the same transaction.
Activate(r) ==
    /\ row[r] # Absent
    /\ row' = [s \in Rows |-> IF row[s] = Absent \/ UserOf[s] # UserOf[r] THEN row[s]
                              ELSE [row[s] EXCEPT !.on = s = r]]
    /\ MaybeEnqueue(UserOf[r])
    /\ edits < MaxEdits /\ edits' = edits + 1
    /\ UNCHANGED scraped /\ Elsewhere

\* delete_criteria
Delete(r) ==
    /\ row[r] # Absent
    /\ row' = [row EXCEPT ![r] = Absent]
    /\ UNCHANGED <<debounce, tasks, run, board, caches, history, edits, deaths>>

DebounceEnds(u) ==
    /\ u \in debounce
    /\ debounce' = debounce \ {u}
    /\ UNCHANGED <<row, tasks, run, board, caches, history, edits, deaths>>

-----------------------------------------------------------------------------
(* The company boards, which the employers change, and the time that passes *)

Change(c, content) ==
    /\ content # board[c] /\ (content # Absent => content \subseteq PostingsOf(c))
    /\ board' = [board EXCEPT ![c] = content]
    /\ off' = off \cup (PostingsOf(c) \ (IF content = Absent THEN {} ELSE content))
    /\ UNCHANGED <<criteria, tasks, run, caches, scraped, deaths>>

\* Mutant of Older: a stamp that does not expire.
OlderForever(age) == "day"

\* _RUN_GRACE and _THROTTLE_TTL: the stamp leaves the grace period, later it expires.
Older(age) == IF age = "grace" THEN "day" ELSE Absent

StampAges(u) ==
    /\ stamp[u] # Absent
    /\ stamp' = [stamp EXCEPT ![u] = Older(@)]
    /\ UNCHANGED <<criteria, tasks, run, board, slug, mySlug, history, deaths>>

\* Mutant of Forget: a miss is kept.
ForgetHit(c) ==
    /\ slug[c] = "slug"
    /\ slug' = [slug EXCEPT ![c] = Absent]
    /\ UNCHANGED <<criteria, tasks, run, board, mySlug, stamp, history, deaths>>

\* _HIT_TTL and _MISS_TTL, in Redis; the copy has none.
Forget(c) ==
    /\ slug[c] # Absent
    /\ slug' = [slug EXCEPT ![c] = Absent]
    /\ UNCHANGED <<criteria, tasks, run, board, mySlug, stamp, history, deaths>>

-----------------------------------------------------------------------------
(* The tasks                                                                *)

\* beat_schedule
Beat ==
    /\ All \notin tasks
    /\ tasks' = tasks \cup {All}
    /\ UNCHANGED <<criteria, run, board, caches, history, deaths>>

ConfigOf(r) == [row |-> r, inputs |-> row[r].inputs, rev |-> row[r].rev]

\* Mutant of Configs: scrape_all takes only what was never scraped.
ConfigsNew(task) ==
    IF task = All
    THEN {{ConfigOf(r) : r \in {n \in UNION {Active(u) : u \in Owners} : scraped[n] = 0}}}
    ELSE IF Active(task) = {} THEN {{}} ELSE {{ConfigOf(r)} : r \in Active(task)}

\* scraper_user_configs, of which scrape_user keeps the first of its user
Configs(task) ==
    IF task = All THEN {{ConfigOf(r) : r \in UNION {Active(u) : u \in Owners}}}
    ELSE IF Active(task) = {} THEN {{}} ELSE {{ConfigOf(r)} : r \in Active(task)}

\* scrape_all, scrape_user: a task is acknowledged when it is taken.
TakeTask(task) ==
    /\ run = BetweenTasks /\ task \in tasks
    /\ tasks' = tasks \ {task}
    /\ \E todo \in Configs(task) :
         run' = [at |-> "next", todo |-> todo, cfg |-> Absent, searches |-> 0, left |-> {},
                    live |-> Nowhere]
    /\ mySlug' = IF FreshChild THEN Nowhere ELSE mySlug
    /\ UNCHANGED <<criteria, board, slug, stamp, history, deaths>>

\* tracker-api does not hand out the configurations: the task ends.
TakeNothing(task) ==
    /\ run = BetweenTasks /\ task \in tasks
    /\ tasks' = tasks \ {task}
    /\ UNCHANGED <<criteria, run, board, caches, history, deaths>>

\* _scrape_for_config begins: without job titles it is over.
Turn ==
    /\ run.at = "next"
    /\ IF run.todo = {} THEN run' = BetweenTasks
       ELSE \E cfg \in run.todo :
              run' = [run EXCEPT
                           !.todo = @ \ {cfg}, !.cfg = cfg, !.live = Nowhere,
                           !.at = CASE ~cfg.inputs.titles -> "next"
                                    [] cfg.inputs.titles /\ UserOf[cfg.row] \in Keyed -> "jsearch"
                                    [] OTHER -> "boards",
                           !.searches = IF UserOf[cfg.row] \in Keyed THEN Locations ELSE 0,
                           !.left = cfg.inputs.watch]
    /\ off' = {p \in Postings : board[BoardOf[p]] = Absent \/ p \notin board[BoardOf[p]]}
    /\ UNCHANGED <<criteria, tasks, board, caches, scraped, deaths>>

\* JSearchScraper.scrape for one location.  RunThrottle.allow: the first run claims the
\* window; what follows within the grace period counts as the same run.
Search(u, asked) ==
    /\ run.at = "jsearch"
    /\ u = UserOf[run.cfg.row]
    /\ asked = (stamp[u] # "day")
    /\ stamp' = [stamp EXCEPT ![u] = IF @ = Absent THEN "grace" ELSE @]
    /\ run' = [run EXCEPT !.searches = @ - 1,
                                !.at = IF run.searches = 1 THEN "boards" ELSE @]
    /\ UNCHANGED <<criteria, tasks, board, slug, mySlug, history, deaths>>

-----------------------------------------------------------------------------
(* The boards                                                               *)

\* SlugCache.get, which Redis answers or not
Known(c, answers) == IF answers /\ slug[c] # Absent THEN slug[c] ELSE mySlug[c]

\* SlugCache.set
Cache(c, value) ==
    /\ mySlug' = [mySlug EXCEPT ![c] = value]
    /\ \/ slug' = [slug EXCEPT ![c] = value]
       \/ UNCHANGED slug                       \* Redis does not answer

Fetched(c) == run.at = "boards" /\ c \in run.left

Pass(c, content) ==
    /\ run' = [run EXCEPT !.left = @ \ {c}, !.live[c] = content]
    /\ UNCHANGED <<criteria, tasks, board, stamp, history, deaths>>

\* scrape_companies and _fetch_company: the board answers; every id on it counts,
\* whatever its title.
ReadBoard(c, answers) ==
    /\ Fetched(c)
    /\ board[c] # Absent
    /\ Known(c, answers) # "miss"
    /\ Cache(c, "slug")
    /\ Pass(c, board[c])

\* Mutant of BoardFails: a failed fetch passes for an empty board.
BoardFailsEmpty(c) ==
    /\ Fetched(c)
    /\ UNCHANGED <<slug, mySlug>>
    /\ Pass(c, {})

\* It was a miss the last time, or is rate-limited, in error, or not reached.
BoardFails(c) ==
    /\ Fetched(c)
    /\ UNCHANGED <<slug, mySlug>>
    /\ Pass(c, Absent)

\* There is none under any name, or what answers is no board: a miss, unless the
\* address was known.
NoBoard(c, answers) ==
    /\ Fetched(c)
    /\ Known(c, answers) # "miss"
    /\ IF Known(c, answers) = Absent THEN Cache(c, "miss") ELSE UNCHANGED <<slug, mySlug>>
    /\ Pass(c, Absent)

\* What board-sync will find is no longer on a board that was read
Missing == {p \in Postings : run.live[BoardOf[p]] # Absent /\ p \notin run.live[BoardOf[p]]}

\* The new postings are posted, each may fail; then the boards that were read are
\* reported, which may fail too.
Report ==
    /\ run.at = "boards" /\ run.left = {}
    /\ run' = [run EXCEPT !.at = "next", !.cfg = Absent]
    /\ scraped' = [scraped EXCEPT ![run.cfg.row] =
                     IF row[run.cfg.row] = Absent THEN @ ELSE run.cfg.rev]
    /\ UNCHANGED <<criteria, tasks, board, caches, off, deaths>>

\* The kernel kills the child (out of memory); nothing brings the task back.
Die ==
    /\ deaths < MaxDeaths /\ deaths' = deaths + 1
    /\ run # BetweenTasks
    /\ run' = BetweenTasks
    /\ mySlug' = Nowhere
    /\ UNCHANGED <<criteria, tasks, board, slug, stamp, history>>

-----------------------------------------------------------------------------
WorkerStep ==
    \/ Turn \/ Report
    \/ \E u \in Keyed, asked \in BOOLEAN : Search(u, asked)
    \/ \E c \in Companies :
         BoardFails(c) \/ \E answers \in BOOLEAN : ReadBoard(c, answers) \/ NoBoard(c, answers)

CriteriaStep ==
    \/ \E r \in Rows, i \in Inputs : Update(r, i)
    \/ \E u \in Owners, S \in SUBSET Rows, i \in Inputs : Create(u, S, i)
    \/ \E r \in Rows : Activate(r) \/ Delete(r)

Time ==
    \/ Beat
    \/ \E u \in Owners : DebounceEnds(u) \/ StampAges(u)
    \/ \E c \in Companies : Forget(c) \/ \E b \in (SUBSET Postings) \cup {Absent} : Change(c, b)

RunsNext ==
    \/ CriteriaStep \/ Time \/ WorkerStep \/ Die
    \/ \E t \in Owners \cup {All} : TakeTask(t) \/ TakeNothing(t)

\* The beat is kept, keys expire, the worker goes on; tracker-api hands out the
\* configurations, and a board that is asked for ever answers, again and again.
Fairness ==
    /\ WF_runsVars(Beat) /\ WF_runsVars(WorkerStep)
    /\ \A u \in Owners : WF_runsVars(StampAges(u))
    /\ \A c \in Companies : WF_runsVars(Forget(c)) /\ SF_runsVars(ReadBoard(c, TRUE))
    /\ SF_runsVars(TakeTask(All))

RunsSpec == RunsInit /\ [][RunsNext]_runsVars /\ Fairness

-----------------------------------------------------------------------------
\* What board-sync is told to be gone was off its board at some time of that row's turn:
\* a fetch that failed, or a title nobody searches for, is no evidence
\* (base.py:45-54, ats_boards.py:100-113, jobs.py:270-274).
MissingWasOff == [][Report => Missing \subseteq off]_runsVars

\* Criteria that stay as they are saved come to be scraped, although the change itself may
\* be debounced away, its task lost, or another row's turn come first
\* (criteria.py:31-43, main.py:122-141).
Due(r) == row[r] # Absent /\ row[r].on /\ row[r].inputs.titles /\ scraped[r] < row[r].rev
EditScraped == \A r \in Rows : Due(r) ~> ~Due(r)

\* The throttle holds a user's searches back, never for good (jsearch.py:47-88).
Searching(u) == \E r \in Active(u) : row[r].inputs.titles
SearchedAgain ==
    \A u \in Keyed : <>[]Searching(u) => []<><<Search(u, TRUE)>>_runsVars

\* A board that stays up and is watched comes to be read, although it was a miss before
\* (slugs.py:10-12).
Watched(c) ==
    \E u \in Owners : \E r \in Active(u) : row[r].inputs.titles /\ c \in row[r].inputs.watch
BoardFound ==
    \A c \in Companies :
        <>[](board[c] # Absent /\ Watched(c)) => <>(slug[c] = "slug" \/ mySlug[c] = "slug")
=============================================================================
