------------------------------ MODULE BoardRuns ------------------------------
(***************************************************************************)
(* The runs of the scraper, over JobReviews: in each run the pass of every *)
(* user who watches the company reads its board and reports it             *)
(* (services/scraper/app/main.py), and the report counts one more miss of  *)
(* every posting that is not on it.                                        *)
(***************************************************************************)
EXTENDS JobReviews

CONSTANT Watchers     \* the users with the company among their target_companies

VARIABLES
    synced,    \* the watchers whose pass of this run reported the board
    missedIn   \* history: how many runs missed each job since it was last seen (counted to
               \* MissLimit), and whether this run is one of them

runVars == <<vars, synced, missedIn>>

Seen == [runs |-> 0, now |-> FALSE]

RunsInit == Init /\ synced = {} /\ missedIn = [j \in Jobs |-> Seen]

\* scrape_all starts over.
StartRun ==
    /\ synced' = {}
    /\ missedIn' = [j \in Jobs |-> [missedIn[j] EXCEPT !.now = FALSE]]
    /\ UNCHANGED vars

\* A run misses a job once, however many passes of it do.
Missed(j) ==
    [runs |-> IF missedIn[j].now \/ missedIn[j].runs = MissLimit THEN missedIn[j].runs
              ELSE missedIn[j].runs + 1,
     now |-> TRUE]

\* The pass of a watcher finds live on the board.
Pass(u, live) ==
    /\ u \notin synced /\ BoardSync(live)
    /\ synced' = synced \cup {u}
    /\ missedIn' = [j \in Jobs |->
                      IF j \in Here /\ job[j].source = Board /\ job[j].ext \notin live
                      THEN Missed(j) ELSE Seen]

RunsNext ==
    \/ StartRun
    \/ \E u \in Watchers, live \in BoardReads : Pass(u, live)
    \/ /\ ScraperStep \/ (\E u \in Users : UserStep(u)) \/ ScoringStep \/ NightlyStep
       /\ missedIn' = [j \in Jobs |-> IF job'[j] = None THEN Seen ELSE missedIn[j]]
       /\ UNCHANGED synced

RunsSpec == RunsInit /\ [][RunsNext]_runVars

-----------------------------------------------------------------------------
\* board_sync's docstring: a posting must be missing BOARD_MISS_THRESHOLD scrapes in a row,
\* so one bad run cannot clear a company (jobs.py:272-274).
OneBadRun ==
    \A j \in Here : job[j].missing >= MissLimit => missedIn[j].runs >= MissLimit
=============================================================================
