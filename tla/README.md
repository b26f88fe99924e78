# Job Radar: verification project

TLA+ models of the parts of Job Radar whose correctness depends on the order in
which things happen: background generation, verdicts on AI keys, the OAuth server
and the apps connected through it, the shared pool of jobs with each user's reviews,
the scraper's runs, the mail agent's inbox with the decisions it asks for, the
connections it works with, accounts and logins, a user's résumé with its parse, and the
edits of a tailored copy. TLC checks each on a small instance; TLAPS proves the main
results about eleven of them for every size.

Paths below are relative to `src/services/` unless they start with `src/`.

## 1. The system

| Component | State it keeps | Operations | Interacts with |
|---|---|---|---|
| Background generation (`tracker-api/app/generation_jobs.py`) | `generation_jobs` rows, unique active row per user and kind | start, run, refresh_if_stale, latest_for_review, get_for_user, sweep | requests of `routers/generate.py` start it; a background task of the same process runs it; readers judge it; the nightly cleanup sweeps it; deleting a review cascades to it |
| Generation endpoints, assistant limits (`routers/generate.py`, `assistant.py`) | `assistant_actions` counters, results on the review | research, tailoring, refining, decisions, status, and the foreground calls | the above; provider calls with the user's key |
| AI keys and verdicts (`routers/keys.py`, `llm.py`) | `user_api_keys` (models, last error and its model, unusable streak), the user's selection | upsert, model change, select, delete, fetch for the worker, report of the worker, foreground calls | worker and foreground calls write the same row |
| AI reviewer worker (`ai-reviewer/app/main.py`) | nothing of its own; a Celery queue in Redis, acknowledged on receipt | review_job: fetch, call, report, post, retry | keys and reviews, over HTTP |
| OAuth server (`oauth.py`, `routers/oauth.py`) | clients, codes, grants, tokens | registration, client documents, consent, exchange, refresh, revoke, disconnect, sweep | assistants' clients; the nightly cleanup |
| Connected apps (`assistant.py`, `mcp-connector`, `mcp-writer`) | the connector's cache of checked tokens | tool calls, forwarded with the app's token | update_job, append_note, generation |
| Job pool and reviews (`routers/jobs.py`) | `jobs` rows shared by all users, `user_job_reviews` | create_job, board_sync, manual imports (adopt, replace), update, delete, enqueue, post_ai_review | scraper, users, worker, mail agent, apps, nightly tasks |
| Nightly maintenance (`routers/admin.py`) | none | _do_expire, _do_cleanup, reaping of agent runs, sweeps | everything it deletes or expires |
| Criteria (`routers/criteria.py`) | one active row per user, a debounce key in Redis | upsert, update, activate, delete | sends scrape tasks |
| Scraper worker (`scraper/app`) | slugs and the JSearch throttle, in Redis and in the process | scrape_all, scrape_user, searches, board reports | listing sources, create_job, board_sync |
| Mail agent's inbox and decisions (`routers/agent.py`) | inbox entries, postings, interactions, `hitl_decisions` | ingest, import, skip, triage, ask, answer in Slack, poll, consume | statuses of reviews; an agent that repeats itself; Slack, which delivers twice |
| Mailbox and Slack connections (`routers/agent.py`) | `email_credentials`, `slack_connections`, a switch for everybody | connect, save folders, disconnect, install, choose a channel, configuration for the agent | Google, mail servers and Slack, for up to half a minute inside a request |
| Accounts (`routers/auth.py`, `admin.py`, `ratelimit.py`) | `users`, sessions, a table of failures in memory | signup, login, logout, password change and reset, approve, reject, toggle, delete | gates everything else |
| Tailored résumés (`resume_tailor.py`, `routers/generate.py`) | the draft and its decisions, one JSON column of the review | tailor, refine, decide, move sections, print | the provider's answer; two requests on one column |
| Profiles and parsed résumés (`routers/profile.py`, `routers/generate.py`, `resume_tailor.py`) | `profiles` rows: the text, its parse, a stale flag, which is active | create, save, ingest, activate, delete, the order of sections given to older parses | a parse takes the provider a minute; a tailoring reuses it; the page of a tailored résumé compares with it |
| Duplicate recognition (`dedup.py`, `merge_duplicates.py`) | `jobs.match_key` | match_key; a one-time merge | create_job, imports |
| Connections, extraction, e-mail, logs, frontend, deployment | rows per user, or none | single-statement writes, text, I/O | listed with their reason in `PROJECT.json` |

What is hard here, and so what the models are about:

* **Interleaving.** Synchronous FastAPI handlers and background tasks are threads
  over a READ COMMITTED database: between any two statements another handler may
  commit. Check-then-act appears in `start`, `create_job`, `exchange_code`,
  `delete_job`, the cleanup, the limits of assistants and of logins, and in every
  handler that loads a row, talks to somebody and writes what it changed.
* **Stale state.** The worker loads a key, calls a provider for minutes, and
  reports to whatever key is active then; a score is posted to a review the user
  may have decided on, moved or deleted meanwhile; folders are verified over the
  network while the mailbox is replaced; a connector trusts a token for a minute.
* **Partial failure and restarts.** Commit and send to the queue are two steps;
  so are commit of a new token pair and retirement of the old one; runs in
  progress die with their process; deliveries and scrapes die with the worker;
  Redis forgets, or does not answer.
* **Repetition.** The mail agent repeats an email whose answer it lost, Slack a
  click, a client a refresh token, Celery a task.
* **Time.** `STALE_AFTER`, TTLs of statuses, postings, codes, tokens, slugs, throttles
  and debounce keys, and the retries of Celery, all race with late answers.

## 2. Modules

| Module | What it is | Code |
|---|---|---|
| `GenerationJobs` | requests, background tasks and readers of generation runs | `generation_jobs.py`, its callers in `routers/generate.py`, `assistant.py` |
| `GenerationLedger` | abstract: what a run promises its clients | the promises in the docstring of `generation_jobs.py` |
| `KeyVerdicts` | keys, verdicts, worker, foreground calls, settings | `routers/keys.py`, `llm.py`, `ai-reviewer/app/main.py`, `llm_errors.py` |
| `OAuthTokens` | the token endpoint with its clients, sweep and restarts | `oauth.py`, `routers/oauth.py` |
| `Connection` | abstract: what a user and an assistant may rely on once they are connected | the same, `models.py` |
| `ConnectedApps` | clients, the consent page, disconnects, the connector's gate, the tools that write | `oauth.py`, `routers/oauth.py`, `assistant.py`, `routers/jobs.py`, `mcp-connector/app/main.py` |
| `JobReviews` | job pool, reviews, scraper, worker, users, nightly tasks | `routers/jobs.py`, `routers/admin.py`, `scraper/app/main.py` |
| `BoardRuns` | the scraper's runs over `JobReviews`: one pass for each user who watches the company | `scraper/app/main.py`, `routers/jobs.py` |
| `ScrapeRuns` | criteria, debounced tasks, a run of the worker, throttle and slugs | `routers/criteria.py`, `scraper/app` |
| `AgentInbox` | the mail agent's requests, the user's, and the Slack callback | `routers/agent.py`, `routers/jobs.py` |
| `HumanDecision` | abstract: what the agent may rely on when it asks its user | the same |
| `MailboxConfig` | connecting a mailbox and a workspace, saving folders, the agent's configuration | `routers/agent.py`, `feature_flags.py` |
| `Accounts` | logins with the limiter, and what admins do to accounts | `routers/auth.py`, `routers/admin.py`, `deps.py`, `ratelimit.py` |
| `ResumeTailor` | alignment, diff, decisions, the effective résumé; the handlers that write the draft | `resume_tailor.py`, `routers/generate.py` |
| `ResumeBase` | profiles, the parse of a résumé with its stale flag, the original of a tailored one | `routers/profile.py`, `routers/generate.py`, `resume_tailor.py` |
| `...Proofs` | TLAPS proofs about `GenerationJobs` (with `GenerationLedger`), `OAuthTokens` (with `Connection`), `ConnectedApps`, `JobReviews` (with `ScrapeRuns`, whose runs report to it), `AgentInbox`, `Accounts`; `ResumeProofs` is about `ResumeBase` and `ResumeTailor`, `SettingsProofs` about `KeyVerdicts` and `MailboxConfig`, the settings background work stands on | |
| `MC...` | instances for TLC: constants, symmetry; `MCSettings` joins `MailboxConfig` and `Accounts`, `MCResume` joins `ResumeBase` and `ResumeTailor`: they share nothing, and one is explored while the other is at its start | |

Three detailed modules implement an abstract one (`GenerationJobs` the ledger,
`OAuthTokens` the `Connection`, `AgentInbox` the `HumanDecision`). The modules meet at
named points: a grant's tokens are `OAuthTokens` and its powers `ConnectedApps`; the
original a tailored résumé starts from is `ResumeBase`, and what becomes of the draft
`ResumeTailor`; what a scraper posts or reports is an input of `JobReviews` and the
output of `ScrapeRuns`; a delivery is `JobReviews` up to the fetch and `KeyVerdicts`
from there to the post; the run an app starts is `GenerationJobs`. Each side lets the
other do whatever the interface allows.

Where one module of proofs extends two of these, the second has names of its own for what
all have (`TailorSpec`, `MailSpec`, `RunsSpec`, `AccountsSpec`, `AtRest`, `Unset`, ...).

`PROJECT.json` maps every definition to the lines it models. A name of the form
"Mutant of X" marks an operator no specification uses: a plausible bug in X, kept
beside it to show that the property about X depends on the code being as it is.

A handler whose write depends on what it read, with something in between that lets
others in, is two actions, `...Begin` and `...End`; between them its thread holds what
it loaded. The end writes the columns the handler set to another value than it had
loaded, as the ORM does. A handler that is one statement, or whose read is followed at
once by a write the database checks again, is one action.

### GenerationJobs

A request inserts at most one row, so a run bears the name of its request:
`status[r]`, `old[r]` and `task[r]` are the row and the background task of the
run request `r` started. `pc[r]` walks through the handler: `AskAttaching`
(generate.py), `CheckLimit` (assistant.py), `FindActive`, `ExpireSeen`, `Recheck`,
`Insert`, `LoseRace` (start), `Dispatch`. The task goes `TaskLoad`, `TaskClaim`,
`TaskStore` or `TaskRaise`, `TaskFail` or `TaskDone`. A reader (`Look`,
`MarkStale`) is any handler that polls, or the sweep; `Purge` deletes what
finished long ago. Each step is one query or one commit. `Age` says that a row has
been active longer than `STALE_AFTER`; `Crash` ends all requests and tasks.
Several users and kinds are in the constants; the run takes one user, because a
slot is a user and a kind and slots do not touch each other.

### KeyVerdicts

`row[k]` is the key of provider `k`, `ActiveKey` is `get_active_llm_key`. The
worker fetches (`Fetch`), gets an answer (`CallScores`, `CallUnusable`,
`CallTruncated`, `CallRejected`, `CallTransient`), reports it in two steps
(`ReportLoad`, `ReportFlush`) or fails to (`ReportLost`), and posts. Foreground
calls and settings are loads and flushes too. `Flush` writes the columns a handler
changed, as the ORM does. All of them interleave. `author` and `strikes` are history: the
key and model of the call a verdict came from, or `Crossing` if the settings or the row
were changed while that call was out; and the unusable answers reported on a row.

### OAuthTokens

`POST /oauth/token` is a coroutine that never awaits after its form is read, so a
process serves one exchange or rotation at a time (`loop[p]`), in several
transactions; disconnects, sweeps and other processes come in between. A client
presents any code or refresh token it was given; `strayed` remembers those that
repeated what had been answered, which is what a thief looks like. A pair is an
access and a refresh token issued together.

In `Connection` a consent makes a connection (`Redeem`), the client is handed pairs
(`Hand`) and connections end (`End`). Its tokens are `Good`: the ones the client was
given that neither a rotation nor a disconnect marked, whose grant is not revoked
either (they may have expired, which is no promise of the server's). A first exchange is
`Redeem` and `Hand` with nothing in between to see; a rotation is `Supersede` where it
retires the old pair and `Hand` where it answers, or `Supersede` alone when the answer
is lost; each revoked grant is an `End`, and the last one of a repeated code is where the
code is refused for good.

### ConnectedApps

`client[c]` is the row of a client id: the addresses it published or registered, the
vendor they belong to, and whether the document was fetched within the day.
`Load` fetches it again when it was not; `VendorsFor` refuses addresses of more than
one vendor. `AuthorizeContext` opens the consent page, `Allow` makes what it showed a
code and `Redeem` a grant; `Disconnect` ends it, `SweepClient` deletes a registered client
nobody uses. A tool call passes the connector (`Gate`: a token checked within the
minute passes; else `GateAsks` and `GateHears` ask `/auth/me`), then a thread of the
API opens it (`Open`: is the token good, does the route allow it, is the limit
reached) and writes (`Write`), over whatever was saved since. `shown` in a grant is the
page its user saw, and `late` in a call says that it was sent after the disconnect.

### JobReviews

A listing has an id, a link, a source and a role (its `match_key`). `create_job` is
`Scrape` (the row, or a twin seen again), `Ensure` (the review) and `ScraperSends` (the
queue), three commits in the code; a review revived by a twin is loaded and written back
(`SeenAgain`, `SeenFlush`). A manual import is `Import`, `Adopt` (the user's entry moves
to a row of its own with the imported link) or `Replace`. `DeleteReview` counts what
is left of a job and `DropJob` deletes the row. The worker is seen from
this side only: `Take`, `GiveUp`, `PostLoad`, `PostFlush`; `KeyVerdicts` has the
rest. `Age` lets a review pass the TTL of its status or a posting grow old;
`Expire`, `Cleanup` and `DropOrphans` are the nightly tasks. Transactions of different
handlers interleave. `late` (the reviews inserted after the reviews of their job were
counted) and `dropped` (those that lost a delivery) are history. Board passes are not
bounded; the listings posted are (`MaxScrapes`).

`BoardRuns` groups the passes into runs: `StartRun` begins one, `Pass` is the pass of a
watcher. `missedIn` is history: how many runs missed a posting since it was last seen.

### ScrapeRuns

`Create`, `Update`, `Activate` and `Delete` change `row`; when the change matters they
set the debounce key and send a task for the user (`MaybeEnqueue`); the beat sends one
for everybody. The worker takes a task and asks for the configurations (`TakeTask`,
or `TakeNothing` when tracker-api does not answer), and goes through them: the searches
behind the throttle (`Search`), then each watched company's board (`ReadBoard`, which
knows the slug from Redis or its own copy or looks for it, `BoardFails`, `NoBoard`),
then the report of what is gone (`Report`). `Change` lets a board lose and gain
postings, or go altogether, at any moment; `Forget`, `StampAges` and `DebounceEnds` are
the TTLs; `Die` kills the worker. `off` (postings off their board at some time of the turn)
and `scraped` (the version of the criteria that was scraped) are history.

### AgentInbox and HumanDecision

An email is its user and Message-ID. `RecordBegin` and `RecordEnd` are
`record_interaction`: the flush of the new entry takes its unique key and the review is
loaded; the commit writes the entry, the interaction and the review's changed columns,
or nothing when the review is gone. `Register`, `Poll` and `Consume` are the agent's
side of a decision, `CallbackRead` and `CallbackStore` Slack's. The user patches,
imports, skips, triages and deletes meanwhile. `moves` counts, for history, the status
changes an email made. The refinement maps a row of `hitl_decisions` to a prompt that
is unasked, asked, answered, given up or done.

### MailboxConfig

`cred` and `slack` are the user's two rows, `id` tells a row from the one that
replaced it. `Put`, `Connect`, `Disconnect`, `Install`, `Channel` and `Uninstall` come
in two steps around Google's, Slack's or a mail server's answer, in any order and over
whatever is connected already. `StartAgent` takes the configuration as `/agent/config`
hands it out, and `run` keeps it while the agent works. The five folder columns are two
here. History: `checked`, the connected mailboxes (by `id`) a whole layout was found in;
`chosen`, the Slack connections a channel was chosen for; `touched`, the mailboxes
connected again, or saved by a request that had loaded something else.

### Accounts

`failures` is the limiter's table; `before` says whose latest failure came before whose,
which is the order in which it evicts;
`Counted` are the names that registration counts under at once, the others are counted
when a login has failed (`LoginBegin` asks, `LoginWrong` and `LoginRight` tell). The
limiter forgets in two ways, and history keeps what it forgot: `failed` counts the
failures of an address within the window whether the table has them or not, `pardoned`
are the addresses a right password cleared, and `crowd` says for an address that a full
table dropped how many others had failed after it.
Administration checks the right and loads the row in one step (`Administer`) and writes
it in the other (`AdminEnd`).

### ResumeTailor

The aligned pairs, the change ids, what a decision does and the printed list are
operators, translated function by function (`Exact`, `Fuzzy`, `Positional`, `Pairs`,
`Alive`, `InNewOrder`, `InOldOrder`, `Effective`); the model may answer any list of
`Answers`. The greedy loop over the alike pairs is `Taken`: the pairs have turns, by
likeness and displacement, and each is taken in its turn if both its items are still free.
A list of what is left, in its order, is `Listed`, which finds an item by its rank. A draft
is loaded by a `...Begin` and written back whole by an `...End`: a tailoring (`Run...`), a
refine, a decision, a section move.

### ResumeBase

`row[r]` is a profile: its text, the structure parsed from it, the stale flag, whether
it is active. A structure is the text it was parsed from and the order of its sections,
which older versions did not record; `OrderIn` is what `detect_section_order` reads of
it in a text. The current profile is the one of the active ones that was updated last
(`newer`, the order of `updated_at`; two of them can be active, since two first saves
make two). `CreateBegin`, `CreateEnd`, `SaveBegin` and `SaveEnd` are the user's saves,
`IngestBegin` and `IngestEnd` the parse asked for, `TailorBegin`, `Reuse` or `Reparse`,
and `TailorEnd` the tailoring, `ViewBegin`, `ViewDraft` and `ViewBase` the page, which
gives an order to what has none. Each end goes through `Update`: the columns the handler
changed, of a row that is still there, and `updated_at`. Of the draft only its original
is here. `blind` is history: the rows somebody wrote to from a picture older than the
last write, until a parse from the row as it is.

## 3. Runs

`Bounds` are the constants of the `.cfg`. "Fails" marks a run that shows a
disagreement between the code and what its text says (section 6).

| Run | Asks | Bounds |
|---|---|---|
| `generation` | When no live run outlasts `STALE_AFTER`: one active row and one billed execution per user and kind, "attached" and "done" that are true, final verdicts that agree with the timeline, implementation of the ledger, and under fairness every run settles and every request is answered | 2 assistants' requests at a limit of 1, 2 reviews, 2 kinds, 1 reader, 1 restart |
| `key_verdicts` | Do verdicts come from calls with the key and model they accuse, unless something crossed the call? Do they survive what says nothing about them? Is a delivery billed `max_retries + 1` times at most? | 1 key, 2 models, 1 delivery retried once, 1 foreground caller, 1 settings change, streak limit 2 with a streak of 0 or 1 left by earlier deliveries |
| `oauth_tokens` | One grant per code, one live pair per client, reuse revokes, honest clients stay connected, through lost answers and a restart; implementation of the connection | 1 process, 2 codes of one user and client, 2 grants, 3 pairs, 1 restart |
| `connected_apps` | Is an app who the page said it was, with the scopes it listed? Does a disconnect take effect at once and come to be told? How far is the limit passed? | 1 grant, 2 calls at a time, a client of each kind, limit 1 |
| `job_reviews` | Two users: unscored reviews are awaited, decisions stand but for a write that had loaded the review before, nobody changes another's entries, nothing vanishes that is starred, undecided or recent but what came between a count and a delete | 2 jobs, a recent aggregator ad and an old board posting of one role, 1 act of a user, 2 scraped listings, any number of board passes, threshold 1 |
| `scrape_runs` | Is nothing reported gone that was there? Do saved criteria come to be scraped, the throttle to let through, a missing board to be found? | 1 user, 1 row, 1 company, 1 posting, 2 edits, 2 locations, 1 killed worker |
| `agent_inbox` | Does an email move a status once, do references stay the user's own, is a prompt answered once? | 2 users, 2 reviews, 1 email, 1 prompt, 2 threads, 4 requests |
| `settings` | Was what the agent may work on enabled by a check of this very connection? How often can an address fail in a window, and does the table keep its size? | `MailboxConfig`: 2 mailboxes, 2 folder names, 2 workspaces, 2 channels, 2 threads, 4 requests; `Accounts`: 2 users, 3 addresses (1 of them counted at once), a table of 2, 2 failures, 2 threads, 8 requests |
| `resume` | Does the stale flag tell whether a parse is of the profile's text, and is a draft of another text told apart, unless somebody wrote from an old picture? Is what is printed what was decided, and does a refine leave alone what was rejected? | `ResumeBase`: 2 rows, 2 texts, 2 threads, 3 saves; `ResumeTailor`: 3 résumés of up to 3 bullets, 24 answers of the model, 3 section orders, 1 request at a time |
| `tailor_reverts` (fails) | Is every rejected change reverted? | as `resume` |
| `one_bad_run` (fails) | Does it take as many bad runs as the threshold to expire a board posting? | as `job_reviews`, 2 watchers of the board, threshold 2 |
| `notes_lost` (fails) | Does an app's note leave the user's own notes there? | as `connected_apps` |

Why the bounds are enough to be interesting. Two requests are what it takes to race
for a slot, and for one to lose the insert and find the winner gone; two reviews tell
"attached" from "conflict". A delivery, a caller and a settings change are a report and a
success that cross an edit, and a streak that an earlier delivery began can be completed.
Two codes of one party are what reuse can revoke
beyond its own grant, and three pairs are a first issue, a rotation cut by a restart
and a second rotation. Two rows are what it takes for an entry to move from one job to
another, and one act of a user beside two listings is a decision or a deletion between
any two statements of the others. Two calls at a limit of one are what it takes to pass it.
Two threads and one email are a repeated request; one decision with a poll, a consume and a
doubled click is every race it can lose. Four requests are enough to connect, enable,
disconnect and connect anew, with the enabling save under way all the while. Three
addresses with a table of two make it evict. Three bullets with a text that differs in
case, one that is alike and one that is not reach each of the three ways of aligning.
Three saves are a profile, another and an edit under a parse.

A bound is a guard or the size of a set (`MaxActs`, `MaxRequests`, `MaxScrapes`, `MaxSaves`,
`MaxEdits`, `MaxCrashes`, `MaxDeaths`, `MaxQueue`, `MaxGrants`, `MaxPairs`) and appears
nowhere else. Deadlock is not checked where the bounds may be used up and the system rests;
it is checked in `connected_apps` and `scrape_runs`, which can always go on.

Symmetry is declared for row ids, profiles, users, models, threads and addresses, which no
definition of those modules orders; never in a run with liveness.

### Assumptions with a name

| Constant | The run's value means | Why it is realistic, and what happens otherwise |
|---|---|---|
| `SlowRuns` | FALSE: no run executes longer than `STALE_AFTER` (5 minutes) | runs take 30 to 150 s (`src/k8s/base/tracker-api/deployment.yaml`); otherwise section 6 |
| `Processes` | one API process | one replica is deployed (`src/k8s/base/tracker-api/deployment.yaml:9`, `ratelimit.py:8`); while a rolling update overlaps two, `CodeBuysOneGrant` does not hold |
| `FreshChild` | TRUE: the worker's copies do not outlive a task | `--max-tasks-per-child=1` is deployed (`src/k8s/base/scraper/deployment.yaml:40`); otherwise `BoardFound` does not hold |

Everywhere else statements of different requests interleave as they can: in
`GenerationJobs`, `KeyVerdicts`, `JobReviews`, `AgentInbox`, `MailboxConfig`, `Accounts`,
`ConnectedApps` and `ResumeBase` (there one tailoring at a time, which `GenerationJobs`
shows), and in `OAuthTokens` all but two token requests of one process. Where such an
interleaving does harm, the property names it as the only thing that does (a crossed call, a
review loaded before the decision, a review inserted after the count, a connection
written over), instead of a constant that would switch it off. `ResumeTailor` runs with
one request at a time (section 6 says what two do). In `ScrapeRuns` Redis may forget a slug
at any time, and not answer when asked for one; the throttle's stamp is always answered.
In `KeyVerdicts` settings changes come one at a time, over calls and flushes of the others.

### Fairness

* `generation`: a thread that has begun runs on to its return (requests and background
  tasks: WF), the clock passes `STALE_AFTER` (WF of `Age`), a reader that judged a row
  marks it (WF), and the nightly sweep looks at every active row again and again (SF of
  `Look`, because a row may be inactive or young at the moment of any one sweep).
  `_do_cleanup` calls the sweep each night, so the last assumption does not depend on
  any user polling. Nobody has to send, delete or crash.
* `scrape_runs`: the beat is kept and keys expire (WF), the worker goes on with a task
  it has (WF), tracker-api hands out the configurations again and again (SF of
  `TakeTask(All)`: it may be down at any one beat), and a board that is asked for ever is
  read again and again (SF of `ReadBoard`: any one fetch may fail). No user has to edit,
  and no debounced task has to arrive: `EditScraped` follows from the beat alone.
* `connected_apps`: only that time passes at the connector, so a checked token gets
  old. No assistant has to call.

## 4. Properties

| Property | Why it could fail |
|---|---|
| `OneActive` | requests race at the insert, a task revives a row that was marked failed and replaced, readers mark rows; only the partial unique index and the order of the statements keep it |
| `AttachedToOwnReview` | three paths lead to "attached", one of them after a lost race with whoever won |
| `DoneIsTrue`, `TimelineAgrees` | result, timeline entry and verdict are written by two transactions and a third party may write the verdict |
| `OneExecution`, `FinalVerdict` | a reader's judgement races the task's own end |
| `ImplementsLedger` | four writers of one column |
| `RunsSettle`, `RequestsAnswered` | a restart loses tasks; `start` calls itself |
| `VerdictEarned`, `VerdictSurvives` | the verdict is applied minutes after the call, to what is active then, by a write of single columns; a success with one model clears a row two models share |
| `BilledAtMost` | the score is paid before it is posted, and the task is retried |
| `CodeBuysOneGrant`, `ReuseRevokes` | check and commit are separate; reuse may come before the first use has issued its tokens |
| `OneLivePair`, `StaysConnected` | new pair and old pair change in two commits, and answers get lost: erring one way leaves two live tokens, the other way disconnects an honest client |
| `ImplementsConnection` | a rotation and a revocation are several commits that a disconnect or a restart cuts in two, and a pair issued after the grant was revoked is not marked itself |
| `AsShown` | the document behind a client may say something else when it is loaded again between page, decision and use, and the client may be swept |
| `RevokedAtOnce`, `ChallengedInTheEnd` | two programs judge one token, one of them from memory; a busy app might keep it fresh |
| `OvershootBounded` | the limit is checked and recorded in two statements |
| `NotesKept` (fails) | a note is appended by rewriting the column |
| `ScoringAwaited` | commit and send are separate, jobs move under their deliveries |
| `DecisionStands`, `OthersUntouched` | worker and scraper write back reviews they loaded before; rows are shared |
| `KeptUnlessOld` | deleting a shared job, found without reviews, cascades to those it has by then |
| `OneBadRun` (fails) | every watcher's pass counts on the one shared row |
| `MissingWasOff` | a board that fails, is filtered by another row's titles or changes between two passes looks like one whose postings are gone |
| `EditScraped` | an edit is debounced away while the task before it has read the old criteria, or the task dies |
| `SearchedAgain` | one stamp both admits the searches of a run and holds back those of a day |
| `BoardFound` | a miss is cached twice |
| `OneMove` | the entry that would stop a repetition is committed with the status it changes |
| `OwnRefs` | ownership is checked in one statement and the reference stored in a later one, and rows are deleted in between |
| `ImplementsPromise` | a poll, a consume and a doubled click change a decision the callback has read |
| `EnabledByItsCheck` | verification takes seconds over the network, and what it verified, or the workspace a channel was picked from, may be replaced before the answer is stored |
| `Throttled` | asked before the password is hashed, told afterwards, while the table evicts and right passwords clear it |
| `OfThisText` | parses, saves and views load a row and write some of its columns up to a minute later; the current profile may be another by then |
| `Approved`, `Pinned`, `RejectedReverts` (fails) | decisions name changes by ids that are computed anew from each draft |

`PROJECT.json` lists under "hazards" each place in the code where one of these
bites, and those no property covers with the reason; under "mutants" the bug each
property was seen to catch.

`ScoringAwaited` counts what is known to be lost: a review may stay without a score
once a delivery was lost in a restart, given up after its retries, or outrun by an
adoption. Nothing but the user's `enqueue_review` sends it again. The property says
that there is no other way for a review to be forgotten.

Each module with several kinds of rows has a `TypeOK`. No run has it among its
invariants; it is proved for `GenerationJobs`, `OAuthTokens`, `AgentInbox`, `ConnectedApps`,
`JobReviews`, `KeyVerdicts`, `MailboxConfig`, `ResumeBase` and `ScrapeRuns`; elsewhere it
describes the shapes and TLC was run with it.

## 5. Proofs

The theorems hold for every value of the constants (any number of users, requests,
restarts, consents, pairs, emails, prompts, threads, calls). They assume only what the
modules assume of their constants, and:

* `~SlowRuns` for `OneExecutionHolds`, `TimelineHolds`, `VerdictIsFinal`,
  `LedgerImplemented`;
* `OneProcess` (any two processes are the same) for `CodeBuysOneGrantHolds`,
  `OneLivePairHolds`, `ReuseRevokesHolds`, `StaysConnectedHolds`, `ConnectionImplemented`;
* nothing else for all the others: those of `KeyVerdicts`, `JobReviews`, `AgentInbox`,
  `MailboxConfig`, `Accounts`, `ConnectedApps`, `ScrapeRuns`, `ResumeBase` and `ResumeTailor`
  hold however handlers overlap.

Section 3 says why the first two are justified, and section 6 what happens otherwise. Of
the constants the modules assume little: limits are positive numbers, the thread pool and
the calls of an app are finite, tables of data have the domains their use needs, and `None`
(`Nothing`, `Absent`, `Unset`, `Missing`) is no row, name or number. A theorem uses what its
own module assumes, and nothing of the other module that the same proofs extend.

**Generation.** `SafeInv` adds to the types and the three properties what a
handler may rely on: a row exists once its request has inserted it, the run a
request or a reader holds is of its slot, a task in state "saved" has stored its
result. `OneActive` is inductive because both ways a row becomes active (`Insert`,
`TaskClaim`) are guarded by the index. `PromptInv` adds that the row of a live run
follows its task (queued until it is claimed, running until it ends) and that
whatever looks stale, or is held as stale by somebody, is not executing: that is
what `~SlowRuns` buys, and without it a stale reader overwrites a live row. The
refinement maps each step to a step of `GenerationLedger` or a stutter, one lemma
per kind of step; `LedgerPromise` shows that the ledger itself keeps one active run
per slot.

**Tokens.** `RowsInv` (types, and no row refers to a row never made) needs no
assumption. `TokenInv` adds `RequestHolds`: what the checks at the head of a
request found is still true when it acts. A code being claimed has no grant and was
not refused as reused; the pair being rotated is the only one delivered whose
refresh token lives; when a pair is about to be answered, every delivered token of
the grant is dead; the list of grants being revoked is complete. These are the
facts that another process could break, so each is proved by `OneProcess`.
`ClientInv` accounts for every answer: the first pair of a grant (`FirstPair`) and
the successor of a spent refresh token (`Successor`) were delivered, lost, or are
on their way, so a repeated code or refresh token that is taken for theft was
either answered before, or its answer was lost.

The refinement needs `LinkInv` besides: a pair lives and dies whole, and the pair a
request has issued is newer than any the client was handed of its grant. So where a
rotation retires the old pair it retires all that was good of the grant (a
`Supersede`), and where it answers nothing of the grant is good and the answer is the
latest (a `Hand`). A disconnect in between has revoked the grant, and then the new pair
is handed over but never good, marked or not. One lemma per kind of step; where nothing
the client sees changes, it is a stutter (`LinkSame`). `ConnectionPromise` shows what
the connection itself keeps: `OneLinkEach`, `OnlyTheLatest`, `OverIsOver`.

**Inbox.** `IInv` says of the types, and of what is under way: a thread that records an
email holds its key, so it is the only one and there is no entry yet (`KeyHeld`);
postings, interactions and moves belong to an entry (`EntryOwns`); a resolved decision
was answered, a pending one was not, and without an answer there is no choice
(`AnswerAgrees`); the callback holds a decision that nobody answered and a review of
the same user (`CallbackFound`). From `KeyHeld` a move finds `moves` at zero, which is
`OneMove`. The refinement goes case by case; the interesting one is `CallbackStore`
over a decision that was abandoned or consumed since: without an answer it is a prompt
given up, which may still be answered, and with one it cannot come (`CallbackFound`),
because callbacks exclude each other and this one read the decision as pending.

**Connected apps.** `ConsentInv` is about the page and what came of it: a row's
addresses are its vendor's, and a client with a document has the vendor of its host
(`ClientsAgree`); the open page shows the vendor of its client, however often the
document was loaded since, and a client swept meanwhile does not come back as
another's (`PageAgrees`). That is what makes `AsShown` inductive. `CallInv` says that
a call sent after the disconnect is under a grant that stays revoked and is never let
through; `LimitInv` counts: recorded removals and those let through but
not yet recorded are at most `Limit - 1` and one for each call.

**Reviews.** Two invariants, inductive as transactions interleave. `SafeInv`, the
types and `ScoringAwaited`: a review that is new
or moves has a request or a delivery behind it, and whatever ends a delivery without a
score puts it into `dropped`. `LateInv` is about the deletions: while a job is counted, by
the user's `DeleteReview` or by the nightly task, each review it has is in `late`.
A handler that takes a job for counted has just found it without reviews, and whoever
inserts or moves one afterwards notes it (`Insert`, `Adopt`). So a deletion takes along only
late reviews, which is what `ReviewsKept` and `OthersLeftAlone` say beside the rules for
what is old and the user's own. For `DecisionsStand` no invariant is needed but the
types: of the actions that write a status each but the user's is either guarded by the
statuses the code names, or writes back a review loaded before, and then it is `Overtaken`.

**Boards.** A miss is counted for what a run reports as gone, so the same module proves of
`ScrapeRuns` that the report is true. `TurnInv` says that during a turn
`off` holds what is off its board now, and what was when the board was read (`Noted`): a read
adds only what is off now, a change of a board notes at once what it takes down, and a fetch
that failed reports nothing of its board. `MissingIsOff` is the step that reports.

**Limiter.** `ThrottleInv` has four parts. `Listing`: the table is finite and the latest
failures of those in it are in a strict order; `Callers`: a login is counted under a name
only logins count under. `Bounded` is about what the table counts: each login under way
may add one failure when it ends, and was let in below the limit, so failures and logins
under way together do not grow beyond `MaxFailures` and one for each other
thread (`Eased`, `LoginBegins`, `LoginFails`); and whoever fails goes to the end of the
order, so an eviction takes those with the most failures after theirs: `LatestFew` and
`Capped` show that what stays is at most `MaxKeys`, by counting, for each that stays, the
failures later than its own (`LaterCount`). `Reasoned` is about what it does not count: the
table never knows of more failures than there were, and if of fewer, the address was
pardoned, or more than `MaxKeys / 2` others had failed after it when it was dropped
(`Recorded`, `Forgotten`). `TooManyIsExcused` puts the two together: a failure too many is
one the table did not know of, and that has its reason.

**Keys.** `BillInv` counts for a delivery what it was billed against its retries, and one
more if it is at work or over (`Paid`); it needs nothing about rows. `EarnInv` says of every
call in flight that no settings change has crossed (`since = Changes`) that its key is the
active one and the worker's model that key's (`WorkerHolds`, `CallerHolds`), so that it
will record on the key it was made with (`Loaded`); once crossed, it only matters that the
flush is signed `Crossing`. Of a row it says that its verdict is signed, that an unusable
model was reported as often as it takes and that the streak is at most what was reported
(`RowHolds`). Each flush writes single columns over whatever is there: `FlushRow` says what
the merged row is, `VerdictWritten` and `EditWritten` who signs it. The count survives
overlaps because a handler that counts one more has loaded a streak of at most `strikes`,
which only grows while the row is there. `VerdictsSurvive` is one case for each of the two
flushes (`SurvivesReport`, `SurvivesCall`): a success that clears a verdict had loaded it,
or the row was changed since and the flush was crossed.

**Résumés.** `OfThisText` is not inductive: its second part needs the first, and the
first needs to know what each thread holds. `IInv` is the types, which say what a thread
at each place holds (`AtWork`), and `Flags`: a row nobody wrote to blindly has a flag
that tells. All writers but one (the creation) go through `Update`, and `UpdateTells` is
about any of them: if what it writes tells when the row is as it had loaded it, then
after the step the rows outside `blind` tell. What is left per writer is two lines:
a save that changes the text raises the flag or found it raised, a parse is of the text
it had loaded (`ParsedTells`), and giving an order changes no text (`WithBaseTells`).
That a draft of another text is told apart then follows without any history of the draft
(`FlagsTellDrafts`): a lowered flag means that the structure is of the row's text, so it
is not the draft's.

**Refines.** That a refine leaves alone what was rejected (`Pinned`) follows without knowing
what the alignment computes (`RefineRespects`): an item that the answer changes or drops has
its name among the changes, whatever the pairs are, because that name is its place in the
user's own résumé; so the decision is found again. An item without a change is paired with
one of the same text. `RefinesRespect` says so of the draft the refine had loaded, for any
number of requests; of the draft there is when it writes, `Pinned`, it holds for one request
at a time, which TLC checks.

**Printing.** `Approved` is about what the alignment and the insertions compute, for lists of
any length, and needs induction over them. `SetInduction` gives it for a set of numbers, from
the well-foundedness of `<`: a set with 0 and with `n + 1` for each `n` of it has them all.
`Recursion` then shows that a function defined from its value before exists, by its beginnings
(`Begun`), so `Taken` and `InOldOrder` are what their definitions say (`TakenIs`,
`InOldOrderIs`). The rest has four parts.

1. *The alignment is a matching* (`PairsMatched`): each item is paired with one at most. Copies
   of a text are told apart by their number (`CopyTells`), the greedy loop takes what is free
   and no two pairs have the same turn, because `Before` is a strict order (`BeforeOrder`,
   `TurnTells`), and ranks tell what is left apart (`RankTells`).
2. *Listing loses nothing.* `Nth` and `Rank` are each other's inverse (`NthIs`), so a list made
   of indexed values has each text as often as the values have (`ListedTimes`). An insertion
   adds one text, and moves no other out (`InsertTimes`).
3. *Between*: without moves the printed list has each text as often as the decisions say
   (`OldOrderAsDecided`): the items still there, and one more for each insertion.
4. *The two ends*: with nothing rejected and no moves the insertions go to their places in the
   tailored list, because what is there already are its first items and those that were paired
   (`ItemsKept`, `ListedInsert`, `OldOrderKept`); when items move the slots are the tailored
   list itself (`NewOrderKept`); with everything rejected no item is changed, dropped or added
   (`OldOrderRestored`).

`DraftInv` carries this to the steps: the draft has one decision on each change between it and
the original, and what a request has loaded is such a draft. It holds with any number of
requests at once, since each writes back a whole draft.

**Mailboxes.** What makes `EnabledByItsCheck` inductive is that a row's `id` is the number
of the request that inserted it, so a request that loaded another row never takes it for
its own. `MailInv` says of each request what it has done (`Holds`): a save that enables has
found its whole layout in the mailbox it loaded, and a channel was chosen for the
connection the request loaded. `PutKeeps` is the case that matters: a save that writes over
the row it loaded writes what it verified for it, and one that finds another picture of the
row marks it touched; `ConnectKeeps` marks a connection over an enabled row.
`InstallKeeps` and `ChannelKeeps` do the same for Slack, and `BeginKeeps` and `EndKeeps`
carry what the other requests hold over a step.

TLC checked each of these invariants on the runs' instances before they were proved.

Every safety invariant and action property of the passing runs is a theorem, but for `Pinned`,
of which `RefinesRespect` is the general part. Only model-checked is besides
liveness (`RunsSettle`, `RequestsAnswered`, `EditScraped`, `SearchedAgain`, `BoardFound`,
`ChallengedInTheEnd`), which is beyond the prover.

## 6. Where code and text disagree

Three are runs of their own, with the quotations under "findings" in `PROJECT.json`:

* `tailor_reverts`: a bullet whose removal the user rejected is not printed when a
  re-order of the same list stands.
* `one_bad_run`: `board_sync` counts a miss per user, so two watchers of a company take a
  posting to the threshold in one run of the scraper (`routers/jobs.py:302`).
* `notes_lost`: an app's note wipes the notes the user saved between its load and its write
  (`routers/jobs.py:496`).

These are seen by changing one constant of a run, or by giving it one more property:

| Disagreement | How to see it |
|---|---|
| A provider call has no timeout, so a run may outlast `STALE_AFTER`; it is judged dead and the next one bills the key beside it (`generation_jobs.py:215`), against "one active job per user per kind" in the module's docstring. | `generation` with `SlowRuns = TRUE`: `OneExecution` |
| The worker's report names no key; it is recorded on the one that is active when it arrives (`routers/keys.py:348`). | `key_verdicts` with `NumKeys = 2` and an invariant that no verdict has the author `Crossing` |
| A score, or a listing seen again, writes back the status of a review it had loaded before the user decided (`routers/jobs.py:111-112, 563-571`). | `job_reviews` with `DecisionStands` without `Overtaken` |
| A job is committed before its review; a cleanup or a deletion whose count falls in between takes the job for an orphan and deletes it with the review (`routers/admin.py:80`, `routers/jobs.py:518-524`). | `job_reviews` with `KeptUnlessOld` without `late` |
| `_seen_again` revives a review for a recent twin but keeps the old date when the twin comes from another source; the review is expired again that night (`routers/jobs.py:110-117`). | `job_reviews` with `Listings = {ad1, ad2}`, `MaxActs = 0`, `MaxScrapes = 3`: `RevivalLasts` of `JobReviews` |
| Another mailbox connected over an enabled one keeps the switch and the folders, which nobody verified for it (`routers/agent.py:738`), though the docstrings say that enabling requires the folders "to exist on the mailbox" (445-448) and that "a new mailbox starts disabled until its folders are set + verified" (713-715). | `settings` with `RunsOnVerified` of `MailboxConfig` |
| A miss is cached for 24 hours, so that a new board "is found within a day" (`slugs.py:10-14`), but the process's own copy never expires. | `scrape_runs` with `FreshChild = FALSE`: `BoardFound` |
| A refine writes the whole draft back minutes later, so decisions saved meanwhile are lost (`routers/generate.py:836`), though "rejected revert and are pinned" (`src/docs/resume-tailoring-design.md:264-265`); the page leaves the buttons of the changes enabled during a refine (`frontend/src/pages/TailorReviewPage.tsx:414`). | `resume` with `Requests = {t1, t2}`: `Pinned` |
| A parse lowers the flag that a save during it has raised (`routers/generate.py:624-626`, `routers/profile.py:104-106`), so "stale=True means resume_text changed since the last parse" (`models.py:551-552`) does not hold, and the next tailoring works from the old text. | `resume` with `AlwaysTold` of `ResumeBase` |
| An assistant's limit is passed when calls overlap (`assistant.py:66`). | `connected_apps` with `used <= Limit` for `OvershootBounded` |

Seen while reading, without a run:

* A Slack installation keeps the channel chosen before, also when the workspace is
  another (`routers/agent.py:850`), and a page opened before it stores a channel of the
  old one (906-920). Both are in `MailboxConfig`; `EnabledByItsCheck` asks only that
  the channel was chosen for this connection.
* Two admins whose requests overlap may each demote or delete the other, and no admin is left
  (`routers/admin.py:249-258`). It is in `Accounts`; nothing in the code promises
  otherwise, so there is no property about it.
* Foreground calls do not touch `unusable_streak` (`llm.py`), so the answers it counts need
  not be consecutive. It is in `KeyVerdicts`; `VerdictEarned` counts what was reported.
* "At most one pass per 24 h" (`jsearch.py:49`): the stamp expires 900 s early, so two
  passes may be a little less than a day apart.
* "Rapid successive saves coalesce into a single scrape" (`criteria.py:34-37`): it is the
  first save's, which may have read the criteria before the later ones; those wait for
  the next beat (`EditScraped`).
* A rejected addition is known by its place and its text: after a refine that moves it,
  it comes back as pending.
* A reset of a password that overlaps its owner's change loses
  `must_change_password` (`routers/admin.py:277`).
* The gate asks `/auth/me`, which needs `jobs:read`: a consent without that scope is
  challenged for ever; and a tracker-api that cannot be reached looks like a dead token
  (`mcp-connector/app/main.py`). Both are in the model; no property is about them.
* A registered client more than a day old and without a grant may be swept between its
  consent and the redemption, and takes the code along (`oauth.py:605-623`); it is in
  the model, and `AsShown` holds because the code goes too.
* A skip of a posting that overlaps its import is the last to write
  (`routers/agent.py:1529`).
* Two application answers generated at once are written into the one list each had
  loaded, and one is lost (`routers/generate.py:319-323`); answers are kept by the index
  of their template, so an edited list of templates moves them to other questions.
* Two first saves make two active profiles, and a parse of the older one makes it the
  current one, because it was updated last. It is in `ResumeBase`.
* `trigger_evaluate` (`routers/admin.py:393`) enqueues `review_job` without the user and
  each delivery fails.
* A board posting with an old date is not revived when it is listed again, though the
  age rule spares boards; a status EXPIRED that the user set is revived like one the
  system set.

## 7. Not modelled

Left out of the modules because no property tells them apart: texts of errors and
timeline entries, PKCE, resource and response_type checks (they refuse a request),
salaries and descriptions, the order in which a query finds one of several twins (any
may be found), encryption, signed states and wire protocols of the mailbox and Slack.

Left out although they write: the foreground calls of `generate.py` (application
answers, cover letter, interview questions), each a read-modify-write of one JSON
column around a provider call, with the same exposure as a refine; the content of a
parse, with the repair of a heading apart from its section, and the print settings;
contacts suggested from an email; agent keys and run records, which are single
statements; `merge_duplicates`, a one-time script.

Components without a module, and why, are in `PROJECT.json`: connections and
recruiters (single-statement rows), extraction, e-mail and logs (I/O and formatting),
the frontend and the manifests.

## 8. Plan

1. **Proofs**: the refinements that the modules below state, step by step and for every size;
   `ResumeTailor` for several entries, whose alignments are made of the ones proved here.
2. **Scoring end to end**: a module that composes `KeyVerdicts` and `JobReviews` by
   their delivery (fetch, call, report, post) and shows that each refines an abstract
   `Scoring`: a review is scored once per delivery, with the key its owner had.
3. **Foreground generation**: the calls of section 7, with two tabs of one user.
4. **Pure functions**: `match_key` and `merge_duplicates` against a reference
   definition over bounded inputs; the survivor of a merge.
5. **`ConnectedApps` on `Connection`**: its grants are made and ended by the steps of
   a connection; what an app may do is then stated of the connection and not of a row.
