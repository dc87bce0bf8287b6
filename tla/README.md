# A formal model of the kingwangjjang backend

TLA+ specifications of the stateful parts of the kingwangjjang backend, the TLC
instances that model-check them, and TLAPS proofs of their main safety properties.
The backend is a set of Python (FastAPI, SQLAlchemy) services:

| service | what it does | state |
|---|---|---|
| `board-service` | boards that a crawler collected; AI analysis of them; recommendation; statistics | PostgreSQL `boards`, `board_metric_snapshots`, `recommendation_*`, `board_likes`; an in-memory job store |
| `gpt-service` | routes inference requests to AI nodes (vLLM, Ollama, OpenAI-compatible) | PostgreSQL `ai_nodes`, `ai_node_models`; semaphores, cursors and counters in memory |
| `user-service` | login through Kakao, access and refresh tokens, administration of users | PostgreSQL `users`, `user_sessions` |
| `comment-service` | comments, replies, likes | PostgreSQL `comments`, `comment_likes` |
| `api-gateway` | verifies access tokens and forwards requests | none |
| `notification-service` | scaffold | none |

Paths below are relative to the repository.

## 1. Inventory

### Board-service: analysis queue and workers
`board-service/app/repositories/boards.py`, `app/services/analysis_worker.py`

*State.* The analysis columns of `boards`: status, priority, retry count, error,
`analysis_requested_at`, `analysis_started_at`, and the analysis itself.
*Operations.* `_claim_next_analysis_job` (recover claims that are older than
`PROCESSING_STALE_AFTER`, then select one row `FOR UPDATE SKIP LOCKED`, mark it
processing), `analyze_board` (load, call the model, store), `_record_analysis_failure`
(count, back off or give up), `retry_failed_analysis` (administrator), `get_analysis`
(public read that repairs a status).
*Interaction.* Several worker loops, in one process or in several, share the rows with
request handlers. Sessions do not autoflush and run at READ COMMITTED, so a row object
may be older than the row it is flushed to.
*Hard.* Interleavings of load and flush; a model call that outlives its claim; a crash
between claim and outcome; a failed transaction; priorities and back-off against
starvation; the boundary of the retry count.
*Correct when* two workers never hold one board while claims are fresh, a stored
analysis is never lost, a finished board is not taken back, no unfinished board falls
out of every query, and every pending board is eventually taken, unless administrators never
stop retrying others.

### Board-service: forced re-analysis jobs
`board-service/app/services/analysis_jobs.py`, `app/routes/boards.py`

*State.* `_jobs` and `_active_by_board` behind one lock. *Operations.* `start`,
`mark_running`, `mark_completed`, `mark_failed`, and the background task
`_run_analysis_job`, which calls `analyze_board(force=True)` **without claiming the
board**. *Hard.* The task writes over rows that workers hold; a restart drops jobs that
clients poll. *Correct when* a board has one unfinished job at most, a completed job is
stored, each job ends or is lost with the process, and jobs break nothing in the queue.

### Gpt-service: AI node router and node registry
`gpt-service/app/services/node_router.py`, `app/repositories/ai_nodes.py`

*State.* Per node: enabled, limit, health, failure count, time of the last check. In
memory: semaphores per node and per capability, cursors of the weighted round robin,
counters. *Operations.* `invoke` (list candidates, choose the first, reserve a slot,
call, record, release, fail over), `health_check`, CRUD of nodes,
`bootstrap_legacy_nodes` at start-up. *Hard.* Requests hold snapshots of limits and
health across awaits; every exit must release the slot; health is written by
overlapping calls; the database may fail while an outcome is recorded.
*Correct when* slots are counted exactly, no node is over the limit under which
requests were admitted, health agrees with the failure count, the figures are off by
nothing but the requests that a failing database ended, and every request ends.

### User-service: refresh sessions
`user-service/app/repositories/users.py`, `app/routes/auth.py`

*State.* One row per session in `user_sessions`; the legacy column
`users.refresh_token`; the cookies of browsers. *Operations.* login callback
(`create_refresh_session`), refresh (`rotate_refresh_session`, which also migrates a
legacy token). *Hard.* Several tabs present one token at once; two transactions lock
the same rows in opposite orders; answers arrive late, out of order or never; sessions
expire. *Correct when* a token is exchanged once at most, a browser that received its
answers still holds an accepted token, no browser loses its session to another, and
waiting for locks ends.

### Board-service: recommendation profiles
`board-service/app/repositories/recommendations.py`, `app/services/recommendations.py`,
`app/services/recommendation_cleanup.py`, `app/routes/recommendations.py`

*State.* One row per account in `board_recommendation_profiles`: the profile (events,
followed and hidden tags, the moment of the last reset), the ids of the mutations that
were applied, a revision, and when the cleanup is due. *Operations.* `update_profile`
(read the row, apply a batch of mutations, write it back if the revision is unchanged, up
to eight times), `cleanup_expired` (hourly, the same with one try), `get_profile`.
*Hard.* Devices send their batches at once, late, or again after a lost answer; resets and
imports cross what other devices still hold; a batch and the cleanup overtake each other
between read and write. *Correct when* the profile is what some order of whole requests
makes of it, a repeated mutation counts once, a tag is never followed and hidden at once,
nothing from before a reset comes back, what has expired is found by the cleanup, and 409
means that others did save.

### Comment-service: comments and likes
`comment-service/app/repositories/comments.py`, `app/routes/comments.py`;
`board-service/app/repositories/boards.py` (`like_board`); `api-gateway` (identity)

*State.* `comments` (parent, author, soft deletion, `like_count`, `reply_count`) and
`comment_likes`; the like of a board is the same code in board-service. *Operations.*
`create_comment`, `update_comment`, `delete_comment`, `like_comment`, `list_comments`; the
gateway decides who a request comes from. *Hard.* Counters are read, changed in Python and
written back while others do the same; a parent is checked, then deleted, then replied to.
*Correct when* a counter is wrong by no more than the commits that overtook one another,
pages show every visible comment once, and a deleted comment never shows again.

### Board-service: from contents to a result (inference path)
`board-service/app/utils/crawled_content.py`, `app/utils/llm.py`,
`app/services/vision_text.py`, `app/repositories/boards.py` (the enrichment of contents);
`gpt-service/app/routes/inference.py`, `app/services/inference.py`, `app/adapters/`

*State.* None is stored; one analysis carries its blocks, how many images it has tried and
why they failed, and the request it waits for. *Operations.* Normalise the contents, read
images until the body is long enough, cut the text, send it to gpt-service or to Ollama
endpoints, turn the answer into a result or an error. *Interaction.* Two HTTP clients with
a timeout of their own, in front of gpt-service with a deadline and a schema, in front of
nodes with a timeout. *Hard.* Three timeouts; a failure is classified three times on its
way back and decides whether the board is retried without end or given up; limits of two
services on one text. *Correct when* a failure of infrastructure on an image that was
tried, or on the text, is never blamed on the content, requests pass the schema of the other service, the text is cut fairly, every node gets its
turn before the deadline, and every attempt ends.

### Board-service: popularity and metric snapshots
`board-service/app/services/popularity.py`, `app/repositories/boards.py`

*State.* Counts, score and score time in `boards`; `board_metric_snapshots`; the time of
the last cleanup in each repository object. *Operations.* `record_metric_snapshot` (with
its cleanup), `_recalculate_popularity_scores` inside `analyze_board`. *Hard.* Two writers
compute one score from different inputs, load before and write after the other; callers
give the moment of a record, in any order. *Correct when* both give the same score for the
same rows and the time of a score goes back by nothing but a record of an earlier moment.

### Board-service: lists, briefing and shorts package
`board-service/app/services/ranking.py`, `issue_briefing.py`, `shorts_package.py`,
`app/repositories/boards.py`

*State.* None of their own: they read `boards` and the recorded daily ranking.
*Operations.* Realtime and daily lists by page, with the exposure balancing of sites; the
daily issue briefing (posts in one transaction, bodies for excerpts in another); the video
package of a live or recorded ranking. *Hard.* A page is cut from a selection that is made
anew for each request, from a number of rows that depends on the page and in an order that
leaves equal rows to the database; grouping is done twice and must not disagree; a narration that is too long fails the package. *Correct
when* pages repeat and omit nothing where no rows tie, enrichment keeps the issues, packages always render.

### Components without a module of their own

| component | why |
|---|---|
| user-service: users, administration, login | `get_or_create_user` and the administration of users read and write one row; tokens are cryptography. The flush of a changed profile at login is part of `RefreshSessions` |
| api-gateway | stateless; its authentication is the environment of `Comments`. Administrators' paths, headers and the choice of a service are left out |
| board-service: legacy routes, notifications | not mounted, or one call of an external service |
| notification-service; scripts | no operations; no program logic |

## 2. Modules

```
LeasedQueue -- implemented by -- AnalysisQueue -- AnalysisJobs
                                      |                |
                                      +-- AnalysisQueueProofs

AINodeRouter -- AINodeRouterProofs          RefreshSessions -- RefreshSessionsProofs

InterestProfile -- RecommendationProfiles -- implements -- InterestLedger
                             |
               RecommendationProfilesProofs

AnalysisInput -- InferencePath -- InferencePathProofs      Comments -- CommentsProofs

Popularity -- MetricSnapshots -- MetricSnapshotsProofs

BoardRanking, IssueBriefing, ShortsPackage -- BoardFeed -- BoardFeedProofs
```

Each component module holds the state, the actions, the specification and the
properties, and also a few operators marked *Faulty*: the mistakes that the properties
rule out. No action uses them. `MC*` modules give constants to TLC; every component with
actions has one. `*Proofs` modules hold theorems; `AnalysisQueueProofs` those about the queue
and about its jobs.

### AnalysisQueue, LeasedQueue
A transaction that reads, computes and writes is two steps: the one that loads rows into
the session and the one that flushes. `Flush(stored, old, new)` is the ORM's unit of
work: it writes the columns in which the object differs from what it was loaded with.

| TLA+ | code |
|---|---|
| `ScanStale` | the SELECT of stale rows in `_claim_next_analysis_job`; the objects become pending in memory only |
| `ClaimBoard`, `ClaimNothing` | the second SELECT, the flush of recovered rows and of the claim, the commit. A board already in the session keeps its in-memory values |
| `AnalyzeAnalysed`, `AnalyzeLoad`, `AnalyzeCommit`, `AnalyzeRaise` | `analyze_board` before and after the call to the model |
| `RecordLoad`, `RecordCommit` | `_record_analysis_failure` |
| `RetryFailedAnalysis`, `GetAnalysis` | one conditional UPDATE; the public read with its repair |
| `BackoffElapses`, `ClaimExpires` | the clock passes `analysis_requested_at`, or `analysis_started_at` + `PROCESSING_STALE_AFTER` |
| `Abandon` | the process dies, or a statement fails and the session rolls back |

Data is reduced to what decides: timestamps to fresh/old and due/later plus the order
`before` of the boards' request times; errors to none, stale, terminal, other; the
analysis to present or absent. `overran[b]` is a history variable: some claim of `b` has
outlived `PROCESSING_STALE_AFTER`. The safety properties hold *until* that happens; what
happens after it are the findings.

`LeasedQueue` is what the queue promises of each board: `Take` by one worker while nobody
holds it and tries are left; `GiveBack` with an `Answer`, with a `Fail` or as it is
(`Leave`); `Reopen` of a failed board; `Notice` of a result that was stored already; and
`Lapse`, after which it promises only that a result stays. It knows no sessions, scans,
flushes or priorities. `Lease` maps the queue to it: the status and retries of the row, the
workers whose claim the board is, whether it has an analysis, and "lapsed" once `overran[b]`.

### AnalysisJobs
Extends the queue with the job store and the background tasks, so that a forced
re-analysis runs between any two steps of the workers. `Restart` drops the store, the
tasks and the workers' transactions.

### AINodeRouter
The service is one asyncio process, and `invoke` gives way only while it calls a model
and while it closes the client. A step is therefore what runs between two suspensions:
`Invoke` (list, order, skip the saturated, reserve the first with room: `CallNext`, or
give up: `Conclude`), then one outcome (`Answer`, `Misconfigured`, `Refuse`, `CallFails`,
`StoreFails`), then `Close` (release, and return, raise or go on). `limits` in a request
is its snapshot. `UpdateNode`, `CreateNode`, `DeleteNode`, `HealthCheck`, `Restart`
(with `Bootstrap`) and `CooldownElapses` change rows at any point between.

### RefreshSessions
One account (accounts share no rows), its sessions and its browsers. A transaction is
split at each statement that may wait for a row lock: `MatchSession`, `MatchLegacy`,
`InsertUser`, `DeleteExpired` (row by row), `Commit`. `Blockers` is the wait-for
relation; `BreakDeadlock` lets the database abort one transaction of a cycle. `Answer`
and `Lose` are the network; `Expire` is time. A token is named after the request that
created it, because each carries a random `jti`.

### InterestProfile, RecommendationProfiles, InterestLedger
`InterestProfile` is the pure part: `clean_profile` (`CleanProfile`), `apply_mutation`
(`ApplyMutation`) and `next_cleanup`. Tags are sets, since no decision reads their order;
which of several tags or events of one moment a full list leaves out is left open.
`RecommendationProfiles` is one account, in steps of one transaction statement:

| TLA+ | code |
|---|---|
| `Arrive` | `now = datetime.now()` in `update_profile`: all attempts use this moment |
| `Read` | `session.get` of an attempt |
| `Saved`, `Conflict` | the INSERT or `UPDATE ... WHERE revision = :revision` meets its row, or not: next attempt, or 409 |
| `SavedUnheard`, `Fail` | the answer is lost after the commit; a statement fails or the process dies |
| `CleanupRead`, `CleanupWrite`, `CleanupFail` | `cleanup_expired` for this account's row |

Rows are numbered from 1 and never deleted, so revision 0 stands for no row: a failed
INSERT and an UPDATE that meets no row are then one conflict. `After(d, batch, at)[n]` is the
document after the first `n` mutations of a batch, a recursive function like the loop that
it stands for. `InterestLedger` is what the
route promises: the document changes by whole requests, one after the other, and the
answer tells whether it did.

### AnalysisInput, InferencePath
`AnalysisInput` is the pure part: normalisation, sufficiency of a body, the lines of the
prompt and the truncation. A text is a record of what the code measures in it (length,
alphanumeric characters, letters, how it relates to the title and to other texts); a
rendered text is the sequence of the lengths of its lines. The loop of `_fair_part_limits` is
`FairTurns`, one turn after the other; sums and filters are recursive functions too (`SumSeq`,
`Pick`), which proofs can follow. `InferencePath` is one analysis
of a board, or one request for the text of an image, from the contents to the outcome.

| TLA+ | code |
|---|---|
| `ReadImage`, `SkipImage`, `ReadImageFails`, `EnrichBlock`, `GiveUp` | one turn of `_enrich_analysis_contents_with_vision`, and its end; `SkipImage` is the file that is missing or cannot be opened, which counts nowhere |
| `Analyze`, `FinishAnalysis` | `_analysis_text`: truncation, request, classification of the answer |
| `ExtractImageText`, `AnswerEndpoint` | `POST /api/boards/{id}/images/{index}/vision-text` |
| `Admitted` | token, schema and list of candidates in gpt-service |
| `SkipSaturated`, `NodeAnswers`, `NodeRefuses`, `NodeFails`, `Conclude` | the loop of `AINodeRouter.invoke` under the deadline; `AttemptTimeout` is the share of an attempt |
| `ConnectionLost`, `ClientTimesOut` | the client of board-service gives up, or has no answer |
| `EndpointFails`, `EndpointAnswers` | `OLLAMA_BASE_URLS` in turn, without gpt-service |
| `ClaimAgain` | a worker takes the board again, with nothing kept of this attempt |

Time is counted in units of the least time that an attempt gets. `outage` and `down` are
history variables. `outage` remembers what kept images from being read (`Causes`): a file
that was `skipped`, or something that `failed` an image which was tried; `down` that some part
of the infrastructure failed the request. `BlameIsRight` compares the outcome with them.

### Comments
A handler is split at each statement that reads: `ReadRow`, `ReadLike`, `ReadParent`, then
the commit (`CreateRoot`, `CreateReply`, `Update`, `Delete`, `Like`, `Unlike`,
`LikeAgain`), or `Fail`. `Send` is the gateway, which may know who asks or not; a request
that comes to nothing is over. The ORM writes a counter from the value it read (`seen`).
`overtakes` is a history variable: per counter, how many commits came between the read of
a request and its own commit. `ListComments` is the page of a list with its replies: `order` has the
comments by `created_at`, and `InOrder` sorts what a query selects from it.

### Popularity, MetricSnapshots
`PopularityScores` returns the tuple of inputs that the arithmetic is applied to, as the
code stores it in `score_breakdown`: logarithms, weights and decays are left out.
`LoadRecord`/`CommitRecord` and `LoadBoard`/`ReadSnapshots`/`CommitAnalysis` are the two
writers; `Written` is the ORM's column-wise flush; `disturbed` is a history variable: a
writer was overtaken, or the cleanup took a snapshot that a score uses. The scheduler of
snapshots is outside the repository: `record_metric_snapshot` is modelled as the code that
an external recorder calls, with any of `Moments` as its `captured_at`, whatever the clock
reads and whatever was recorded before. Records may come in any order and several may carry
one moment. `LastTwo` and `LastThree` are the sets of what a query for the latest may return,
and `taken` is what a writer got. Snapshots are told apart by an `id`, as in the table.

### BoardRanking, IssueBriefing, ShortsPackage, BoardFeed
The first three are pure: `balance_site_exposure`, `build_issue_briefing` and
`build_top10_shorts_package` as operators. `BoardFeed` puts them into a system in which
boards are crawled, age and are analysed (`Crawl`, `Age`, `Analyse`) between the pages of
a reader (`OpenList`, `ReadPage`), between the two transactions of the briefing
(`ReadPosts`, `ReadBodies`), and between the recording of a day and the package made of it
(`RecordDay`, `BuildLive`, `BuildHistorical`). Titles are lengths, terms and the signals
that the patterns of the code find in them; identities, sites and times are numbers that
compare as the code compares strings and timestamps. Boards may share a `created_at`
(`Created`); rows that are equal in all columns of an ORDER BY (`RowKey`) come in an order
that is the query's own (`RowBefore`, any of `TieOrders`, chosen anew for each page).
`Ordered` sorts by a strict order: of these rows, and in Python, whose sorts are stable, by a
key that no two of the sorted share. `Selections(candidates)` holds the order for every limit: the n-th
extends the one before it by a first exposure, or by the best of what is left; `Groupings`
likewise holds the groups of the first n candidates. Sorting of groups is stable in the code, so
the index of a group ends its key; `TitleGroup` finds the one group that `title_groups` remembers
for a title, which is that of the first post with it. The outcome of
a package is the set of what was built, empty when the code raises ValueError.

## 3. Runs

| run | instance | what it shows |
|---|---|---|
| `queue_races` | 2 workers, 1 board, every kind of initial row, 1 fault | exclusion, reachability of the board, no wasted model call, no lost analysis, no finished board undone; `AnalysisQueue` implements `LeasedQueue` |
| `queue_live` | 1 worker, 2 boards, 2 retries, 1 fault, fairness | no board waits for ever behind boards that fail, also with a priority above the retry budget, unless administrators retry those for ever; each claim ends, also after a crash; else only retryable errors keep a board unsettled |
| `jobs` | 3 jobs, 1 worker, 1 board, a fault or restart, fairness | one unfinished job per board, a completed job is stored whatever the worker does to the row, jobs end |
| `router` | 2 requests of two capabilities, 2 nodes, limits 1 and 2, 1 administrative step, health check, fault or restart, fairness | exact slots and limits, health agrees, figures are exact and their gap is explained, requests end |
| `sessions` | 2 browsers, one with 2 tabs, 2 old tokens, one expiring, 1 fault, fairness | tokens rotate once, cookies stay live, sessions survive, requests end although lock orders are opposite |
| `profiles` | 3 requests with overlapping batches of all kinds, 1 cleaner, 2 attempts, time up to 2, 1 fault | `RecommendationProfiles` implements `InterestLedger`; repeated mutations count once; resets, hidden tags and expiry hold; 409 is earned |
| `inference` | boards of 1 to 4 blocks, 2 nodes per capability, 2 endpoints, deadline 5, client timeouts 3 and 6, up to 2 images, 2 attempts | blame, schemas, fair cuts, turns of nodes, answers in time, progress of every attempt |
| `community` | 3 requests of 2 users, 1 comment there already, 1 board | drift of counters, pages, deletion |
| `metrics` | 1 recorder, 1 analyst, 1 board, 2 counters with gaps, 3 records of moments 1 to 3 in any order, retention 1 | both writers agree on the score; its time goes back by an earlier record only |
| `lists` | 5 boards of 2 sites, two of them with one created_at, 2 starts, 2 changes, pages of 1 and 2, 2 orders of ties | pages, briefing and packages |
| `finding_*` | the smallest instance each | section 6 |

*Bounds and why they are enough.* Exclusion and stale flushes are about pairs of
workers on one board; the theorems cover any number of both. Starvation needs a second
board, not a second worker; `UserPriority` is above `MaxRetries`, as 100 is above 5 in the
code, so that failures between two retries of an administrator never use up the priority that
a retry gives. Two retries separate "the last one" from the others. One
fault is a crash at any single point; two of them add no new pair of steps. Three jobs of
one board are one that runs, one that is refused and one after it. In the router
one node with a limit of one and one with a limit of two give saturation, spill-over and
verdicts; the theorems cover any number of administrative steps. In the sessions two tabs of one
browser race for one token, and the third request is the other browser, which owns
different rows. `MCInit` in `MCRefreshSessions` removes initial states that are equal up
to the names of tokens. In the profiles two attempts can both be lost to the two other
requests; the limits on events, tags, receipts and imports are small enough for the
batches to reach all of them; with a retention of one moment events expire before time
ends. A batch is never longer than the receipts (20 against 1000 in the code;
`StoreAssumption`). In the inference path the deadline is short of two node timeouts, so
that shares matter; one client timeout is below it and one above; texts have lengths below,
at and above each limit; an image is tiny or at the largest size allowed. Two comments
requests overtake one another and the third is what they both touched; a page is asked to
hold no roots, which `list_comments` takes for one, or two (`Limits`: the route lets any
integer pass). One board has up to three snapshots, as many as a query reads, of moments that
are earlier than, equal to and later than one another and the clock, so that the retention
cuts between the two that a delta needs; boards do
not interact there. Five boards hold copies of one post, one event in two wordings and one
joined by a tag only; the copies share their created_at, so that they tie while their scores
are equal and stop to tie when one is crawled.
`MaxFaults`, `MaxOps`, `MaxTime`, `MaxAttempts` (of one board), `MaxChanges`, `Horizon`,
`MaxRecords` and `Expiring` are the only bounds on counters and time. Symmetry is used in runs without
liveness only, and only over workers or requests of one kind.

*Deadlock.* It is checked in the queue runs, which never stop, and in `inference`, where
only an attempt that has ended may rest: with `AttemptAdvances` this means that every
attempt ends. The others serve a finite set of requests, or end with their bounds, and stop
then.

*Fairness.* Worker loops poll for ever and each model call ends, because the HTTP client
has a timeout: weak fairness of each worker's next step. The clock advances: weak
fairness of `TimePasses`. Background tasks are run by the process: weak fairness of
`RunAnalysisJob`, which a restart disables. The router's calls carry the timeout of the
node and the event loop runs what is ready: weak fairness of `Proceed`. A request at the
user-service is executed by its thread: weak fairness of `Serve`. Nothing is assumed of
administrators, visitors, crashes, losses or restarts. In particular administrators may retry
a board whenever it has failed, without end: a retry gives it `USER_REQUEST_PRIORITY`, and
five failures take five steps of it, so that a board which is retried for ever is always
selected before one that is merely pending. `PendingIsClaimed` and `SettlesUnlessRetryable`
state this as their exception (`OthersRetriedForever`), and hold of all other behaviours.

## 4. Proofs

All theorems hold for every value of the constants that satisfies the named assumptions
(`ConstantsAssumption`, `JobsAssumption`, `RouterAssumption`, `SessionsAssumption`,
`ProfileAssumption`, `StoreAssumption`, `IdsAssumption`, `CommentsAssumption`,
`SnapshotsAssumption`, `PopularityAssumption`, `NothingAssumption`, `InputAssumption`,
`PathAssumption`, `FeedAssumption`): the types of the constants, that rows which earlier processes left are rows
the code can leave, that a mutation's id does not stand for an import here and for another kind
there, that a list of candidates names no node twice and is no longer than the deadline has
units, that an image is no larger than its setting may allow (`MaxImageBytes`), that
board-service cuts a text to no more than gpt-service takes, and that
`AI_ANALYSIS_VISION_PROMPT` (crawled_content.py:217-221) is not set to a longer prompt than
the schema of gpt-service takes. A worker with such a setting gets a 422 for each image, which
is left out; the endpoint's own prompt may be too long, and is modelled. `FeedAssumption` says
that titles have numbers for keys and lengths and that an order of ties is strict.

**AnalysisQueueProofs** proves `QueueInv`, and from it `TypeOK`, `ClaimExclusive`,
`NoStuckBoard`, `NoWastedAnalysis`, and the action properties `AnalysisKept` and
`DoneIsFinal`. `ClaimExclusive` is not inductive: why a second worker cannot claim a held
board is that the row still says processing and is not stale. So `HolderInv` says that
the row of a held board is what its holder has loaded; `RowInv` that a processing row is
fresh and due and has retries left; `SessionInv` that sessions hold only stale rows
(after the scan) or the holder's own; `PhaseInv` links claims to control. All but the
last are conditional on `~overran[b]`, and `ClaimExpires` is what makes it false. The
proof has one lemma per action; the lemmas on `Flush` and `Failed` carry the arithmetic.

`QueueIsLeased` is the refinement: every step of the queue is a step of `LeasedQueue` or none.
Most of a step is invisible to it: a scan, a flush of recovered rows, whatever happens to a
board that has lapsed (`Unseen`, `NothingSeen`). What is visible is of one board (`OneSeen`),
and `QueueInv` says in which states: that the row a worker commits over is the one it loaded,
that a board in progress has tries left, that nobody holds what is claimed. One fact about
`LeasedQueue` itself is needed (`OpenInv`, a board in progress has no result yet) for the read
of `get_analysis`, which is then seen to notice only boards that nobody is working on. That a
stored result survives every flush (`AnalysisKept`) is proved too; no run checks it alone,
since it is part of what `LeasedQueue` says of a board in whatever state.

The module's sections on jobs prove `OneJobPerBoard` and `CompletedIsStored`. `QueueInv` does not
survive the jobs, which write over rows that workers have claimed; what does is `QueueTyped`,
its part on types, on phases and on what sessions hold. `StoreInv` ties the index of active
jobs to the jobs and to their tasks, and `ResultFacts` says where a result is between the
commit of a task and its mark.

**AINodeRouterProofs** proves `RouterInv`: `TypeOK`, `InflightExact`,
`CapacityRespected`, `HealthConsistent`. Slots are counted by cardinality, so the proof
abstracts requests to *places*, a function from requests to nodes: `Exact` and `Bounded`
say what slots and limits mean for a function of places, and `ExactReserve`,
`ExactRelease`, `BoundedReserve`, `BoundedRelease` say what taking and leaving a place
does to them. `Close` releases and may reserve again in one step, which is why the lemmas
speak of a place function and not of the current state. `PlanInv` relates places to
control. `CountersAccounted` is proved on top of it (`AccountInv`): each request contributes
to the counters by its record alone (`InTotal`, `Succeeds`, `Fails`, `Spills`, `Overloads`,
`Calls`), one lemma (`CountFollows`) says that a counter which moves with the contribution of
the one request that moved goes on counting, and `ResultInv` says which results a request in
progress can have. It has three parts: each figure of a node and each figure of the traffic
counts exactly what it is about, and `TotalExplained` names what lies between the total and
the two outcomes: the requests in progress, and those that ended with an exception of the
database, which stay in the total and in no outcome for good. The rotation is proved about its operators: the copies of a node are an
interval of places in the pool (`CopiesApart`), every place is a copy of exactly one node
(`PlaceOfPool`, `OneAtPlace`), so it is always one node's turn (`OneTurn`, and `OnePrimary` for the
states of the specification); and consecutive values of the cursor, as many as the pool has places,
have each remainder once (`RemaindersOnce`), so a full turn puts each node first as often as its
weight says, wherever it starts (`RotationIsFair`). That is about who is tried first: a saturated
node passes its turn on.

**RefreshSessionsProofs** proves `SessionsInv`, and from it `RotatedOnce`, `CookieIsLive`
and the action property `SessionsSurvive`. That a token rotates once needs to know why
the second request fails: `LocksInv` (two transactions never hold one lock, locks are on
rows that exist), `RouteInv` (who is about to commit holds the place in which its token
is kept), `ConsumedInv` (an exchanged token is in neither place) and `SecretInv` (nobody
presents a token before it was answered). That cookies stay live also needs `OwnerInv`:
a token is in one browser's hands.

**RecommendationProfilesProofs** proves every property of the profiles. That the specification
implements `InterestLedger` (`SpecSerialised`), and `RefusedForOthers`, need an invariant about
revisions only (`ProfilesInv`): a row that somebody has read has a revision not above the
stored one, and the same revision means the same row (`Follows`), so a write that matches
starts from the stored document; and a request has failed no more often than revisions came
since (`InOrder`). These two hold for any `Absorb` and `Cleaned`.
The others need what a mutation does. `StandingInv` says of the stored document that its
profile is `Sound` (no tag followed and hidden, no event from before the reset), that its
receipts and imports are registers of distinct ids, which hold every id applied so far or are
full (`Remembers`), and that the row is due when its first event expires. A save matches, so
the document it starts from is the stored one; `ReceiveSound` carries the invariant over one
mutation and `AfterSound` over a batch, by induction on its length. `AppliedOnce` follows
because a full register that forgot an id holds `ReceiptLimit` others. `TypeOK` is proved of
the result: `CleanProfile` and `ApplyMutation` choose the events and tags that survive, and
the choice has to exist (`LatestExists`, `NewestExists`).

**CommentsProofs** proves `CountersDrift`, `DeletedStaysDeleted` and `PagesPartition`. A
counter is near the rows it counts, within the drift so far; what a request has read is wrong
by no more than that drift and the commits since (`Within`), and is exact when there were none;
so its commit leaves the counter near again, and adds as much to the drift as it was late.
`Rooted` links a request to the row it is about. For the pages, `OrderInv` says that the order
has each comment once and that a parent is a root, which a reply found when it was checked and
which no request can undo: comments keep their parents. The rest is about `list_comments` on
such rows, for boards and pages of any size. `InOrderLists` proves that sorting loses and
repeats nothing (the k-th of a set of places exists and is unique, `NthFacts`), `PagesApart`
and `PageExists` that each place of a list is on exactly one page, and `FlattenStrung` where
the concatenation of the threads puts the rows of each. `PageListed` puts these together for
one page; a comment on two pages would put its root (`Top`) on both.

**InferencePathProofs** proves all six properties of the path. For time (`TimeInv`):
the candidates left never outnumber the units of time left, because the share of an attempt,
`left \div Len(rest)`, leaves the others a unit each. For blame (`BlameInv`): the candidates
of a request are `Accounted` for as tried, refused or left, so the verdict 422 means that
all refused; an attempt has counted a transient failure exactly if `outage` holds `failed`;
and an answer tells whether something was down. Images that were passed over are the exception
that `BlameIsRight` states, and an observation of section 6. For progress (`EndInv`): each action
lowers `PhasesLeft`, which counts the blocks still ahead, or keeps it and lowers `TriesLeft`. For the requests (`FitInv`): the blocks stay blocks, also where
texts of images were joined to them; an analysis is asked for only when the body suffices, and a
body that suffices has a part (`SufficientIsSome`), so `RequestsFit` and `CutFairly` follow from
`CutFits` and `LimitsAreFair`. A worker's image fits because four characters for three bytes of
`MaxImageBytes` stay below `MaxImageDataUrl`: the two settings are written down in two services,
and the theorem is what ties them.

Its first part says what the operators of `AnalysisInput` compute, for texts and limits of any
size. Sums, filters and turns are recursive functions; `RecursionExists` constructs the
function that a recursion asks for, and each recursive operator is unfolded once from it
(`SumsUnfold`, `PicksUnfold`, `FairTurnsUnfold`). `LimitsAreFair` is the correctness of
`_fair_part_limits`: the invariant of its loop (`FairState`) is that whoever has a limit has its
whole length, that these lengths and what remains make up the budget, and that no such length
exceeds the share of those without one; the share never falls from turn to turn
(`FairTurnKeeps`), since whoever leaves takes at most one. A turn in which nobody leaves is the
last (`Settled`), and as many turns as there are parts reach it (`FairTurnsSettle`). Then the
division with remainder adds up (`SumEqual`, `SumRemainder`). `CutFits` adds the newlines, the
title and the marker: the selected parts are no more than the budget has characters
(`SelectionFits`), so each can be followed by its newline.

**MetricSnapshotsProofs** proves `ScoreIsCurrent` and `ScoreTimeForward` for any number of
recorders, analysts and boards, and for records of any moments. The invariant (`IInv`) says that,
unless it is disturbed, a board's score is one that its rows give, or was recorded for an
earlier moment than a stored snapshot (`Current`), and its time is not later than all
snapshots, or than the clock if there are none (`Dated`); that the row a writer loaded agrees with the board's row as
long as no commit came between (`JobSound`), which is what lets a column-wise flush stand for a
whole write; and that snapshots are finite. Equal moments make "the latest" a choice:
`LastTwoFirst`, `LastThreeFirst` and `SameFirst` say what all choices have in common, their
moments, and `RecordComesFirst` that a snapshot which none follows can be read first and moves
what its writer read down by one, so the score it stored is one that a later analysis computes.

**BoardFeedProofs** proves `PagesStable`, `PackageRenders` and `BriefingKeepsIssues`.
`OrderedFacts` says that `Ordered` lists a finite set in its order; `FourPrecede` and
`ThreePrecede` what the comparison of tuples means, so that rows, with the order of a query's
ties at the end of their keys (`BeforeMeans`), and candidates are
in strict orders (`RowsOrder`, `AheadOrders`), and so is the comparison of scores divided by exposures
(`OutranksOrders`, which multiplies them out). Hence each step of `Selections` has a candidate
to choose (`NextIsLeft`) and each selection holds one candidate more than the one before
(`SelectionFacts`). Then why prefixes are stable: if the candidates of a request are such that
whoever is not among them has t of its own site in front of it there (`FirstOfSites`), and an
active candidate is at the head of each site that has one (`HeadsActive`), the first exposures
are those of all candidates (`FirstStable`), and so is every next one while fewer than t are
selected, because t cannot all be selected yet (`NextStable`). Both hold of the first t rows of
each site where `Regular` does (`RegularSites`, `RegularHeads`). Where no two rows of a query
have one key (`KeysDiffer`), the order of ties decides nothing (`KeysDecide`,
`KeysDecideSites`), so all queries list them alike (`RowsAlike`); where they have, nothing of
this follows (section 6). So a page is a page of one
whole list (`ListBoardsPage`), which has every board once. The invariant (`ReaderInv`) says
that the pages read are those the list has now, as long as no board changed, and all but the
last are full. For packages: a clipped narration has at most 30 characters, spoken in 5 seconds
(`SpokenFits`), and a ranking has at most `TopLimit` boards, so no rank is cut off.

That the excerpts of a briefing keep its issues compares two runs of one algorithm, on the
posts and on the same posts with some `pending` turned into `source_excerpt`. `Enriches` says
when a map `e` of posts is such a change, and each stage is shown to commute with it.
*Mentions:* the two summaries are first and second of the sort that picks one mention of a
source, so an excerpt could have let another copy win; it cannot, because only posts that are
mentions already and `pending` get one, and every other copy was `pending` too
(`MentionStays`). *Orders:* places in a sort are counted (`OrderedPlaces`), so a map that keeps
keys carries one ordered list to the other (`OrderedMaps`), for mentions, groups and headlines
alike; no two posts and no two groups share a key (`KeysOrder`: an id or the index is its last
part). *Groups:* no match looks at a summary (`TitleGroupStays`, `MatchStays`), so each
candidate is placed alike (`PlacedStays`), and so are all up to the n-th (`GroupingsStay`,
along `Groupings`, the function of prefixes that the loop computes). *Issues:* groups share no
post (`GroupsOf`), so an issue that reads `ai` has no post that was excerpted and stays as it
was, and an issue still `pending` has no example with an excerpt (`IssueStays`). The invariant
of the system is small (`BriefingInv`): between its transactions a request keeps the posts that
it read and the briefing built from them. `Boards` may change meanwhile in any way, since the
second transaction reads bodies only.

*Induction.* Several proofs are about loops: a batch, a list of receipts. The theorems of the
library take the statement to prove as an operator, which the provers cannot instantiate; so
`InductionUpTo` takes the *set* of the numbers for which it holds, and is itself proved from
the least number outside that set.

*Model-checked only.* Liveness under fairness (`PendingIsClaimed`,
`ProcessingIsReleased`, `SettlesUnlessRetryable`, `JobsEnd`, `RequestsEnd`,
`EveryRequestEnds`), which
the prover does not reach. Every safety invariant and action property of the passing runs is
proved.

## 5. What is left out, and why

* `request_analysis` has no caller in the service. The crawler is external: rows it
  inserts, refreshes or deletes while workers run are not modelled in the queue, so the set
  of boards is constant and `Recent` (the crawl window) does not move.
* The database connection pool. `get_analysis` reads and commits in one step.
* Administration of a node's models and names while running, and the sliding window of
  `resource_snapshot`, which only reports. An adapter that cannot be built fails in the
  step of the call. Cancellation at shutdown is part of `Restart`. `/chat`, the payloads of
  the providers and the normalisation of scores and reasons in gpt-service.
* Reading an interest profile and ranking posts by it: no writes, and arithmetic over real
  numbers. The cleanup takes 100 rows in one transaction; the model follows one of them.
* Updates of a user's profile other than the flush at login.
* Site profiles, weights, logarithms and decay of scores; regular expressions, which are
  signals of the texts; prompts, the image request and the wording of summaries.
* Filters of lists other than sites, the hourly rankings and `get_issue_overview`, which
  aggregate rows in one read. Daily and hourly rankings are recorded by a scheduler outside
  the repository (`RecordDay`).
* The gateway's own timeout: it answers 500 after 90 seconds while the handler goes on,
  which a client of `Comments` cannot tell from a lost answer.
* Schema migrations and the components of the table in section 1.

## 6. Findings

* `finding_late_failure`: a stale scan holds a row; its owner then records a
  failure that uses up the retries; the flush of the scan makes the row pending with no
  retries left. No worker selects it again and the administrator's retry refuses it.
* `finding_pages`: `_list_balanced_candidates` fetches the first rows of each site by
  score, as many as the page ends at (boards.py:1266), but the selection puts the best
  *active* board of a site first. Three boards of one site, scored 10 and 9 (inactive) and 8
  (active), read in pages of one, give a1, a2, a2 and never a3. `ranking.py:36-37` and
  `:57-58` say that prefixes make pages stable, without duplicates or omissions. No rows tie
  here. `PagesStable` in `lists` shows that pages are stable when no rows tie and no site has
  an inactive board ahead of an active one.

Observations without a run of their own:

* *Queue.* What a claim that outlived `PROCESSING_STALE_AFTER` may do is excused by the
  safety properties (`overran`), and so is shown by no passing run: the model is asked again
  for an analysis that is stored or under way, and the answer of the slower worker stands.
  What is left then is that a stored result stays (`LeasedQueue`), and that claims end. When
  the scanning worker has loaded a stale row and another recovers it, setting `processing`
  restores the loaded value and the ORM emits no status: the board is claimed and still
  reads pending. After a late failure of the previous holder, a retry by an administrator
  can reset a row that its current holder works on, which the docstring of
  `retry_failed_analysis` excludes. The design document of 2026-07-22 calls `GET
  /api/boards/{id}/ai` read-only (line 50); `get_analysis` commits a repaired status. An
  exception other than `LLMError` (analysis_worker.py:65) counts as no failure: a row that
  always raises one is claimed, recovered after `PROCESSING_STALE_AFTER` and claimed again,
  without end.
* *Router.* The README of gpt-service (lines 119-121) allows one recovery probe at a time; a
  request that planned while the node was healthy fails over to it, under the normal limit,
  while a probe is there.
* *Sessions.* A migration of a legacy token locks the user and then the expired sessions, a
  login with a changed profile the other way round, and the database aborts one of the two
  (`BreakDeadlock`).
* *Inference path.* An image whose file is missing or cannot be opened (boards.py:1527-1545), as
  when the media volume is not mounted, is passed over like a damaged one and counts as no
  failure (`SkipImage`). The board ends as too short, which spends its retry budget, over something
  that may be back a minute later. `board-service/README.md:106-107` says that only damaged
  files and a real lack of content are left as errors of the content, and the same error of the
  same file a moment later, during the call, does count as transient. `BlameIsRight` without the
  exception for `skipped` is violated in the instance of `inference`. An image block whose stored text is a URL keeps the URL when the text
  that was read on it is appended (boards.py:1577-1581); the media test of
  `crawled_content.py:376-384` then ignores the whole text, and a board whose image was read
  still counts as too short. The clients' endpoint index starts at 0
  for each job, because an `LLM` is built per job. An answer that is no analysis is a failure
  of the infrastructure with gpt-service and of the content without it (hence the exception
  for `garbled` in `BlameIsRight`). The prompt of the vision endpoint has no upper limit of
  its own and becomes a 422 of gpt-service, then a 502.
* *Comments.* A reply's board is not compared with its parent's; `total_count` counts replies
  of deleted roots, which no page shows; two deletions of one reply decrement twice; a new
  comment shifts the pages after it.
* *Metrics.* A snapshot stores an unavailable count as 0, so the next delta treats a gap as a
  real zero. `_last_snapshot_cleanup_at` is set before the commit. A record of an earlier moment
  than the stored ones sets the score and its time to that moment (boards.py:717), until the next
  analysis or record; two writers of one board that overtake one another leave a score of older
  rows, which the properties excuse (`disturbed`).
* *Lists.* The daily list breaks ties by likes in SQL and by time in the balancing, so `Regular`
  asks that the two agree in each site. The ORDER BY of the lists (boards.py:1237, 1265)
  ends in `created_at`, which is not unique, and OFFSET and LIMIT follow without an id.
  `db/seed.py:12` gives one moment to all its boards, and boards without a score all have the
  score 0. The database may order equal rows differently for each page: of two equal boards of
  a site, pages of one can show one twice and the other never, which `ranking.py:36-37` excludes.
  TLC finds this in the instance of `lists` as soon as `KeysDiffer` is dropped from `PagesStable`.

## 7. Plan

Done: all components with state are modelled, and their invariants and action properties
are proved except where section 4 says otherwise. What remains:
the hourly rankings and the issue overview, which need the rows of a day as one read, and the
adapters of the providers in gpt-service.
