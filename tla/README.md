# TLA+ models of LeetRank

LeetRank is an online judge: a Next.js web tier, a Go judge service, and a
handful of services around them (Go, Rust, Ruby, Python) that share PostgreSQL
and Redis. This directory holds TLA+ models of the parts whose correctness
depends on the order in which things happen, TLC configurations that check them
on small instances, and TLAPS proofs that hold for every instance.

The models follow the code, not `docs/architecture/data-flow.md`: the document
describes a Redis queue between submissions-go and the judge that the code does
not have. In the code the web process inserts the row, keeps the job in an array
of its own and calls the judge over HTTP; submissions-go only sweeps old rows.

## Inventory

| Component | State | Operations | Hard part |
|---|---|---|---|
| Web worker queue (`src/lib/queue.ts`) | array of jobs, `inflight`, `pendingRetries`, attempts | enqueue, pump, run, retry timer, drain | pump is called from three kinds of callbacks; retries; process memory |
| Submission pipeline (`api/submissions/route.ts`, `lib/submission-jobs.ts`, `services/judge.ts`, `submissions-go/internal/queue`) | the row's `status`, the handler's position and its local `update` | create, enqueue, find, claim, execute, roll back, write; sweep; delete | four actors write one column between each other's awaits; lost replies, outages, restarts |
| Judge admission (`judge-service/scheduler.go`, `main.go`) | two levels of semaphore, rate windows, counters | rate limit, Acquire, release, reject | cancellation between two semaphores, non-atomic release |
| Judge execution (`exec.go`, `sandbox.go`, `runners/`, `main.go`) | test cases under way, processes, temporary files | check, compile, run, time out, classify, clean up | concurrent tests under one deadline, three limits that bite in different orders, a process that holds the output of a killed one |
| Realtime connections (`realtime-go`: `handler.go`, `limiter.go`, `drain.go`, `main.go`) | quota per user and address, hub clients, shutdown phase | upgrade, refuse, serve, leave; notify, drain, force close | pairing of Acquire and Release on every path; upgrades racing the shutdown |
| Realtime fanout (`hub/hub.go`, the two loops of `handler.go`) | index of channels, 64-message buffers | subscribe, unsubscribe, fan out, write | slow readers; a snapshot taken before a client joined or left |
| Problem page (`problems/[slug]/page.tsx`), event stream (`submissions/[id]/stream/route.ts`) | what the page shows; timers, polls in flight | run, submit, poll; lookup, start, poll, abort | shared state of two buttons; polls that overlap and continue late |
| Web sessions (`lib/auth.ts`, `lib/rate-limit.ts`, `lib/auth-buckets.ts`, `middleware.ts`, `api/auth/*`, `navbar.tsx`) | cookie, buckets, rows of users, store of each tab | register, login, logout, me, change password | tokens that cannot be revoked; answers that overtake each other |
| Authentication service (`auth-go`) | users, refresh and one-time tokens, failures and locks | register, login, rotate, revoke, reset, verify, change | concurrent use of one token; count and lock in separate queries; a lock's end computed before it is stored |
| Discussions, solutions, votes, bookmarks (`api/discussions`, `api/solutions`, ...), page of a thread | rows, `voteCount`, nesting; drafts and loads of the page | post, reply, vote, toggle, delete | a parent deleted while a reply walks up; a sum stored late |
| Contests and ratings (`api/contests`) | entries, ratings, rating changes | join, leave, override, finalize | read, compute, write over several queries; two finalisations, whose rows bear the time their transactions began |
| Daily challenge and achievements (`lib/daily-challenge.ts`, `lib/achievements.ts`) | streaks, completion counts, badges | update after a solve | stale reads, midnight between two queries |
| In-memory cache (`lib/cache.ts`, `cache-invalidate.ts`) | entries, loads in flight | remember, delete | a load that started before an invalidation |
| Service worker, HTTP cache, page loads (`public/sw.js`, the pages' effects, the routes behind `cache.remember`) | stored answers, what a page shows | open a page, revalidate, sign in and out | answers made for another account; failures shown as emptiness |
| Listings and rankings (54 GET endpoints of five services) | the table, the reader's page | count, find, slice, rank | two queries per answer, offsets into a table that changes |
| Leaderboard (`leaderboard-rust`) | sorted sets | recompute, user rank, contest score | DEL, then a ZADD per row; two commands per rank; lost replies |
| Notifications (`notifications-ruby`) | list, dead letters, worker | send, pop, deliver, bury | a worker that dies with the message, replies that are lost, commands that are sent again |
| Code playback (`lib/code-playback.ts`, recorder and viewer) | editor buffer, event rows, frames | edit, debounce, flush, replay | incremental events, order of equal times |
| Live search (`command-palette.tsx`, `problems/page.tsx`) | what is typed, the effect under way, hits, highlight | type, open, close, search, move | answers to requests of cancelled effects; rows that change under the highlight |
| Hints (`hints-progressive.tsx`, `hints/[index]/unlock/route.ts`) | open hints of a panel, those in the browser's storage | mount, ask, confirm, leave | several tabs and late answers write one storage as a whole |
| Assistant (`components/chat/`, `api/chat/route.ts`) | rows of messages, the panel of each tab | open, send, load history, reply | a question shown before it is stored; a history that replaces what was asked meanwhile |
| Seed scripts (`prisma/seed*.ts`) | tables, what a run remembers | each script's statements | no transactions, repeated and concurrent runs, deletions in between |
| Lockout and acceptance rate of the web (`lib/account-lockout.ts`, `lib/acceptance-rate.ts`) | | | no caller |
| Analytics, recommendations, token verification, rest of the UI, schema, deployment | | | one query per request, arithmetic, rendering or declarations |

How they interact: the browser posts to the route, which inserts a `queued` row
and hands its id to the worker queue in the same process. The queue runs the
`judge-submission` handler, which claims the row (`judging`), calls the judge,
and writes the verdict. The judge admits the call through its scheduler and
executes the test cases. The sweeper of submissions-go turns old `judging` rows
into `failed`. The problem page polls the row; the event stream, which no page
uses, polls it too. On the synchronous path POST calls the judge itself and then
updates the streak and the badges. Everything else meets in the tables: listings
read what users write around problems, and the caches of process, browser and
service worker stand between a route and what a page shows. The services in Go,
Rust, Ruby and Python are reached through PostgreSQL, Redis and HTTP only; nobody
in the repository publishes to the channels of realtime-go, sends a notification
or asks the caches of analytics-python to forget.

What makes each part correct is stated as properties below; what could go wrong
where is in `PROJECT.json` under `hazards`, with the line of code.

## Modules

| Module | What it is |
|---|---|
| `WorkerQueue` | the queue of `queue.ts` |
| `SubmissionLifecycle` | abstract: the status changes a row may go through |
| `SubmissionPipeline` | route, handler, judge call, sweeper and deletes; instantiates `WorkerQueue` with the rows as jobs and implements `SubmissionLifecycle` |
| `JudgeScheduler`, `JudgeExecution` | admission to the judge; one admitted request up to the stored verdict |
| `SubmissionStream`, `ProblemPage` | the two ways a browser follows a row; both take its moves from `SubmissionLifecycle` or the handlers' |
| `RealtimeConnections`, `HubFanout` | `ServeWS`, the limiter and the shutdown; the hub between Redis and the clients |
| `WebSessions`, `AuthService` | accounts of the web tier; accounts of auth-go |
| `Community`, `DiscussionPage` | the tables of what users write; the page of one thread |
| `Contests` | entries and the finalisation of ratings |
| `SolveEffects` | streaks and badges |
| `TTLCache`, `PageLoads` | the cache of the process; what stands between a route and a page |
| `Listings` | the endpoints that list, rank and show |
| `Redis`, `LeaderboardIndex`, `NotificationQueue`, `RedisServices` | outages of the shared server; the two services that use it; both at once |
| `CodePlayback` | recording and replay |
| `LiveSearch`, `Hints`, `Assistant` | three panels with requests of their own |
| `Seeding` | the scripts that fill the database |
| `Judge`, `Browser`, `Servers`, `Members`, `Site` | bases: components beside each other, for the proofs and the runs of both |
| `Counting` | lemmas on how a count changes when one member moves |
| `*Proofs` | theorems about the module of that name, and about modules instantiated there |
| `MC*` | sets, functions and bounds for TLC |

Definitions called "Mutant of X" are wrong versions of X. No specification uses
them; putting one in the place of X shows that a property notices the bug.

`Judge` puts `JudgeExecution` beside `JudgeScheduler`, `Browser` puts `ProblemPage`
beside `SubmissionStream`, `Servers` puts `TTLCache` and `PageLoads` beside `AuthService`, `Members`
puts `SolveEffects` and `HubFanout` beside `Contests`, and `Site` puts `Community` and
`WebSessions` beside `RealtimeConnections`: each of them is instantiated under a name (`Exec`, `Page`, `Cache`,
`Pages`, `Solving`, `Hub`, `Db`, `Web`), its variables are declared beside those of the base, and
its assumptions on the constants are assumed. So one module of theorems can be about
all of them, and a property has the same name in the run that checks it and in the theorem.

An `MC` module named after two parts (`MCQueueAndPlayback`, ...) checks
components that share nothing: the variable `part` says which of them a behaviour
runs, and the others' variables stay as they are or without a value. It is
one run instead of several, not a composition. `MCExecutionAndListings` hosts the
seed scripts in the same way. A property named "...IsSound", "...IsTrue", "...IsHonest" or
"...AreTrue" is the conjunction of a module's type invariant and its safety
invariants, each of them defined and explained on its own just above it;
`PanelsAreTrue` is that of the four panels of `MCContestsAndPanels`.

### WorkerQueue

JavaScript runs a callback to its end, so `enqueue`, the tail of `run` (success
or failure) and the retry timer are one step each, with the `pump()` they end
in. `pump()` is a loop; the model makes one iteration, which is enough exactly
because `PumpFixpoint` is invariant. A handler starts in the step that shifts
its job and settles in a later one. `stage` says where a job is (`new`,
`waiting`, `running`, `backoff`, `processed`, `dead`, `lost`); `processed`,
`failed` and the dead-letter array are functions of it. `Crash` is a restart of
the process. Backoff delays are not modelled: timers fire in any order.

### SubmissionPipeline

`row[s]` is the status column, `pc[s]` the statement the handler of `s` waits
on. Each awaited call is a step. A Prisma call can fail before or after the
database applied it; both are branches of the action. `executeCode` ends in a
verdict, in `JudgeUnavailableError` (network error or the 30 s abort) or in any
other error (an HTTP 429 or 503 among them). The sweep is one UPDATE over all
rows. Time is in ticks: `age` since creation, `callFor` while the judge is being
called, both saturating just above the threshold; a judge call does not outlive
its abort timer. Disturbances (restart, lost INSERT reply, database error,
outage, busy judge, delete) are limited by `Budget`. Which verdict an answer is
classified into is a choice from `Verdicts`; `JudgeExecution` has the
classification. Errors inside one sweeper tick are the same as the tick not
happening. The synchronous fallback of POST is in `SolveEffects`.

### JudgeScheduler

A buffered channel used as a semaphore is its length. Acquire and release are
split at every channel operation and critical section, so other requests come
between taking the per-IP and the global slot and between the three steps of a
release. The rate limiter's window is a count that `WindowEnds` resets.

### JudgeExecution

One request with up to `MaxTests` test cases, in a wrapper language (JavaScript,
Python) or a registry language (interpreted or compiled), with or without the
jail. A program is unknown: in each second it may end in any way, and it is
stopped by its CPU limit, its wall limit or the deadline of the request. `files`
and `orphans` are what is left on the host. The deadline kills the command only:
without the jail there is no process group and no `WaitDelay`, so a process that the
program started may go on holding the output pipe, and `cmd.Run`, the test, the
WaitGroup of `runConcurrent` and the request wait for it (`Held`; `OutputCloses` is the
pipe closing, which nothing obliges it to). A text is kept only as far as a
classifier looks at it. The error of a wrapper language is the program's own stderr
(`main.go:777-785`), so one that writes "Time Limit Exceeded" is classified as a
time-out by the comparison of `main.go:615`: the text `time_limit` has two origins, the
judge's and the program's, and `TimeOutsAreReal` names both. `Answer` is the judge's
classification, `Store` the worker's.

### SubmissionStream

`PollQuery` is the interval firing and the query reading the row, `PollResult`
the continuation; `Slots` bounds the polls in flight. `sent` is what the client
receives. `since` is a history variable used by one property. The heartbeat is
left out: it sends only a comment.

### ProblemPage

Run and Submit are two chains of awaited requests that write the same `status`
and `results`; the server answers in one step, the page takes the answer up in
another. The row moves meanwhile as the pipeline moves it, judged twice by the
synchronous and the asynchronous path if the instance says so. `toasts` and
`mixed` are histories. Leaving the page does not stop the loop, as in the code.

### RealtimeConnections and HubFanout

In the first, one goroutine per upgrade and the main goroutine; limiter and hub
methods are atomic because they hold a mutex. `turnedAway` marks a request that
was refused and then released, `upgradeFailed` one whose `Accept` failed after a
successful `Acquire`: both are places where the code does not pair the two calls.

In the second, `fan` is the goroutine of `consume` with the snapshot of clients it
works through, `send` the buffered channel of a client, `hand` the event its write
loop is writing, `command` what its read loop is doing. Messages are numbers in the
order they were published; `Malformed` are those `json.Marshal` refuses. Redis may
lose what was published while the subscription was down.

### WebSessions and AuthService

`WebSessions` is one browser with tabs that share a cookie and an address, and the
handlers of login, registration, logout, `me` and change-password query by query.
A bucket is a count with the end of its window. A row keeps its e-mail as it was typed and
is found by it, but the budgets of logins and their generations go by the address trimmed
and in lower case: `Lower` maps the one to the other, `AccountKey` uses it, and accounts
whose e-mails differ in case alone share a budget. The properties about guesses are
therefore about addresses, not accounts. `AuthService` keeps the same for
auth-go, whose handlers hold no lock between two queries: a request is a record
whose `pc` is its next query, and only the writes and the commit of a transaction
are one step, since under READ COMMITTED a second writer waits and then goes on.
`LockUntil` computes the end of a lock, `LockAccount` is the upsert that stores it, so two
overlapping locks of one account may be stored in the other order.

### Community and DiscussionPage

Foreign keys, unique keys and cascades are the database's, so deletes take their
rows along in one step. `excused` marks the solutions whose count was last written by
a vote that raced another or was cut off. The comments above a comment (`Upwards`) are
the smallest set that has it and the parent of each of its members, which is what the
walk up the chain visits. On the page, `load`, `post` and `vote` are
the requests under way; the server's step and the page's step are apart, so answers
are taken up in any order.

### Contests, SolveEffects

Each handler is a chain of queries with the local copies it has read. The
`$transaction` of a finalisation begins in one step (`FinaliseBegin`) and commits in
another, which makes all its writes visible; the `createdAt` of its rows is when it
began (`at`), which need not be the order of the commits (`done`). The backfill of the ranks
follows, one update each, and may be cut off: `excused` names the entries it then leaves
without a rank. Glicko-2 gives any new rating. Streaks are compared by day numbers;
`NextDay` is midnight UTC and may fall between any two queries. A user that has no
streak row reads as one who never solved, which is what the code computes from
`null`.

### TTLCache, PageLoads, Listings

The cache has the real shape of the keys, because what an invalidation names and
what a route reads are two different strings in some cases; the table behind it
is a version. The Map's insertion order is kept with the entries: each has the set of
keys `before` it, and the least recently used is the one with none. In `PageLoads` a route is a rule (the service worker's strategy, the
life of answers made for visitors and for accounts, whom it refuses, and for how long the
web server itself keeps what it loaded) and a page is
what it says of an empty answer, of a refusal and of a failure. Seven pages load from routes
that answer from `cache.remember`: `memo` is what that cache holds by key, `flight` the
loads under way, which all who miss share (`Miss`, `Land`), `Elsewhere` a load that
somebody in another browser started, `Forget` an eviction or an invalidation. So an answer may be
older than its `Date` header says, by what the rule keeps and by how long the load
`took`. `TTLCache` has the same cache in detail, with its size and its invalidations; here
an entry is only as old as `remember` lets it be. A tick is the life that the route of
the page gives its answers: a minute, five for the tags; a behaviour follows one page. The half
hour of the recommendations and the day of the service worker are two in the instance, longer
than a minute and not longer than the run. `Listings` gives each endpoint a
record: its queries in their order, its limit and order, its ranks and what it
answers on failure. One set of actions then serves all of them. Rows are named by
their age; "hot" ranks the newest rows anew for each page, as the code does.

### Redis, LeaderboardIndex, NotificationQueue, RedisServices

A rebuild of a sorted set is a query, a DEL and a ZADD per row, cut short at any point by
a command that fails. A command may have been carried out although its reply was lost:
the Rust client reports the error and does not repeat it, so a DEL may have emptied the set
whose rebuild is given up (`RebuildFails`, which makes the set `torn`). The Ruby client
connects again and sends the command once more: a BRPOP whose reply was lost has taken a
message that no worker ever sees (`losses`), an LPUSH whose reply was lost is done twice
(`repeated`). So the list holds copies, numbered by their LPUSH. `Break` is such a
connection, and `MaxBreaks` bounds them. The worker pops, delivers or buries, and may be signalled or
killed with a copy in hand; its supervisor restarts it. `RedisServices` puts both
on one server: they share its outages and no key. TLC runs one service at a time
(`OneSpec`, whose steps are steps of `RedisSpec`); the proofs are about both at once.

### CodePlayback

A code is a sequence of characters with newlines, an edit replaces a range given
by lines and columns. Offsets are milliseconds since the session began and are
computed as the code does, also after `reset()`. `excused` marks sessions the code
cannot record faithfully; the viewer walks the frames.

### LiveSearch, Hints, Assistant

`search` is the effect that runs, `late` the requests whose effect was cleaned up:
their answers are dropped, which the mutant `LateShown` forgets. A text is one of
four classes (nothing, one letter, two words). The rows of the palette are in two
orders, that of the keyboard and that of the screen, and `active` is an index into
the first. In `Hints` a panel keeps `revealed`, and `stored` is `localStorage`; an
orphan is a request whose panel was left, and whose answer still writes `stored`. The
component swallows what the browser refuses: `Mount` may find nothing, and `Save` may keep
nothing while the panel shows the hint all the same; `unsaved` says that the last use of
the storage failed, and `StoredIsShown` excepts it.
`Answer` is the route, which keeps nothing. In `Assistant` the handler stores the
question, asks the workflow (or replies by itself) and stores the reply: `post[n].pc`;
`chat[t]` is the panel with the question it waits for and the history it has asked
for. A question that the panel added itself is marked `own`, because `TakeBack` removes
only those.

### Seeding

A script is a sequence of statements; an operator's run keeps the ones left (`todo`)
and what the script remembers (ids, tags, people). `Fails` says which statement would
break a unique or foreign key in the present state of the tables, `End` what a run
leaves when it throws or is stopped. `crossed` and `torn` name the exceptions: two runs
between each other's DELETE and INSERT, and a run that ended between them.

## Runs

| Run | Instance | Distinct states |
|---|---|---|
| `worker_queue` | 4 jobs, 2 slots, 3 attempts, restarts at any time; playback: an editor of 3 characters, a buffer of 3 events, 2 edits | 318 000 |
| `pipeline` | 2 rows, 1 slot, 2 attempts, one disturbance of every kind, fair | 154 000 |
| `execution` | 2 tests, a deadline of 3 s, a runner limit of 2 s, with and without a jail; listings: 2 rows at first, pages of 1 and 2, 2 changes, 1 failing query; seeds: 2 operators, 2 runs, 1 stop or deletion | 987 000 |
| `scheduler` | 4 requests, 3 keys, 2 global slots, 1 per key, window of 1 | 192 000 |
| `realtime` | 4 upgrades, 2 users, 2 addresses, caps of 1; web sessions: 3 e-mails, two of which differ in case alone, 2 names, 2 passwords, 2 tabs, 3 forms | 787 000 |
| `browser` | stream: 1 row, 2 polls in flight, 2 failing queries; page: 2 rows, 2 polls per submission | 232 000 |
| `contests` | 2 users, 2 contests, 2 requests; thread: 2 texts, 3 loads; search: 2 hits, 4 keystrokes; hints: 3 hints, 2 tabs, 1 orphan; assistant: 2 tabs, 2 questions, histories of 2 | 1 300 000 |
| `community` | 2 users, one an admin, 2 threads, 3 comments, 1 solution, 1 problem, 5 requests, 2 at a time | 936 000 |
| `auth` | 1 user, 2 passwords, 4 requests, 2 at a time, 3 tokens, locks of 1 tick; pages: each page twice, 1 change, 1 failure, eviction or load for others | 2 641 000 |
| `cache` | 2 keys on 1 entry, 2 callers, 2 loads, 2 changes | 366 000 |
| `solves` | 3 accepted submissions of one user over 3 days; hub: 2 clients, 2 channels, 2 messages, 1 command, buffers of 1, 1 lost connection | 1 211 000 |
| `redis_services` | 2 rebuilds, 2 users, 1 outage, a contest score of 3 per point; 2 messages, 1 exit of the worker by signal, 2 broken connections | 1 124 000 |

Symmetry, where a `.cfg` states it, is over model values only, and only in runs
whose properties are invariants and step properties. In `contests`,
`auth` and `solves` the further parts take the model values of the first for values of
their own that are just as interchangeable.

### Bounds, and why they are enough

Every counter that the code lets grow has a named bound in a guard: `MaxEvents`,
`MaxRequests`, `MaxOps`, `MaxClock`, `MaxVersion`, `MaxChanges`, `MaxExits`,
`MaxOutages`, `MaxBreaks`, `MaxTokens`, `MaxTicks`, `MaxLosses`, `MaxMessages`, `MaxCommands`, `MaxErrors`, `MaxPolls`, `MaxTexts`,
`MaxLoads`, `MaxCuts`, `MaxFaults`, `MaxRuns`, `MaxKeys`, `MaxHits`, `MaxOrphans`,
`MaxSends`, `MaxBuffer`, `MaxLength`, `MaxTests`, and the fault budget
`Budget` of the pipeline. `Life`, `Window`, `TTL`, `Day`, `RateWindow`, `LockDuration`,
`TokenTTL`, `TimeLimit` and `RunnerTimeout` are the durations of the code in coarse
units that keep their order.

* Contention for a slot needs more jobs than slots and one waiting behind another:
  four jobs on two slots. Three clients and two global slots make both semaphores
  full at once. Caps of one make every connection but a user's first a candidate
  for refusal.
* The pipeline's interference is per row, and rows meet only in the queue and in
  the sweeper's UPDATE: two rows on one slot show both. Two attempts reach the
  rollback as well as the dead letter, and an outage with a database error use
  them up.
* A race between a read and a write needs two requests; a third one is needed only
  where a stale write follows two newer ones, as in `solves`. Two polls in flight
  can overtake each other; a third adds nothing to their order.
* A cache of one entry evicts on every second key. Two changes let an older load
  end after the invalidation of a newer change.
* Time runs to the end of the longest duration, so everything can expire with
  requests still to come.
* Three tokens are a pair and one of its successors, enough for a token to be spent
  twice and rotated. Of the pages, that of the study plans has the rule and the words of that of contests,
  which stands for both; pages whose data may be shown for longer than two ticks start in a
  browser that has kept nothing, and their loads take less than a tick.
* Two broken connections lose the reply of an LPUSH and of a BRPOP, or of an LPUSH and of
  its repetition; two messages, one of them twice, are enough for an order.
* A reader of a listing needs a page before and a page after a change: two rows at
  first, pages of one, two changes. Limits are one that is negative, one above the
  largest, and none.
* Two tabs are enough for one to overwrite the other's storage, three hints for one
  to be open out of turn; a history of two rows is shorter than two turns. Four
  keystrokes search, change the query, and close and open the palette again.
* One script run against another, in any pair, meets every statement of the one
  between any two of the other; a row stands for all rows of its table.
* Two comments below each other reach `MaxReplyDepth` (2 here, 3 in the code); the
  third is the reply the route has to refuse.

### What they show

* `worker_queue`: the cap holds for the handlers really running
  (`ConcurrencyCap`); no slot idles while a job waits (`PumpFixpoint`); when
  `drain()` would resolve nothing is owed (`DrainIsHonest`); every job settles
  (`EveryJobSettles`). A first recording session replays to the code that was
  typed, in every order the rows may come back, unless the debounce, a full buffer
  or equal times spoiled it (`PlaybackIsFaithful`).
* `pipeline`: from claim to final update nobody else can take or judge the row
  (`ClaimIsExclusive`), which is why the final update may be by id only; a job
  that counts as processed leaves no row waiting, and only database faults and
  restarts strand a row in `judging` (`RowsAreAccounted`); the whole implements
  `SubmissionLifecycle` (`ImplementsLifecycle`); no row stays `judging`
  (`JudgingEnds`); a row settles unless a restart, a lost INSERT reply or as many
  failures as attempts intervene (`SettlesUnlessDisturbed`).
* `execution`: "accepted" means that every test ran and printed what was expected;
  time-outs are the fault of the test they are blamed on, by a limit or, in a wrapper
  language, by its own words, a text is quoted from a
  test that failed, and nothing stays on the host but what is named
  below (`ExecutionIsSound`); every request is answered unless a process left behind by an
  unjailed program holds its output for ever
  (`EveryRowIsJudged`). A reader of any listing misses or sees twice no more rows
  than the changes explain, pages and ranks fit, and nothing is absent without an
  excuse (`ListingsAreSound`). A problem that stands has its tests once, and what a script
  left half made is what a run that ended left (`SeedsAreSound`).
* `scheduler`: slots, load and totals are exact, also in the snapshot `/health`
  reports (`AdmissionIsExact`); every request is answered (`EveryRequestAnswered`).
* `realtime`: the quota is off by no more than two leaks explain, a cap is overrun only
  by refusals, and notified clients are closed at exit (`ConnectionsAreSound`); the
  shutdown ends (`ShutdownCompletes`). A cookie passes for an admin's no longer than a token
  lives, names are unique, guesses of the passwords of one address are capped at two
  budgets in a window, whatever its spelling, a refusal follows a full budget of that
  address, and the navigation
  bar shows the owner of the cookie once told by an answer to it (`SessionsAreSound`).
* `browser`: no timer outlives the stream and the last status before `done` is one
  the row has had since the stream started (`StreamIsSound`); the stream ends
  unless its row is deleted (`EndsUnlessDeleted`). The page shows the verdict of the
  row it speaks of, results that belong to the status unless a run and a submission
  overlapped, and announces truly (`PageIsHonest`); a submission ends
  (`SubmitEnds`).
* `contests`: a user's rating is that of the change committed last; the chart, which
  goes by `createdAt`, ends at it unless the last change's transaction began while another's
  was open (`ChartEndsAtRating`); changes chain unless
  two finalisations overlap, ranks are the rated ones, and every rated entry has one
  unless the backfill was cut off (`ContestsAreSound`); a change
  is never rewritten (`RatedOnce`). A reply goes where it was typed, once, and the
  page shows what it said was posted; hits belong to what is typed and Enter runs the
  row that is highlighted, unless the account changed the rows; hints open in order and
  never after a failed request, and a panel that was alone shows what the storage has unless
  its last use was refused; a panel at rest shows stored messages in their order,
  unless the user asked before the history came (`PanelsAreTrue`).
* `community`: trees stay shallow and whole, no row outlives what it hangs on, a count
  is exact unless its last write raced or was cut off (`CommunityIsSound`).
* `auth`: a token buys what it should, once unless redemptions overlap, and a lock
  is earned (`AuthIsSound`); a running lock is lifted only by the right password, and cut
  only by a lock that was computed before it and stored after it, by as much as lay between
  the two (`RunningLockStays`). What a page shows was true no longer ago than a copy lives
  in browser and web server and its load took,
  another account's data appear only on the pages that remember, and emptiness is
  explained (`PagesShowTheTruth`).
* `cache`: one load per key; after its invalidation a key is current unless the
  load raced (`CacheIsSound`); staleness is bounded (`StaleForTTLOnly`); every
  caller is answered (`EveryCallAnswered`).
* `solves`: streaks, completions and badges are backed by solves
  (`CreditIsSound`); a streak goes back only by a stale write
  (`StreakGoesBackOnlyWhenStale`). The hub's index is exact, streams are in order,
  nothing is missed but what the buffer, JSON or Redis dropped, and who has left a
  channel gets nothing published later (`FanoutIsSound`).
* `redis_services`: a rebuild that no other overlaps and no error cuts leaves what it
  read, a contest score decodes, a copy of a message is lost only in a worker's hand or with
  the reply of a BRPOP, none is delivered twice, and nobody is notified twice unless the
  client repeated an LPUSH (`RedisDataIsSound`); a rank is true unless a rebuild cut it
  (`RankIsTrueUnlessCut`); the list drains (`QueueDrains`).

The exceptions in these sentences ("unless ...") are the code's, not the models':
each is a behaviour the run really reaches, and most are listed next. Where a hazard is such
an exception the property does not rule it out: it says that nothing else has the same
effect. So it is with keystrokes lost by the debounce (`PlaybackIsFaithful`), an orphaned row
(`SettlesUnlessDisturbed`), overlapping scripts (`SeedsAreSound`), a client that comes after the
shutdown's notice (`ConnectionsAreSound`), a run that overlaps a submission (`PageIsHonest`), a
deleted row (`EndsUnlessDeleted`), overlapping finalisations and a cut backfill
(`ContestsAreSound`), a second tab and an early question (`PanelsAreTrue`), raced votes
(`CommunityIsSound`), and badges lost or awarded twice (`CreditIsSound`).

### Where code and documentation disagree

The models contain what the code does; the sentences below are what the
repository says instead. (`queue.go` is that of submissions-go.)

Judging:

| Sentence | What the code does |
|---|---|
| a row is swept after that much time in `judging` (`queue.go:69`) | the sweep compares `createdAt` (`queue.go:156`), so a row that waited long in the queue may be failed right after its claim |
| trouble in the judge is not a failure of the user's code (`submission-jobs.ts:159`) | a 429 or 503 of the judge, or its 400 for no tests or too many, becomes a final `runtime_error` (`submission-jobs.ts:174`, `services/judge.ts:58`) |
| the queue re-delivers after a worker dies (`data-flow.md:63`) | a restart forgets the array (`queue.ts:36`); the row stays `queued`. So it does after as many outages as attempts |
| cap per remote IP (`scheduler.go:13`) | the key is `host:port` (`main.go:527`): each connection has its own cap |
| the wall limit fires for a genuine time-out (`exec.go:198`) | the 2 s CPU limit of native languages comes before the 5 s deadline: an endless loop in C, Go or Rust is a "Runtime error" |
| the gauge `submissions_queue_depth` (`queue.go:139`) | counts `pending`, which no code writes: it is always 0 |
| subscribers get the verdict whenever judging ends (`stream/route.ts:6-8`) | the stream sends `done` at the first poll that is not `pending` (`:119`); a deleted row is polled until its client leaves. No page opens the stream |

Also: a wrapper language's own stderr becomes the error of its test, so a program that prints
"Time Limit Exceeded" and fails gets that verdict without any time-out (`main.go:615`,
`:777`); `cmd.Run` of an unjailed program waits on past the deadline while a process it has
left holds the output (`sandbox.go:189`); a time-out of the compiler and the text
"Compilation error:" are stored as `runtime_error`; the judge names the first failing test while the worker takes the
first error text of any; more than 1 MB of output of a JavaScript program is
reported as a time-out; a wrapper language accepts the right output of a program
that exits non-zero silently, a registry language does not; the Python runner
cannot start under a CPU limit below `RUNNER_TIMEOUT`; a killed JavaScript runner
leaves its `.wrapped.js`, and without the jail its program running. On the problem
page `failed` is not among the terminal statuses, and Ctrl+Enter does nothing, as
`handleSubmitRef` is never assigned.

Realtime, accounts, what users write:

| Sentence | What the code does |
|---|---|
| the limiter refuses extra connections of a user (`hub/limiter.go`) | a refused upgrade calls `Release` (`handler.go:91`) and so frees the place of a live connection; a failed `Accept` keeps its own for good |
| realtime-go subscribes to `submissions:updates` (`data-flow.md:53`) | `main.go` subscribes to `verdicts:*`, `contests:*`, `problems:*` and `global`, to which nobody publishes. A message between the upgrade and `Hub.Add` is missed; one that is not JSON is counted as sent |
| a fresh lock extends an existing one (`lockout.go:119`) | its end is computed (`:124`) before it is stored (`:125`): of two overlapping locks the one computed first may be stored last, and the running lock ends sooner |
| no login rides on the rotation of another account (`auth-buckets.ts:17-18`) | keys are trimmed and in lower case (`:21`), e-mails are stored as they were typed (`validations.ts:12`): accounts whose addresses differ in case alone share a budget and a generation |
| `voteCount` is kept in sync in a "transaction-safe sequence" (`solutions/[id]/vote/route.ts:8-10`) | there is no transaction: of two overlapping votes the older sum may be stored last and stay (`CommunityIsSound` excepts such a count as `excused`) |
| after a change of password the account has a fresh budget (`auth-buckets.ts:3-9`) | so it has, but the same address still meets its own full bucket (`api/auth/login/route.ts:27`) |
| longestStreak never decreases (`daily-challenge.ts:56`) and a same-day solve is idempotent (`:122`) | an upsert of a stale read lowers it (`:164`); two solves of one day may both count |
| progress rows become earned (`schema.prisma:370-373`) | a badge with a progress row is skipped (`achievements.ts:207`, `:219`) |
| badges fire on every accepted submission (`services.md:98`) | streaks and badges are updated on the synchronous path only |

Also: `createdAt` of a rating change is the start of its transaction, so the chart of two
contests finalised at once may end at a rating that is not the user's; two admins can demote each other; a late `me` shows a user who has signed out;
tokens the login signs with HS256 are refused in production unless
`LEGACY_HS256_FALLBACK` is set (`auth.ts:26`); auth-verify and the web tier use
different cookies and subjects; study plans compare "Accepted" where rows hold
"accepted" (`study-plans/route.ts:68`).

Caches, listings, pages:

| Sentence | What the code does |
|---|---|
| admin routes call the helper, so the public read sees the change at once (`cache-invalidate.ts:5-9`) | the key of the problem list they name is not the one the route reads (`:38`); `tags:all` and `leaderboard:top` are read by nobody |
| below 1 means 1 (`pagination.ts:19`) | it means the default (`:27`); routes with parsing of their own do treat `-5` as 1 |
| mostly catalog data (`sw.js:8-10`) | the pattern also matches the editorial, made for one user and marked `no-store`, and keeps it for a day |
| the rating delta is retried, notifications are dispatched on recovery (`data-flow.md:66-67`) | nobody posts scores; a worker that dies loses the message in hand, and so does a BRPOP whose reply is lost. An LPUSH whose reply is lost is sent again, and notifies twice |

Also: the leaderboard's recompute selects `User.solvedCount`, a column the schema
does not have (`cache.rs:83`, `:90`); a DEL between ZSCORE and ZREVRANK ranks anybody
first. `/api/tags` answers 200 with no tags on failure, and the worker stores it;
problems-go swallows failing tag and test queries and lets the answer be cached;
"hot" re-ranks the newest rows for each page and so repeats and skips rows without
any change; `order` and leaderboard ties have no unique sort; a random problem that
vanishes is `{}` in one tier and 404 in the other; the leaderboard page numbers its
podium by position. Many pages say "nothing" on an error or a 401; the problems page
reads `_count.submissions`, which the route does not send; the editorial tab is on no
page; what was made for one account may be shown to the next one in the same browser.
A hint that `localStorage` refuses is shown all the same and is closed at the next visit.
A 429 on the unlock of a hint reveals it, though the comment calls it an error after
which to try again (`hints-progressive.tsx:92-94`). The assistant's history is the
oldest 50 rows, and one that fails is not asked for again. `seed-users-submissions.ts`
writes statuses in upper case, which nothing else does; the bulk seed cannot be run
again after half a run. The page of a contest reads entries and nested problems that
its route does not send. The playback recorder is mounted nowhere, and its debounce drops keystrokes although
each event is an increment only.

### Fairness

* Node runs every armed timer and every continuation, and every await of the
  handler ends (fetch and Prisma have timeouts): weak fairness of `Retry`,
  `PostEnqueue` and the handler of each row, and, in `WorkerQueue`, of each handler
  settling. The sweeper's ticker ticks: weak fairness of `SweepOnce` and `Tick`.
* In the scheduler goroutines make progress and executions end (each has a hard
  timeout). The QueueWait deadline is *not* assumed to fire, so
  `EveryRequestAnswered` also says that the two semaphores cannot deadlock.
* In the judge time passes and goroutines run; programs are never obliged to end,
  the limits are what ends them.
* In realtime-go goroutines run and the drain's deadline passes; peers never have
  to leave.
* In the stream the interval fires and queries end; on the problem page requests are
  answered and the loop's timer fires. In the cache every load reads and ends.
* Redis comes back, and the notification worker runs and is restarted by its
  supervisor.

Users, admins, clients and faults are never obliged to do anything.

Deadlock checking is off where the system stops: all requests answered, a bound
reached, or the process exited.

## Proofs

All theorems are for any sets and bounds that satisfy the modules' assumptions
(finite sets of jobs, requests and connections; positive caps; verdicts that are
not names of other statuses; a disturbance budget of natural numbers). Those of an
instantiated component are the assumptions of its base: `ExecutionAssumption`,
`PageAssumption`, `CacheAssumption`, `SolveAssumption`, `HubAssumption` (natural
bounds), `CommunityAssumption` (each table
has ids of its own; users and comments are finite, as sums and depths need),
`RedisAssumption` (users are finitely many numbers, messages are finitely many, the scale is positive), `WebAssumption` (no e-mail is a
word the model uses for something else, limits and the bound on time are positive),
`PagesAssumption` (natural bounds, nobody is not a user). Each run evaluates those of
its modules.

| Module | Theorems | Inductive invariant |
|---|---|---|
| `WorkerQueueProofs` | types, `ConcurrencyCap`, `PumpFixpoint`, `DrainIsHonest`, `QueueIsExact`, `RetriesExhausted` | `IInv`: each counter is the size of the set it stands for, the array lists the waiting jobs once each, attempts fit the stage, and `PumpFixpoint`. `ConcurrencyCap` alone is not inductive: it speaks of handlers, the code compares a counter |
| `SubmissionPipelineProofs` | `ClaimsAreExclusive`, `PipelineImplementsLifecycle`, `RowsStayAccounted`, `VerdictsAreFinal`; `RedisDataIsSound`, `RankIsTrueUnlessCut` | `PInv`: types and `ClaimIsExclusive`. Each step is shown at once to keep `PInv` and to be a step or a stutter of the life cycle; finality then follows from the life cycle's table. `ServicesInv`, of the services on Redis: see below |
| `JudgeSchedulerProofs` | types, `SlotsAreExact`, `AdmissionIsExact`, `ExecutionsAreCapped`; `ExecutionIsSound` | `SInv`: each channel's length and each load counter is the number of requests at the positions that own it. Needed because a receive blocks on an empty channel and a counter must not go below zero. For `AdmissionIsExact` also `Totals`: what a request has been answered at each position, and that the totals count the answers. `XInv`, of one execution: see below |
| `RealtimeConnectionsProofs` | types, `QuotaIsAccounted`, `OverrunIsBounded`, `ToldClientsAreClosed`, together `ConnectionsAreSound`; `CommunityIsSound`; `SessionsAreSound` | `RInv`: one law per counter, between the connections that owe a release and those wrongly released; `DInv`: where a told client can be in each phase of the shutdown. `TInv`, of the tables, and `WebInv`, of the sessions: see below |
| `BrowserProofs` | `StreamIsSound`; `PageIsHonest`; of the panels `HintsAreHonest`, `ThreadIsTrue`, `HitsAreForQuery`, `SearchingIsTrue`, `RowsAreTurns` | for the stream, what each poll in flight has read, and that a stopped stream has no timer; for the page, what each chain of requests knows of the row it asked for, and when the two chains have met; `HintsInv`, `ThreadInv`, `FindInv`, `RowsInv`: see below |
| `ContestsProofs` | `RanksCountTheBetter`, `ContestsAreSound`, `RatedOnce`; `CreditIsSound`, `StreakGoesBackOnlyWhenStale`; `FanoutIsSound` | `CInv`: a change was stamped before what it read and what it wrote was committed (`at`, `read`, `done`), all before the clock; a user's changes chain in the order of their commits, the plan of a request under way was computed from what it read, and the ranks left to fill in are those of the changes. `VInv`, of solves, and `HInv`, of the hub: see below |
| `ServerProofs` | `AuthIsSound`, `RunningLockStays`; `CacheIsSound`, `StaleForTTLOnly`; `PagesShowTheTruth` | `AInv`: what a request between two queries may still rely on (that its account existed, that the failures it counted were there, the kind of the token it redeems), and two counts: redemptions of a token plus the requests about to redeem it are at most the requests there are, attempts plus the requests that have not recorded one are at most the requests started. Of a lock it says that its end, stored or only computed, is at most `LockDuration` ahead and was earned when it began. `CInv`, of the cache: `inflight` is the inverse of the keys of the running loads, the order of the Map is strict, and a change that an entry leaves out was made less than `TTL` plus the slowest load before the entry expires. `PagesInv`, of the pages: see below |

`QueueIsExact`, `RetriesExhausted`, `ExecutionsAreCapped` and `VerdictIsFinal` are proved and need no run.

The pipeline's queue is the instantiated `WorkerQueue`. The proofs about verdicts use
only that a queue step starts handlers at `find` and ends the one that settled;
`RowsAreAccounted` needs the queue and the rows together: where the job of a row is
says what its status can be. `PipelineRunsWorkerQueue` carries the theorems about the
queue over to the pipeline.

Ranks are a recursive function over the standings; that they count the better
entries is shown by induction over the length, for which `Counting` has the principle
in the form of a set that contains 0 and is closed under successor (`NatInSteps`),
derived from the library's fact that < is well founded on `Nat`.

`XInv`, of one execution, says what the record of each test tells of its program: it has
used no more processor time than time, a test that passed ended by itself or printed
what was expected, a time-out is one of the three limits or, in a wrapper language, the
words of the program, a text is quoted. An output is held open only once the time of its
program is up. A file on the
host belongs to a test under way or to a runner that was killed, an orphan to a program
that ran without the jail. Once there is an answer, either no test was
touched or all are done, and the answer is that of a failing test if there is one; `Store` then adds
only the worker's mapping.

`VInv`, of solves: a streak row is made of solves, day by day up to its last, and so is the
row a request has read and not yet written back (`prev`), which covers the stale write;
a day has at most as many completions as there are solves of it whose increment is
over; what `evaluate` found to be earned was deserved then and is so for good, since a
stored verdict never changes. `StreakGoesBackOnlyWhenStale` follows because a request
whose copy is the present row writes one that is not behind it.

`HInv`, of the hub: what a client has received or has on its way is earlier than the
message being fanned out to it, and that is earlier than the feed; so streams are in order
although a message is taken, copied to buffers and written in steps of three goroutines. What
a client knows of a channel from its acks is so in the index, and whoever knows that it
has left is in no snapshot taken for a later message: a snapshot may outlive the
unsubscription, which is why the property excepts what was published before it. The stream of a
client is what it received, then what its write loop holds, then its buffer, and each step
of its connection leaves that, appends to it or takes one element out of it.

`ServicesInv`, of the services on Redis: the index, while a rebuild that nobody
interleaved with is at work, holds the rows it read less those left to add, and a rank
that a reader is about to compute is of a member that is there, unless another rebuild
deleted the set after the reader had found it (`cut`). A DEL that was carried out although
its caller saw an error makes the set `torn`. Copies are numbered by their LPUSH: the list of the
queue is what was pushed last, newest first; what the worker holds was pushed just
before that, and what was delivered is before both, in that order: so each copy
is delivered once at most, though a worker may die between the delivery and its next pop. A
message has two copies at most, and the second only if the client repeated its LPUSH; a copy
pushed and then nowhere costs a death of the worker or a lost reply of BRPOP. That a contest score
(`points * Scale - time`) decodes is a fact of integer division (`ScoreDecodes`).

`TInv`, of the tables: a reply is in the thread of its parent, so deleting a thread or a
branch takes whole branches; a parent that a request has checked is, while it stands,
where it was and as deep, since a parent never changes and ids are not used again. A sum that no vote has
overtaken equals the score, hence so does the count it is stored in; and nobody has voted for
a solution that does not exist yet, whose count is 0.

`WebInv`, of the sessions: what a login has read of a row was so when it read it, so a
token that says "admin" expires at most its life and its slack after the account was last an
admin's. The tries of an account are, from the last backward: as many as its bucket
counts; at most a budget that may still share a window with those; and older ones.
The second group is what makes "two budgets in a window" inductive: when a window ends and the
next opens, the counted tries become that group, and the former group is too old, since it
is from before the window that has ended. A change of the password starts a generation, which has no bucket
yet. All this is said of the address in lower case, which is the bucket's key, and so of all
the accounts that share it. A pending `/me` that is fresh carries the browser's cookie, and its answer names
the user of that cookie or nobody.

A page (`PagesInv`) shows a copy or an answer, and both were true before the date they bear,
by no more than the web server keeps what it loaded and the load took: whatever
a load under way may return has been so since it began, and what `memo` holds was so no longer
before it was stored than its load took. An answer that has
arrived is not dated before the opening of its page and is for the account that opened it;
a copy could still be used when the page was opened, so it was younger than `CopyLife`, which
is shown to bound what every rule lets the browser keep. `Life` adds what the web server keeps. The pages that must not show another
account are those whose routes have nothing kept for an account: a copy for one would
have to be younger than no time at all.

The panels: a hint that is asked for, by a panel or by an orphan, is one whose
predecessors are open in what will be saved, and one for which an answer that reveals has come is
acknowledged (`HintsInv`); so a late write of an orphan, which saves its whole copy, can close
hints but not open one out of order. A panel that was alone shows what is stored unless the
storage refused its last use (`unsaved`). A form of a thread holds a text that was typed where
it will go and that is not posted yet, or posted without the user knowing; a load asked for
last was asked for after all that was told, hence shows it (`ThreadInv`, for places and votes
other than the words that stand for nothing). A search under way is for what is typed in an
open view (`FindInv`). The step of the assistant's handler says which rows
its question has (`RowsInv`). These theorems instantiate the modules with free
constants; the run checks the same definitions in `PanelsAreTrue`, which as a whole stays with
TLC: the order of the palette's rows and what the assistant's panel takes back are made
with `SelectSeq`, which the prover cannot expand.

Two things came out of the proofs. The model of contests had taken the time of a
rating change from the changes there are, so that it could run backward after an
account was deleted; it has a clock now. And with three contests `maxRating` may lose a
rating although no two changes in a row overlapped: a finalisation that had read before
commits last and stores its stale maximum. `MaxCoversWhatWasSeen` says which ratings are
safe: those that every later finalisation had seen.

Left to TLC: all liveness properties (the proof system does not do fairness), what RECURSIVE operators and `SelectSeq` compute, and so
`PlaybackIsFaithful`, `ListingsAreSound`, `SeedsAreSound`, and of `PanelsAreTrue`
`DrawnAsOrdered`, `HighlightIsARow`, `PanelShowsRows`, `WaitsForItsQuestion` and the types of
those two modules.

## Plan

Done: every component of the inventory that has an order of events of its own, with
the proofs above.

Next, in this order:

1. Proofs: the recording of code and the listings, each from an inductive invariant that
   a run checks first.
2. The rest of the operations of the parts listed as "partly": edits of texts and
   the upvote counter, installing the service worker and offline navigation,
   statistics made of several counts.
3. The page of a contest and the admin pages.

## Not modelled

String matching that classifies verdicts (what a text contains is a choice), SQL
text, headers other than `Cache-Control`, logging and metrics other than those a
property names; Glicko-2 (floating point); recommendations, statistics and
profile (arithmetic over one snapshot, or one write);
analytics-python (aggregates behind a cache with a time to live, whose invalidation
nobody publishes); the token verification package; filters, forms, charts and admin pages;
the schema, which is declarations; what the seed scripts draw at random; deployment; `account-lockout.ts` and `acceptance-rate.ts`, which no code calls. The
dynamic routes of the web application are taken to remount their page when the
parameter changes, and the service worker to control the page.
