----------------------------- MODULE PageLoads -----------------------------
\* The pages that load their data once when they are opened, from the click to what they
\* show: the effect of the page, the service worker (public/sw.js), the HTTP cache of the
\* browser, which obeys the Cache-Control header of each route, and the route, which may
\* answer from the cache of the web server (cache.remember).  A behaviour follows one page of
\* the site, opened several times in one browser, while people sign in and out of it, the
\* data change, and other browsers ask for them.
\*
\* Data are versions: 0 is an empty list or a missing row.  An answer is a version and the
\* account it was made for, with the date of the server.  A tick of the clock stands for the
\* life that the route of the page gives its answers: a minute, five on the page of the topics.
\* A revalidation may come a tick later; the half hour and the day are longer.
EXTENDS Naturals

CONSTANTS
    Users,        \* accounts that use the browser
    NoUser,       \* nobody is signed in
    Loads,        \* tabs
    Day,          \* ticks in RUNTIME_TTL_MS
    HalfHour,     \* ticks in the TTL_MS of the recommendations
    MaxClock,     \* bound on time
    MaxChanges,   \* bound on changes of the data and of who is signed in
    MaxLoads,     \* bound on openings of the page
    MaxCuts       \* bound on requests that fail, loads of others and evictions

PageConstants ==
    /\ NoUser \notin Users
    /\ {Day, HalfHour, MaxClock, MaxChanges, MaxLoads, MaxCuts} \subseteq Nat

VARIABLES
    page,       \* the page
    clock,      \* time
    cookie,     \* who is signed in
    version,    \* what the server holds
    past,       \* what was true when: history
    worker,     \* copy in the cache of the service worker
    http,       \* copy in the HTTP cache
    memo,       \* what the cache of the web server holds, by key
    flight,     \* loads under way there (inflight), by key
    load,       \* the page in each tab
    changes,    \* changes so far
    begun,      \* openings so far
    cuts        \* failures, loads of others and evictions so far

vars ==
    <<page, clock, cookie, version, past, worker, http, memo, flight, load, changes, begun,
      cuts>>

\* An answer also says how long the load took that it is from: history.
Nobody == [user |-> NoUser, version |-> 0, date |-> 0, took |-> 0, is |-> "nothing"]
Answer(user, v, took, is) ==
    [user |-> user, version |-> v, date |-> clock, took |-> took, is |-> is]
Absent == [there |-> FALSE, version |-> 0, stored |-> 0, took |-> 0]
Landed == [on |-> FALSE, version |-> 0, began |-> 0]
Idle == [pc |-> "closed", as |-> NoUser, start |-> 0, held |-> Nobody, net |-> "none",
         reply |-> Nobody, body |-> Nobody, cut |-> FALSE]

-----------------------------------------------------------------------------
\* What the service worker does with the answers of a route, for how long the HTTP cache
\* may use those made for visitors and for accounts, without and with a revalidation,
\* whether visitors are refused, whether version 0 is an error (404, 422), and how long the
\* web server itself keeps what it loaded.
Rule(how, visitor, account, gated, row, memo_) ==
    [how |-> how, age |-> [visitor |-> visitor[1], account |-> account[1]],
     stale |-> [visitor |-> visitor[2], account |-> account[2]], gated |-> gated, row |-> row,
     memo |-> memo_]

Never == <<0, 0>>
Short == <<1, 0>>
Long == <<1, 1>>

\* Mutants: who is signed in is asked of the cache first; the answer for an account is
\* stored like the one for visitors.
MeRouteCached        == Rule("cacheFirst", Never, Never, TRUE, FALSE, 0)
ChallengeRouteStored == Rule("untouched", Long, Long, FALSE, FALSE, 0)

MeRoute              == Rule("networkFirst", Never, Never, TRUE, FALSE, 0)
ProblemsRoute        == Rule("cacheFirst", Long, Long, FALSE, FALSE, 1)
TagsRoute            == Rule("cacheFirst", Long, Long, FALSE, FALSE, 1)
TagRoute             == Rule("cacheFirst", Never, Never, FALSE, TRUE, 0)
EditorialRoute       == Rule("cacheFirst", Never, Never, TRUE, FALSE, 0)
ContestsRoute        == Rule("untouched", Long, Long, FALSE, FALSE, 1)
ChallengeRoute       == Rule("untouched", Long, Never, FALSE, FALSE, 0)
RecommendationsRoute == Rule("untouched", Short, Short, FALSE, FALSE, HalfHour)
PercentileRoute      == Rule("untouched", Never, Short, TRUE, TRUE, 1)
SubmissionsRoute     == Rule("untouched", Never, Never, TRUE, FALSE, 0)
SubmissionRoute      == Rule("untouched", Never, Never, TRUE, TRUE, 0)
BookmarksRoute       == Rule("untouched", Never, Never, TRUE, FALSE, 0)
AchievementsRoute    == Rule("untouched", Never, Never, FALSE, FALSE, 0)
ProfileRoute         == Rule("untouched", Never, Never, FALSE, TRUE, 0)
LeaderboardRoute     == Rule("untouched", Never, Never, FALSE, FALSE, 0)

\* The routes of study plans answer in two halves, each followed for itself: the catalogue
\* and the outline of a plan are memoised, what the account did in them is not.
PlansRoute           == Rule("untouched", Long, Long, FALSE, FALSE, 1)
ProgressRoute        == Rule("untouched", Long, Long, FALSE, FALSE, 0)
PlanRoute            == Rule("untouched", Long, Long, FALSE, TRUE, 1)
EnrolmentRoute       == Rule("untouched", Long, Long, FALSE, FALSE, 0)

Names ==
    {"settings", "problems", "topics", "tag", "editorial", "contests", "banner",
     "recommendations", "percentile", "plans", "progress", "plan", "enrolment",
     "submissions", "submission", "dashboard", "bookmarks", "achievements",
     "profile", "leaderboard"}

RouteOf(p) ==
    CASE p = "settings" -> MeRoute
      [] p = "problems" -> ProblemsRoute
      [] p = "topics" -> TagsRoute
      [] p = "tag" -> TagRoute
      [] p = "editorial" -> EditorialRoute
      [] p = "contests" -> ContestsRoute
      [] p = "banner" -> ChallengeRoute
      [] p = "recommendations" -> RecommendationsRoute
      [] p = "percentile" -> PercentileRoute
      [] p = "plans" -> PlansRoute
      [] p = "progress" -> ProgressRoute
      [] p = "plan" -> PlanRoute
      [] p = "enrolment" -> EnrolmentRoute
      [] p = "submissions" -> SubmissionsRoute
      [] p = "submission" -> SubmissionRoute
      [] p = "dashboard" -> SubmissionsRoute
      [] p = "bookmarks" -> BookmarksRoute
      [] p = "achievements" -> AchievementsRoute
      [] p = "profile" -> ProfileRoute
      [] p = "leaderboard" -> LeaderboardRoute

\* What a page says of version 0, to somebody its route refuses, and of a failed load.
Says(empty, refused, failed) == [empty |-> empty, refused |-> refused, failed |-> failed]

SettingsPage           == Says("data", "sign in", "sign in")
ProblemsPage           == Says("nothing", "nothing", "nothing")
Topics                 == Says("nothing", "nothing", "nothing")
TagPage                == Says("missing", "missing", "missing")
EditorialTab           == Says("nothing", "sign in", "error")
ContestsPage           == Says("nothing", "nothing", "nothing")
DailyChallengeBanner   == Says("nothing", "nothing", "nothing")
RecommendationsSection == Says("nothing", "nothing", "nothing")
PercentileCard         == Says("error", "error", "error")
PlansPage              == Says("nothing", "nothing", "nothing")
ProgressBadges         == Says("data", "nothing", "nothing")
PlanPage               == Says("missing", "missing", "missing")
EnrolmentCard          == Says("data", "missing", "missing")
SubmissionsPage        == Says("nothing", "nothing", "nothing")
SubmissionPage         == Says("missing", "sign in", "missing")
DashboardPage          == Says("nothing", "nothing", "nothing")
BookmarksPage          == Says("nothing", "nothing", "nothing")
AchievementsPage       == Says("nothing", "nothing", "error")
ProfilePage            == Says("missing", "missing", "missing")
LeaderboardPage        == Says("nothing", "nothing", "nothing")

PageOf(p) ==
    CASE p = "settings" -> SettingsPage
      [] p = "problems" -> ProblemsPage
      [] p = "topics" -> Topics
      [] p = "tag" -> TagPage
      [] p = "editorial" -> EditorialTab
      [] p = "contests" -> ContestsPage
      [] p = "banner" -> DailyChallengeBanner
      [] p = "recommendations" -> RecommendationsSection
      [] p = "percentile" -> PercentileCard
      [] p = "plans" -> PlansPage
      [] p = "progress" -> ProgressBadges
      [] p = "plan" -> PlanPage
      [] p = "enrolment" -> EnrolmentCard
      [] p = "submissions" -> SubmissionsPage
      [] p = "submission" -> SubmissionPage
      [] p = "dashboard" -> DashboardPage
      [] p = "bookmarks" -> BookmarksPage
      [] p = "achievements" -> AchievementsPage
      [] p = "profile" -> ProfilePage
      [] p = "leaderboard" -> LeaderboardPage

rule == RouteOf(page)
Kind(user) == IF user = NoUser THEN "visitor" ELSE "account"

-----------------------------------------------------------------------------
\* What the route answers now to an account when it has loaded that version.
Served(user, v, took) ==
    LET is == IF rule.gated /\ user = NoUser THEN "refused"
              ELSE IF rule.row /\ v = 0 THEN "missing" ELSE "ok"
    IN Answer(user, v, took, is)

\* A route that fails answers 500; that of the tags answers an empty list.
Failure(user) == Answer(user, 0, 0, IF page = "topics" THEN "empty" ELSE "error")

\* The key of an answer in the cache of the web server.
MemoKey(user) == IF page = "recommendations" THEN user ELSE NoUser

\* Routes refuse visitors, and know that a gated row is not there, before they look into it.
Settled(user) == rule.gated /\ (user = NoUser \/ (rule.row /\ version = 0))

\* Mutant: what is held does not expire.
HeldForever(k) == memo[k].there

\* get: what is held and has not expired.
Held(k) == memo[k].there /\ clock - memo[k].stored <= rule.memo

\* What the HTTP cache keeps, and what the service worker puts into its own.
Keeps(reply) == reply.is = "ok" /\ rule.age[Kind(reply.user)] > 0
Puts(reply) == reply.is \in {"ok", "empty"} /\ rule.how # "untouched"

\* An earlier visit may have left its copies.
Init ==
    /\ page \in Names
    /\ clock = 0
    /\ cookie \in Users \cup {NoUser}
    /\ version \in {0, 1}
    /\ \E user \in Users \cup {NoUser} :
          /\ http \in {Nobody} \cup {a \in {Served(user, version, 0)} : Keeps(a)}
          /\ worker \in {Nobody} \cup {a \in {Served(user, version, 0)} : Puts(a)}
    /\ past = {[at |-> 0, version |-> version]}
    /\ memo = [k \in Users \cup {NoUser} |-> Absent]
    /\ flight = [k \in Users \cup {NoUser} |-> Landed]
    /\ load = [l \in Loads |-> Idle]
    /\ changes = 0
    /\ begun = 0
    /\ cuts = 0

\* The copy of the HTTP cache may be used, as it is or while it is revalidated.
Young == http.is = "ok" /\ clock - http.date < rule.age[Kind(http.user)]
Usable ==
    /\ http.is = "ok"
    /\ clock - http.date < rule.age[Kind(http.user)] + rule.stale[Kind(http.user)]

\* Mutant: the copy of the service worker has no age.
IsFreshForever == worker.is = "ok"

\* staleWhileRevalidate: the copy of the service worker is less than a day old.
IsFresh == worker.is = "ok" /\ clock - worker.date < Day

\* The page is opened: its effect fetches, the service worker looks for its copy and
\* fetches, the HTTP cache answers or the request goes to the server, or both.
Opened(l) ==
    LET first == rule.how = "cacheFirst"
    IN [pc |-> IF Usable \/ (first /\ IsFresh) THEN "shown" ELSE "waiting",
        as |-> cookie, start |-> clock, held |-> IF first THEN worker ELSE Nobody,
        net |-> IF Young THEN "none" ELSE "asked", reply |-> Nobody, cut |-> FALSE,
        body |-> IF first /\ IsFresh THEN worker ELSE IF Usable THEN http ELSE Nobody]

Open(l) ==
    /\ load[l].pc \in {"closed", "shown"} /\ load[l].net = "none"
    /\ begun < MaxLoads
    /\ begun' = begun + 1
    /\ load' = [load EXCEPT ![l] = Opened(l)]
    /\ worker' = IF Usable /\ rule.how # "untouched" THEN http ELSE worker
    /\ UNCHANGED <<page, clock, cookie, version, past, http, memo, flight, changes, cuts>>

Replies(l, answer) == load' = [load EXCEPT ![l].net = "here", ![l].reply = answer]

\* A load begins: what it reads holds now or later.
Begun(k) == [flight EXCEPT ![k] = [on |-> TRUE, version |-> version, began |-> clock]]

\* The route answers at once, with the data or what is held of them, or with a failure.
Serve(l) ==
    LET user == load[l].as
        k == MemoKey(user)
    IN /\ load[l].net = "asked"
       /\ \/ /\ rule.memo = 0 \/ Settled(user)
             /\ Replies(l, Served(user, version, 0))
             /\ UNCHANGED cuts
          \/ /\ rule.memo > 0 /\ ~Settled(user) /\ Held(k)
             /\ Replies(l, Served(user, memo[k].version, memo[k].took))
             /\ UNCHANGED cuts
          \/ /\ cuts < MaxCuts
             /\ cuts' = cuts + 1
             /\ Replies(l, Failure(user))
       /\ UNCHANGED <<page, clock, cookie, version, past, worker, http, memo, flight, changes,
                      begun>>

\* remember: what is not held is loaded, once for all who ask.
Miss(l) ==
    LET k == MemoKey(load[l].as)
    IN /\ load[l].net = "asked"
       /\ rule.memo > 0 /\ ~Settled(load[l].as) /\ ~Held(k)
       /\ load' = [load EXCEPT ![l].net = "loading"]
       /\ flight' = IF flight[k].on THEN flight ELSE Begun(k)
       /\ UNCHANGED <<page, clock, cookie, version, past, worker, http, memo, changes, begun,
                      cuts>>

\* A load begins for somebody who uses another browser.
Elsewhere(k) ==
    /\ rule.memo > 0 /\ k \in {MemoKey(user) : user \in Users \cup {NoUser}}
    /\ ~flight[k].on /\ ~Held(k) /\ ~(rule.gated /\ rule.row /\ version = 0)
    /\ cuts < MaxCuts
    /\ cuts' = cuts + 1
    /\ flight' = Begun(k)
    /\ UNCHANGED <<page, clock, cookie, version, past, worker, http, memo, load, changes, begun>>

Waits(l, k) == load[l].net = "loading" /\ MemoKey(load[l].as) = k

\* The load ends: what it read is held from now on, and everybody who waits is answered.
Land(k) ==
    LET took == clock - flight[k].began
    IN /\ flight[k].on
       /\ flight' = [flight EXCEPT ![k] = Landed]
       /\ \E v \in flight[k].version..version :
             /\ memo' = [memo EXCEPT ![k] =
                   [there |-> TRUE, version |-> v, stored |-> clock, took |-> took]]
             /\ load' = [l \in Loads |->
                   IF Waits(l, k)
                   THEN [load[l] EXCEPT !.net = "here", !.reply = Served(load[l].as, v, took)]
                   ELSE load[l]]
       /\ UNCHANGED <<page, clock, cookie, version, past, worker, http, changes, begun, cuts>>

\* The load fails, and the request of everybody who waits for it.
LandFails(k) ==
    /\ flight[k].on /\ cuts < MaxCuts
    /\ cuts' = cuts + 1
    /\ flight' = [flight EXCEPT ![k] = Landed]
    /\ load' = [l \in Loads |->
          IF Waits(l, k)
          THEN [load[l] EXCEPT !.net = "here", !.reply = Failure(load[l].as)]
          ELSE load[l]]
    /\ UNCHANGED <<page, clock, cookie, version, past, worker, http, memo, changes, begun>>

\* What is held is evicted, or an invalidation deletes it; a load under way goes on.
Forget(k) ==
    /\ memo[k].there
    /\ cuts < MaxCuts
    /\ cuts' = cuts + 1
    /\ memo' = [memo EXCEPT ![k] = Absent]
    /\ UNCHANGED <<page, clock, cookie, version, past, worker, http, flight, load, changes,
                   begun>>

\* The answer arrives: each cache keeps what it may, and a page that waits shows it.
Arrive(l) ==
    LET reply == load[l].reply
    IN /\ load[l].net = "here"
       /\ load' = [load EXCEPT ![l] =
             [@ EXCEPT !.net = "none", !.reply = Nobody, !.held = Nobody, !.pc = "shown",
                       !.body = IF load[l].pc = "waiting" THEN reply ELSE load[l].body]]
       /\ http' = IF Keeps(reply) THEN reply ELSE http
       /\ worker' = IF Puts(reply) THEN reply ELSE worker
       /\ UNCHANGED <<page, clock, cookie, version, past, memo, flight, changes, begun, cuts>>

\* The network fails: the service worker falls back to the copy it held when the page asked
\* (staleWhileRevalidate), or to the one it has now (networkFirst).
FallBack(l) ==
    LET copy == IF rule.how = "networkFirst" THEN worker ELSE load[l].held
    IN IF copy.is = "nothing" THEN Answer(load[l].as, 0, 0, "error") ELSE copy

Cut(l) ==
    /\ load[l].net \in {"asked", "loading", "here"}
    /\ cuts < MaxCuts
    /\ cuts' = cuts + 1
    /\ load' = [load EXCEPT ![l] =
          [@ EXCEPT !.net = "none", !.reply = Nobody, !.held = Nobody, !.pc = "shown",
                    !.cut = load[l].pc = "waiting",
                    !.body = IF load[l].pc = "waiting" THEN FallBack(l) ELSE load[l].body]]
    /\ UNCHANGED <<page, clock, cookie, version, past, worker, http, memo, flight, changes,
                   begun>>

-----------------------------------------------------------------------------
\* Somebody signs in or out of the browser, or the data change.
Becomes(user, v) ==
    /\ changes < MaxChanges
    /\ changes' = changes + 1
    /\ cookie' = user
    /\ version' = v
    /\ past' = past \cup {[at |-> clock, version |-> v]}

Happens ==
    /\ \/ \E user \in (Users \cup {NoUser}) \ {cookie} : Becomes(user, version)
       \/ Becomes(cookie, version + 1)
    /\ UNCHANGED <<page, clock, worker, http, memo, flight, load, begun, cuts>>

\* handleStart, handleAbandon of a study plan: the enrolment is written, then the page
\* reloads by the same fetch as before.
StartOrAbandon(l) ==
    /\ page = "enrolment" /\ cookie # NoUser
    /\ load[l].pc = "shown" /\ load[l].net = "none" /\ load[l].body.is = "ok"
    /\ begun < MaxLoads
    /\ Becomes(cookie, version + 1)
    /\ begun' = begun + 1
    /\ load' = [load EXCEPT ![l] = Opened(l)]
    /\ UNCHANGED <<page, clock, worker, http, memo, flight, cuts>>

Tick ==
    /\ clock < MaxClock
    /\ clock' = clock + 1
    /\ past' = past \cup {[at |-> clock + 1, version |-> version]}
    /\ UNCHANGED <<page, cookie, version, worker, http, memo, flight, load, changes, begun,
                   cuts>>

Step(l) == Serve(l) \/ Miss(l) \/ Arrive(l)
CacheStep(k) == Elsewhere(k) \/ Land(k) \/ LandFails(k) \/ Forget(k)

Next ==
    \/ \E l \in Loads : Open(l) \/ Step(l) \/ Cut(l) \/ StartOrAbandon(l)
    \/ \E k \in Users \cup {NoUser} : CacheStep(k)
    \/ Happens
    \/ Tick

Spec == Init /\ [][Next]_vars

-----------------------------------------------------------------------------
Answers ==
    [user: Users \cup {NoUser}, version: Nat, date: 0..MaxClock, took: Nat,
     is: {"nothing", "ok", "missing", "refused", "empty", "error"}]

TypeOK ==
    /\ page \in Names
    /\ clock \in 0..MaxClock
    /\ cookie \in Users \cup {NoUser}
    /\ version \in Nat
    /\ \A m \in past : m.at \in 0..clock /\ m.version \in 0..version
    /\ worker \in Answers /\ worker.is \in {"nothing", "ok", "empty"}
    /\ http \in Answers /\ http.is \in {"nothing", "ok"}
    /\ load \in [Loads -> [pc: {"closed", "waiting", "shown"}, as: Users \cup {NoUser},
                            start: 0..clock, net: {"none", "asked", "loading", "here"},
                            cut: BOOLEAN, held: Answers, reply: Answers, body: Answers]]
    /\ memo \in [Users \cup {NoUser} ->
                    [there: BOOLEAN, version: Nat, stored: 0..clock, took: Nat]]
    /\ flight \in [Users \cup {NoUser} -> [on: BOOLEAN, version: Nat, began: 0..clock]]
    /\ \A l \in Loads : load[l].pc = "waiting" => load[l].net # "none"
    /\ changes \in 0..MaxChanges /\ begun \in 0..MaxLoads /\ cuts \in 0..MaxCuts

\* What the page shows in a tab.
View(l) ==
    CASE load[l].pc # "shown" -> "loading"
      [] load[l].body.is = "refused" -> PageOf(page).refused
      [] load[l].body.is = "error" -> PageOf(page).failed
      [] OTHER -> IF load[l].body.version = 0 THEN PageOf(page).empty ELSE "data"

\* No copy in the browser of what a page loads is used for longer than this.
CopyLife ==
    [p \in Names |->
        LET r == RouteOf(p)
        IN CHOOSE b \in 0..(Day + 2) :
               /\ \A k \in {"visitor", "account"} : r.age[k] + r.stale[k] <= b
               /\ r.how = "cacheFirst" => Day <= b
               /\ \/ r.how = "cacheFirst" /\ b = Day
                  \/ \E k \in {"visitor", "account"} : r.age[k] + r.stale[k] = b]

\* No data are shown for longer than this after their load ended.
Life == CopyLife[page] + rule.memo

\* What held at m may be shown in a tab: a copy lives that long after the load of its data
\* ended, which took as long as the answer says.
Recent(l, m) == m.at >= load[l].start \/ m.at + load[l].body.took + Life > load[l].start

Answered(l) == load[l].pc = "shown" /\ load[l].body.is \in {"ok", "missing", "refused"}

\* What a page shows was true no longer before the page was opened than a copy of it lives in
\* the browser and in the web server, and its load took, whatever the order of loads, answers
\* and revalidations.
ShownWasTrue ==
    \A l \in Loads : Answered(l) /\ ~load[l].cut =>
        \E m \in past : m.version = load[l].body.version /\ Recent(l, m)

\* Pages about the one who is signed in, and those of them that may show what was made for
\* the account that used the browser before.
Personal == {"settings", "editorial", "banner", "recommendations", "percentile", "progress",
             "enrolment",
             "submissions", "submission", "dashboard", "bookmarks", "achievements"}
Remembering == {"editorial", "recommendations", "percentile", "progress", "enrolment"}

\* Nobody sees the page of another account, but on the pages named, and when the network
\* failed.
ForeignOnlyWhereRemembered ==
    \A l \in Loads :
        Answered(l) /\ page \in Personal /\ load[l].body.user \in Users \ {load[l].as} =>
            load[l].cut \/ page \in Remembering

\* A page says that there is nothing only when there was nothing or its load failed.
BlankIsExplained ==
    \A l \in Loads : View(l) \in {"nothing", "missing"} =>
        \/ load[l].body.is \in {"error", "refused", "empty"} \/ load[l].cut
        \/ \E m \in past : m.version = 0 /\ Recent(l, m)

\* The three together, over states of the right types.
PagesShowTheTruth ==
    TypeOK /\ ShownWasTrue /\ ForeignOnlyWhereRemembered /\ BlankIsExplained
=============================================================================
