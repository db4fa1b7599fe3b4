---------------------------- MODULE SolveEffects ----------------------------
(***************************************************************************)
(* What an accepted submission does to its author: POST /api/submissions   *)
(* with SUBMISSIONS_SYNC_FALLBACK, the daily-challenge streak              *)
(* (lib/daily-challenge.ts) and the achievements (lib/achievements.ts).    *)
(*                                                                         *)
(* A request runs from one query to the next; requests of one user         *)
(* interleave at every query and may be under way when the UTC day ends.   *)
(* Days are numbered from 1; 0 is a null lastSolvedDate.  A streak row     *)
(* that is missing reads as the row of a user who never solved.            *)
(***************************************************************************)
EXTENDS Integers, FiniteSets, Sequences, FiniteSetsExt

CONSTANTS
    Users,
    Requests, UserOf,    \* POST requests and their session.userId
    ProblemOf,           \* and problemId
    Problems, DifficultyOf,
    Languages, Runtimes,
    Days, Challenge,     \* DailyChallenge: the problem of each day
    Catalog,             \* achievement rows as findMany returns them: their criteria
    Profile              \* rating, contests and posts of each user, written elsewhere

VARIABLES
    today,        \* the UTC day
    row,          \* the Submission row of each request
    streak,       \* DailyChallengeStreak of each user
    completions,  \* DailyChallenge.completionCount
    badge,        \* UserAchievement rows: earned, or an earnedAt at the epoch
    req           \* the requests under way

vars == <<today, row, streak, completions, badge, req>>

Badges == DOMAIN Catalog
Types == {"firstSolution", "problemsSolved", "difficultyMaster", "polyglot", "speedDemon",
          "currentStreak", "longestStreak", "ratingThreshold", "contestParticipated",
          "contestTopRank", "leaderboardTopN", "discussionPosted"}

\* What the constants satisfy: a criterion has the fields its type needs (AchievementCriteria).
SolveConstants ==
    /\ IsFiniteSet(Users) /\ IsFiniteSet(Requests)
    /\ UserOf \in [Requests -> Users] /\ ProblemOf \in [Requests -> Problems]
    /\ Days \subseteq Nat \ {0} /\ 1 \in Days
    /\ Challenge \in [Days -> Problems]
    /\ Runtimes \subseteq Nat /\ Badges \subseteq Nat
    /\ Profile \in [Users -> [rating : Nat, entries : Nat, ranks : SUBSET Nat, posts : Nat]]
    /\ \A b \in Badges :
          /\ Catalog[b].type \in Types
          /\ Catalog[b].type \notin {"firstSolution", "speedDemon"} => Catalog[b].threshold \in Nat
          /\ Catalog[b].type = "difficultyMaster" =>
                Catalog[b].difficulty \in {DifficultyOf[p] : p \in Problems}

NoRow == [status |-> "none"]
Unsolved == [current |-> 0, longest |-> 0, last |-> 0]
NoBadge == [state |-> "none", progress |-> 0]
Fresh == [pc |-> "idle", day |-> 0, prev |-> Unsolved, results |-> <<>>,
          have |-> {}, next |-> 0, announced |-> {}]
Larger(a, b) == IF a > b THEN a ELSE b

Accepted(u) == {r \in Requests : UserOf[r] = u /\ row[r].status = "accepted"}
Solved(u) == {row[r].problem : r \in Accepted(u)}

TypeOK ==
    /\ today \in Days
    /\ \A r \in Requests :
          \/ row[r] = NoRow
          \/ row[r] \in [status : {"accepted", "wrong_answer", "runtime_error"}, problem : Problems,
                         language : Languages, runtime : Runtimes, created : Days]
    /\ streak \in [Users -> [current : Nat, longest : Nat, last : Days \cup {0}]]
    /\ completions \in [Days -> Nat]
    /\ badge \in [Users \X Badges -> [state : {"none", "progress", "earned"}, progress : Nat]]
    /\ \A r \in Requests :
          /\ req[r].pc \in {"idle", "daily", "streak", "upsert", "count", "stats", "list", "award", "done"}
          /\ req[r].announced \subseteq Badges

Init ==
    /\ today = 1
    /\ row = [r \in Requests |-> NoRow]
    /\ streak = [u \in Users |-> Unsolved]
    /\ completions = [d \in Days |-> 0]
    /\ badge = [ub \in Users \X Badges |-> NoBadge]
    /\ req = [r \in Requests |-> Fresh]

At(r, p) == req[r].pc = p
Goto(r, p) == req' = [req EXCEPT ![r].pc = p]
Return(r, p) == req' = [req EXCEPT ![r] = [Fresh EXCEPT !.pc = p]]   \* the locals are gone

\* toUtcDayStart and new Date(): midnight passes.
NextDay ==
    /\ today + 1 \in Days
    /\ today' = today + 1
    /\ UNCHANGED <<row, streak, completions, badge, req>>

-----------------------------------------------------------------------------
(* POST /api/submissions, sync fallback *)

\* The status from the results of the test cases; no test case accepts.
Status(results) ==
    LET allPassed == \A t \in results : t.passed
        hasError == \E t \in results : t.error
    IN IF hasError /\ ~allPassed THEN "runtime_error"
       ELSE IF allPassed THEN "accepted" ELSE "wrong_answer"

\* executeCode returns and the row is created with its final status.
Judge(r) ==
    /\ At(r, "idle")
    /\ \E l \in Languages, t \in Runtimes,
          status \in {Status(results) : results \in SUBSET [passed : BOOLEAN, error : BOOLEAN]} :
          /\ row' = [row EXCEPT ![r] = [status |-> status, problem |-> ProblemOf[r], language |-> l,
                                        runtime |-> t, created |-> today]]
          /\ Goto(r, IF status = "accepted" THEN "daily" ELSE "done")
    /\ UNCHANGED <<today, streak, completions, badge>>

\* recordDailySolveIfApplicable: is it today's problem?
FindChallenge(r) ==
    /\ At(r, "daily")
    /\ IF Challenge[today] = row[r].problem
       THEN req' = [req EXCEPT ![r].pc = "streak", ![r].day = today]
       ELSE Return(r, "stats")
    /\ UNCHANGED <<today, row, streak, completions, badge>>

FindStreak(r) ==
    /\ At(r, "streak")
    /\ req' = [req EXCEPT ![r].pc = "upsert", ![r].prev = streak[UserOf[r]]]
    /\ UNCHANGED <<today, row, streak, completions, badge>>

\* Mutant of applyDailySolve: any later day continues the streak.
ApplyNeverResets(prev, day) ==
    IF prev.last >= day
    THEN [state |-> prev, advanced |-> FALSE]
    ELSE [state |-> [current |-> prev.current + 1, longest |-> Larger(prev.longest, prev.current + 1),
                     last |-> day],
          advanced |-> TRUE]

\* Mutant of applyDailySolve: only the same day is a no-op, an earlier one starts a run.
ApplyBackdated(prev, day) ==
    LET next == IF day - prev.last = 1 /\ prev.last # 0 THEN prev.current + 1 ELSE 1
    IN IF prev.last = day
       THEN [state |-> prev, advanced |-> FALSE]
       ELSE [state |-> [current |-> next, longest |-> Larger(prev.longest, next), last |-> day],
             advanced |-> TRUE]

\* applyDailySolve: the same day or an earlier one changes nothing, the next day
\* continues, a gap or a first solve starts at 1.
applyDailySolve(prev, day) ==
    LET next == IF day - prev.last = 1 /\ prev.last # 0 THEN prev.current + 1 ELSE 1
    IN IF prev.last >= day
       THEN [state |-> prev, advanced |-> FALSE]
       ELSE [state |-> [current |-> next, longest |-> Larger(prev.longest, next), last |-> day],
             advanced |-> TRUE]

\* The upsert writes all three fields, whatever the row holds by now.
UpsertStreak(r) ==
    LET update == applyDailySolve(req[r].prev, req[r].day)
    IN
    /\ At(r, "upsert")
    /\ streak' = [streak EXCEPT ![UserOf[r]] = update.state]
    /\ IF update.advanced
       THEN req' = [req EXCEPT ![r].pc = "count", ![r].prev = Unsolved]
       ELSE Return(r, "stats")
    /\ UNCHANGED <<today, row, completions, badge>>

CountCompletion(r) ==
    /\ At(r, "count")
    /\ completions' = [completions EXCEPT ![req[r].day] = @ + 1]
    /\ Return(r, "stats")
    /\ UNCHANGED <<today, row, streak, badge>>

\* A query of the streak update fails; the route logs it and goes on.
DailyFails(r) ==
    /\ req[r].pc \in {"daily", "streak", "upsert", "count"}
    /\ Return(r, "stats")
    /\ UNCHANGED <<today, row, streak, completions, badge>>

-----------------------------------------------------------------------------
(* evaluateAchievements *)

\* Mutant of Stats: solved counts submissions, not problems.
StatsPerSubmission(u) ==
    [accepted |-> Cardinality(Accepted(u)),
     solved |-> Cardinality(Accepted(u)),
     byDifficulty |-> [d \in {DifficultyOf[p] : p \in Problems} |->
                          Cardinality({p \in Solved(u) : DifficultyOf[p] = d})],
     languages |-> Cardinality({row[r].language : r \in Accepted(u)}),
     runtimes |-> {row[r].runtime : r \in Accepted(u)},
     current |-> streak[u].current, longest |-> streak[u].longest,
     rating |-> Profile[u].rating, entries |-> Profile[u].entries, ranks |-> Profile[u].ranks,
     leaderRank |-> 1 + Cardinality({v \in Users : Profile[v].rating > Profile[u].rating}),
     posts |-> Profile[u].posts]

\* gatherStats.  A null minimum is the empty set it is taken over.
Stats(u) ==
    [accepted |-> Cardinality(Accepted(u)),
     solved |-> Cardinality(Solved(u)),
     byDifficulty |-> [d \in {DifficultyOf[p] : p \in Problems} |->
                          Cardinality({p \in Solved(u) : DifficultyOf[p] = d})],
     languages |-> Cardinality({row[r].language : r \in Accepted(u)}),
     runtimes |-> {row[r].runtime : r \in Accepted(u)},
     current |-> streak[u].current, longest |-> streak[u].longest,
     rating |-> Profile[u].rating, entries |-> Profile[u].entries, ranks |-> Profile[u].ranks,
     leaderRank |-> 1 + Cardinality({v \in Users : Profile[v].rating > Profile[u].rating}),
     posts |-> Profile[u].posts]

Reaches(n, threshold) ==
    [earned |-> n >= threshold, progress |-> IF n < threshold THEN n ELSE threshold]
AtMost(ns, threshold) ==
    [earned |-> ns # {} /\ Min(ns) <= threshold, progress |-> IF ns = {} THEN 0 ELSE Min(ns)]

evaluateCriteria(c, s) ==
    CASE c.type = "firstSolution" -> [earned |-> s.accepted >= 1, progress |-> s.accepted]
      [] c.type = "problemsSolved" -> Reaches(s.solved, c.threshold)
      [] c.type = "difficultyMaster" -> Reaches(s.byDifficulty[c.difficulty], c.threshold)
      [] c.type = "polyglot" -> Reaches(s.languages, c.threshold)
      [] c.type = "speedDemon" -> AtMost(s.runtimes, c.maxRuntimeMs)
      [] c.type = "currentStreak" -> Reaches(s.current, c.threshold)
      [] c.type = "longestStreak" -> Reaches(s.longest, c.threshold)
      [] c.type = "ratingThreshold" -> Reaches(s.rating, c.threshold)
      [] c.type = "contestParticipated" -> Reaches(s.entries, c.threshold)
      [] c.type = "contestTopRank" -> AtMost(s.ranks, c.threshold)
      [] c.type = "leaderboardTopN" -> AtMost({s.leaderRank}, c.threshold)
      [] c.type = "discussionPosted" -> Reaches(s.posts, c.threshold)

\* gatherStats; of the numbers only what the criteria make of them is kept.
GatherStats(r) ==
    LET s == Stats(UserOf[r])
    IN
    /\ At(r, "stats")
    /\ req' = [req EXCEPT ![r].pc = "list",
                          ![r].results = [b \in Badges |-> evaluateCriteria(Catalog[b], s)]]
    /\ UNCHANGED <<today, row, streak, completions, badge>>

\* The catalogue, and as earnedIds every achievement the user has a row for.
ListBadges(r) ==
    /\ At(r, "list")
    /\ req' = [req EXCEPT ![r].pc = "award", ![r].next = 1,
                          ![r].have = {b \in Badges : badge[UserOf[r], b] # NoBadge}]
    /\ UNCHANGED <<today, row, streak, completions, badge>>

\* userAchievement.upsert: an update writes the progress only.
Upserted(old, state, progress) ==
    [state |-> IF old = NoBadge THEN state ELSE old.state, progress |-> progress]

\* One turn of the loop: award, record the progress, or leave a row that exists.
Evaluate(r) ==
    LET b == req[r].next
        u == UserOf[r]
        result == req[r].results[b]
        award == result.earned /\ b \notin req[r].have
    IN
    /\ At(r, "award") /\ b \in Badges
    /\ badge' = IF award \/ ~result.earned
                THEN [badge EXCEPT ![<<u, b>>] =
                         Upserted(@, IF award THEN "earned" ELSE "progress", result.progress)]
                ELSE badge
    /\ req' = [req EXCEPT ![r].next = b + 1,
                          ![r].announced = IF award THEN @ \cup {b} ELSE @]
    /\ UNCHANGED <<today, row, streak, completions>>

\* The upsert of a progress row fails: caught, and the loop goes on.
ProgressFails(r) ==
    LET b == req[r].next
    IN
    /\ At(r, "award") /\ b \in Badges
    /\ ~req[r].results[b].earned
    /\ req' = [req EXCEPT ![r].next = b + 1]
    /\ UNCHANGED <<today, row, streak, completions, badge>>

\* Any other query fails: logged, and the response names no badge.
EvaluationFails(r) ==
    /\ req[r].pc \in {"stats", "list", "award"}
    /\ Return(r, "done")
    /\ UNCHANGED <<today, row, streak, completions, badge>>

Respond(r) ==
    /\ At(r, "award") /\ req[r].next \notin Badges
    /\ Return(r, "done")
    /\ UNCHANGED <<today, row, streak, completions, badge>>

Next ==
    \/ NextDay
    \/ \E r \in Requests :
          \/ Judge(r)
          \/ FindChallenge(r) \/ FindStreak(r) \/ UpsertStreak(r) \/ CountCompletion(r) \/ DailyFails(r)
          \/ GatherStats(r) \/ ListBadges(r) \/ Evaluate(r) \/ ProgressFails(r)
          \/ EvaluationFails(r) \/ Respond(r)

Spec == Init /\ [][Next]_vars

-----------------------------------------------------------------------------
(* Readers *)

isStreakActive(s, now) == s.last # 0 /\ s.current > 0 /\ now - s.last \in {0, 1}

effectiveCurrentStreak(s, now) == IF isStreakActive(s, now) THEN s.current ELSE 0

\* GET /api/achievements: a row at the epoch is not earned.
ShownEarned(u) == {b \in Badges : badge[u, b].state = "earned"}

-----------------------------------------------------------------------------
(* Properties *)

\* The user has an accepted submission to the challenge of day d, made by that day.
SolvedDaily(u, d) ==
    \E r \in Accepted(u) : row[r].problem = Challenge[d] /\ row[r].created <= d

\* A streak is made of solves: GET /api/daily-challenge shows a streak of n only if the
\* user solved the challenge of n consecutive days, the last of them today or yesterday;
\* the stored longest streak, too, is a run of solved days.  It holds whatever requests
\* overlap, fail half way or write late (recordDailySolveIfApplicable).
StreakIsEarned ==
    \A u \in Users :
        LET s == streak[u]
            shown == effectiveCurrentStreak(s, today)
            Run(n, d) == \A k \in (d - n + 1)..d : k \in Days /\ SolvedDaily(u, k)
        IN /\ shown > 0 => \E d \in {today - 1, today} : Run(shown, d)
           /\ s.current <= s.longest
           /\ s.longest > 0 => \E d \in Days : d <= today /\ Run(s.longest, d)

\* The longest streak and the last day go back only when a request writes over a row that
\* changed after it read it (upsert in recordDailySolveIfApplicable, read and write apart).
StreakGoesBackOnlyWhenStale ==
    [][\A u \in Users :
          \/ streak'[u].longest < streak[u].longest
          \/ streak'[u].last < streak[u].last
          => \E r \in Requests :
                /\ UserOf[r] = u /\ At(r, "upsert") /\ ~At(r, "upsert")'
                /\ req[r].prev # streak[u]]_vars

\* completionCount counts solves: at most one for each accepted submission to the
\* challenge of the day, however often an increment follows a stale read.
CompletionsAreSolves ==
    \A d \in Days :
        completions[d] <= Cardinality({r \in Requests :
            row[r].status = "accepted" /\ row[r].problem = Challenge[d] /\ row[r].created <= d})

\* What a badge asks for, stated of the submissions alone.
Deserved(u, c) ==
    CASE c.type = "firstSolution" -> Accepted(u) # {}
      [] c.type = "problemsSolved" -> Cardinality(Solved(u)) >= c.threshold
      [] c.type \in {"currentStreak", "longestStreak"} ->
            \E d \in Days : \A k \in (d - c.threshold + 1)..d : k \in Days /\ SolvedDaily(u, k)
      [] OTHER -> TRUE

\* A badge that GET /api/achievements shows as earned, or that a response announces, was
\* deserved, even when the statistics were read long before the award is written.
EarnedIsDeserved ==
    /\ \A u \in Users : \A b \in ShownEarned(u) : Deserved(u, Catalog[b])
    /\ \A r \in Requests : \A b \in req[r].announced : Deserved(UserOf[r], Catalog[b])

\* What a solve leaves is sound: streaks and completion counts are made of solves, and
\* badges are deserved.
CreditIsSound == TypeOK /\ StreakIsEarned /\ CompletionsAreSolves /\ EarnedIsDeserved
=============================================================================
