-------------------------- MODULE LeaderboardIndex --------------------------
(***************************************************************************)
(* leaderboard-rust: one Redis sorted set, rebuilt from Postgres by        *)
(* recompute_period and recompute (cache.rs) while GET user_rank reads it. *)
(*                                                                         *)
(* Writers are the tasks that rebuild this set: admin POSTs for the global *)
(* one, the 60-second loop of each replica for the weekly and monthly      *)
(* ones.  A rebuild is a query, a DEL and a ZADD per row (the pipeline is  *)
(* not a transaction); Redis may go down between any two of them, and a    *)
(* connection may break under any of them: the client fails the command    *)
(* and does not send it again, whether or not Redis has carried it out.    *)
(* The rows the query finds are any scores of any users, since the queries *)
(* differ.  User names are numbers, ordered as Redis orders equal scores.  *)
(***************************************************************************)
EXTENDS Redis, Integers, FiniteSets

CONSTANTS
    Users, MaxScore,
    Writers,
    Scale, MaxPoints,   \* CONTEST_SCORE_SCALE; bound: points of a contest
    MaxChanges          \* bound: changes of the counts

LeaderboardConstants ==
    /\ Users \subseteq Nat /\ IsFiniteSet(Users)
    /\ MaxScore \in Nat /\ MaxChanges \in Nat /\ MaxOutages \in Nat
    /\ Scale \in Nat \ {0} /\ MaxPoints \in Nat

VARIABLES
    table,       \* Postgres: the scores the query would return
    changes,     \* bound on the changes of table
    zset,        \* the sorted set: the score of each member
    writer,      \* each rebuild: its step, the rows it read, the rows left to add
    reader,      \* one user_rank request: the user, its two reads
    torn,        \* history: the set was written by overlapping rebuilds or one that failed
    lastRows     \* history: what the last rebuild to finish had read

board == <<table, changes, zset, writer, reader, torn, lastRows>>
vars == <<up, outages, board>>

Empty == [u \in {} |-> 0]
NoRebuild == [pc |-> "idle", rows |-> Empty, todo |-> {}]
NoReader == [pc |-> "idle"]
Rebuilding == {w \in Writers : writer[w].pc = "add"}

ScoreTables == UNION {[S -> 0..MaxScore] : S \in SUBSET Users}
IsScoreTable(f) ==
    /\ DOMAIN f \subseteq Users
    /\ f \in [DOMAIN f -> 0..MaxScore]
With(f, u, n) == [v \in DOMAIN f \cup {u} |-> IF v = u THEN n ELSE f[v]]
Without(f, u) == [v \in DOMAIN f \ {u} |-> f[v]]

TypeOK ==
    /\ up \in BOOLEAN /\ outages \in 0..MaxOutages
    /\ IsScoreTable(table) /\ IsScoreTable(zset) /\ IsScoreTable(lastRows)
    /\ \A w \in Writers :
          /\ writer[w].pc \in {"idle", "delete", "add"}
          /\ IsScoreTable(writer[w].rows) /\ writer[w].todo \subseteq DOMAIN writer[w].rows
    /\ reader.pc \in {"idle", "rank", "done"}
    /\ reader.pc = "done" => reader.rank \in 1..(Cardinality(Users))
    /\ torn \in BOOLEAN

Init ==
    /\ RedisInit
    /\ table \in ScoreTables /\ changes = 0
    /\ zset = Empty /\ lastRows = Empty /\ torn = FALSE
    /\ writer = [w \in Writers |-> NoRebuild]
    /\ reader = NoReader

\* Users register, solve problems and are deleted; solves leave the window.
ScoreChanges(u) ==
    /\ changes < MaxChanges
    /\ changes' = changes + 1
    /\ \/ u \in DOMAIN table /\ table' = Without(table, u)
       \/ \E n \in 0..MaxScore : table' = With(table, u, n)
    /\ UNCHANGED <<up, outages, zset, writer, reader, torn, lastRows>>

-----------------------------------------------------------------------------
(* recompute, recompute_period *)

Query(w) ==
    /\ writer[w].pc = "idle"
    /\ writer' = [writer EXCEPT ![w] = [pc |-> "delete", rows |-> table, todo |-> DOMAIN table]]
    /\ UNCHANGED <<up, outages, table, changes, zset, reader, torn, lastRows>>

\* Mutant of Delete: the set is not cleared.
DeleteForgotten(w) ==
    /\ up /\ writer[w].pc = "delete"
    /\ writer' = [writer EXCEPT ![w].pc = "add"]
    /\ torn' = (Rebuilding # {})
    /\ UNCHANGED <<up, outages, table, changes, zset, reader, lastRows>>

\* DEL, as Redis carries it out.
Clear ==
    /\ zset' = Empty
    /\ reader' = IF reader.pc = "rank" THEN [reader EXCEPT !.cut = TRUE] ELSE reader

Delete(w) ==
    /\ up /\ writer[w].pc = "delete"
    /\ Clear
    /\ writer' = [writer EXCEPT ![w].pc = "add"]
    /\ torn' = (Rebuilding # {})
    /\ UNCHANGED <<up, outages, table, changes, lastRows>>

\* One ZADD of the pipeline.
ZAdd(w) ==
    /\ up /\ writer[w].pc = "add"
    /\ \E u \in writer[w].todo :
          /\ zset' = With(zset, u, writer[w].rows[u])
          /\ writer' = [writer EXCEPT ![w].todo = @ \ {u}]
    /\ UNCHANGED <<up, outages, table, changes, reader, torn, lastRows>>

Finish(w) ==
    /\ writer[w].pc = "add" /\ writer[w].todo = {}
    /\ lastRows' = writer[w].rows
    /\ writer' = [writer EXCEPT ![w] = NoRebuild]
    /\ UNCHANGED <<up, outages, table, changes, zset, reader, torn>>

\* A command fails: the rebuild is abandoned as it stands and only logged.  A DEL whose
\* reply was lost has emptied the set.  The step stands where the last command the rebuild
\* had sent is carried out, or will never be.
RebuildFails(w) ==
    /\ \/ writer[w].pc = "delete" /\ UNCHANGED <<zset, reader, torn>>
       \/ writer[w].pc = "delete" /\ Clear /\ torn' = TRUE
       \/ writer[w].pc = "add" /\ UNCHANGED <<zset, reader>> /\ torn' = TRUE
    /\ writer' = [writer EXCEPT ![w] = NoRebuild]
    /\ UNCHANGED <<up, outages, table, changes, lastRows>>

-----------------------------------------------------------------------------
(* user_rank: ZSCORE, then ZREVRANK *)

RankIn(s, u) == Cardinality({v \in DOMAIN s : s[v] > s[u] \/ (s[v] = s[u] /\ v >= u)})

ReadScore ==
    /\ up /\ reader.pc = "idle"
    /\ \E u \in DOMAIN zset : reader' = [pc |-> "rank", user |-> u, cut |-> FALSE]
    /\ UNCHANGED <<up, outages, table, changes, zset, writer, torn, lastRows>>

\* Mutant of ReadRank: the zero-based rank is not shifted.
ReadRankFromZero ==
    LET u == reader.user
        rank == IF u \in DOMAIN zset THEN RankIn(zset, u) - 1 ELSE 0
    IN
    /\ up /\ reader.pc = "rank"
    /\ reader' = [pc |-> "done", rank |-> rank, user |-> u, cut |-> reader.cut]
    /\ UNCHANGED <<up, outages, table, changes, zset, writer, torn, lastRows>>

\* A member that is gone by now counts as the first.
ReadRank ==
    LET u == reader.user
        rank == IF u \in DOMAIN zset THEN RankIn(zset, u) ELSE 1
    IN
    /\ up /\ reader.pc = "rank"
    /\ reader' = [pc |-> "done", rank |-> rank, user |-> u, cut |-> reader.cut]
    /\ UNCHANGED <<up, outages, table, changes, zset, writer, torn, lastRows>>

\* Answered, or the second command failed.
Answer ==
    /\ reader.pc \in {"rank", "done"}
    /\ reader' = NoReader
    /\ UNCHANGED <<up, outages, table, changes, zset, writer, torn, lastRows>>

\* Contest sets: points * SCALE - last_submission_unix, written by the maintainers.
Composite(points, time) == points * Scale - time

\* ceil(composite / SCALE).
decode_contest_points(composite) == -((-composite) \div Scale)

Next ==
    \/ (Outage \/ Recover) /\ UNCHANGED board
    \/ \E u \in Users : ScoreChanges(u)
    \/ \E w \in Writers : Query(w) \/ Delete(w) \/ ZAdd(w) \/ Finish(w) \/ RebuildFails(w)
    \/ ReadScore \/ ReadRank \/ Answer

Spec == Init /\ [][Next]_vars

-----------------------------------------------------------------------------
(* Properties *)

\* A composite score gives the points back and ranks by points, then by the earlier
\* submission, up to the last time stamp below the scale (CONTEST_SCORE_SCALE).
ContestScoreDecodes ==
    \A p, q \in 0..MaxPoints, s, t \in 0..(Scale - 1) :
        /\ decode_contest_points(Composite(p, s)) = p
        /\ Composite(p, s) > Composite(q, t) <=> p > q \/ (p = q /\ s < t)

\* A rebuild that no other one overlaps and that no Redis error cuts short leaves exactly
\* the rows it read: nobody who left the table stays, whatever earlier rebuilds left.  A
\* later rebuild that failed keeps it so unless its DEL may have been carried out (DEL,
\* then ZADD, in recompute and recompute_period).
IndexIsWhatWasRead ==
    (~torn /\ Rebuilding = {}) => zset = lastRows

\* user_rank answers with a rank the user has in the set, except that a rebuild between
\* its two commands may make anybody the first.
RankIsTrueUnlessCut ==
    [][reader.pc = "rank" /\ reader'.pc = "done" =>
          \/ reader.user \in DOMAIN zset /\ reader'.rank = RankIn(zset, reader.user)
          \/ reader.cut /\ reader'.rank = 1]_vars

\* The index is sound: it holds what the last undisturbed rebuild read, and the scores of a
\* contest decode.
IndexIsSound == TypeOK /\ IndexIsWhatWasRead /\ ContestScoreDecodes
=============================================================================
