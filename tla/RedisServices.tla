---------------------------- MODULE RedisServices ----------------------------
(***************************************************************************)
(* leaderboard-rust and notifications-ruby on one Redis.  They use         *)
(* different keys and have only the outages in common.                     *)
(***************************************************************************)
CONSTANTS
    MaxOutages,
    Users, MaxScore, Writers, Scale, MaxPoints, MaxChanges,    \* of LeaderboardIndex
    Messages, MaxExits, MaxBreaks                              \* of NotificationQueue

VARIABLES
    up, outages,
    table, changes, zset, writer, reader, torn, lastRows,
    request, outbound, held, mustBury, alive, delivered, dlq, losses, exits, breaks,
    pushed, repeated

board == <<table, changes, zset, writer, reader, torn, lastRows>>
mail == <<request, outbound, held, mustBury, alive, delivered, dlq, losses, exits, breaks,
          pushed, repeated>>
redisVars == <<up, outages, board, mail>>

Board == INSTANCE LeaderboardIndex
Mail == INSTANCE NotificationQueue

ASSUME RedisAssumption == Board!LeaderboardConstants /\ Mail!QueueConstants

\* Both at once.
RedisInit == Board!Init /\ Mail!Init
RedisNext ==
    \/ Board!Next /\ UNCHANGED mail
    \/ Mail!Next /\ UNCHANGED board
RedisSpec == RedisInit /\ [][RedisNext]_redisVars

-----------------------------------------------------------------------------
(* Properties *)

\* Both services keep sound data: IndexIsSound and QueueIsSound of their modules.
RedisDataIsSound == Board!IndexIsSound /\ Mail!QueueIsSound

\* RankIsTrueUnlessCut of LeaderboardIndex, QueueDrains of NotificationQueue.
RankIsTrueUnlessCut == Board!RankIsTrueUnlessCut
QueueDrains == Mail!QueueDrains

-----------------------------------------------------------------------------
VARIABLE service    \* the service that runs, in what TLC checks: one at a time

OneInit ==
    /\ RedisInit
    /\ \/ service = "leaderboard"
       \/ service = "notifications" /\ table = Board!Empty

BoardStep == service = "leaderboard" /\ Board!Next /\ UNCHANGED <<service, mail>>
MailStep(A) == service = "notifications" /\ A /\ UNCHANGED <<service, board>>

\* The fairness is that of NotificationQueue.
OneSpec ==
    /\ OneInit
    /\ [][BoardStep \/ MailStep(Mail!Next)]_<<redisVars, service>>
    /\ WF_redisVars(MailStep(Mail!Recover /\ UNCHANGED mail))
    /\ WF_redisVars(MailStep(Mail!WorkerStep \/ Mail!Restart))
=============================================================================
