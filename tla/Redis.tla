------------------------------- MODULE Redis -------------------------------
\* The Redis server that leaderboard-rust and notifications-ruby share.  It keeps its data
\* over a restart (appendonly) and may be out of reach for a while.
EXTENDS Naturals

CONSTANT MaxOutages   \* bound: outages

VARIABLES
    up,        \* commands are answered
    outages    \* bound on the outages

RedisInit == up = TRUE /\ outages = 0

Outage ==
    /\ up /\ outages < MaxOutages
    /\ up' = FALSE /\ outages' = outages + 1

Recover ==
    /\ ~up
    /\ up' = TRUE /\ UNCHANGED outages
=============================================================================
