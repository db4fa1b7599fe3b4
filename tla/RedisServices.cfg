SPECIFICATION OneSpec
CONSTANTS
    Users = {1, 2}
    MaxScore = 1
    Writers = {w1, w2}
    Messages = {m1, m2}
    Scale = 3
    MaxPoints = 1
    MaxChanges = 1
    MaxOutages = 1
    MaxExits = 1
    MaxBreaks = 2
INVARIANTS
    RedisDataIsSound
PROPERTIES
    RankIsTrueUnlessCut
    QueueDrains
CHECK_DEADLOCK FALSE
