SPECIFICATION FairSpec
CONSTANTS
    Instances = {i1, i2}
    Requests = {r1, r2}
    NoSession = NoSession
    TTL = 1
    MaxTurns = 2
INVARIANTS TurnsKept OneRecord
PROPERTIES SessionsExpire WorkRunsOut
CHECK_DEADLOCK FALSE
