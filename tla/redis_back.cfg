SPECIFICATION Spec
CONSTANTS
    Instances = {i1, i2}
    Requests = {r1, r2}
    NoSession = NoSession
    TTL = 2
    MaxTurns = 2
INVARIANT SessionsComeBack
CHECK_DEADLOCK FALSE
