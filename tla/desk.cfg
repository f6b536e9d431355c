SPECIFICATION Spec
CONSTANTS
    Calls = {c1}
    Services = {cleaning, plumbing}
    LocalCatalog = {cleaning}
    PlatformRefs = {p1, p2, p3}
    OtherId = other
    NoRef = none
    Empty = empty
    MaxClock = 2
    Wrap = 2
    MaxTools = 2
    MaxAttempts = 2
SYMMETRY Symmetry
INVARIANTS CopiesBounded ShortIdFindsNewest BookingIsReported LastAnswerReported DialIsMarked
CHECK_DEADLOCK FALSE
