SPECIFICATION FairSpec
CONSTANTS
    Calls = {c1, c2}
INVARIANTS EndedForCause NothingLeft
PROPERTY AnsweredOrOver
CHECK_DEADLOCK FALSE
