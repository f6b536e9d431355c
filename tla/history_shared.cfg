SPECIFICATION Spec
CONSTANTS
    Turns = {t1, t2}
    Texts = {"words"}
    Window = 4
    MaxTools = 2
    MaxTurns = 6
SYMMETRY Symmetry
INVARIANTS BlocksWhole HistoryBounded
CHECK_DEADLOCK FALSE
