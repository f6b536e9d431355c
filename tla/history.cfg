SPECIFICATION Spec
CONSTANTS
    Turns = {t1}
    Texts = {"words"}
    Window = 8
    MaxTools = 4
    MaxTurns = 15
SYMMETRY Symmetry
INVARIANTS ModelHearsHistory RefusedOnlyForOrphans RefusalsEnd
CHECK_DEADLOCK FALSE
