SPECIFICATION Spec
CONSTANTS
    e1 = e1
    e2 = e2
    d1 = d1
    d2 = d2
    Events <- TwoEvents
    Direct <- Nobody
    VEvents <- OneVEvent
    LevelOf <- DebugAndError
    Levels = {0}
    Swaps = {}
INVARIANT LinesOwn
CHECK_DEADLOCK FALSE
