SPECIFICATION Spec
CONSTANTS
    e1 = e1
    e2 = e2
    d1 = d1
    d2 = d2
    Events <- TwoEvents
    Direct <- TwoDirect
    VEvents <- OneVEvent
    LevelOf <- DebugAndError
    Levels = {0, 2}
    Swaps = {TRUE, FALSE}
INVARIANTS
    OwnWhenAlone
    OwnWithoutSharing
    SafeOnceReplaced
    EventsEnd
SYMMETRY DirectSymmetry
CHECK_DEADLOCK FALSE
