SPECIFICATION Spec
CONSTANTS
    c1 = c1
    a1 = a1
    MaxBeats = 2
    MaxSends = 2
    Callers <- OneCaller
    Writers <- TwoAndCaller
    Heads <- TwoAndCaller
    Apps <- OneApp
    InCap = 1
    OutCap = 1
INVARIANTS
    TypeOK
    StallsOnlyUnanswered
    BacklogFromTimeouts
    HandlerClosedOnce
    PanicsOnlyAfterClose
    ReleasedInOrder
    ClientEnds
CHECK_DEADLOCK FALSE
