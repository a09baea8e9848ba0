SPECIFICATION FairSpec
CONSTANTS
    c1 = c1
    c2 = c2
    c3 = c3
    Callers <- ThreeCallers
    Sends <- OneSends
    Empty <- OneEmpty
    IdSpace = 3
    MaxBeats = 1
INVARIANTS
    OwnAnswer
    WaiterReachable
    StuckOnlyAfterTimeout
    WaitRetPanicsNeedClose
PROPERTIES
    ImplementsCalls
    AnsweredIsReleased
    CloseEndsCalls
CHECK_DEADLOCK FALSE
