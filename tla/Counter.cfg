SPECIFICATION Spec
CONSTANTS
    t1 = t1
    t2 = t2
    t3 = t3
    Threads <- ThreeThreads
    Space = 3
    MaxCalls = 7
INVARIANT
    Consecutive
PROPERTY ImplementsTicket
CHECK_DEADLOCK FALSE
