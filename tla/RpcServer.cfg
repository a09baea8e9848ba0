SPECIFICATION FairSpec
CONSTANTS
    c1 = c1
    c2 = c2
    c3 = c3
    r1 = r1
    s1 = s1
    s2 = s2
    Conns <- ThreeConns
    Requests <- OneRequest
    From <- OnFirst
    Services <- TwoServices
    FdSpace = 2
INVARIANTS
    ReplyToAsker
    MapFaultTakesTwo
    ServerInv
PROPERTY Answered
CHECK_DEADLOCK FALSE
