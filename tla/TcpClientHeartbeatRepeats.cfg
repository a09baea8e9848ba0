SPECIFICATION FairSpec
CONSTANTS
    c1 = c1
    a1 = a1
    MaxBeats = 2
    MaxSends = 2
    Callers <- NoCaller
    Writers <- BeatsOfTwo
    Heads <- BeatsOfTwo
    Apps <- NoApp
    InCap = 1
    OutCap = 1
PROPERTY HeartbeatRepeats
CHECK_DEADLOCK FALSE
