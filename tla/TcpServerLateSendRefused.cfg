SPECIFICATION FairSpec
CONSTANTS
    p1 = p1
    MaxFrames = 2
    Heads <- HeadsOfTwo
    Pushers <- NoPusher
    Writers <- HeadsOfTwo
    InCap = 1
    OutCap = 1
INVARIANT LateSendRefused
CHECK_DEADLOCK FALSE
