SPECIFICATION FairSpec
CONSTANTS
    p1 = p1
    MaxFrames = 2
    Heads <- HeadsOfTwo
    Pushers <- OnePusher
    Writers <- TwoAndPusher
    InCap = 1
    OutCap = 1
INVARIANTS
    InOrderDelivery
    BoundedLoss
    ReleaseAfterReader
    OnlyLateSendPanics
    WireOrder
    IInv
PROPERTIES
    ImplementsPipe
    SessionEnds
    NoSenderStuck
CHECK_DEADLOCK FALSE
