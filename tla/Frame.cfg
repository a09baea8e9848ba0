SPECIFICATION Spec
CONSTANTS
    Base = 2
    DTypes = {0, 1}
    Bodies <- BodiesAround
    MaxSent = 2
INVARIANTS
    PrefixDelivered
    NothingLost
CHECK_DEADLOCK FALSE
