SPECIFICATION Spec
CONSTANTS
    k1 = k1
    k2 = k2
    k3 = k3
    u1 = u1
    n1 = n1
    n2 = n2
    Connectors <- AllConnectors
    Users <- OneUser
    Names <- BothNames
    NameOf <- TwoOnFirst
INVARIANTS
    NilSessionNeedsFailedDial
    ConnectionsKept
