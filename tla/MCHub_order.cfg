\* Two connections of one replica, two calls, buffers of one.
CONSTANTS
    r1 = r1
    r2 = r2
    c1 = c1
    c2 = c2
    Replicas = {r1}
    Clients = {c1, c2}
    Channels = {ch1}
    Calls = {p1, p2}
    Home <- HomeOne
    SendCap = 1
    BroadcastCap = 1
    None = None
SPECIFICATION Spec
SYMMETRY AllSymmetry
CONSTRAINT OrderBound
INVARIANTS
    SameOrder
PROPERTIES
    ImplementsDelivery
CHECK_DEADLOCK FALSE
