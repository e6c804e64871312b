\* The echo through Redis: a connection at each of two replicas, one call.
CONSTANTS
    r1 = r1
    r2 = r2
    c1 = c1
    c2 = c2
    Replicas = {r1, r2}
    Clients = {c1, c2}
    Channels = {ch1}
    Calls = {p1}
    Home <- HomeSplit
    SendCap = 1
    BroadcastCap = 1
    None = None
SPECIFICATION Spec
INVARIANTS
    NoEcho
CHECK_DEADLOCK FALSE
