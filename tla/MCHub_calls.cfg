\* One replica, one connection, two calls, buffers of one, every goroutine fair.
CONSTANTS
    r1 = r1
    r2 = r2
    c1 = c1
    c2 = c2
    Replicas = {r1}
    Clients = {c1}
    Channels = {ch1}
    Calls = {p1, p2}
    Home <- HomeOne
    SendCap = 1
    BroadcastCap = 1
    None = None
SPECIFICATION FairSpec
VIEW NoHistory
INVARIANTS
    TypeOK
    NoPanic
    NoLeak
    LossEvicts
PROPERTIES
    PublishReturns
    TearDownCompletes
    SubscribersServed
CHECK_DEADLOCK FALSE
