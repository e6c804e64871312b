\* One category, one channel with a message and a reader of it, three requests.
CONSTANTS
    Server = Server
    Categories = {c1}
    Channels = {h1}
    Messages = {m1}
    Pointers = {p1}
    channelOf <- InOneChannel
    Requests = {q1, q2, q3}
    Bodies <- SomeBodies
    None = None
SPECIFICATION Spec
SYMMETRY RequestSymmetry
INVARIANTS
    TypeOK
    RowsBelong
    NoLostUpdate
    DeletesAreWhole
    OthersNeverDeadlock
    NeverStuck
CHECK_DEADLOCK FALSE
PROPERTIES
    ImplementsCatalog
