\* Three requests about one message, at the replica of the viewer and at another.
CONSTANTS
    Requests = {q1, q2, q3}
    Messages = {m1}
    Replicas = {r1, r2}
    Home = r1
    Viewer = Viewer
    Channel = Channel
    None = None
SPECIFICATION Spec
SYMMETRY Symmetry
CONSTRAINT SubscribedFirst
INVARIANTS
    TypeOK
    ViewAgrees
CHECK_DEADLOCK FALSE
