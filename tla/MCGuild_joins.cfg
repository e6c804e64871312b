\* Two joins and two other requests, all fair; an invite for one use or for any
\* number.
CONSTANTS
    o = o
    everyoneId = everyoneId
    Users = {o, u1, u2}
    Owner = o
    RoleIds = {everyoneId, x}
    Everyone = everyoneId
    Codes = {k}
    Limits = {1, NoLimit}
    Grants <- ManageOrAll
    Joins = {j1, j2}
    Requests = {q1, q2}
    NoLimit = NoLimit
    None = None
SPECIFICATION FairSpec
INVARIANTS
    TypeOK
    NoOrphans
    OneJoinEach
    UsesExact
PROPERTIES
    ImplementsAdmission
    FullRefuses
    JoinAnswered
    DeleteAnswered
CHECK_DEADLOCK FALSE
