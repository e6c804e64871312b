\* Two joins by an invite for one use.
CONSTANTS
    o = o
    everyoneId = everyoneId
    Users = {o, u1, u2}
    Owner = o
    RoleIds = {everyoneId}
    Everyone = everyoneId
    Codes = {k}
    Limits = {1}
    Grants <- ManageOrAll
    Joins = {j1, j2}
    Requests = {q1}
    NoLimit = NoLimit
    None = None
SPECIFICATION Spec
SYMMETRY GuildSymmetry
INVARIANTS
    MaxUsesRespected
CHECK_DEADLOCK FALSE
