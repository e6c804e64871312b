\* Two users, each with two spellings, two messages, two instants.
CONSTANTS
    Users = {u1, u2}
    Spellings = {s1, s2}
    Messages = {m1, m2}
    MaxTime = 1
    MaxIDs = 2
    MaxLost = 1
    None = None
SPECIFICATION Spec
SYMMETRY Symmetry
INVARIANTS
    TypeOK
    NoDangling
    MentionsCountedOnce
    LaterIsUnread
CHECK_DEADLOCK FALSE
