\* Four messages, pages of one or two, a clock of three ticks.
CONSTANTS
    Messages = {m1, m2, m3, m4}
    Limits = {1, 2}
    MaxTime = 3
    None = None
SPECIFICATION Spec
SYMMETRY Symmetry
INVARIANTS
    TypeOK
    InOrderOnce
    CompleteButTies
CHECK_DEADLOCK FALSE
