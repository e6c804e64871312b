\* Two clients that want the same name, and perhaps the same email; two requests
\* of each at a time, two faults; what a client wants may never be accepted.
CONSTANTS
    Clients = {c1, c2}
    Names = {n1}
    Emails = {e1, e2}
    Slots = {s1, s2}
    MaxFaults = 2
    None = None
SPECIFICATION FairSpec
INVARIANTS
    TypeOK
    OneAccountEach
    TokenIsOwn
PROPERTIES
    Enters
