\* Two uploads to one message.
CONSTANTS
    message = message
    pack = pack
    guild = guild
    Owners = {message}
    Uploads = {u1, u2}
    Kind <- KindOf
    Names = {a}
    MaxSecond = 1
    None = None
SPECIFICATION Spec
SYMMETRY Symmetry
INVARIANTS
    UniquePaths
CHECK_DEADLOCK FALSE
