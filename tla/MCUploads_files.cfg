\* Three uploads to a message, a pack and a server.
CONSTANTS
    message = message
    pack = pack
    guild = guild
    Owners = {message, pack, guild}
    Uploads = {u1, u2, u3}
    Kind <- KindOf
    Names = {a, b}
    MaxSecond = 1
    None = None
SPECIFICATION Spec
SYMMETRY Symmetry
INVARIANTS
    TypeOK
    RowsServed
PROPERTIES
    FilesSettle
CHECK_DEADLOCK FALSE
