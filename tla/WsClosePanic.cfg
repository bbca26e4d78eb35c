CONSTANTS
    Protocols = {"graphql-ws", "graphql-transport-ws"}
    Ids = {i1}
    Tasks = {t1}
    Reader = reader
    Timer = timer
    NoTask = none
    ChanCap = 1
    ConnectTimeout = TRUE
    Keepalive = FALSE
    ParentCancels = FALSE
SPECIFICATION Spec
SYMMETRY Symmetry
INVARIANTS
    NoSendOnClosed
CHECK_DEADLOCK FALSE
