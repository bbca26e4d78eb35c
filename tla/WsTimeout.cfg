CONSTANTS
    Protocols = {"graphql-ws", "graphql-transport-ws"}
    Ids = {i1}
    Tasks = {t1}
    Reader = reader
    Timer = timer
    NoTask = none
    ChanCap = 1
    ConnectTimeout = TRUE
    Keepalive = TRUE
    ParentCancels = TRUE
SPECIFICATION Spec
SYMMETRY Symmetry
INVARIANTS
    TimeoutExcludesAck
    ContextNotRaced
CHECK_DEADLOCK FALSE
