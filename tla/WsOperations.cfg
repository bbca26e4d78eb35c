CONSTANTS
    Protocols = {"graphql-transport-ws"}
    Ids = {i1, i2}
    Tasks = {t1, t2}
    Reader = reader
    Timer = timer
    NoTask = none
    ChanCap = 1
    ConnectTimeout = FALSE
    Keepalive = FALSE
    ParentCancels = FALSE
SPECIFICATION Spec
SYMMETRY Symmetry
INVARIANTS
    TypeOK
    TableConsistent
    AckFirst
    StopBeforeCancel
    NoSendOnClosed
    HandlerReturnsLast
PROPERTIES
    StreamSpec
