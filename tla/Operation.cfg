CONSTANTS
    e1 = e1
    e2 = e2
    e3 = e3
    n1 = n1
    n2 = n2
    Extension = {e1, e2, e3}
    Order <- ThreeInOrder
    Named <- SharedName
    Nil = nil
    Null = null
    Garbage = garbage
    MaxResults = 2
SPECIFICATION OperationSpec
INVARIANTS
    OperationTypeOK
    FinishPaired
    ContextThreaded
    NothingSwallowed
    ExecutionInputs
    EveryFailureTold
    SpanAgrees
    ExtensionsKept
    RejectionsReadable
    OwnMessage
    PongEchoes
PROPERTIES
    LifeSpec
