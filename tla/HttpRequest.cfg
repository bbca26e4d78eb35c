CONSTANTS
    HookSets <- AllHookSets
    MaxResults = 3
SPECIFICATION FairSpec
INVARIANTS
    TypeOK
    ErrorIsWholeBody
    ErrorsAreTold
    ResultsInOrder
    CallbacksPaired
PROPERTIES
    HandlerReturns
