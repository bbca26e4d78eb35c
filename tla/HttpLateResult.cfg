CONSTANTS
    HookSets <- ResultHooks
    MaxResults = 2
SPECIFICATION Spec
INVARIANTS
    ResultBeforeDone
