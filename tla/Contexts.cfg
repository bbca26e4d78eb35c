CONSTANTS
    Root = request
    Operations = {o1}
    Goroutines = {g1, g2}
    Nil = nil
    MaxSets = 2
SPECIFICATION Spec
SYMMETRY Symmetry
CHECK_DEADLOCK FALSE
INVARIANTS
    TypeOK
    LookupLinearizable
    ShadowingHolds
    StopNotMistaken
    MarksLand
