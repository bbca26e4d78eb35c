CONSTANTS
    e1 = e1
    e2 = e2
    e3 = e3
    n1 = n1
    n2 = n2
    Extension = {e1, e2, e3}
    Order <- ThreeInOrder
    Named <- SharedName
SPECIFICATION Spec
INVARIANTS
    FlagIsOperations
