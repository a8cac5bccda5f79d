CONSTANTS
    l1 = l1
    l2 = l2
    n1 = n1
    Formulas <- MCFormulas
    Kinds <- MCKinds
    Kind <- MCKind
    Priorities <- MCPriorities
    Applies <- MCApplies
    RemovableKinds <- OnlyLinear
SPECIFICATION Spec
INVARIANTS
    TypeOK
    UsedBackendsInSync
    BackendsInformed
