CONSTANTS
    x = x
    y = y
    Vars <- MCVars
    VarType <- MCVarType
    Lhss <- MCLhss
    GridHalves <- MCGrid
SPECIFICATION Spec
INVARIANTS
    BoundDirection
    TypeQueriesAgree
CHECK_DEADLOCK FALSE
