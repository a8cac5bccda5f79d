CONSTANTS
    Inputs <- SharedInOr
    Values <- MCValues
    MaxAux = 6
    MaxCommands = 3
    Decls <- MCDecls
    LevelArgs = {1}
    MaxLevels = 1
SPECIFICATION Spec
INVARIANT
    ParsedEquivalent
CHECK_DEADLOCK FALSE
