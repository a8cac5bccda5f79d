CONSTANTS
    Inputs <- Positive
    Values <- MCValues
    MaxAux = 4
    MaxCommands = 2
    Decls <- MCDecls
    LevelArgs = {1, 2}
    MaxLevels = 2
SPECIFICATION Spec
INVARIANTS
    TypeOK
    ParsedEquivalent
CHECK_DEADLOCK FALSE
