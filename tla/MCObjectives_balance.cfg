CONSTANTS
    Values <- MCValues
    BaseChoices <- MCBaseChoices
    ObjectiveChoices <- UpToTwo
    GarbageValues <- MCGarbage
SPECIFICATION FairSpec
INVARIANTS
    TypeOK
    StoreRestoredAfterCheck
    SingleObjectiveOptimal
PROPERTY
    CheckReturns
