CONSTANTS
    Values <- MCValues
    BaseChoices <- MCBaseChoices
    ObjectiveChoices <- Two
    GarbageValues <- MCGarbage
SPECIFICATION Spec
INVARIANTS
    ObjectivesOptimal
