CONSTANTS
    c1 = c1
    c2 = c2
    Constraints = {c1, c2}
    Values <- MCValues
    Holds <- MCHolds
    InputFormulas <- InformedTypes
    MaxScopes = 2
    RemoveMarkers = FALSE
    End = End
    Dangling = Dangling
SPECIFICATION Spec
PROPERTY ResetEmptiesStore
