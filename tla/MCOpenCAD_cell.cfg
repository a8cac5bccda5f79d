CONSTANTS
    Points <- MCPoints
    Polys <- MCPolys
    MaxPolys = 3
    Window <- MCWindow
SPECIFICATION Spec
INVARIANTS
    CellIsClosestRoots
    CellSignInvariant
CHECK_DEADLOCK FALSE
