CONSTANTS
    placeholder = placeholder
    Reserved = placeholder
    Contents <- MCContents
    UVars = {1, 2}
    MaxEqualities = 3
SPECIFICATION Spec
INVARIANT
    UILessAssertionsHold
