CONSTANTS
    Digits <- MCDigits
    Words <- MCWords
    Nodes <- MCNodes
SPECIFICATION FairSpec
INVARIANT
    ReplacementsDiffer
PROPERTY
    ReductionTerminates
CHECK_DEADLOCK FALSE
