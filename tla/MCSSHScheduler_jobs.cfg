CONSTANTS
    t1 = t1
    t2 = t2
    t3 = t3
    Threads <- MCThreads
    JobsPerThread = 2
    NodeSpecs <- TwoNodes
    None = None
    MaxThrows = 1
SPECIFICATION Spec
INVARIANTS
    WithinCores
PROPERTY
    ExecuteJobReturns
