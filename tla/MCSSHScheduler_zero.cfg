CONSTANTS
    t1 = t1
    t2 = t2
    t3 = t3
    Threads <- MCThreads
    JobsPerThread = 2
    NodeSpecs <- ZeroCores
    None = None
    MaxThrows = 0
SPECIFICATION Spec
PROPERTY
    ExecuteJobReturns
CHECK_DEADLOCK FALSE
