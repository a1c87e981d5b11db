SPECIFICATION FairSpec
CONSTANTS
    Keys = {k1, k2}
    Loaded = {k1}
    Remote = {r1}
    Local = {l1}
    Caching = TRUE
    Lease = 2
    MaxSize = 3
    MaxTime = 2
    MemSize = 8
    MaxReads = 1
CHECK_DEADLOCK FALSE
INVARIANTS Snapshot LeaseCovers
PROPERTY ReadReturns
