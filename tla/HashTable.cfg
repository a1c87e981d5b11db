SPECIFICATION Spec
CONSTANTS
    Threads = {t1, t2, t3}
    Keys <- MCKeys
    Called <- MCCalled
    hash <- MCHash
    Loaded <- MCLoaded
    NUM_LOCKS = 2
    ASSOCIATIVITY = 3
    num_buckets = 3
    num_buckets_ext = 2
    MaxCalls = 4
SYMMETRY Symmetry
INVARIANTS UniqueKeys NoLostKey LinkedWhenFull
