SPECIFICATION Spec
CONSTANTS
    T1 = T1
    T2 = T2
    Threads = {T1, T2}
    LowBound = 0
    DividingLine = 2
    UpBound = 3
    HeapBlocks = 2
    Plans <- SmallOrAlone
CHECK_DEADLOCK FALSE
INVARIANTS Disjoint NoLeak Coalesced
