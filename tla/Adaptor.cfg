SPECIFICATION Spec
CONSTANTS
    NumServers = 2
    sid = 0
    WordSz = 2
    RbfSz = 12
    Sizes = {1, 4, 5}
INVARIANT Placed
PROPERTIES FetchedExact Served
