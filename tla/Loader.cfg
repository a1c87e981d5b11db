SPECIFICATION Spec
CONSTANTS
    NumServers = 2
    NumEngines = 3
    Files <- MCFiles
    BufSize = 1
    PieceSize = 8
INVARIANTS FlushesDisjoint OutEdgesExact InEdgesComplete
