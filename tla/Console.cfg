SPECIFICATION FairSpec
CONSTANTS
    NumServers = 2
    NumProxies = 2
    NoFile = {1}
    MaxCmds = 2
INVARIANTS LeadBounded ConfigAlone SameCommands MergedRound
PROPERTY Quits
CHECK_DEADLOCK FALSE
