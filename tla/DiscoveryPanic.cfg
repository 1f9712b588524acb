SPECIFICATION ModelSpec
CONSTANTS
    NoType = NoType
    Tasks <- MCTasks
    MaxAlphaCandidates = 6
    MaxCutDepth = 2
INVARIANTS
    DiscoveryReturns
CHECK_DEADLOCK FALSE
