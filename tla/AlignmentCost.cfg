SPECIFICATION ModelSpec
CONSTANTS
    NoType = NoType
    Tasks <- MCTasks
    MaxAlphaCandidates = 6
    MaxCutDepth = 2
INVARIANTS
    AlignmentHasUnitCost
CHECK_DEADLOCK FALSE
