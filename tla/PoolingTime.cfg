SPECIFICATION EnhancementSpec
CONSTANTS
    Missing = Missing
    Bins = 3
    Studies <- MCStudies
INVARIANTS
    PoolingFromFirstArrival
CHECK_DEADLOCK FALSE
