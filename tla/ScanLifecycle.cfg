CONSTANTS
    Logs <- CanonicalLogs
    Requests <- LifecycleRequests
    Clock <- MCClock
    NanosPerMicro = 2
    None = None
    MaxRelationId = 20
    MaxBytes = 1
SPECIFICATION ScanSpec
INVARIANTS
    SummariesMatch
CHECK_DEADLOCK FALSE
