SPECIFICATION AnalysesSpec
CONSTANTS
    None = None
    Nothing = Nothing
    Logs <- MCLogs
    Requests <- MCRequests
    Clock <- MCClock
    NanosPerMicro = 2
    MaxRelationId = 20
    MaxBytes = 1
    Inputs <- MCInputs
    Strings = {1, 2}
    PScale = 12
    PValues = {0, 4, 6}
    MaxDepth = 3
    NoType = NoType
    Tasks <- MCTasks
    MaxAlphaCandidates = 6
    MaxCutDepth = 2
    NoValue = NoValue
    MaxOrder = 3
    Jobs <- MCJobs
    Missing = Missing
    Bins = 3
    Studies <- MCStudies
INVARIANTS
    ScanFindsExecutions
    SummaryCountsExecutions
    ObservationsExact
    PairsInOrder
    WaitsExplained
    MeasurementsExact
    DiscoveredModelFits
    AlignmentOptimal
    DiscoveryFaithful
    PredictionSound
    MeasuresAddUp
CHECK_DEADLOCK FALSE
