SPECIFICATION LocalSpec
CONSTANTS
    None = None
    MaxRelationId = 12
    MaxBytes = 1
    FirstLogs <- MCFirstLogs
    Batches <- MCBatches
    ExportViews <- MCExportViews
    MaxEngines = 4
    Elements <- MCElements
    NoElement = NoElement
    MaxRank = 255
    Logs <- MCLogs
    Requests <- MCRequests
INVARIANTS
    SnapshotNeverFails
    AppendKeepsEverything
    NewRelationIdsFresh
    WatermarkMonotonic
    RootDecides
    RecursionIsShallow
    ComponentsExact
    ExportKeepsExecutions
    PopulationFaithful
PROPERTIES
    UsesForest
CHECK_DEADLOCK FALSE
