SPECIFICATION HostSpec
CONSTANTS
    w1 = w1
    w2 = w2
    p1 = p1
    p2 = p2
    v1 = v1
    v2 = v2
    a = a
    b = b
    r1 = r1
    Nil = Nil
    Writers <- MCWriters
    Processes <- MCProcesses
    ProcessOf <- MCProcessOf
    Versions <- MCVersions
    SnapshotLogs <- MCSnapshotLogs
    FileCount = 2
    MaxId = 4
    MaxCalls = 2
    MaxCrashes = 1
    Openers <- MCOpeners
    PoolSize = 2
    MaxOpens = 1
    MaxDamage = 1
    Threads = {t1, t2, t3}
    Keys <- MCKeys
    Size <- MCSize
    Limit = 5
    Absent = Absent
    WindowLogs <- MCWindowLogs
    NWindows = 2
    MaxCount = 6
    MaxDuration = 4
    MaxOrdinal = 4
    Base = 3
    IdBytes = 1
    HeaderBytes = 0
    StampBytes = 1
    NoContent = NoContent
    PayloadBits = 2
    Width = 5
    InvalidText = {6}
    Capsules <- MCCapsules
SYMMETRY MCSymmetry
INVARIANTS
    PoolPinned
    StrictRefusesDamage
    OpenIsFresh
    OpenFailsOnlyOnMove
    CacheConsistent
    SummaryExact
    RefusedForCause
    CapsuleExact
PROPERTIES
    EvictsLeastRecent
CHECK_DEADLOCK FALSE
