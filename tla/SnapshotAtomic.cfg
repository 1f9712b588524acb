SPECIFICATION Spec
CONSTANTS
    w1 = w1
    w2 = w2
    w3 = w3
    p1 = p1
    p2 = p2
    v1 = v1
    v2 = v2
    a = a
    b = b
    Nil = Nil
    Writers <- MCWriters
    Processes <- MCProcesses
    ProcessOf <- MCProcessOf
    Versions <- MCVersions
    SnapshotLogs <- MCSnapshotLogs
    FileCount = 2
    MaxId = 6
    MaxCalls = 3
    MaxCrashes = 1
SYMMETRY MCSymmetry
INVARIANTS
    PublishedAtomically
CHECK_DEADLOCK FALSE
