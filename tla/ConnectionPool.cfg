SPECIFICATION Spec
CONSTANTS
    r1 = r1
    r2 = r2
    None = None
    PoolSize = 2
    MaxStatements = 1
    Requests <- MCRequests
SYMMETRY MCSymmetry
INVARIANTS
    InterruptsOwnOperation
    LockOrder
PROPERTIES
    ContextNeverPoisons
    StoppedNeverSucceeds
