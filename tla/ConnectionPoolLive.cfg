SPECIFICATION FairSpec
CONSTANTS
    r1 = r1
    r2 = r2
    None = None
    PoolSize = 1
    MaxStatements = 1
    Requests <- MCRequests
PROPERTIES
    StoppedReturns
