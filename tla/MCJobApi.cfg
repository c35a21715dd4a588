SPECIFICATION ApiSpec
CONSTANTS
    Jobs = {j1, j2, j3, j4}
    LegacyJobs = {j4}
    Executors = {x1}
    Clients = {c1, c2}
    k1 = k1
    EmptyKey = EmptyKey
    Keys = {k1, EmptyKey}
    NoKey = NoKey
    NoJob = NoJob
    AutoStartGPU = TRUE
    MaxFaults = 1
    Submissions <- MCSubmissions
INVARIANTS
    TypeOK
    OneJobPerKey
    NoDuplicateWork
    RowsAskedFor
    PromiseKept
PROPERTIES
    EventuallyAcknowledged
