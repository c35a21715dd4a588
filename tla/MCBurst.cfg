SPECIFICATION FairSpec
CONSTANTS
    Jobs = {j1, j2}
    Slots = {1}
    Threshold = 1
    MaxRetries = 1
    MaxAsking = 1
    MaxFaults = 1
    Split = {"burst"}
    NoJob = NoJob
INVARIANTS
    BurstTypeOK
    StrandedUnseen
PROPERTIES
    RunningSpared
    EveryJobDone
    BurstComes
    BurstGoes
CHECK_DEADLOCK FALSE
