SPECIFICATION FairSpec
CONSTANTS
    Jobs = {j1}
    LegacyJobs = {j1}
    Workers = {w1, w2}
    Slots = {s1}
    WorkStages = {"transcribing"}
    MaxRetries = 1
    RetryFloor = 1
    StableIds = FALSE
    MaxFaults = 1
    NoWorker = NoWorker
    Ghost = Ghost
    NoJob = NoJob
PROPERTY
    EventuallySettled
