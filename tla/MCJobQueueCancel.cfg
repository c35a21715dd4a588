SPECIFICATION Spec
CONSTANTS
    Jobs = {j1}
    LegacyJobs = {}
    Workers = {w1}
    Slots = {s1}
    WorkStages = {"transcribing"}
    MaxRetries = 1
    RetryFloor = 2
    StableIds = TRUE
    MaxFaults = 0
    NoWorker = NoWorker
    Ghost = Ghost
    NoJob = NoJob
PROPERTIES
    CancelledIsFinal
