SPECIFICATION Spec
CHECK_DEADLOCK FALSE
CONSTANTS
    Transcripts <- MCTranscripts
    SpeakerLimits = {0, 2}
    Recordings <- MCRecordings
    Outputs <- MCOutputs
    SpokenWords <- MCSpokenWords
INVARIANTS
    TypeOK
    WordsKept
    SmoothingEnds
    HonorificWhole
    BenchNotAddressed
    FinalLabels
    WindowsCover
    StitchedOnce
    WordsAssigned
PROPERTY
    LabelsApart
