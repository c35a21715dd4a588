SPECIFICATION FairSpec
CONSTANTS
    Slots = {s1, s2}
    Langs = {en}
    Parts = 2
    Loadable = {"none", "nemo", "pyannote"}
    ForceAlign = TRUE
    NoSlot = NoSlot
INVARIANTS
    TypeOK
    ScratchTracked
    LocksMatch
    AlignLoadedOnce
PROPERTIES
    ProgressForward
    CallEnds
