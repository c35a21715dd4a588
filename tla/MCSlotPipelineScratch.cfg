SPECIFICATION Spec
CONSTANTS
    Slots = {s1, s2}
    Langs = {en}
    Parts = 1
    Loadable = {"nemo"}
    ForceAlign = TRUE
    NoSlot = NoSlot
PROPERTIES
    ScratchCleaned
