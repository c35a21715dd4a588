SPECIFICATION Spec
CONSTANTS
    Slots = {s1}
    Langs = {en}
    Parts = 1
    Loadable = {"nemo", "pyannote"}
    ForceAlign = TRUE
    NoSlot = NoSlot
PROPERTIES
    StagesAsListed
