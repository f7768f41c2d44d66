SPECIFICATION FileSpec
CONSTANTS
    MaxProjects = 2
    MaxTasks = 3
    MaxCount = 3
    AllocFails = FALSE
    Texts = {t1, t2, t3, t4}
    Blank = blank
    Noise = noise
    ChunkLimit = 3
    SizeCuts = {2}
SYMMETRY AlikeTexts
CHECK_DEADLOCK FALSE
INVARIANTS
    RoundTrip
    PrefixReadsInPlace
PROPERTIES
    LoadRebuilds
    LoadedAreListed
    ImplementsSavedBook
