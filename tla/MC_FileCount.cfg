SPECIFICATION FileSpec
CONSTANTS
    MaxProjects = 3
    MaxTasks = 1
    MaxCount = 1
    AllocFails = FALSE
    Texts = {t1, t2, t3}
    Blank = blank
    Noise = noise
    ChunkLimit = 3
    SizeCuts = {2}
SYMMETRY AlikeTexts
CHECK_DEADLOCK FALSE
PROPERTIES
    CountIsNodes
