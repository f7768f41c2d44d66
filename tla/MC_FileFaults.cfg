SPECIFICATION FileSpec
CONSTANTS
    MaxProjects = 3
    MaxTasks = 2
    MaxCount = 3
    AllocFails = TRUE
    Texts = {t1, t2, t3, t4}
    Blank = blank
    Noise = noise
    ChunkLimit = 3
    SizeCuts = {2}
SYMMETRY AlikeTexts
CHECK_DEADLOCK FALSE
INVARIANTS
    FileTypeOK
PROPERTIES
    TasksUnderTheirProject
    ImplementsSavedBook
