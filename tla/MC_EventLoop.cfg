SPECIFICATION LoopSpec
CONSTANTS
    MaxProjects = 2
    MaxTasks = 2
    MaxCount = 4
    AllocFails = TRUE
    DefaultSleep = 1
    MaxSleep = 4
    MaxScript = 4
    Scripts <- ShortScripts
    EventFiles <- SomeFiles
CHECK_DEADLOCK FALSE
INVARIANTS
    LoopTypeOK
PROPERTIES
    MaxEventAfterIdleRun
    MaxSleepRecurs
    ElapsedRecurs
    KillEnds
