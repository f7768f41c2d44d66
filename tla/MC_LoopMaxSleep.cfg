SPECIFICATION LoopSpec
CONSTANTS
    MaxProjects = 2
    MaxTasks = 2
    MaxCount = 3
    AllocFails = FALSE
    DefaultSleep = 1
    MaxSleep = 3
    MaxScript = 2
    Scripts <- ShortScripts
    EventFiles <- SomeFiles
CHECK_DEADLOCK FALSE
PROPERTIES
    SleepsMoreUntilMax
