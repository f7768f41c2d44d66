SPECIFICATION Spec
CONSTANTS
    MaxProjects = 2
    MaxTasks = 1
    MaxCount = 1
    AllocFails = FALSE
CHECK_DEADLOCK FALSE
INVARIANT
    ExhaustedOnlyWhenFull
