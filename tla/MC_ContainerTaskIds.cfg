SPECIFICATION Spec
CONSTANTS
    MaxProjects = 1
    MaxTasks = 4
    MaxCount = 2
    AllocFails = FALSE
CHECK_DEADLOCK FALSE
INVARIANT
    TaskIdsUnique
