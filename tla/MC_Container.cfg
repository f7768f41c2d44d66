SPECIFICATION Spec
CONSTANTS
    MaxProjects = 3
    MaxTasks = 4
    MaxCount = 5
    AllocFails = TRUE
CONSTRAINT
    DeepAlone
CHECK_DEADLOCK FALSE
INVARIANTS
    TypeOK
    ProjectIdsSound
    ReleaseAccepted
    CounterWithinIds
    ProjectsListed
    TasksListed
PROPERTIES
    NeverConstructedTwice
