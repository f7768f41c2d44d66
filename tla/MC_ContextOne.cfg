SPECIFICATION FairSpec
CONSTANTS
    Ctx = {c1}
    MaxId = 3
    Items = {i1, i2, i3}
    MaxFaults = 2
INVARIANTS
    WriteThrough
    NoOrphanTask
    AnnouncedOnce
PROPERTIES
    StaysInSync
    UpdateDeletesWhatItAnnounces
    ImplementsTaskBook
    DueTaskLeaves
