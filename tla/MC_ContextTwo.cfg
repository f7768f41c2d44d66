SPECIFICATION Spec
CONSTANTS
    Ctx = {c1, c2}
    MaxId = 2
    Items = {i1, i2, i3}
    MaxFaults = 1
SYMMETRY AlikeAll
VIEW ReadState
INVARIANTS
    TypeOK
    PoolsSound
    UpdateFindsTasks
    AnnouncedIsGone
