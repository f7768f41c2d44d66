SPECIFICATION Spec
CONSTANTS
    Ctx = {c1}
    MaxId = 3
    Items = {i1, i2, i3}
    MaxFaults = 0
PROPERTY
    SerializedIdsContinue
