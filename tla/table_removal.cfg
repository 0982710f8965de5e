SPECIFICATION Spec
CONSTANTS
    NULL = NULL
    Keys <- MCKeys
    Data = {x, y}
    Hash <- MCHash
    InitialCapacity = 4
    MaxCount = 10
PROPERTY
    RemovesOne
