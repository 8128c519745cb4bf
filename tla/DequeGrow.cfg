CONSTANTS
    h1 = h1
    h2 = h2
    Thieves <- MCThieves
    InitialCap = 1
    NumBuffers = 3
    MaxPush = 3
    NullWindow = TRUE
SPECIFICATION Spec
INVARIANT ThiefHasBuffer
