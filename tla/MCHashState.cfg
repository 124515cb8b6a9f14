CONSTANTS
    h1 = h1  h2 = h2  h3 = h3
    s1 = s1  s2 = s2
    Handles <- MCHandles
    Reals <- MCReals
    Bytes = {0, 1}
    MaxCombines = 2

SPECIFICATION Spec

INVARIANTS
    TypeOK
    ErasedCombinesReachRealState
