CONSTANTS
    BlockSize = 2
    MaxCopySize = 5
    Alignments = {0, 1}
    TestSizes = {0, 1, 2, 3, 4, 5}
    Bytes = {7, 200}
    InitialCrcs <- MCInitialCrcs
    TestParams <- MCTestParams

SPECIFICATION Spec

INVARIANTS
    TypeOK
    ChecksumTracksCopiedPrefix

PROPERTIES
    ComputeMeetsContract
    ComputeReturns

CHECK_DEADLOCK FALSE
