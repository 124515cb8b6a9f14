CONSTANTS
    m1 = m1
    m2 = m2
    Mocks <- MCMocks
    MaxConstructions = 3

SPECIFICATION Spec

INVARIANTS
    SinkRegisteredIffCapturing
    MisuseCaughtByRawCheck

\* A failed RAW_CHECK or FATAL aborts the process: no successor.
CHECK_DEADLOCK FALSE
