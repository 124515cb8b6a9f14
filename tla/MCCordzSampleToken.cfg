CONSTANTS
    i1 = i1
    i2 = i2
    i3 = i3
    s1 = s1
    s2 = s2
    Infos <- MCInfos
    Samplers <- MCSamplers

SPECIFICATION Spec

INVARIANTS
    TypeOK
    SampledInfosStayInspectable
    LoopVisitsStableInfos

\* Each sampling thread runs one loop and every cord is tracked and
\* untracked at most once: the program then ends.
CHECK_DEADLOCK FALSE
