\* Two threads call SetTimeZone with either zone while the test runner's
\* SetUp runs InitializeLog and a logging thread reads the zone.
CONSTANTS
    t1 = t1  t2 = t2  r1 = r1  r2 = r2  z1 = z1  z2 = z2
    NoZone = NoZone
    Setters <- MCSettersTwo
    Readers <- MCReadersOne
    Zones <- MCZonesTwo
    LocalZone = z1
    Repeats = 1
    FrameCounts = {64, 0}

SPECIFICATION Spec

INVARIANTS
    SecondSetTimeZoneIsFatal

PROPERTIES
    TimeZoneSetOnce

\* A FATAL raw log aborts the process: those states have no successor.
CHECK_DEADLOCK FALSE
