\* The test runner calls SetUp in three --gtest_repeat iterations while two
\* logging threads run; nobody else sets the time zone.
CONSTANTS
    t1 = t1  t2 = t2  r1 = r1  r2 = r2  z1 = z1  z2 = z2
    NoZone = NoZone
    Setters <- MCSettersNone
    Readers <- MCReadersTwo
    Zones <- MCZonesOne
    LocalZone = z1
    Repeats = 3
    FrameCounts = {64, 0}

SPECIFICATION Spec

INVARIANTS
    TypeOK
    NoFatal
