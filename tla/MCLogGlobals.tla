----------------------------- MODULE MCLogGlobals -----------------------------
(* Model values for threads and zones; two configurations: the test        *)
(* runner repeating SetUp beside logging threads, and setter threads       *)
(* racing InitializeLog.                                                    *)
EXTENDS LogGlobals

CONSTANTS t1, t2, r1, r2, z1, z2

MCSettersNone == {}
MCSettersTwo == {t1, t2}
MCReadersTwo == {r1, r2}
MCReadersOne == {r1}
MCZonesOne == {z1}
MCZonesTwo == {z1, z2}

=============================================================================
