---------------------------- MODULE MCScopedMockLog ----------------------------
(* Two mock objects, constructed at most three times between them.        *)
EXTENDS ScopedMockLog

CONSTANTS m1, m2

MCMocks == {m1, m2}

=============================================================================
