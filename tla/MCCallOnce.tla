------------------------------ MODULE MCCallOnce ------------------------------
(* Four threads (ten in the test) as model values.  No symmetry reduction: *)
(* the run checks liveness, which symmetry reduction can make unsound.     *)
EXTENDS CallOnce

CONSTANTS t1, t2, t3, t4

MCThreads == {t1, t2, t3, t4}

=============================================================================
