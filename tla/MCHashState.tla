------------------------------ MODULE MCHashState ------------------------------
EXTENDS HashState

CONSTANTS h1, h2, h3, s1, s2

MCHandles == {h1, h2, h3}
MCReals == {s1, s2}

=============================================================================
