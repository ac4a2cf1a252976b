------------------------------ MODULE MCHistory ------------------------------
\* History for TLC.
EXTENDS History

CONSTANTS r1, r2

Symmetry == Permutations(Requests)
=============================================================================
