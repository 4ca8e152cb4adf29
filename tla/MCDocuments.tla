----------------------------- MODULE MCDocuments -----------------------------
EXTENDS Documents, TLC

CONSTANTS r1, r2

Symmetry == Permutations(Reader)
=============================================================================
