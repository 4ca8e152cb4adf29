---------------------------- MODULE MCSubmission ----------------------------
EXTENDS Submission, TLC

CONSTANTS t1, t2, b1, i1, i2, h1, h2

Symmetry == Permutations({t1, t2}) \cup Permutations({i1, i2}) \cup Permutations({h1, h2})
=============================================================================
