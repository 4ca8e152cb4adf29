------------------------------ MODULE MCFunding ------------------------------
EXTENDS Funding, TLC

CONSTANTS w1, w2, i1, i2

Handlers == Permutations(Worker)
=============================================================================
