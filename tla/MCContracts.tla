----------------------------- MODULE MCContracts -----------------------------
EXTENDS Contracts, TLC

CONSTANTS w1, w2, s1, b1, b2, c1, c2, c3, d1, d2

Symmetric == Permutations(Worker) \cup Permutations(Bank) \cup Permutations(Mandatory)
               \cup Permutations(Document)
=============================================================================
