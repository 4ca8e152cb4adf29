--------------------------- MODULE MCMarketplace ---------------------------
EXTENDS Marketplace, TLC

CONSTANTS b1, b2, w1, w2

Slot(r, b, n) == [round |-> r, bank |-> b, row |-> n]

(* Two banks compete in the first round; one comes back for the second.    *)
TwoBanks == {Slot(1, b1, 1), Slot(1, b2, 1), Slot(2, b1, 1)}

(* One bank revises its offer in the first round and returns.              *)
OneBank == {Slot(1, b1, 1), Slot(1, b1, 2)}

Handlers == Permutations(Worker)
=============================================================================
