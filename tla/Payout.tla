------------------------------- MODULE Payout -------------------------------
(***************************************************************************)
(* What paying a supplier promises: the money moves once, under one key,   *)
(* and the distribution journal, the payout journal and the finalized      *)
(* commission follow it, together, once, and never before it.              *)
(***************************************************************************)
EXTENDS Naturals

CONSTANT Key   \* idempotency keys the rail can be given

VARIABLES
  transfers,   \* keys under which the rail has moved the money
  record       \* times each piece of the platform's record was made

vars == <<transfers, record>>

Piece == {"distribution", "payout", "commission"}

Init ==
  /\ transfers = {}
  /\ record = [p \in Piece |-> 0]

Pay(k) ==
  /\ transfers = {}
  /\ transfers' = {k}
  /\ UNCHANGED record

Book ==
  /\ transfers # {}
  /\ record = [p \in Piece |-> 0]
  /\ record' = [p \in Piece |-> 1]
  /\ UNCHANGED transfers

Next == (\E k \in Key : Pay(k)) \/ Book

Spec == Init /\ [][Next]_vars
=============================================================================
