----------------------------- MODULE AtomicSale -----------------------------
(***************************************************************************)
(* What acceptance promises: a receivable is sold at most once, to one     *)
(* offer, and the sale's evidence - the selection, the frozen snapshot and *)
(* the commission charge - appears with it, in one step, and never changes *)
(* again.  Nothing here says how: no lock, no clock, no other bank.        *)
(***************************************************************************)
CONSTANTS Offer, NoOffer

VARIABLES
  sale,      \* the offer the receivable was sold to, or NoOffer
  evidence   \* what is on record about it, by kind

vars == <<sale, evidence>>

Kind == {"selection", "snapshot", "charge"}

Init == sale = NoOffer /\ evidence = [k \in Kind |-> {}]

Sell(o) ==
  /\ sale = NoOffer
  /\ sale' = o
  /\ evidence' = [k \in Kind |-> {o}]

Next == \E o \in Offer : Sell(o)

Spec == Init /\ [][Next]_vars
=============================================================================
