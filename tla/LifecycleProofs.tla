--------------------------- MODULE LifecycleProofs ---------------------------
(***************************************************************************)
(* Proofs about Lifecycle, for any number of cases, claims and schedulers, *)
(* any amounts and any due date.                                           *)
(***************************************************************************)
EXTENDS Lifecycle, TLAPS

(***************************************************************************)
(* What the whitelist says of the moves the handlers ask it.               *)
(***************************************************************************)
Disputable == {"FUNDED", "PARTIALLY_PAID", "PAID", "OVERDUE_UNCONFIRMED", "OVERDUE",
               "RECOURSE_ACTIVE"}
Freezable == {"AUTOMATED_CHECKS", "UNDER_REVIEW", "FUNDED", "OVERDUE_UNCONFIRMED",
              "PARTIALLY_PAID"}

LEMMA ToDisputed ==
  ASSUME NEW s \in State, CanTransition(s, "DISPUTED")
  PROVE  s \in Disputable
  BY DEF CanTransition, Moves, State, PreMarket, Deal, AfterFunding, Ended, Disputable

LEMMA ToFraudReview ==
  ASSUME NEW s \in State, CanTransition(s, "FRAUD_REVIEW")
  PROVE  s \in Freezable
  BY DEF CanTransition, Moves, State, PreMarket, Deal, AfterFunding, Ended, Freezable

LEMMA FromDisputed == Moves("DISPUTED") = Disputable \cup {"CLOSED"}
  BY DEF Moves, Disputable, AfterFunding

LEMMA FromFraudReview == Moves("FRAUD_REVIEW") = {"ELIGIBLE", "REJECTED", "FUNDED", "CLOSED"}
  BY DEF Moves

LEMMA FromClosed == Moves("CLOSED") = {}
  BY DEF Moves

LEMMA MovesAreStates == ASSUME NEW s \in State PROVE Moves(s) \subseteq State
  BY DEF Moves, State, PreMarket, Deal, AfterFunding, Ended

LEMMA ProgressionsAreStatuses ==
  ASSUME NEW s \in ClaimStatus
  PROVE  /\ Progressions(s) \subseteq ClaimStatus \ {"NONE"}
         /\ Progressions("NONE") = {} /\ Progressions("SETTLED") = {}
  BY DEF Progressions, ClaimStatus
USE DEF cases, money, watch

(***************************************************************************)
(* Types.                                                                  *)
(***************************************************************************)
LEMMA PassShape ==
  ASSUME TypeOK, NEW s \in Sweeper
  PROVE  /\ sweep[s] # Resting => sweep[s].on \in 0..LastDay
         /\ sweep[s].op = "send" => sweep[s].threshold \in Threshold
  <1>1. sweep[s] \in Pass
    BY DEF TypeOK
  <1> QED  BY <1>1 DEF Pass, Resting

LEMMA SweepType ==
  ASSUME TypeOK, NEW s \in Sweeper, NEW step \in Pass, SweepTo(s, step)
  PROVE  sweep' \in [Sweeper -> Pass]
  BY DEF TypeOK, SweepTo

LEMMA MarkingType ==
  ASSUME TypeOK, NEW s \in Sweeper, sweep[s] # Resting
  PROVE  Marking(s) \in Pass
  BY PassShape DEF Marking, Pass

LEMMA SweepKeepsTypes ==
  ASSUME TypeOK, NEW s \in Sweeper, SweepSteps(s) \/ SweepFail(s)
  PROVE  TypeOK'
  <1>1. CASE SweepRead(s)
    <2>1. [op |-> "remind", on |-> day] \in Pass
      BY DEF Pass, TypeOK
    <2> QED  BY <1>1, <2>1, SweepType DEF SweepRead, TypeOK
  <1>2. CASE RemindRead(s)
    <2>1. sweep[s] # Resting
      BY <1>2 DEF RemindRead, Resting
    <2>2. \A t \in Unsent(s) : [op |-> "send", on |-> sweep[s].on, threshold |-> t] \in Pass
      BY <2>1, PassShape DEF Unsent, Pass
    <2>3. sweep' \in [Sweeper -> Pass]
      BY <1>2, <2>1, <2>2, MarkingType, SweepType DEF RemindRead
    <2> QED  BY <1>2, <2>3 DEF RemindRead, TypeOK
  <1>3. CASE Remind(s)
    <2>1. sweep[s] # Resting /\ sweep[s].threshold \in Threshold
      BY <1>3, PassShape DEF Remind, Resting
    <2>2. sweep' \in [Sweeper -> Pass]
      BY <1>3, <2>1, MarkingType, SweepType DEF Remind
    <2> QED  BY <1>3, <2>1, <2>2 DEF Remind, TypeOK
  <1>4. CASE MarkUnconfirmed(s)
    <2>1. sweep' \in [Sweeper -> Pass]
      BY <1>4, SweepType DEF MarkUnconfirmed, Pass
    <2> QED  BY <1>4, <2>1 DEF MarkUnconfirmed, TypeOK, State, AfterFunding
  <1>5. CASE SweepFail(s)
    <2>1. sweep' \in [Sweeper -> Pass]
      BY <1>5, SweepType DEF SweepFail, Pass
    <2> QED  BY <1>5, <2>1 DEF SweepFail, TypeOK
  <1> QED  BY <1>1, <1>2, <1>3, <1>4, <1>5 DEF SweepSteps

LEMMA BankKeepsTypes ==
  ASSUME TypeOK, RecordPayment \/ ConfirmStatus \/ Close \/ Tick
  PROVE  TypeOK'
  <1>1. CASE RecordPayment
    BY <1>1, MoneyAssumption
       DEF RecordPayment, TypeOK, StateAfterPayment, State, AfterFunding
  <1>2. CASE ConfirmStatus
    BY <1>2 DEF ConfirmStatus, TypeOK, State, AfterFunding
  <1>3. CASE Close
    BY <1>3 DEF Close, TypeOK, State, Ended
  <1>4. CASE Tick
    BY <1>4, DaysAssumption DEF Tick, TypeOK
  <1> QED  BY <1>1, <1>2, <1>3, <1>4

LEMMA DisputesKeepTypes ==
  ASSUME TypeOK, NEW d \in Dispute, OpenDispute(d) \/ ResolveDispute(d)
  PROVE  TypeOK'
  <1>1. CASE OpenDispute(d)
    BY <1>1 DEF OpenDispute, TypeOK, CaseStatus, State, AfterFunding
  <1>2. CASE ResolveDispute(d)
    BY <1>2 DEF ResolveDispute, Restored, TypeOK, CaseStatus, State, AfterFunding
  <1> QED  BY <1>1, <1>2

LEMMA FraudKeepsTypes ==
  ASSUME TypeOK, NEW f \in FraudCase, OpenFraud(f) \/ ClearFraud(f) \/ FindFraud(f)
  PROVE  TypeOK'
  <1>1. CASE OpenFraud(f)
    BY <1>1 DEF OpenFraud, TypeOK, CaseStatus, State
  <1>2. CASE ClearFraud(f)
    BY <1>2 DEF ClearFraud, Unfrozen, TypeOK, CaseStatus, State, AfterFunding
  <1>3. CASE FindFraud(f)
    BY <1>3 DEF FindFraud, TypeOK, CaseStatus, State, Ended
  <1> QED  BY <1>1, <1>2, <1>3
LEMMA ClaimsKeepTypes ==
  ASSUME TypeOK, NEW c \in Claim,
         InitiateRecourse(c) \/ Repay(c) \/ \E s \in ClaimStatus : Progress(c, s)
  PROVE  TypeOK'
  <1>0. claim[c] \in [status : ClaimStatus, requested : Nat, repaid : Nat]
    BY DEF TypeOK
  <1>1. CASE InitiateRecourse(c)
    <2>1. PICK a \in 1..Advance :
            claim' = [claim EXCEPT ![c] = [status |-> "RECOURSE_INITIATED", requested |-> a,
                                           repaid |-> 0]]
      BY <1>1 DEF InitiateRecourse
    <2>2. claim' \in [Claim -> [status : ClaimStatus, requested : Nat, repaid : Nat]]
      BY <2>1, MoneyAssumption DEF TypeOK, ClaimStatus
    <2> QED  BY <1>1, <2>2 DEF InitiateRecourse, TypeOK, State, AfterFunding
  <1>2. CASE Repay(c)
    <2> DEFINE repaid(a) == claim[c].repaid + a
               next(a) == StatusAfterRepayment(claim[c].requested, repaid(a))
    <2>1. PICK a \in Amount :
            /\ claim' = [claim EXCEPT ![c] = [status |-> next(a), requested |-> claim[c].requested,
                                              repaid |-> repaid(a)]]
            /\ state' = Settled(next(a))
      BY <1>2 DEF Repay
    <2>2. next(a) \in ClaimStatus /\ repaid(a) \in Nat
      BY <1>0, <2>1, MoneyAssumption DEF StatusAfterRepayment, ClaimStatus
    <2> HIDE DEF repaid, next
    <2>3. claim' \in [Claim -> [status : ClaimStatus, requested : Nat, repaid : Nat]]
      BY <1>0, <2>1, <2>2 DEF TypeOK
    <2>4. state' \in State
      BY <2>1 DEF Settled, TypeOK, State, Ended
    <2> QED  BY <1>2, <2>3, <2>4 DEF Repay, TypeOK
  <1>3. ASSUME NEW s \in ClaimStatus, Progress(c, s)
        PROVE  TypeOK'
    <2>1. claim' \in [Claim -> [status : ClaimStatus, requested : Nat, repaid : Nat]]
      BY <1>0, <1>3 DEF Progress, TypeOK
    <2>2. state' \in State /\ before' \in [dispute : State, fraud : State]
      BY <1>3 DEF Progress, TypeOK, State, AfterFunding
    <2> QED  BY <1>3, <2>1, <2>2 DEF Progress, TypeOK
  <1> QED  BY <1>1, <1>2, <1>3

LEMMA InitTypes == Init => TypeOK
  <1> SUFFICES ASSUME Init PROVE TypeOK
    OBVIOUS
  <1>1. state \in State /\ funded \in BOOLEAN /\ before \in [dispute : State, fraud : State]
    BY DEF Init, State, PreMarket, AfterFunding
  <1>2. sweep \in [Sweeper -> Pass]
    BY DEF Init, Pass
  <1>3. claim \in [Claim -> [status : ClaimStatus, requested : Nat, repaid : Nat]]
    BY DEF Init, ClaimStatus
  <1>4. reminders \in Seq(Threshold) /\ day \in 0..LastDay
    BY DaysAssumption DEF Init
  <1>5. /\ dispute \in [Dispute -> CaseStatus] /\ fraud \in [FraudCase -> CaseStatus]
        /\ disputed \in [Dispute -> State]
    BY <1>1 DEF Init, CaseStatus
  <1> QED  BY <1>1, <1>2, <1>3, <1>4, <1>5 DEF Init, TypeOK

LEMMA NextTypes == TypeOK /\ [Next]_vars => TypeOK'
  <1> SUFFICES ASSUME TypeOK, [Next]_vars PROVE TypeOK'
    OBVIOUS
  <1>1. CASE UNCHANGED vars
    BY <1>1 DEF vars, TypeOK
  <1>2. CASE Cases
    BY <1>2, DisputesKeepTypes, FraudKeepsTypes, ClaimsKeepTypes DEF Cases
  <1>3. CASE \E s \in Sweeper : SweepSteps(s) \/ SweepFail(s)
    BY <1>3, SweepKeepsTypes
  <1> QED  BY <1>1, <1>2, <1>3, BankKeepsTypes DEF Next

(* Every variable keeps its type, for any number of cases and schedulers.  *)
THEOREM TypeCorrect == Spec => []TypeOK
  BY InitTypes, NextTypes, PTL DEF Spec
(***************************************************************************)
(* What the cases rely on.  A dispute row that is open owns the            *)
(* interruption, so the state it remembered is the one the newest history  *)
(* row holds; two can be open only under a closed transaction.             *)
(***************************************************************************)
Interrupted ==
  /\ state = "DISPUTED" => before.dispute \in Disputable
  /\ \A d \in Dispute : dispute[d] = "OPEN" =>
       /\ state \in {"DISPUTED", "CLOSED"}
       /\ state = "DISPUTED" => disputed[d] = before.dispute
       /\ state = "DISPUTED" => \A e \in Dispute \ {d} : dispute[e] # "OPEN"

Inv == TypeOK /\ Interrupted /\ MoneyAgrees /\ OverdueWasConfirmed /\ ClaimsAccount
         /\ NeverClaimedTwice

(* Steps that leave the state, its interruption and the cases alone.       *)
LEMMA Unmoved ==
  ASSUME Inv,
         UNCHANGED <<state, before, paid, confirmed, dispute, disputed, claim>>
  PROVE  Interrupted' /\ MoneyAgrees' /\ OverdueWasConfirmed' /\ ClaimsAccount'
           /\ NeverClaimedTwice'
  BY DEF Inv, Interrupted, MoneyAgrees, OverdueWasConfirmed, ClaimsAccount, NeverClaimedTwice,
         Underlying

(* A step that moves a transaction between states outside disputes, claims *)
(* and closure: no dispute is open and no claim exists there.              *)
LEMMA Moved ==
  ASSUME Inv, state \in State \ {"DISPUTED", "CLOSED", "RECOURSE_ACTIVE"},
         state' \notin {"DISPUTED", "CLOSED", "RECOURSE_ACTIVE"},
         state' = "OVERDUE" => confirmed', confirmed => confirmed',
         paid' >= Outstanding <=> state' = "PAID",
         UNCHANGED <<dispute, disputed, claim>>
  PROVE  Interrupted' /\ MoneyAgrees' /\ OverdueWasConfirmed' /\ ClaimsAccount'
           /\ NeverClaimedTwice'
  <1>1. \A c \in Claim : claim[c].status = "NONE"
    BY DEF Inv, ClaimsAccount, Underlying
  <1>2. \A d \in Dispute : dispute[d] # "OPEN"
    BY DEF Inv, Interrupted
  <1>3. Underlying' = state'
    BY DEF Underlying
  <1>4. MoneyAgrees' /\ OverdueWasConfirmed'
    BY <1>1, <1>3 DEF MoneyAgrees, OverdueWasConfirmed
  <1>5. ClaimsAccount' /\ NeverClaimedTwice'
    BY <1>1 DEF ClaimsAccount, NeverClaimedTwice
  <1>6. Interrupted'
    BY <1>2 DEF Interrupted
  <1> QED  BY <1>4, <1>5, <1>6

(* A step to CLOSED.                                                       *)
LEMMA Ends ==
  ASSUME Inv, state' = "CLOSED", UNCHANGED <<paid, confirmed>>,
         \A d \in Dispute : dispute'[d] = "OPEN" => dispute[d] = "OPEN",
         claim' = claim
  PROVE  Interrupted' /\ MoneyAgrees' /\ OverdueWasConfirmed' /\ ClaimsAccount'
           /\ NeverClaimedTwice'
  BY DEF Inv, Interrupted, MoneyAgrees, OverdueWasConfirmed, ClaimsAccount, NeverClaimedTwice,
         Underlying

LEMMA BankStep ==
  ASSUME Inv, RecordPayment \/ ConfirmStatus \/ Close \/ Tick
  PROVE  Interrupted' /\ MoneyAgrees' /\ OverdueWasConfirmed' /\ ClaimsAccount'
           /\ NeverClaimedTwice'
  <1>1. CASE RecordPayment
    <2>1. PICK a \in Amount :
            paid' = paid + a /\ state' = StateAfterPayment(paid + a)
      BY <1>1 DEF RecordPayment
    <2>2. paid + a \in Nat
      BY MoneyAssumption DEF Inv, TypeOK
    <2>3. /\ state' \in {"PAID", "PARTIALLY_PAID"}
          /\ paid' >= Outstanding <=> state' = "PAID"
      BY <2>1, <2>2, MoneyAssumption DEF StateAfterPayment, DerivedOutstanding
    <2> QED  BY <1>1, <2>3, Moved DEF RecordPayment, Payable, Inv, TypeOK
  <1>2. CASE ConfirmStatus
    <2>1. PICK status \in {"PAID", "PARTIALLY_PAID", "OVERDUE"} :
            /\ status = "PAID" => DerivedOutstanding(paid) = 0
            /\ state' = status
            /\ confirmed' = (confirmed \/ status = "OVERDUE")
      BY <1>2 DEF ConfirmStatus
    <2>2. state \in State \ {"DISPUTED", "CLOSED", "RECOURSE_ACTIVE", "PAID"}
      BY <1>2 DEF ConfirmStatus, Confirmable, Inv, TypeOK
    <2>3. ~(paid >= Outstanding)
      BY <2>2 DEF Inv, MoneyAgrees, Underlying
    <2>4. paid' >= Outstanding <=> state' = "PAID"
      BY <1>2, <2>1, <2>3, MoneyAssumption DEF ConfirmStatus, DerivedOutstanding, Inv, TypeOK
    <2> QED  BY <1>2, <2>1, <2>2, <2>4, Moved DEF ConfirmStatus
  <1>3. CASE Close
    BY <1>3, Ends DEF Close
  <1>4. CASE Tick
    BY <1>4, Unmoved DEF Tick
  <1> QED  BY <1>1, <1>2, <1>3, <1>4
LEMMA DisputeStep ==
  ASSUME Inv, NEW d \in Dispute, OpenDispute(d) \/ ResolveDispute(d)
  PROVE  Interrupted' /\ MoneyAgrees' /\ OverdueWasConfirmed' /\ ClaimsAccount'
           /\ NeverClaimedTwice'
  <1>1. CASE OpenDispute(d)
    <2>1. state \in Disputable
      BY <1>1, ToDisputed DEF OpenDispute, Inv, TypeOK
    <2>2. Underlying' = Underlying /\ Underlying = state
      BY <1>1, <2>1 DEF OpenDispute, Underlying, Disputable, Inv, TypeOK
    <2>3. \A e \in Dispute : dispute[e] # "OPEN"
      BY <2>1 DEF Inv, Interrupted, Disputable
    <2>4. Interrupted'
      BY <1>1, <2>1, <2>3 DEF OpenDispute, Interrupted, Inv, TypeOK
    <2>5. MoneyAgrees' /\ OverdueWasConfirmed'
      BY <1>1, <2>1, <2>2 DEF OpenDispute, MoneyAgrees, OverdueWasConfirmed, Inv, Disputable
    <2>6. ClaimsAccount' /\ NeverClaimedTwice'
      BY <1>1, <2>1, <2>2 DEF OpenDispute, ClaimsAccount, NeverClaimedTwice, Inv, Disputable
    <2> QED  BY <2>4, <2>5, <2>6
  <1>2. CASE ResolveDispute(d)
    <2>1. CASE state = "DISPUTED"
      <3>1. state' = before.dispute /\ before.dispute \in Disputable
        BY <1>2, <2>1, FromDisputed DEF ResolveDispute, Restored, CanTransition, Inv, Interrupted
      <3>2. Underlying' = Underlying
        BY <2>1, <3>1 DEF Underlying, Disputable
      <3>3. \A e \in Dispute : dispute'[e] # "OPEN"
        BY <1>2, <2>1 DEF ResolveDispute, Inv, Interrupted, TypeOK
      <3>4. Interrupted'
        BY <3>1, <3>3 DEF Interrupted, Disputable
      <3>5. MoneyAgrees' /\ OverdueWasConfirmed'
        BY <1>2, <2>1, <3>2 DEF ResolveDispute, MoneyAgrees, OverdueWasConfirmed, Inv
      <3>6. ClaimsAccount' /\ NeverClaimedTwice'
        BY <1>2, <2>1, <3>2 DEF ResolveDispute, ClaimsAccount, NeverClaimedTwice, Inv
      <3> QED  BY <3>4, <3>5, <3>6
    <2>2. CASE state # "DISPUTED"
      <3>1. state = "CLOSED" /\ state' = "CLOSED"
        BY <1>2, <2>2 DEF ResolveDispute, Restored, Inv, Interrupted
      <3>2. \A e \in Dispute : dispute'[e] = "OPEN" => dispute[e] = "OPEN"
        BY <1>2 DEF ResolveDispute, Inv, TypeOK
      <3> QED  BY <1>2, <3>1, <3>2, Ends DEF ResolveDispute
    <2> QED  BY <2>1, <2>2
  <1> QED  BY <1>1, <1>2

LEMMA FraudStep ==
  ASSUME Inv, NEW f \in FraudCase, OpenFraud(f) \/ ClearFraud(f) \/ FindFraud(f)
  PROVE  Interrupted' /\ MoneyAgrees' /\ OverdueWasConfirmed' /\ ClaimsAccount'
           /\ NeverClaimedTwice'
  <1>1. CASE OpenFraud(f)
    <2>1. state \in Freezable
      BY <1>1, ToFraudReview DEF OpenFraud, Inv, TypeOK
    <2>2. ~(paid >= Outstanding)
      BY <2>1 DEF Inv, MoneyAgrees, Underlying, Freezable
    <2>3. state \in State \ {"DISPUTED", "CLOSED", "RECOURSE_ACTIVE"} /\ state' = "FRAUD_REVIEW"
      BY <1>1, <2>1 DEF OpenFraud, Freezable, Inv, TypeOK
    <2> QED  BY <1>1, <2>2, <2>3, Moved DEF OpenFraud
  <1>2. CASE ClearFraud(f)
    <2>1. CASE state = "FRAUD_REVIEW"
      <3>1. state' \in {"ELIGIBLE", "REJECTED", "FUNDED", "CLOSED"}
        BY <1>2, <2>1, FromFraudReview DEF ClearFraud, Unfrozen, CanTransition
      <3>2. ~(paid >= Outstanding)
        BY <2>1 DEF Inv, MoneyAgrees, Underlying
      <3>3. CASE state' = "CLOSED"
        BY <1>2, <3>3, Ends DEF ClearFraud
      <3>4. CASE state' # "CLOSED"
        BY <1>2, <2>1, <3>1, <3>2, <3>4, Moved DEF ClearFraud, Inv, TypeOK
      <3> QED  BY <3>3, <3>4
    <2>2. CASE state # "FRAUD_REVIEW"
      BY <1>2, <2>2, Unmoved DEF ClearFraud, Unfrozen
    <2> QED  BY <2>1, <2>2
  <1>3. CASE FindFraud(f)
    BY <1>3, Ends DEF FindFraud
  <1> QED  BY <1>1, <1>2, <1>3

LEMMA ClaimStep ==
  ASSUME Inv, NEW c \in Claim,
         InitiateRecourse(c) \/ Repay(c) \/ \E s \in ClaimStatus : Progress(c, s)
  PROVE  Interrupted' /\ MoneyAgrees' /\ OverdueWasConfirmed' /\ ClaimsAccount'
           /\ NeverClaimedTwice'
  <1>0. claim \in [Claim -> [status : ClaimStatus, requested : Nat, repaid : Nat]]
    BY DEF Inv, TypeOK
  <1>1. CASE InitiateRecourse(c)
    <2>1. state = "OVERDUE" /\ state' = "RECOURSE_ACTIVE"
      BY <1>1 DEF InitiateRecourse, Claimable
    <2>2. \A e \in Claim : claim[e].status = "NONE"
      BY <2>1 DEF Inv, ClaimsAccount, Underlying
    <2>3. PICK a \in 1..Advance :
            claim' = [claim EXCEPT ![c] = [status |-> "RECOURSE_INITIATED", requested |-> a,
                                           repaid |-> 0]]
      BY <1>1 DEF InitiateRecourse
    <2>4. \A e \in Claim : claim'[e] = IF e = c THEN [status |-> "RECOURSE_INITIATED",
                                                     requested |-> a, repaid |-> 0]
                                       ELSE claim[e]
      BY <1>0, <2>3
    <2>5. ClaimsAccount'
      BY <2>1, <2>2, <2>4, MoneyAssumption DEF ClaimsAccount, Underlying
    <2>6. NeverClaimedTwice'
      BY <2>2, <2>4 DEF NeverClaimedTwice
    <2>7. MoneyAgrees' /\ OverdueWasConfirmed'
      BY <1>1, <2>1 DEF InitiateRecourse, MoneyAgrees, OverdueWasConfirmed, Underlying, Inv
    <2>8. Interrupted'
      BY <1>1, <2>1 DEF InitiateRecourse, Inv, Interrupted
    <2> QED  BY <2>5, <2>6, <2>7, <2>8
  <1>2. CASE Repay(c)
    <2> DEFINE repaid(a) == claim[c].repaid + a
               next(a) == StatusAfterRepayment(claim[c].requested, repaid(a))
    <2>1. PICK a \in Amount :
            /\ claim' = [claim EXCEPT ![c] = [status |-> next(a), requested |-> claim[c].requested,
                                              repaid |-> repaid(a)]]
            /\ state' = Settled(next(a))
      BY <1>2 DEF Repay
    <2>2. /\ next(a) \in {"SETTLED", "PAYMENT_PENDING"}
          /\ next(a) = "SETTLED" <=> repaid(a) >= claim[c].requested
      BY <1>0, <2>1, MoneyAssumption DEF StatusAfterRepayment, RemainingAfter
    <2>3. claim[c].status \notin {"NONE", "SETTLED"}
      BY <1>2 DEF Repay, Live
    <2>4. \A e \in Claim \ {c} : claim[e].status = "NONE"
      BY <2>3 DEF Inv, NeverClaimedTwice
    <2> HIDE DEF repaid, next
    <2>5. /\ \A e \in Claim \ {c} : claim'[e] = claim[e]
          /\ claim'[c] = [status |-> next(a), requested |-> claim[c].requested,
                           repaid |-> repaid(a)]
      BY <1>0, <2>1
    <2>6. NeverClaimedTwice'
      BY <2>3, <2>4, <2>5 DEF NeverClaimedTwice, Inv
    <2>7. state' \in {"CLOSED", state} /\ (next(a) = "SETTLED" => state' = "CLOSED")
      BY <2>1 DEF Settled
    <2>8. Underlying' \in {"CLOSED", Underlying}
      BY <1>2, <2>7 DEF Repay, Underlying
    <2>9. ClaimsAccount'
      BY <2>2, <2>3, <2>4, <2>5, <2>7, <2>8 DEF ClaimsAccount, Inv
    <2>10. MoneyAgrees' /\ OverdueWasConfirmed'
      BY <1>2, <2>3, <2>7, <2>8 DEF Repay, MoneyAgrees, OverdueWasConfirmed, Underlying, Inv
    <2>11. Interrupted'
      BY <1>2, <2>7 DEF Repay, Inv, Interrupted
    <2> QED  BY <2>6, <2>9, <2>10, <2>11
  <1>3. ASSUME NEW s \in ClaimStatus, Progress(c, s)
        PROVE  Interrupted' /\ MoneyAgrees' /\ OverdueWasConfirmed' /\ ClaimsAccount'
                 /\ NeverClaimedTwice'
    <2>1. claim[c].status \notin {"NONE", "SETTLED"} /\ s # "NONE"
      BY <1>0, <1>3, ProgressionsAreStatuses DEF Progress, CanProgress
    <2>2. s # "SETTLED"
      BY <1>0, <1>3, <2>1 DEF Progress, RemainingAfter, Inv, ClaimsAccount
    <2>3. /\ \A e \in Claim \ {c} : claim'[e] = claim[e]
          /\ claim'[c].status = s
          /\ claim'[c].requested = claim[c].requested /\ claim'[c].repaid = claim[c].repaid
      BY <1>0, <1>3 DEF Progress
    <2>4. \/ UNCHANGED <<state, before>>
          \/ state \in Disputable /\ state' = "DISPUTED" /\ before' = [before EXCEPT !.dispute = state]
      BY <1>3, ToDisputed DEF Progress, Inv, TypeOK
    <2>5. Underlying' = Underlying
      BY <2>4 DEF Underlying, Disputable, Inv, TypeOK
    <2>6. state' = "CLOSED" <=> state = "CLOSED"
      BY <2>4 DEF Disputable
    <2>7. ClaimsAccount'
      BY <2>1, <2>2, <2>3, <2>5, <2>6 DEF ClaimsAccount, Inv
    <2>8. NeverClaimedTwice'
      BY <2>1, <2>3 DEF NeverClaimedTwice, Inv
    <2>9. MoneyAgrees' /\ OverdueWasConfirmed'
      BY <1>3, <2>1, <2>5, <2>6 DEF Progress, MoneyAgrees, OverdueWasConfirmed, Inv
    <2>10. Interrupted'
      BY <1>3, <2>4 DEF Progress, Interrupted, Disputable, Inv, TypeOK
    <2> QED  BY <2>7, <2>8, <2>9, <2>10
  <1> QED  BY <1>1, <1>2, <1>3

LEMMA SweepStep ==
  ASSUME Inv, NEW s \in Sweeper, SweepSteps(s) \/ SweepFail(s)
  PROVE  Interrupted' /\ MoneyAgrees' /\ OverdueWasConfirmed' /\ ClaimsAccount'
           /\ NeverClaimedTwice'
  <1>1. CASE state' = state
    BY <1>1, Unmoved DEF SweepSteps, SweepFail, SweepRead, RemindRead, Remind, MarkUnconfirmed
  <1>2. CASE state' # state
    <2>1. /\ MarkUnconfirmed(s) /\ state' = "OVERDUE_UNCONFIRMED"
          /\ state \in {"FUNDED", "PARTIALLY_PAID"}
      BY <1>2 DEF SweepSteps, SweepFail, SweepRead, RemindRead, Remind, MarkUnconfirmed,
                  StillDue, MaturityAction, Sweepable
    <2>2. ~(paid >= Outstanding)
      BY <2>1 DEF Inv, MoneyAgrees, Underlying
    <2> QED  BY <2>1, <2>2, Moved DEF MarkUnconfirmed, Inv, TypeOK
  <1> QED  BY <1>1, <1>2
LEMMA InitInv == Init => Inv
  BY InitTypes, MoneyAssumption
     DEF Init, Inv, Interrupted, MoneyAgrees, OverdueWasConfirmed, ClaimsAccount,
         NeverClaimedTwice, Underlying

LEMMA NextInv == Inv /\ [Next]_vars => Inv'
  <1> SUFFICES ASSUME Inv, [Next]_vars PROVE Inv'
    OBVIOUS
  <1>1. TypeOK'
    BY NextTypes DEF Inv
  <1>2. Interrupted' /\ MoneyAgrees' /\ OverdueWasConfirmed' /\ ClaimsAccount'
          /\ NeverClaimedTwice'
    <2>1. CASE UNCHANGED vars
      BY <2>1, Unmoved DEF vars
    <2>2. CASE Cases
      BY <2>2, DisputeStep, FraudStep, ClaimStep DEF Cases
    <2>3. CASE \E s \in Sweeper : SweepSteps(s) \/ SweepFail(s)
      BY <2>3, SweepStep
    <2> QED  BY <2>1, <2>2, <2>3, BankStep DEF Next
  <1> QED  BY <1>1, <1>2 DEF Inv

THEOREM InvHolds == Spec => []Inv
  BY InitInv, NextInv, PTL DEF Spec

(* The state and the reported payments never disagree, before closure.     *)
THEOREM MoneyAlwaysAgrees == Spec => []MoneyAgrees
  <1>1. Inv => MoneyAgrees
    BY DEF Inv
  <1> QED  BY <1>1, InvHolds, PTL

(* Only a bank's confirmation leads to OVERDUE and to recourse.            *)
THEOREM OverdueIsConfirmed == Spec => []OverdueWasConfirmed
  <1>1. Inv => OverdueWasConfirmed
    BY DEF Inv
  <1> QED  BY <1>1, InvHolds, PTL

(* At most one claim is ever made, within the advance.                     *)
THEOREM ClaimedOnce == Spec => []NeverClaimedTwice
  <1>1. Inv => NeverClaimedTwice
    BY DEF Inv
  <1> QED  BY <1>1, InvHolds, PTL

(* Settled is repaid, and closes the transaction.                          *)
THEOREM ClaimsAlwaysAccount == Spec => []ClaimsAccount
  <1>1. Inv => ClaimsAccount
    BY DEF Inv
  <1> QED  BY <1>1, InvHolds, PTL

(***************************************************************************)
(* What a step may never do.                                               *)
(***************************************************************************)
LEMMA ClosedStep == TypeOK /\ [Next]_vars => (state = "CLOSED" => state' = "CLOSED")
  <1> SUFFICES ASSUME TypeOK, [Next]_vars, state = "CLOSED" PROVE state' = "CLOSED"
    OBVIOUS
  <1>1. CASE UNCHANGED vars
    BY <1>1 DEF vars
  <1>2. CASE RecordPayment \/ ConfirmStatus \/ Close \/ Tick
    BY <1>2, FromClosed DEF RecordPayment, Payable, ConfirmStatus, Confirmable, Close, Tick
  <1>3. ASSUME NEW d \in Dispute, OpenDispute(d) \/ ResolveDispute(d) PROVE state' = "CLOSED"
    BY <1>3, FromClosed DEF OpenDispute, CanTransition, ResolveDispute, Restored
  <1>4. ASSUME NEW f \in FraudCase, OpenFraud(f) \/ ClearFraud(f) \/ FindFraud(f)
        PROVE  state' = "CLOSED"
    BY <1>4, FromClosed DEF OpenFraud, CanTransition, ClearFraud, Unfrozen, FindFraud
  <1>5. ASSUME NEW c \in Claim,
               InitiateRecourse(c) \/ Repay(c) \/ \E s \in ClaimStatus : Progress(c, s)
        PROVE  state' = "CLOSED"
    BY <1>5, FromClosed DEF InitiateRecourse, Claimable, Repay, Settled, Progress, CanTransition
  <1>6. ASSUME NEW s \in Sweeper, SweepSteps(s) \/ SweepFail(s) PROVE state' = "CLOSED"
    BY <1>6 DEF SweepSteps, SweepRead, RemindRead, Remind, MarkUnconfirmed, SweepFail,
                StillDue, MaturityAction, Sweepable
  <1> QED  BY <1>1, <1>2, <1>3, <1>4, <1>5, <1>6 DEF Next, Cases

(* A closed transaction stays closed, whatever handler was under way.      *)
THEOREM ClosedStaysClosed == Spec => ClosedIsFinal
  BY TypeCorrect, ClosedStep, PTL DEF Spec, ClosedIsFinal

LEMMA ListedStep ==
  TypeOK /\ [Next]_vars => (state' # state => CanTransition(state, state'))
  <1> SUFFICES ASSUME TypeOK, Next, state' # state
               PROVE  CanTransition(state, state')
    BY DEF vars
  <1>1. CASE RecordPayment
    BY <1>1 DEF RecordPayment, CanTransition
  <1>2. CASE ConfirmStatus
    BY <1>2 DEF ConfirmStatus, CanTransition
  <1>3. CASE Close
    BY <1>3 DEF Close
  <1>4. CASE Tick
    BY <1>4 DEF Tick
  <1>5. ASSUME NEW d \in Dispute, OpenDispute(d) \/ ResolveDispute(d)
        PROVE  CanTransition(state, state')
    <2>1. CanTransition("DISPUTED", "FUNDED")
      BY FromDisputed DEF CanTransition, Disputable
    <2> QED  BY <1>5, <2>1 DEF OpenDispute, ResolveDispute, Restored
  <1>6. ASSUME NEW f \in FraudCase, OpenFraud(f) \/ ClearFraud(f) \/ FindFraud(f)
        PROVE  CanTransition(state, state')
    <2>1. CanTransition("FRAUD_REVIEW", "FUNDED")
      BY FromFraudReview DEF CanTransition
    <2>2. CASE OpenFraud(f)
      BY <2>2 DEF OpenFraud
    <2>3. CASE ClearFraud(f)
      BY <2>1, <2>3 DEF ClearFraud, Unfrozen
    <2>4. CASE FindFraud(f)
      BY <2>4 DEF FindFraud, CanTransition
    <2> QED  BY <1>6, <2>2, <2>3, <2>4
  <1>7. ASSUME NEW c \in Claim,
               InitiateRecourse(c) \/ Repay(c) \/ \E s \in ClaimStatus : Progress(c, s)
        PROVE  CanTransition(state, state')
    <2>1. CASE InitiateRecourse(c)
      BY <2>1 DEF InitiateRecourse, Claimable, CanTransition, Moves
    <2>2. CASE Repay(c)
      BY <2>2 DEF Repay, CanTransition
    <2>3. ASSUME NEW s \in ClaimStatus, Progress(c, s)
          PROVE  CanTransition(state, state')
      BY <2>3 DEF Progress
    <2> QED  BY <1>7, <2>1, <2>2, <2>3
  <1>8. ASSUME NEW s \in Sweeper, SweepSteps(s) \/ SweepFail(s)
        PROVE  CanTransition(state, state')
    <2>1. MarkUnconfirmed(s) /\ state \in {"FUNDED", "PARTIALLY_PAID"} /\ state' = "OVERDUE_UNCONFIRMED"
      BY <1>8 DEF SweepSteps, SweepRead, RemindRead, Remind, SweepFail, MarkUnconfirmed, StillDue,
                  MaturityAction, Sweepable
    <2> QED  BY <2>1 DEF CanTransition, Moves
  <1> QED  BY <1>1, <1>2, <1>3, <1>4, <1>5, <1>6, <1>7, <1>8 DEF Next, Cases

(* Lifecycle implements the whitelist: payments, sweeps and the ends of    *)
(* cases make only moves it lists, however they overlap.                   *)
THEOREM OnlyListedMoves == Spec => MovesAreListed
  BY TypeCorrect, ListedStep, PTL DEF Spec, MovesAreListed

LEMMA ResolutionStep ==
  ASSUME Inv, [Next]_vars, NEW d \in Dispute,
         dispute[d] = "OPEN", dispute'[d] = "DECIDED", state = "DISPUTED"
  PROVE  state' = disputed[d]
  <1>1. dispute' # dispute
    OBVIOUS
  <1>2. PICK e \in Dispute : OpenDispute(e) \/ ResolveDispute(e)
    BY <1>1 DEF Next, vars, Cases, RecordPayment, ConfirmStatus, Close, Tick, OpenFraud,
               ClearFraud, FindFraud, InitiateRecourse, Repay, Progress, SweepSteps, SweepRead,
               RemindRead, Remind, MarkUnconfirmed, SweepFail
  <1>3. ResolveDispute(e)
    BY <1>2, FromDisputed DEF OpenDispute, CanTransition, Disputable
  <1>4. disputed[d] = before.dispute /\ before.dispute \in Disputable
    BY DEF Inv, Interrupted
  <1> QED  BY <1>3, <1>4, FromDisputed DEF ResolveDispute, Restored, CanTransition

(* A resolved dispute puts back the state that very dispute interrupted.   *)
THEOREM ResolutionsRestore == Spec => ResolutionRestores
  <1>1. Inv /\ [Next]_vars =>
          [\A d \in Dispute : dispute[d] = "OPEN" /\ dispute'[d] = "DECIDED" /\ state = "DISPUTED"
             => state' = disputed[d]]_vars
    BY ResolutionStep
  <1> QED  BY <1>1, InvHolds, PTL DEF Spec, ResolutionRestores

(***************************************************************************)
(* A sweep's instant never lies ahead of the clock.                        *)
(***************************************************************************)
SweptBefore == \A s \in Sweeper : sweep[s] # Resting => sweep[s].on <= day

LEMMA NextSwept == TypeOK /\ SweptBefore /\ [Next]_vars => SweptBefore'
  <1> SUFFICES ASSUME TypeOK, SweptBefore, [Next]_vars PROVE SweptBefore'
    OBVIOUS
  <1>1. CASE UNCHANGED <<day, sweep>>
    BY <1>1 DEF SweptBefore
  <1>2. CASE Tick
    BY <1>2, PassShape DEF Tick, SweptBefore, TypeOK
  <1>3. ASSUME NEW s \in Sweeper, SweepSteps(s) \/ SweepFail(s) PROVE SweptBefore'
    <2>1. PICK step : SweepTo(s, step) /\ (step # Resting => step.on <= day)
      <3>1. CASE SweepRead(s)
        BY <3>1 DEF SweepRead, TypeOK
      <3>2. CASE RemindRead(s)
        <4>1. sweep[s].on <= day
          BY <3>2 DEF RemindRead, Resting, SweptBefore
        <4>2. CASE SweepTo(s, Marking(s))
          BY <4>1, <4>2 DEF Marking
        <4>3. CASE \E t \in Unsent(s) :
                     SweepTo(s, [op |-> "send", on |-> sweep[s].on, threshold |-> t])
          BY <4>1, <4>3
        <4> QED  BY <3>2, <4>2, <4>3 DEF RemindRead
      <3>3. CASE Remind(s)
        BY <3>3 DEF Remind, Marking, Resting, SweptBefore
      <3>4. CASE MarkUnconfirmed(s) \/ SweepFail(s)
        BY <3>4 DEF MarkUnconfirmed, SweepFail
      <3> QED  BY <1>3, <3>1, <3>2, <3>3, <3>4 DEF SweepSteps
    <2>2. day' = day
      BY <1>3 DEF SweepSteps, SweepRead, RemindRead, Remind, MarkUnconfirmed, SweepFail
    <2>3. \A r \in Sweeper : sweep'[r] = IF r = s THEN step ELSE sweep[r]
      BY <2>1 DEF SweepTo, TypeOK
    <2> QED  BY <2>1, <2>2, <2>3 DEF SweptBefore
  <1> QED  BY <1>1, <1>2, <1>3
           DEF Next, vars, Cases, RecordPayment, ConfirmStatus, Close, OpenDispute, ResolveDispute,
               OpenFraud, ClearFraud, FindFraud, InitiateRecourse, Repay, Progress

LEMMA SweepMoves ==
  TypeOK /\ SweptBefore /\ [Next]_vars =>
    [sweep' # sweep /\ state' # state =>
       Sweepable(state) /\ day > DueDay /\ state' = "OVERDUE_UNCONFIRMED"]_vars
  <1> SUFFICES ASSUME TypeOK, SweptBefore, Next, sweep' # sweep, state' # state
               PROVE  Sweepable(state) /\ day > DueDay /\ state' = "OVERDUE_UNCONFIRMED"
    OBVIOUS
  <1>1. PICK s \in Sweeper : SweepSteps(s) \/ SweepFail(s)
    BY DEF Next, Cases, RecordPayment, ConfirmStatus, Close, Tick, OpenDispute, ResolveDispute,
           OpenFraud, ClearFraud, FindFraud, InitiateRecourse, Repay, Progress
  <1>2. MarkUnconfirmed(s) /\ sweep[s] # Resting
    BY <1>1 DEF SweepSteps, SweepRead, RemindRead, Remind, SweepFail, MarkUnconfirmed, Resting
  <1>3. sweep[s].on \in Nat /\ sweep[s].on <= day /\ day \in Nat
    BY <1>2, PassShape, DaysAssumption DEF SweptBefore, TypeOK
  <1> QED  BY <1>2, <1>3, DaysAssumption DEF MarkUnconfirmed, StillDue, MaturityAction

(* The sweep, however old its list, moves only what is due and unpaused.   *)
THEOREM SweepNeverAsserts == Spec => SweepAssertsNothing
  <1>1. Init => SweptBefore
    BY DEF Init, SweptBefore
  <1> QED  BY <1>1, TypeCorrect, NextSwept, SweepMoves, PTL DEF Spec, SweepAssertsNothing
=============================================================================
