------------------------------ MODULE Lifecycle ------------------------------
(***************************************************************************)
(* A receivable after the money moved: the bank reports what the buyer     *)
(* pays, a sweep watches the due date, and disputes, fraud reviews and     *)
(* recourse claims interrupt it and are decided.                           *)
(*                                                                         *)
(* Every handler locks the transaction's row (a case's row first, when it  *)
(* has one) and decides on what it then reads, so each is one action.      *)
(* Only the sweep works on rows it read earlier.  A case remembers the     *)
(* state it interrupted as the previous_status of the newest status_history*)
(* row; rows are taken to be ordered by changed_at as they were written.   *)
(*                                                                         *)
(* A fraud review may also be opened on a transaction that is still being  *)
(* examined; such a transaction has no accepted offer, and what else can   *)
(* happen to it before the market belongs to another module.               *)
(***************************************************************************)
EXTENDS TransactionState, Integers, Sequences

CONSTANTS
  Dispute,      \* bound: disputes rows, numbered in the order they are inserted
  FraudCase,    \* bound: fraud_cases rows
  Claim,        \* bound: recourse_cases rows, likewise
  Sweeper,      \* scheduler instances
  Outstanding,  \* the invoice's outstanding amount, frozen at listing
  Advance,      \* the gross funding amount of the accepted offer
  Amount,       \* amounts a party reports at once
  DueDay,       \* the invoice's due date
  LastDay,      \* bound: the clock
  Threshold     \* reminder days before the due date, with 0

ASSUME MoneyAssumption ==
  Outstanding \in Nat \ {0} /\ Advance \in Nat \ {0} /\ Amount \subseteq Nat \ {0}
ASSUME RowsAssumption == Dispute \subseteq Nat /\ Claim \subseteq Nat
ASSUME DaysAssumption == DueDay \in Nat /\ LastDay \in Nat /\ Threshold \subseteq Nat

VARIABLES
  state,      \* receivable_transactions.state
  funded,     \* it has an accepted offer's snapshot
  before,     \* status_history: what the newest interruption of each kind interrupted
  paid,       \* sum of buyer_payments
  confirmed,  \* history: the bank confirmed the invoice OVERDUE
  dispute,    \* disputes.status
  disputed,   \* history: the state a dispute interrupted
  fraud,      \* fraud_cases.status
  claim,      \* recourse_cases: status, requested, sum of recourse_repayments
  reminders,  \* thresholds of the reminders sent
  day,        \* the clock, in days
  sweep       \* what each scheduler's sweep is doing

cases == <<dispute, disputed, fraud, claim>>
money == <<paid, confirmed>>
watch == <<reminders, day, sweep>>
vars == <<state, funded, before, money, cases, watch>>

CaseStatus == {"NONE", "OPEN", "DECIDED"}
ClaimStatus == {"NONE", "RECOURSE_INITIATED", "SUPPLIER_NOTIFIED", "PAYMENT_PENDING",
                "DISPUTED", "LEGAL_ESCALATION", "SETTLED"}

Resting == [op |-> "idle"]
Pass == {Resting}
          \cup [op : {"remind", "mark"}, on : 0..LastDay]
          \cup [op : {"send"}, on : 0..LastDay, threshold : Threshold]

(* Confirm hands a funded transaction over; the review of a submission     *)
(* holds one that was never offered.                                       *)
Init ==
  /\ \/ state = "FUNDED" /\ funded = TRUE
     \/ state \in {"AUTOMATED_CHECKS", "UNDER_REVIEW"} /\ funded = FALSE
  /\ before = [dispute |-> state, fraud |-> state]
  /\ paid = 0
  /\ confirmed = FALSE
  /\ dispute = [d \in Dispute |-> "NONE"]
  /\ disputed = [d \in Dispute |-> state]
  /\ fraud = [f \in FraudCase |-> "NONE"]
  /\ claim = [c \in Claim |-> [status |-> "NONE", requested |-> 0, repaid |-> 0]]
  /\ reminders = <<>>
  /\ day = 0
  /\ sweep = [s \in Sweeper |-> Resting]

(***************************************************************************)
(* The bank reports payments and confirms a status.                        *)
(***************************************************************************)
AutomationPaused(s) == s \in {"DISPUTED", "FRAUD_REVIEW"}

Payable == {"FUNDED", "PARTIALLY_PAID", "OVERDUE_UNCONFIRMED", "OVERDUE"}

Confirmable == {"OVERDUE_UNCONFIRMED", "PARTIALLY_PAID", "FUNDED"}

DerivedOutstanding(total) == IF total < Outstanding THEN Outstanding - total ELSE 0

(* Mutant of StateAfterPayment.                                            *)
PaidByInstalment(total) == IF total - paid >= Outstanding THEN "PAID" ELSE "PARTIALLY_PAID"

StateAfterPayment(total) ==
  IF DerivedOutstanding(total) = 0 THEN "PAID" ELSE "PARTIALLY_PAID"

RecordPayment ==
  /\ funded
  /\ state \in Payable
  /\ \E a \in Amount :
       /\ StateAfterPayment(paid + a) \in Moves(state) \cup {state}
       /\ paid' = paid + a
       /\ state' = StateAfterPayment(paid + a)
  /\ UNCHANGED <<funded, before, confirmed, cases, watch>>

ConfirmStatus ==
  /\ funded
  /\ state \in Confirmable
  /\ \E status \in {"PAID", "PARTIALLY_PAID", "OVERDUE"} :
       /\ status = "PAID" => DerivedOutstanding(paid) = 0
       /\ status \in Moves(state) \cup {state}
       /\ state' = status
       /\ confirmed' = (confirmed \/ status = "OVERDUE")
  /\ UNCHANGED <<funded, before, paid, cases, watch>>

(* The bank or the platform closes; a closed transaction is left as it is. *)
Close ==
  /\ CanTransition(state, "CLOSED")
  /\ state' = "CLOSED"
  /\ UNCHANGED <<funded, before, money, cases, watch>>

(***************************************************************************)
(* A dispute interrupts the transaction until its parties resolve it.      *)
(***************************************************************************)
OpenDispute(d) ==
  /\ dispute[d] = "NONE" /\ \A e \in Dispute : e < d => dispute[e] # "NONE"
  /\ CanTransition(state, "DISPUTED")
  /\ dispute' = [dispute EXCEPT ![d] = "OPEN"]
  /\ disputed' = [disputed EXCEPT ![d] = state]
  /\ before' = [before EXCEPT !.dispute = state]
  /\ state' = "DISPUTED"
  /\ UNCHANGED <<funded, money, fraud, claim, watch>>

(* Mutant of Restored.                                                     *)
RestoredToFunded(s) == IF s = "DISPUTED" THEN "FUNDED" ELSE s

(* restoreTransaction                                                      *)
Restored(s) ==
  IF s # "DISPUTED" THEN s
  ELSE IF CanTransition("DISPUTED", before.dispute) THEN before.dispute ELSE "FUNDED"

ResolveDispute(d) ==
  /\ dispute[d] = "OPEN"
  /\ dispute' = [dispute EXCEPT ![d] = "DECIDED"]
  /\ state' = Restored(state)
  /\ UNCHANGED <<funded, before, money, disputed, fraud, claim, watch>>

(***************************************************************************)
(* A fraud review freezes the transaction until compliance decides.        *)
(***************************************************************************)
OpenFraud(f) ==
  /\ fraud[f] = "NONE"
  /\ CanTransition(state, "FRAUD_REVIEW")
  /\ fraud' = [fraud EXCEPT ![f] = "OPEN"]
  /\ before' = [before EXCEPT !.fraud = state]
  /\ state' = "FRAUD_REVIEW"
  /\ UNCHANGED <<funded, money, dispute, disputed, claim, watch>>

(* unfreeze                                                                *)
Unfrozen(s) ==
  IF s # "FRAUD_REVIEW" THEN s
  ELSE IF CanTransition("FRAUD_REVIEW", before.fraud) THEN before.fraud ELSE "FUNDED"

ClearFraud(f) ==
  /\ fraud[f] = "OPEN"
  /\ fraud' = [fraud EXCEPT ![f] = "DECIDED"]
  /\ state' = Unfrozen(state)
  /\ UNCHANGED <<funded, before, money, dispute, disputed, claim, watch>>

(* closeUnderFinding, for every decision but CLEARED.                      *)
FindFraud(f) ==
  /\ fraud[f] = "OPEN"
  /\ "CLOSED" \in Moves(state) \cup {state}
  /\ fraud' = [fraud EXCEPT ![f] = "DECIDED"]
  /\ state' = "CLOSED"
  /\ UNCHANGED <<funded, before, money, dispute, disputed, claim, watch>>
(***************************************************************************)
(* After a confirmed overdue the bank claims back from the supplier.       *)
(***************************************************************************)
Progressions(s) ==
  CASE s = "RECOURSE_INITIATED" -> {"SUPPLIER_NOTIFIED", "DISPUTED", "LEGAL_ESCALATION"}
    [] s = "SUPPLIER_NOTIFIED" ->
         {"PAYMENT_PENDING", "SETTLED", "DISPUTED", "LEGAL_ESCALATION"}
    [] s = "PAYMENT_PENDING" -> {"SETTLED", "DISPUTED", "LEGAL_ESCALATION"}
    [] s = "DISPUTED" ->
         {"SUPPLIER_NOTIFIED", "PAYMENT_PENDING", "SETTLED", "LEGAL_ESCALATION"}
    [] s = "LEGAL_ESCALATION" -> {"SETTLED", "DISPUTED"}
    [] OTHER -> {}

CanProgress(from, to) == to \in Progressions(from)

Live(c) == claim[c].status \notin {"NONE", "SETTLED"}

RemainingAfter(requested, repaid) == IF repaid < requested THEN requested - repaid ELSE 0

Claimable(s) == s = "OVERDUE"

InitiateRecourse(c) ==
  /\ funded
  /\ Claimable(state)
  /\ claim[c].status = "NONE" /\ \A e \in Claim : e < c => claim[e].status # "NONE"
  /\ \A e \in Claim : ~Live(e)
  /\ \E a \in 1..Advance :
       claim' = [claim EXCEPT ![c] = [status |-> "RECOURSE_INITIATED", requested |-> a,
                                      repaid |-> 0]]
  /\ state' = "RECOURSE_ACTIVE"
  /\ UNCHANGED <<funded, before, money, dispute, disputed, fraud, watch>>

(* Mutant of StatusAfterRepayment.                                         *)
SettledApproximately(requested, repaid) ==
  IF RemainingAfter(requested, repaid) <= 1 THEN "SETTLED" ELSE "PAYMENT_PENDING"

StatusAfterRepayment(requested, repaid) ==
  IF RemainingAfter(requested, repaid) = 0 THEN "SETTLED" ELSE "PAYMENT_PENDING"

(* Mutant of Settled.                                                      *)
SettledClaimOnly(status) == IF status = "SETTLED" THEN "OVERDUE" ELSE state

(* closeTransaction, once the claim is settled.                            *)
Settled(status) == IF status = "SETTLED" THEN "CLOSED" ELSE state

Repay(c) ==
  /\ Live(c)
  /\ \E a \in Amount :
       LET repaid == claim[c].repaid + a
           next == StatusAfterRepayment(claim[c].requested, repaid)
       IN  /\ next \in Progressions(claim[c].status) \cup {claim[c].status}
           /\ Settled(next) \in Moves(state) \cup {state}
           /\ claim' = [claim EXCEPT ![c] = [status |-> next, requested |-> claim[c].requested,
                                          repaid |-> repaid]]
           /\ state' = Settled(next)
  /\ UNCHANGED <<funded, before, money, dispute, disputed, fraud, watch>>

(* A claim marked SETTLED by hand needs its balance to be zero; only a     *)
(* disputed one touches the transaction (markTransactionDisputed).         *)
Progress(c, status) ==
  /\ CanProgress(claim[c].status, status)
  /\ status = "SETTLED" => RemainingAfter(claim[c].requested, claim[c].repaid) = 0
  /\ claim' = [claim EXCEPT ![c].status = status]
  /\ IF status = "DISPUTED" /\ state # "DISPUTED"
       THEN /\ CanTransition(state, "DISPUTED")
            /\ before' = [before EXCEPT !.dispute = state]
            /\ state' = "DISPUTED"
       ELSE UNCHANGED <<before, state>>
  /\ UNCHANGED <<funded, money, dispute, disputed, fraud, watch>>

(***************************************************************************)
(* The maturity sweep: a reminder, then the unconfirmed overdue.           *)
(***************************************************************************)
Sweepable(s) == s \in {"FUNDED", "PARTIALLY_PAID"}

(* t is the nearest threshold reached; none is once the day has passed.    *)
ReminderDue(t, remaining) ==
  /\ 0 <= remaining /\ remaining <= t
  /\ \A u \in Threshold : remaining <= u => t <= u

(* Mutant of MaturityAction.                                               *)
MaturityActionFrom(s, on) == on > DueDay /\ s \in {"FUNDED"}

MaturityAction(s, on) == on > DueDay /\ Sweepable(s)

SweepTo(s, step) == sweep' = [sweep EXCEPT ![s] = step]

(* The row it read is sweepable, and it keeps the instant it began with.   *)
SweepRead(s) ==
  /\ sweep[s] = Resting
  /\ Sweepable(state)
  /\ SweepTo(s, [op |-> "remind", on |-> day])
  /\ UNCHANGED <<state, funded, before, money, cases, reminders, day>>

Sent == {reminders[i] : i \in DOMAIN reminders}

Marking(s) == [op |-> "mark", on |-> sweep[s].on]

Unsent(s) ==
  {t \in Threshold : ReminderDue(t, DueDay - sweep[s].on) /\ t \notin Sent}

RemindRead(s) ==
  /\ sweep[s].op = "remind"
  /\ \/ Unsent(s) = {} /\ SweepTo(s, Marking(s))
     \/ \E t \in Unsent(s) :
          SweepTo(s, [op |-> "send", on |-> sweep[s].on, threshold |-> t])
  /\ UNCHANGED <<state, funded, before, money, cases, reminders, day>>

Remind(s) ==
  /\ sweep[s].op = "send"
  /\ reminders' = Append(reminders, sweep[s].threshold)
  /\ SweepTo(s, Marking(s))
  /\ UNCHANGED <<state, funded, before, money, cases, day>>

(* Mutant of StillDue.                                                     *)
StillDueAsRead(s) == TRUE

(* markUnconfirmed asks again under the lock.                              *)
StillDue(s) == MaturityAction(state, sweep[s].on)

MarkUnconfirmed(s) ==
  /\ sweep[s].op = "mark"
  /\ state' = IF sweep[s].on > DueDay /\ StillDue(s) THEN "OVERDUE_UNCONFIRMED" ELSE state
  /\ SweepTo(s, Resting)
  /\ UNCHANGED <<funded, before, money, cases, reminders, day>>

SweepFail(s) ==
  /\ sweep[s] # Resting
  /\ SweepTo(s, Resting)
  /\ UNCHANGED <<state, funded, before, money, cases, reminders, day>>

Tick ==
  /\ day < LastDay
  /\ day' = day + 1
  /\ UNCHANGED <<state, funded, before, money, cases, reminders, sweep>>

Cases ==
  \/ \E d \in Dispute : OpenDispute(d) \/ ResolveDispute(d)
  \/ \E f \in FraudCase : OpenFraud(f) \/ ClearFraud(f) \/ FindFraud(f)
  \/ \E c \in Claim : InitiateRecourse(c) \/ Repay(c) \/ \E s \in ClaimStatus : Progress(c, s)

SweepSteps(s) == SweepRead(s) \/ RemindRead(s) \/ Remind(s) \/ MarkUnconfirmed(s)

Next ==
  \/ RecordPayment \/ ConfirmStatus \/ Close
  \/ Cases
  \/ \E s \in Sweeper : SweepSteps(s) \/ SweepFail(s)
  \/ Tick

Spec == Init /\ [][Next]_vars

(***************************************************************************)
(* The cron runs every minute and a failed pass is tried again, so a pass  *)
(* does not fail for ever.                                                 *)
(***************************************************************************)
Fairness ==
  /\ WF_vars(Tick)
  /\ \A s \in Sweeper :
       /\ WF_vars(SweepRead(s))
       /\ SF_vars(RemindRead(s)) /\ SF_vars(Remind(s)) /\ SF_vars(MarkUnconfirmed(s))

FairSpec == Spec /\ Fairness
(***************************************************************************)
(* Properties.                                                             *)
(***************************************************************************)
TypeOK ==
  /\ state \in State
  /\ funded \in BOOLEAN
  /\ before \in [dispute : State, fraud : State]
  /\ paid \in Nat
  /\ confirmed \in BOOLEAN
  /\ dispute \in [Dispute -> CaseStatus]
  /\ disputed \in [Dispute -> State]
  /\ fraud \in [FraudCase -> CaseStatus]
  /\ claim \in [Claim -> [status : ClaimStatus, requested : Nat, repaid : Nat]]
  /\ reminders \in Seq(Threshold)
  /\ day \in 0..LastDay
  /\ sweep \in [Sweeper -> Pass]

(* What the transaction is when its dispute is set aside.                  *)
Underlying == IF state = "DISPUTED" THEN before.dispute ELSE state

(* Until it closes, a receivable is PAID exactly when the reported         *)
(* payments cover it, through disputes, sweeps, freezes and claims: the    *)
(* state and the balance derived from the payments never tell two stories. *)
MoneyAgrees == state # "CLOSED" => (paid >= Outstanding <=> Underlying = "PAID")

(* Nothing is overdue, and no claim exists, that the bank did not confirm: *)
(* neither the sweep nor the end of a case makes it so (ZM-PMT-008..011,   *)
(* ZM-REC-001).                                                            *)
OverdueWasConfirmed ==
  Underlying \in {"OVERDUE", "RECOURSE_ACTIVE"} \/ (\E c \in Claim : claim[c].status # "NONE")
    => confirmed

(* Recourse recovers no more than was advanced (ZM-REC-004): initiate caps *)
(* one claim only, so there must never be a second, even after a           *)
(* settlement or a dispute.                                                *)
NeverClaimedTwice ==
  \A c \in Claim : claim[c].status # "NONE" =>
    claim[c].requested \in 1..Advance /\ \A e \in Claim \ {c} : claim[e].status = "NONE"

(* A claim is settled exactly when it is repaid, and its transaction is    *)
(* then closed whatever happened to it meanwhile; a live claim never sits  *)
(* on a transaction that went back to normal.                              *)
ClaimsAccount ==
  \A c \in Claim : claim[c].status # "NONE" =>
    /\ claim[c].status = "SETTLED" <=> claim[c].repaid >= claim[c].requested
    /\ claim[c].status = "SETTLED" => state = "CLOSED"
    /\ Underlying \in {"RECOURSE_ACTIVE", "CLOSED"}

(* Nothing leaves CLOSED: not a resolution, a decision, a repayment or a   *)
(* sweep that was under way.                                               *)
ClosedIsFinal == [][state = "CLOSED" => state' = "CLOSED"]_vars

(* Every move is one the whitelist lists, also those that are made without *)
(* asking it: the FUNDED that ends a case when nothing better is           *)
(* remembered, a claim's beginning, and what a sweep marks from its list.  *)
MovesAreListed == [][state' # state => CanTransition(state, state')]_vars

(* Resolving a dispute puts the transaction back where that dispute found  *)
(* it, unless something closed it meanwhile.                               *)
ResolutionRestores ==
  [][\A d \in Dispute :
       dispute[d] = "OPEN" /\ dispute'[d] = "DECIDED" /\ state = "DISPUTED"
         => state' = disputed[d]]_vars

(* The sweep's stale list never overrides a party: it moves only a         *)
(* transaction that at that moment is unpaid, unpaused and past its date.  *)
SweepAssertsNothing ==
  [][sweep' # sweep /\ state' # state =>
       Sweepable(state) /\ day > DueDay /\ state' = "OVERDUE_UNCONFIRMED"]_vars

(* An unpaid transaction past its due date does not stay as it was, unless *)
(* a party or a case moves it first.                                       *)
PastDueIsNoticed == (day > DueDay /\ Sweepable(state)) ~> ~Sweepable(state)
=============================================================================
