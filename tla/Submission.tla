------------------------------ MODULE Submission ------------------------------
(***************************************************************************)
(* A supplier drafts a receivable and submits it for the automated checks. *)
(*                                                                         *)
(* An invoice is financed once: a submission claims the invoice's          *)
(* fingerprint, which a unique index keeps distinct among the invoices     *)
(* whose transaction has not ended.  Every editing handler, and the        *)
(* submission itself, reads the transaction without a lock and writes by   *)
(* id in a later statement; a cancellation and a decision of a fraud case  *)
(* lock it.  A write the index refuses takes its whole database            *)
(* transaction with it.                                                    *)
(*                                                                         *)
(* The row and the invoice a handler reads one after the other are one     *)
(* read: what can come between is an edit, which commutes with one of the  *)
(* two.  The supplier's floor and its declarations decide nothing here.    *)
(***************************************************************************)
EXTENDS TransactionState

CONSTANTS
  Tx,        \* receivable_transactions, drafts at first
  Buyer,     \* buyers the suppliers resolved
  Invoice,   \* what tells invoices apart: number, date, value and tax
  None,      \* no buyer, no invoice
  Handler    \* requests under way at once

ASSUME NoneAssumption == None \notin Buyer \cup Invoice

VARIABLES
  state,     \* receivable_transactions.state
  buyer,     \* receivable_transactions.buyer_id
  invoice,   \* invoices
  print,     \* invoices.fingerprint
  active,    \* invoices.is_active_fingerprint
  review,    \* fraud_cases that are open
  work,      \* what each request is doing
  edited     \* history: transactions edited while they were being submitted

draft == <<buyer, invoice>>
claim == <<print, active>>
vars == <<state, draft, claim, review, work, edited>>

Placeholder == <<"draft">>
Fingerprint == Buyer \X Invoice
Review == {"duplicate", "report"}

Idle == [op |-> "idle"]
Submitting == {"search", "claim", "refuse", "enter"}
Outcome == {"ELIGIBLE", "UNDER_REVIEW", "FRAUD_REVIEW"}
Work == {Idle}
  \cup [op : {"buyer"}, tx : Tx, to : Buyer]
  \cup [op : {"invoice"}, tx : Tx, to : Invoice]
  \cup [op : Submitting, tx : Tx, seen : State, mark : Fingerprint]
  \cup [op : {"gather", "dead"}, tx : Tx]
  \cup [op : {"route"}, tx : Tx, to : Outcome]

Init ==
  /\ state = [t \in Tx |-> "DRAFT"]
  /\ buyer = [t \in Tx |-> None]
  /\ invoice = [t \in Tx |-> None]
  /\ print = [t \in Tx |-> Placeholder]
  /\ active = [t \in Tx |-> TRUE]
  /\ review = [t \in Tx |-> {}]
  /\ work = [h \in Handler |-> Idle]
  /\ edited = {}

(***************************************************************************)
(* What a request reads, and what it goes on to do with it.                *)
(***************************************************************************)
Step(h, step) == work' = [work EXCEPT ![h] = step]

Onto(h, op) == [op |-> op, tx |-> work[h].tx, seen |-> work[h].seen, mark |-> work[h].mark]

(* The fingerprint of the transaction's buyer and invoice, computeFingerprint. *)
Mark(t) == <<buyer[t], invoice[t]>>

(* uq_active_invoice_fingerprint                                           *)
Unique(p, a) ==
  \A t, u \in Tx : t # u /\ a[t] /\ a[u] /\ p[t] \in Fingerprint => p[t] # p[u]

(* Mutant of Synced.                                                       *)
SyncedOnEnd(t, s) == [active EXCEPT ![t] = @ /\ KeepsFingerprintActive(s)]

(* The trigger on receivable_transactions.state.  A transaction without an *)
(* invoice has the flag its insert will give one.                          *)
Synced(t, s) ==
  [active EXCEPT ![t] = IF s # state[t] THEN KeepsFingerprintActive(s) ELSE active[t]]

SetState(t, s) == state' = [state EXCEPT ![t] = s] /\ active' = Synced(t, s)

BeingSubmitted(t) == \E h \in Handler : work[h].op \in Submitting /\ work[h].tx = t

NoteEdit(t) ==
  edited' = IF IsEditable(state[t]) /\ ~BeingSubmitted(t) THEN edited ELSE edited \cup {t}

(***************************************************************************)
(* Editing.                                                                *)
(***************************************************************************)
EditRead(h) ==
  /\ work[h] = Idle
  /\ \E t \in Tx :
       /\ IsEditable(state[t])
       /\ \/ \E b \in Buyer : Step(h, [op |-> "buyer", tx |-> t, to |-> b])
          \/ \E i \in Invoice : Step(h, [op |-> "invoice", tx |-> t, to |-> i])
  /\ UNCHANGED <<state, draft, claim, review, edited>>

PutBuyer(h) ==
  /\ work[h].op = "buyer"
  /\ buyer' = [buyer EXCEPT ![work[h].tx] = work[h].to]
  /\ NoteEdit(work[h].tx)
  /\ Step(h, Idle)
  /\ UNCHANGED <<state, invoice, claim, review>>

(* The invoice goes back to a draft's placeholder.                         *)
PutInvoice(h) ==
  /\ work[h].op = "invoice"
  /\ invoice' = [invoice EXCEPT ![work[h].tx] = work[h].to]
  /\ print' = [print EXCEPT ![work[h].tx] = Placeholder]
  /\ NoteEdit(work[h].tx)
  /\ Step(h, Idle)
  /\ UNCHANGED <<state, buyer, active, review>>

(***************************************************************************)
(* Submission: look for a duplicate, claim the fingerprint, enter.         *)
(***************************************************************************)
Submit(h) ==
  /\ work[h] = Idle
  /\ \E t \in Tx :
       /\ IsEditable(state[t])
       /\ invoice[t] # None /\ buyer[t] # None
       /\ Step(h, [op |-> "search", tx |-> t, seen |-> state[t], mark |-> Mark(t)])
  /\ UNCHANGED <<state, draft, claim, review, edited>>

Taken(t, mark) == \E u \in Tx \ {t} : active[u] /\ print[u] = mark

Search(h) ==
  /\ work[h].op = "search"
  /\ IF Taken(work[h].tx, work[h].mark) THEN Step(h, Onto(h, "refuse"))
                                        ELSE Step(h, Onto(h, "claim"))
  /\ UNCHANGED <<state, draft, claim, review, edited>>

(* Mutant of Claimed.                                                      *)
ClaimedNothing(t, mark) == print

Claimed(t, mark) == [print EXCEPT ![t] = mark]

Claim(h) ==
  /\ work[h].op = "claim"
  /\ LET new == Claimed(work[h].tx, work[h].mark)
     IN  IF Unique(new, active)
           THEN print' = new /\ Step(h, Onto(h, "enter"))
           ELSE print' = print /\ Step(h, Onto(h, "refuse"))
  /\ UNCHANGED <<state, draft, active, review, edited>>

(* openDuplicateReview; the request then fails.                            *)
Refuse(h) ==
  /\ work[h].op = "refuse"
  /\ review' = [review EXCEPT ![work[h].tx] = @ \cup {"duplicate"}]
  /\ Step(h, Idle)
  /\ UNCHANGED <<state, draft, claim, edited>>

(* SUBMITTED and AUTOMATED_CHECKS in one database transaction, by id, when *)
(* the state the request read allows it.                                   *)
Enter(h) ==
  /\ work[h].op = "enter"
  /\ CanTransition(work[h].seen, "SUBMITTED")
  /\ Unique(print, Synced(work[h].tx, "AUTOMATED_CHECKS"))
  /\ SetState(work[h].tx, "AUTOMATED_CHECKS")
  /\ Step(h, [op |-> "gather", tx |-> work[h].tx])
  /\ UNCHANGED <<draft, print, review, edited>>

(***************************************************************************)
(* The checks: gatherFacts, runChecks, and where they send it.             *)
(***************************************************************************)
(* Six of the eight checks pass or raise a question; one looks for a       *)
(* duplicate again; the file's integrity passes, fails or is unknown.      *)
ChecksOf(t, integrity, others) ==
  {[type |-> "FILE_INTEGRITY", result |-> integrity],
   [type |-> "DUPLICATE", result |-> IF Taken(t, print[t]) THEN "FAIL" ELSE "PASS"],
   [type |-> "LOGIC", result |-> others]}

(* The row is read first; whether the whitelist lets it move is settled by *)
(* that read, so a refusal ends the request here.                          *)
Gather(h) ==
  /\ work[h].op = "gather"
  /\ \E integrity \in {"PASS", "FAIL", "REVIEW"}, others \in {"PASS", "REVIEW"} :
       LET t == work[h].tx
           to == OutcomeOf(ChecksOf(t, integrity, others))
       IN  IF CanTransition(state[t], to) THEN Step(h, [op |-> "route", tx |-> t, to |-> to])
                                          ELSE Step(h, Idle)
  /\ UNCHANGED <<state, draft, claim, review, edited>>

Route(h) ==
  /\ work[h].op = "route"
  /\ Unique(print, Synced(work[h].tx, work[h].to))
  /\ SetState(work[h].tx, work[h].to)
  /\ Step(h, Idle)
  /\ UNCHANGED <<draft, print, review, edited>>

(* A move the whitelist or the index refuses ends the request.             *)
RefusedMove(h) ==
  /\ \/ /\ work[h].op = "enter"
        /\ ~ (/\ CanTransition(work[h].seen, "SUBMITTED")
              /\ Unique(print, Synced(work[h].tx, "AUTOMATED_CHECKS")))
     \/ /\ work[h].op = "route"
        /\ ~Unique(print, Synced(work[h].tx, work[h].to))
  /\ Step(h, Idle)
  /\ UNCHANGED <<state, draft, claim, review, edited>>

(* The process dies, or a statement fails, between two steps: the request  *)
(* is not taken up again.                                                  *)
Fail(h) ==
  /\ work[h].op \notin {"idle", "dead"}
  /\ Step(h, [op |-> "dead", tx |-> work[h].tx])
  /\ UNCHANGED <<state, draft, claim, review, edited>>

(***************************************************************************)
(* What else happens to a transaction that is being examined.              *)
(***************************************************************************)
Cancel(t) ==
  /\ state[t] \in PreMarket
  /\ SetState(t, "CANCELLED")
  /\ UNCHANGED <<draft, print, review, work, edited>>

(* Somebody reports it; refused when it is under review already.  A report *)
(* of a transaction already funded is another module's.                    *)
OpenFraud(t) ==
  /\ state[t] \in PreMarket /\ CanTransition(state[t], "FRAUD_REVIEW")
  /\ review' = [review EXCEPT ![t] = @ \cup {"report"}]
  /\ SetState(t, "FRAUD_REVIEW")
  /\ UNCHANGED <<draft, print, work, edited>>

(* Mutant of Unfrozen.                                                     *)
UnfrozenToChecks(s) == IF s = "FRAUD_REVIEW" THEN "AUTOMATED_CHECKS" ELSE s

(* What is remembered of a review opened here is a state it may not return *)
(* to, or nothing when the checks sent the transaction there.              *)
Unfrozen(s) == IF s = "FRAUD_REVIEW" THEN "FUNDED" ELSE s

ClearFraud(t, r) ==
  /\ r \in review[t]
  /\ review' = [review EXCEPT ![t] = @ \ {r}]
  /\ SetState(t, Unfrozen(state[t]))
  /\ UNCHANGED <<draft, print, work, edited>>

FindFraud(t, r) ==
  /\ r \in review[t]
  /\ "CLOSED" \in Moves(state[t]) \cup {state[t]}
  /\ review' = [review EXCEPT ![t] = @ \ {r}]
  /\ SetState(t, "CLOSED")
  /\ UNCHANGED <<draft, print, work, edited>>

Progress(h) ==
  \/ PutBuyer(h) \/ PutInvoice(h)
  \/ Search(h) \/ Claim(h) \/ Refuse(h) \/ Enter(h)
  \/ Gather(h) \/ Route(h) \/ RefusedMove(h)

Next ==
  \/ \E h \in Handler : EditRead(h) \/ Submit(h) \/ Progress(h) \/ Fail(h)
  \/ \E t \in Tx : Cancel(t) \/ OpenFraud(t)
  \/ \E t \in Tx, r \in Review : ClearFraud(t, r) \/ FindFraud(t, r)

Spec == Init /\ [][Next]_vars

(***************************************************************************)
(* Properties.                                                             *)
(***************************************************************************)
TypeOK ==
  /\ state \in [Tx -> State]
  /\ buyer \in [Tx -> Buyer \cup {None}]
  /\ invoice \in [Tx -> Invoice \cup {None}]
  /\ print \in [Tx -> Fingerprint \cup {Placeholder}]
  /\ active \in [Tx -> BOOLEAN]
  /\ review \in [Tx -> SUBSET Review]
  /\ work \in [Handler -> Work]
  /\ edited \subseteq Tx

Live(t) == KeepsFingerprintActive(state[t])
Submitted(t) == Live(t) /\ state[t] # "DRAFT"

(* No two transactions that have not ended hold the same fingerprint,      *)
(* also when a request that read an older state brings one back that had   *)
(* been cancelled and whose invoice another has claimed since              *)
(* (ZM-VER-001, migration 0002).                                           *)
OneLivePrint ==
  \A t, u \in Tx : t # u /\ Live(t) /\ Live(u) /\ print[t] \in Fingerprint => print[t] # print[u]

(* The same receivable is under examination, or past it, once: two         *)
(* submissions racing, cancelled and resubmitted or frozen and cleared     *)
(* never both go on, as long as nobody edits them under way.               *)
FinancedOnce ==
  \A t, u \in Tx \ edited : t # u /\ Submitted(t) /\ Submitted(u) => Mark(t) # Mark(u)

(* A transaction in its automated checks has a request that will answer    *)
(* them, or that died: no refusal, cancellation, second submission or      *)
(* review leaves one there for good.                                       *)
ChecksAreInHand ==
  \A t \in Tx : state[t] = "AUTOMATED_CHECKS" =>
    \E h \in Handler : work[h].op \in {"gather", "route", "dead"} /\ work[h].tx = t

(***************************************************************************)
(* Stated by the repository and not so.                                    *)
(***************************************************************************)

(* "it is what stops the same receivable being financed twice by two       *)
(* banks": edits included.                                                 *)
NeverFinancedTwice ==
  \A t, u \in Tx : t # u /\ state[t] = "ELIGIBLE" /\ state[u] = "ELIGIBLE" => Mark(t) # Mark(u)
=============================================================================
