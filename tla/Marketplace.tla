---------------------------- MODULE Marketplace ----------------------------
(***************************************************************************)
(* One receivable on the marketplace: its listing rounds, the banks'       *)
(* offers on them, and the supplier's acceptance.                          *)
(*                                                                         *)
(* The state is the database's: the transaction row, the listings, the     *)
(* offers and the evidence tables acceptance writes.  Sessions run at READ *)
(* COMMITTED and most handlers read in one statement and write, by id, in  *)
(* a later one, so a handler that does is two actions here: Read checks    *)
(* and remembers the request, Commit writes what the code writes, guarded  *)
(* only by what is evaluated at that moment (a lock, a WHERE clause, a     *)
(* unique index, a CHECK).  A handler that locks the transaction row first *)
(* and decides on the locked row is one action.                            *)
(***************************************************************************)
EXTENDS Integers, FiniteSets

CONSTANTS
  Bank,             \* bank organizations
  Worker,           \* request handlers in flight at once
  NoOffer,          \* a NULL locked_by_offer_id
  Conditional,      \* banks whose offers carry mandatory conditions
  ListingFee,       \* the configured fee, 0 in a promotional period
  OfferWindow,      \* offer_submission_window_hours
  SelectionWindow,  \* supplier_selection_window_hours
  Validity,         \* the valid_until instants a bank may send
  Offer,            \* bound: the bank_offers rows there can be
  MaxRound,         \* bound: listing rounds of the transaction
  MaxClock          \* bound: the TimeProvider's clock

Round == 1 .. MaxRound
Clock == 0 .. MaxClock

(* A row is the n-th version a bank writes in a round.                     *)
ASSUME OfferAssumption == Offer \subseteq [round : Round, bank : Bank, row : Nat]
ASSUME NoOfferAssumption == NoOffer \notin Offer
ASSUME BoundAssumption ==
  /\ MaxRound \in Nat /\ MaxClock \in Nat
  /\ OfferWindow \in Nat /\ SelectionWindow \in Nat
  /\ ListingFee \in Nat
  /\ Validity \subseteq Nat
  /\ Conditional \subseteq Bank

VARIABLES
  now,          \* TimeProvider.now()
  state,        \* receivable_transactions.state
  lockedBy,     \* receivable_transactions.locked_by_offer_id
  listing,      \* the listings of the transaction, by round
  fee,          \* listing_fee_obligations.status, by round
  offer,        \* bank_offers
  selections,   \* offer_selections.offer_id
  snapshots,    \* accepted_offer_snapshots.source_offer_id
  charges,      \* commission calculations, by the offer that was charged
  worker,       \* what each request handler has read and not yet written
  sweep         \* the scheduler's listing sweep

evidence == <<selections, snapshots, charges>>
requests == <<worker, sweep>>
vars == <<now, state, lockedBy, listing, fee, offer, evidence, requests>>

(***************************************************************************)
(* Statuses                                                                *)
(***************************************************************************)
TransactionState ==
  {"ELIGIBLE", "OPEN_FOR_OFFERS", "OFFER_ACCEPTED", "CONDITIONS_PENDING", "CANCELLED"}

OpenListing == {"OPEN_FOR_OFFERS", "OFFER_PERIOD_CLOSED", "AWAITING_SELECTION"}
FinalListing == {"OFFER_SELECTED", "EXPIRED", "CANCELLED"}
ListingStatus == {"NONE"} \cup OpenListing \cup FinalListing

CurrentOffer == {"PENDING_INTERNAL_APPROVAL", "ACTIVE"}
FinalOffer == {"REVISED", "SELECTED", "NOT_SELECTED", "WITHDRAWN", "EXPIRED"}
OfferStatus == {"NONE"} \cup CurrentOffer \cup FinalOffer

(* The two users of a bank: the one who wrote the offer and a colleague.   *)
BankUser == {"maker", "checker"}

NoListing == [status |-> "NONE", offerDeadline |-> 0, selectionDeadline |-> 0]
NoRow == [status |-> "NONE", validUntil |-> 0, approver |-> "none"]

Idle == [op |-> "idle"]
Request ==
       {Idle}
  \cup [op : {"activate"}, at : Clock]
  \cup [op : {"create"}, round : Round, bank : Bank]
  \cup [op : {"revise", "withdraw", "accept"}, offer : Offer]
  \cup [op : {"approve"}, offer : Offer, by : BankUser]

Sweep ==
       {Idle}
  \cup [op : {"close", "lapse"}, round : Round, at : Clock]
  \cup [op : {"findLapsed"}, at : Clock]

(***************************************************************************)
(* The two partial unique indexes.  A statement that would break one is    *)
(* refused, and its database transaction rolls back.                       *)
(***************************************************************************)
OneActiveListing(l) ==
  \A r, q \in Round : l[r].status \in OpenListing /\ l[q].status \in OpenListing => r = q

OneCurrentOffer(f) ==
  \A o, p \in Offer :
    /\ f[o].status \in CurrentOffer /\ f[p].status \in CurrentOffer
    /\ o.round = p.round /\ o.bank = p.bank
    => o = p

SetListing(r, status) ==
  /\ listing' = [listing EXCEPT ![r].status = status]
  /\ OneActiveListing(listing')

SetOffers(S, status) ==
  offer' = [o \in Offer |-> IF o \in S THEN [offer[o] EXCEPT !.status = status] ELSE offer[o]]

OffersIn(r, statuses) == {o \in Offer : o.round = r /\ offer[o].status \in statuses}

(* requireOpenListing: the status and, not trusting the sweep, the clock.  *)
AcceptsOffers(r) ==
  /\ listing[r].status = "OPEN_FOR_OFFERS"
  /\ listing[r].offerDeadline > now

Take(w, request) ==
  /\ worker[w] = Idle
  /\ worker' = [worker EXCEPT ![w] = request]
  /\ UNCHANGED <<now, state, lockedBy, listing, fee, offer, evidence, sweep>>

Finish(w) == worker' = [worker EXCEPT ![w] = Idle]

Init ==
  /\ now = 0
  /\ state = "ELIGIBLE"
  /\ lockedBy = NoOffer
  /\ listing = [r \in Round |-> NoListing]
  /\ fee = [r \in Round |-> "NONE"]
  /\ offer = [o \in Offer |-> NoRow]
  /\ selections = {} /\ snapshots = {} /\ charges = {}
  /\ worker = [w \in Worker |-> Idle]
  /\ sweep = Idle

(***************************************************************************)
(* The supplier lists the receivable.                                      *)
(***************************************************************************)
ActivateRead(w) ==
  /\ state = "ELIGIBLE"
  /\ now + OfferWindow + SelectionWindow <= MaxClock    \* bound
  /\ Take(w, [op |-> "activate", at |-> now])

(* nextRoundNumber is MAX + 1, read inside the transaction.                *)
NextRound(r) ==
  /\ listing[r].status = "NONE"
  /\ \A q \in Round : q < r => listing[q].status # "NONE"

(* A promotional fee of zero is recorded too, as waived.                   *)
FeeStatus == IF ListingFee > 0 THEN "PAYABLE" ELSE "WAIVED"

Activate(w) ==
  /\ worker[w].op = "activate"
  /\ \E r \in Round :
       /\ NextRound(r)
       /\ LET deadline == worker[w].at + OfferWindow
          IN  listing' = [listing EXCEPT ![r] =
                            [status            |-> "OPEN_FOR_OFFERS",
                             offerDeadline     |-> deadline,
                             selectionDeadline |-> deadline + SelectionWindow]]
       /\ OneActiveListing(listing')
       /\ fee' = [fee EXCEPT ![r] = FeeStatus]
  /\ state' = "OPEN_FOR_OFFERS"
  /\ Finish(w)
  /\ UNCHANGED <<now, lockedBy, offer, evidence, sweep>>

(***************************************************************************)
(* A bank's offer: create, revise, approve, withdraw.                      *)
(***************************************************************************)
CreateRead(w, r, b) ==
  /\ AcceptsOffers(r)
  /\ {o \in OffersIn(r, CurrentOffer) : o.bank = b} = {}
  /\ Take(w, [op |-> "create", round |-> r, bank |-> b])

(* INSERT INTO bank_offers, the superseded version moved to REVISED first. *)
WriteOffer(r, b, superseded) ==
  \E o \in Offer, v \in Validity :
    /\ o.round = r /\ o.bank = b
    /\ offer[o].status = "NONE"
    /\ \A p \in Offer : p.round = r /\ p.bank = b /\ p.row < o.row => offer[p].status # "NONE"
    /\ offer' = [p \in Offer |->
                   CASE p = o -> [status     |-> "PENDING_INTERNAL_APPROVAL",
                                  validUntil |-> v,
                                  approver   |-> "none"]
                     [] p \in superseded -> [offer[p] EXCEPT !.status = "REVISED"]
                     [] OTHER -> offer[p]]
    /\ OneCurrentOffer(offer')

Create(w) ==
  /\ worker[w].op = "create"
  /\ WriteOffer(worker[w].round, worker[w].bank, {})
  /\ Finish(w)
  /\ UNCHANGED <<now, state, lockedBy, listing, fee, evidence, sweep>>

ReviseRead(w, o) ==
  /\ offer[o].status \in CurrentOffer
  /\ AcceptsOffers(o.round)
  /\ Take(w, [op |-> "revise", offer |-> o])

Revise(w) ==
  /\ worker[w].op = "revise"
  /\ LET o == worker[w].offer IN WriteOffer(o.round, o.bank, {o})
  /\ Finish(w)
  /\ UNCHANGED <<now, state, lockedBy, listing, fee, evidence, sweep>>

(* INV-12: the maker of an offer may not be the one who approves it, which *)
(* the handler asks and chk_maker_approver_differ repeats.                 *)
FourEyes(by) == by # "maker"

ApproveRead(w, o, by) ==
  /\ offer[o].status = "PENDING_INTERNAL_APPROVAL"
  /\ FourEyes(by)
  /\ AcceptsOffers(o.round)
  /\ Take(w, [op |-> "approve", offer |-> o, by |-> by])

Approve(w) ==
  /\ worker[w].op = "approve"
  /\ FourEyes(worker[w].by)
  /\ offer' = [offer EXCEPT ![worker[w].offer].status = "ACTIVE",
                            ![worker[w].offer].approver = worker[w].by]
  /\ OneCurrentOffer(offer')
  /\ Finish(w)
  /\ UNCHANGED <<now, state, lockedBy, listing, fee, evidence, sweep>>

(* Withdrawal reads the offer only: neither the listing nor the clock.     *)
WithdrawRead(w, o) ==
  /\ offer[o].status \in CurrentOffer
  /\ Take(w, [op |-> "withdraw", offer |-> o])

Withdraw(w) ==
  /\ worker[w].op = "withdraw"
  /\ offer' = [offer EXCEPT ![worker[w].offer].status = "WITHDRAWN"]
  /\ Finish(w)
  /\ UNCHANGED <<now, state, lockedBy, listing, fee, evidence, sweep>>

(* Mutants of the two below.                                               *)
AcceptableUnapproved(o) ==
  /\ offer[o].status \in CurrentOffer
  /\ offer[o].validUntil > now

UnlockedUnchecked == TRUE

UnlockedByListing == \A r \in Round : listing[r].status # "OFFER_SELECTED"

(***************************************************************************)
(* The supplier accepts.  The offer is read before the transaction row is  *)
(* locked and is not read again; whether the transaction is locked already *)
(* is decided on the locked row.                                           *)
(***************************************************************************)
Acceptable(o) ==
  /\ offer[o].status = "ACTIVE"
  /\ offer[o].validUntil > now

AcceptRead(w, o) ==
  /\ Acceptable(o)
  /\ Take(w, [op |-> "accept", offer |-> o])

(* locked_at must be NULL on the row held FOR UPDATE; the immutability     *)
(* trigger refuses a second lock from any other path.                      *)
Unlocked == lockedBy = NoOffer

Accept(w) ==
  /\ worker[w].op = "accept"
  /\ Unlocked
  /\ LET o == worker[w].offer
         losers == OffersIn(o.round, {"ACTIVE"}) \ {o}
     IN  /\ lockedBy' = o
         /\ state' = IF o.bank \in Conditional THEN "CONDITIONS_PENDING" ELSE "OFFER_ACCEPTED"
         /\ offer' = [p \in Offer |->
                        CASE p = o -> [offer[p] EXCEPT !.status = "SELECTED"]
                          [] p \in losers -> [offer[p] EXCEPT !.status = "NOT_SELECTED"]
                          [] OTHER -> offer[p]]
         /\ SetListing(o.round, "OFFER_SELECTED")
         /\ selections' = selections \cup {o}
         /\ snapshots' = snapshots \cup {o}
         /\ charges' = charges \cup {o}
  /\ Finish(w)
  /\ UNCHANGED <<now, fee, sweep>>

(***************************************************************************)
(* The supplier rejects every offer of a listing, or cancels the           *)
(* transaction.  Both lock the transaction row and then decide.            *)
(***************************************************************************)
(* Mutant of BackToEligible.                                               *)
BackForgotten == UNCHANGED state

BackToEligible == state' = IF state = "OPEN_FOR_OFFERS" THEN "ELIGIBLE" ELSE state

RejectAll(r) ==
  /\ listing[r].status # "NONE"
  /\ Unlocked
  /\ SetOffers(OffersIn(r, {"ACTIVE"}), "NOT_SELECTED")
  /\ SetListing(r, "CANCELLED")
  /\ BackToEligible
  /\ UNCHANGED <<now, lockedBy, fee, evidence, requests>>

SupplierCancellable == {"ELIGIBLE", "OPEN_FOR_OFFERS"}

MayCancel == state \in SupplierCancellable /\ Unlocked

Cancel ==
  /\ MayCancel
  /\ state' = "CANCELLED"
  /\ IF state = "OPEN_FOR_OFFERS"
       THEN /\ listing' = [r \in Round |->
                             IF listing[r].status = "OPEN_FOR_OFFERS"
                               THEN [listing[r] EXCEPT !.status = "CANCELLED"]
                               ELSE listing[r]]
            /\ SetOffers({o \in Offer : offer[o].status \in CurrentOffer}, "WITHDRAWN")
       ELSE UNCHANGED <<listing, offer>>
  /\ UNCHANGED <<now, lockedBy, fee, evidence, requests>>

(***************************************************************************)
(* The scheduler's sweep: one pass closes due offer windows and then       *)
(* lapses due selections, each on the row its SELECT returned, all at the  *)
(* instant the pass began.                                                 *)
(***************************************************************************)
WindowDue(r, at) ==
  listing[r].status = "OPEN_FOR_OFFERS" /\ listing[r].offerDeadline <= at

(* Mutant of SelectionDue.                                                 *)
SelectionDueWhileOpen(r, at) ==
  listing[r].status = "OPEN_FOR_OFFERS" /\ listing[r].selectionDeadline <= at

SelectionDue(r, at) ==
  listing[r].status \in OpenListing /\ listing[r].selectionDeadline <= at

SweepStart ==
  /\ sweep = Idle
  /\ \/ \E r \in Round :
          WindowDue(r, now) /\ sweep' = [op |-> "close", round |-> r, at |-> now]
     \/ /\ \A r \in Round : ~WindowDue(r, now)
        /\ sweep' = [op |-> "findLapsed", at |-> now]
  /\ UNCHANGED <<now, state, lockedBy, listing, fee, offer, evidence, worker>>

SweepClose ==
  /\ sweep.op = "close"
  /\ SetListing(sweep.round, "AWAITING_SELECTION")
  /\ SetOffers(OffersIn(sweep.round, {"PENDING_INTERNAL_APPROVAL"}), "EXPIRED")
  /\ sweep' = [op |-> "findLapsed", at |-> sweep.at]
  /\ UNCHANGED <<now, state, lockedBy, fee, evidence, worker>>

SweepFindLapsed ==
  /\ sweep.op = "findLapsed"
  /\ \/ \E r \in Round :
          /\ SelectionDue(r, sweep.at)
          /\ sweep' = [op |-> "lapse", round |-> r, at |-> sweep.at]
     \/ /\ \A r \in Round : ~SelectionDue(r, sweep.at)
        /\ sweep' = Idle
  /\ UNCHANGED <<now, state, lockedBy, listing, fee, offer, evidence, worker>>

SweepLapse ==
  /\ sweep.op = "lapse"
  /\ SetOffers(OffersIn(sweep.round, CurrentOffer), "EXPIRED")
  /\ SetListing(sweep.round, "EXPIRED")
  /\ BackToEligible
  /\ sweep' = Idle
  /\ UNCHANGED <<now, lockedBy, fee, evidence, worker>>

(***************************************************************************)
(* A handler that fails, or whose statement an index refuses, leaves       *)
(* nothing; a restart of the process drops everything in flight.           *)
(***************************************************************************)
Fail(w) ==
  /\ worker[w] # Idle
  /\ Finish(w)
  /\ UNCHANGED <<now, state, lockedBy, listing, fee, offer, evidence, sweep>>

SweepFail ==
  /\ sweep # Idle
  /\ sweep' = Idle
  /\ UNCHANGED <<now, state, lockedBy, listing, fee, offer, evidence, worker>>

Tick ==
  /\ now < MaxClock
  /\ now' = now + 1
  /\ UNCHANGED <<state, lockedBy, listing, fee, offer, evidence, requests>>

Read(w) ==
  \/ ActivateRead(w)
  \/ \E r \in Round, b \in Bank : CreateRead(w, r, b)
  \/ \E o \in Offer :
       \/ ReviseRead(w, o)
       \/ \E by \in BankUser : ApproveRead(w, o, by)
       \/ WithdrawRead(w, o)
       \/ AcceptRead(w, o)

Commit(w) ==
  Activate(w) \/ Create(w) \/ Revise(w) \/ Approve(w) \/ Withdraw(w) \/ Accept(w)

SweepStep == SweepStart \/ SweepClose \/ SweepFindLapsed \/ SweepLapse

Next ==
  \/ \E w \in Worker : Read(w) \/ Commit(w) \/ Fail(w)
  \/ \E r \in Round : RejectAll(r)
  \/ Cancel
  \/ SweepStep
  \/ SweepFail
  \/ Tick

Spec == Init /\ [][Next]_vars

(* The scheduler ticks for as long as the process runs and a pass ends, in *)
(* success or in failure; a failed pass is retried on the next tick, so no *)
(* pass fails for ever; the clock advances.                                *)
Fairness ==
  /\ WF_vars(Tick)
  /\ WF_vars(SweepStep \/ SweepFail)
  /\ SF_vars(SweepClose) /\ SF_vars(SweepFindLapsed) /\ SF_vars(SweepLapse)

FairSpec == Spec /\ Fairness

-----------------------------------------------------------------------------
(***************************************************************************)
(* What must hold                                                          *)
(***************************************************************************)

(* Every column holds a value of its type, and a fee is owed by exactly    *)
(* the rounds that were opened (createFeeObligation).                      *)
TypeOK ==
  /\ now \in Clock
  /\ state \in TransactionState
  /\ lockedBy \in Offer \cup {NoOffer}
  /\ listing \in [Round -> [status : ListingStatus, offerDeadline : Nat, selectionDeadline : Nat]]
  /\ fee \in [Round -> {"NONE", "PAYABLE", "WAIVED"}]
  /\ offer \in [Offer -> [status : OfferStatus, validUntil : Nat,
                          approver : {"none"} \cup BankUser]]
  /\ selections \subseteq Offer /\ snapshots \subseteq Offer /\ charges \subseteq Offer
  /\ worker \in [Worker -> Request]
  /\ sweep \in Sweep

(* INV-1, INV-4, INV-5: whatever the handlers in flight read before the    *)
(* lock, there is evidence of a sale exactly when the transaction is       *)
(* locked, and only of the offer that holds the lock; no other offer is    *)
(* ever SELECTED.                                                          *)
LockEvidence ==
  /\ \A e \in {selections, snapshots, charges} :
       e = IF lockedBy = NoOffer THEN {} ELSE {lockedBy}
  /\ \A o \in Offer : offer[o].status = "SELECTED" => o = lockedBy

(* INV-12 at the point where it matters: however stale the row accept saw, *)
(* the bank it binds had a second user approve exactly that offer.         *)
WinnerWasApproved == lockedBy # NoOffer => offer[lockedBy].approver = "checker"

(* Cancel races acceptance: a receivable a bank has bought is never        *)
(* cancelled (its fingerprint would be released for a second sale).        *)
SoldIsNeverCancelled == lockedBy # NoOffer => state # "CANCELLED"

(* ZM-CON-017, and what the sweep relies on: a transaction that is open    *)
(* for offers has a listing that is still to be decided, whose deadline    *)
(* will close it; there are never two.                                     *)
OpenIsListed ==
  /\ OneActiveListing(listing)
  /\ state = "OPEN_FOR_OFFERS" => \E r \in Round : listing[r].status \in OpenListing

(* The selection deadline is final: whatever races the sweep loses, no     *)
(* listing stays undecided and no transaction stays open for offers; a     *)
(* receivable that was not sold or cancelled can be listed again.          *)
OnOffer ==
  state = "OPEN_FOR_OFFERS" \/ \E r \in Round : listing[r].status \in OpenListing

EveryRoundEnds == OnOffer ~> ~OnOffer

(* Acceptance is the atomic sale of AtomicSale; every other step, of every *)
(* handler and of the sweep, is a stutter of it.                           *)
Sale == INSTANCE AtomicSale WITH
  sale <- lockedBy,
  evidence <- [k \in {"selection", "snapshot", "charge"} |->
                 CASE k = "selection" -> selections
                   [] k = "snapshot" -> snapshots
                   [] k = "charge" -> charges]

AcceptanceIsAtomic == Sale!Spec

=============================================================================
