------------------------- MODULE MarketplaceProofs -------------------------
(***************************************************************************)
(* Marketplace for every set of banks, handlers, offer rows, windows and   *)
(* deadlines.                                                              *)
(***************************************************************************)
EXTENDS Marketplace, TLAPS

USE DEF Round, Clock, BankUser

(***************************************************************************)
(* What a handler or the sweep carries, by the operation it is in.         *)
(***************************************************************************)
LEMMA RequestShape ==
  ASSUME TypeOK, NEW w \in Worker
  PROVE  /\ worker[w].op = "activate" => worker[w].at \in Clock
         /\ worker[w].op = "create" => worker[w].round \in Round /\ worker[w].bank \in Bank
         /\ worker[w].op \in {"revise", "approve", "withdraw", "accept"} => worker[w].offer \in Offer
         /\ worker[w].op = "approve" => worker[w].by \in BankUser
  <1>1. worker[w] \in Request
    BY DEF TypeOK
  <1> QED  BY <1>1 DEF Request, Idle

LEMMA SweepShape ==
  ASSUME TypeOK
  PROVE  /\ sweep.op \in {"close", "lapse"} => sweep.round \in Round
         /\ sweep.op \in {"close", "lapse", "findLapsed"} => sweep.at \in Clock
  BY DEF TypeOK, Sweep, Idle

(***************************************************************************)
(* The helpers keep the tables well-typed.                                 *)
(***************************************************************************)
LEMMA SetListingType ==
  ASSUME TypeOK, NEW r \in Round, NEW s \in ListingStatus, SetListing(r, s)
  PROVE  listing' \in [Round -> [status : ListingStatus, offerDeadline : Nat, selectionDeadline : Nat]]
  BY DEF TypeOK, SetListing

LEMMA SetOffersType ==
  ASSUME TypeOK, NEW S, NEW s \in OfferStatus, SetOffers(S, s)
  PROVE  offer' \in [Offer -> [status : OfferStatus, validUntil : Nat, approver : {"none"} \cup BankUser]]
  BY DEF TypeOK, SetOffers

LEMMA WriteOfferType ==
  ASSUME TypeOK, NEW r \in Round, NEW b \in Bank, NEW S, WriteOffer(r, b, S)
  PROVE  offer' \in [Offer -> [status : OfferStatus, validUntil : Nat, approver : {"none"} \cup BankUser]]
  <1>1. PICK o \in Offer, v \in Validity :
          offer' = [p \in Offer |->
                     CASE p = o -> [status     |-> "PENDING_INTERNAL_APPROVAL",
                                    validUntil |-> v,
                                    approver   |-> "none"]
                       [] p \in S -> [offer[p] EXCEPT !.status = "REVISED"]
                       [] OTHER -> offer[p]]
    BY DEF WriteOffer
  <1>2. v \in Nat
    BY BoundAssumption
  <1>3. "PENDING_INTERNAL_APPROVAL" \in OfferStatus /\ "REVISED" \in OfferStatus
    BY DEF OfferStatus, CurrentOffer, FinalOffer
  <1> QED  BY <1>1, <1>2, <1>3 DEF TypeOK

LEMMA TakeType ==
  ASSUME TypeOK, NEW w \in Worker, NEW request \in Request, Take(w, request)
  PROVE  TypeOK'
  BY DEF TypeOK, Take, evidence

LEMMA FinishType ==
  ASSUME TypeOK, NEW w \in Worker, Finish(w)
  PROVE  worker' \in [Worker -> Request]
  <1>1. Idle \in Request
    BY DEF Request
  <1> QED  BY <1>1 DEF TypeOK, Finish

LEMMA OfferParts ==
  ASSUME NEW o \in Offer
  PROVE  o.round \in Round /\ o.bank \in Bank
  BY OfferAssumption

LEMMA Statuses ==
  /\ {"PENDING_INTERNAL_APPROVAL", "ACTIVE", "REVISED", "SELECTED", "NOT_SELECTED",
      "WITHDRAWN", "EXPIRED"} \subseteq OfferStatus
  /\ {"OPEN_FOR_OFFERS", "AWAITING_SELECTION", "OFFER_SELECTED", "EXPIRED", "CANCELLED"}
        \subseteq ListingStatus
  BY DEF OfferStatus, CurrentOffer, FinalOffer, ListingStatus, OpenListing, FinalListing

(***************************************************************************)
(* Every statement the handlers make keeps the tables well-typed.          *)
(***************************************************************************)
LEMMA ReadType ==
  ASSUME TypeOK, NEW w \in Worker, Read(w)
  PROVE  TypeOK'
  <1>1. CASE ActivateRead(w)
    <2>1. [op |-> "activate", at |-> now] \in Request
      BY DEF TypeOK, Request
    <2> QED  BY <1>1, <2>1, TakeType DEF ActivateRead
  <1>2. ASSUME NEW r \in Round, NEW b \in Bank, CreateRead(w, r, b)
        PROVE  TypeOK'
    <2>1. [op |-> "create", round |-> r, bank |-> b] \in Request
      BY DEF Request
    <2> QED  BY <1>2, <2>1, TakeType DEF CreateRead
  <1>3. ASSUME NEW o \in Offer,
               \/ ReviseRead(w, o)
               \/ \E by \in BankUser : ApproveRead(w, o, by)
               \/ WithdrawRead(w, o)
               \/ AcceptRead(w, o)
        PROVE  TypeOK'
    <2>1. \A by \in BankUser : [op |-> "approve", offer |-> o, by |-> by] \in Request
      BY DEF Request
    <2>2. \A op \in {"revise", "withdraw", "accept"} : [op |-> op, offer |-> o] \in Request
      BY DEF Request
    <2> QED  BY <1>3, <2>1, <2>2, TakeType DEF ReviseRead, ApproveRead, WithdrawRead, AcceptRead
  <1> QED  BY <1>1, <1>2, <1>3 DEF Read

LEMMA CommitType ==
  ASSUME TypeOK, NEW w \in Worker, Commit(w)
  PROVE  TypeOK'
  <1>1. CASE Activate(w)
    <2>1. PICK r \in Round :
            /\ listing' = [listing EXCEPT ![r] =
                            [status            |-> "OPEN_FOR_OFFERS",
                             offerDeadline     |-> worker[w].at + OfferWindow,
                             selectionDeadline |-> worker[w].at + OfferWindow + SelectionWindow]]
            /\ fee' = [fee EXCEPT ![r] = FeeStatus]
      BY <1>1 DEF Activate
    <2>2. worker[w].at \in Nat
      BY <1>1, RequestShape, BoundAssumption DEF Activate
    <2>3. listing' \in [Round -> [status : ListingStatus, offerDeadline : Nat, selectionDeadline : Nat]]
      BY <2>1, <2>2, Statuses, BoundAssumption DEF TypeOK
    <2>4. fee' \in [Round -> {"NONE", "PAYABLE", "WAIVED"}]
      BY <2>1 DEF TypeOK, FeeStatus
    <2>5. worker' \in [Worker -> Request]
      BY <1>1, FinishType DEF Activate
    <2> QED  BY <1>1, <2>3, <2>4, <2>5 DEF TypeOK, Activate, TransactionState, evidence
  <1>2. CASE Create(w)
    <2>1. worker[w].round \in Round /\ worker[w].bank \in Bank
      BY <1>2, RequestShape DEF Create
    <2> QED  BY <1>2, <2>1, WriteOfferType, FinishType DEF TypeOK, Create, evidence
  <1>3. CASE Revise(w)
    <2>1. worker[w].offer \in Offer
      BY <1>3, RequestShape DEF Revise
    <2> QED  BY <1>3, <2>1, OfferParts, WriteOfferType, FinishType DEF TypeOK, Revise, evidence
  <1>4. CASE Approve(w)
    <2>1. worker[w].offer \in Offer /\ worker[w].by \in BankUser
      BY <1>4, RequestShape DEF Approve
    <2> QED  BY <1>4, <2>1, Statuses, FinishType DEF TypeOK, Approve, evidence
  <1>5. CASE Withdraw(w)
    <2>1. worker[w].offer \in Offer
      BY <1>5, RequestShape DEF Withdraw
    <2> QED  BY <1>5, <2>1, Statuses, FinishType DEF TypeOK, Withdraw, evidence
  <1>6. CASE Accept(w)
    <2> DEFINE o == worker[w].offer
    <2>1. o \in Offer
      BY <1>6, RequestShape DEF Accept
    <2>2. offer' \in [Offer -> [status : OfferStatus, validUntil : Nat, approver : {"none"} \cup BankUser]]
      BY <1>6, <2>1, Statuses DEF TypeOK, Accept
    <2>3. listing' \in [Round -> [status : ListingStatus, offerDeadline : Nat, selectionDeadline : Nat]]
      BY <1>6, <2>1, OfferParts, Statuses, SetListingType DEF Accept
    <2>4. state' \in TransactionState
      BY <1>6 DEF Accept, TransactionState
    <2> QED  BY <1>6, <2>1, <2>2, <2>3, <2>4, FinishType DEF TypeOK, Accept
  <1> QED  BY <1>1, <1>2, <1>3, <1>4, <1>5, <1>6 DEF Commit

LEMMA SweepType ==
  ASSUME TypeOK, SweepStep \/ SweepFail
  PROVE  TypeOK'
  <1>1. CASE SweepStart
    BY <1>1 DEF TypeOK, SweepStart, Sweep, evidence
  <1>2. CASE SweepClose
    <2>1. sweep.round \in Round /\ sweep.at \in Clock
      BY <1>2, SweepShape DEF SweepClose
    <2>2. listing' \in [Round -> [status : ListingStatus, offerDeadline : Nat, selectionDeadline : Nat]]
      BY <1>2, <2>1, Statuses, SetListingType DEF SweepClose
    <2>3. offer' \in [Offer -> [status : OfferStatus, validUntil : Nat, approver : {"none"} \cup BankUser]]
      BY <1>2, Statuses, SetOffersType DEF SweepClose
    <2> QED  BY <1>2, <2>1, <2>2, <2>3 DEF TypeOK, SweepClose, Sweep, evidence
  <1>3. CASE SweepFindLapsed
    <2>1. sweep.at \in Clock
      BY <1>3, SweepShape DEF SweepFindLapsed
    <2> QED  BY <1>3, <2>1 DEF TypeOK, SweepFindLapsed, Sweep, evidence
  <1>4. CASE SweepLapse
    <2>1. sweep.round \in Round
      BY <1>4, SweepShape DEF SweepLapse
    <2>2. listing' \in [Round -> [status : ListingStatus, offerDeadline : Nat, selectionDeadline : Nat]]
      BY <1>4, <2>1, Statuses, SetListingType DEF SweepLapse
    <2>3. offer' \in [Offer -> [status : OfferStatus, validUntil : Nat, approver : {"none"} \cup BankUser]]
      BY <1>4, Statuses, SetOffersType DEF SweepLapse
    <2>4. state' \in TransactionState
      BY <1>4 DEF SweepLapse, BackToEligible, TransactionState, TypeOK
    <2> QED  BY <1>4, <2>2, <2>3, <2>4 DEF TypeOK, SweepLapse, Sweep, evidence
  <1>5. CASE SweepFail
    BY <1>5 DEF TypeOK, SweepFail, Sweep, evidence
  <1> QED  BY <1>1, <1>2, <1>3, <1>4, <1>5 DEF SweepStep

LEMMA SupplierType ==
  ASSUME TypeOK, Cancel \/ \E r \in Round : RejectAll(r)
  PROVE  TypeOK'
  <1>1. ASSUME NEW r \in Round, RejectAll(r)
        PROVE  TypeOK'
    <2>1. listing' \in [Round -> [status : ListingStatus, offerDeadline : Nat, selectionDeadline : Nat]]
      BY <1>1, Statuses, SetListingType DEF RejectAll
    <2>2. offer' \in [Offer -> [status : OfferStatus, validUntil : Nat, approver : {"none"} \cup BankUser]]
      BY <1>1, Statuses, SetOffersType DEF RejectAll
    <2>3. state' \in TransactionState
      BY <1>1 DEF RejectAll, BackToEligible, TransactionState, TypeOK
    <2> QED  BY <1>1, <2>1, <2>2, <2>3 DEF TypeOK, RejectAll, evidence, requests
  <1>2. CASE Cancel
    <2>1. listing' \in [Round -> [status : ListingStatus, offerDeadline : Nat, selectionDeadline : Nat]]
      BY <1>2, Statuses DEF Cancel, TypeOK
    <2>2. offer' \in [Offer -> [status : OfferStatus, validUntil : Nat, approver : {"none"} \cup BankUser]]
      BY <1>2, Statuses, SetOffersType DEF Cancel, TypeOK
    <2> QED  BY <1>2, <2>1, <2>2 DEF TypeOK, Cancel, TransactionState, evidence, requests
  <1> QED  BY <1>1, <1>2

(* The tables hold values of their types whatever the handlers in flight   *)
(* read before they wrote.                                                 *)
THEOREM TypeCorrect == Spec => []TypeOK
  <1>1. Init => TypeOK
    BY BoundAssumption DEF Init, TypeOK, TransactionState, NoListing, NoRow, Request, Sweep,
                           ListingStatus, OfferStatus
  <1>2. TypeOK /\ [Next]_vars => TypeOK'
    <2> SUFFICES ASSUME TypeOK, [Next]_vars  PROVE TypeOK'
      OBVIOUS
    <2>1. ASSUME NEW w \in Worker, Fail(w)
          PROVE  TypeOK'
      BY <2>1, FinishType DEF Fail, TypeOK, evidence
    <2>2. CASE Tick
      BY <2>2, BoundAssumption DEF Tick, TypeOK, evidence, requests
    <2>3. CASE UNCHANGED vars
      BY <2>3 DEF vars, evidence, requests, TypeOK
    <2> QED  BY <2>1, <2>2, <2>3, ReadType, CommitType, SweepType, SupplierType DEF Next
  <1> QED  BY <1>1, <1>2, PTL DEF Spec

-----------------------------------------------------------------------------
(***************************************************************************)
(* The sale.  Only Accept writes the lock and the evidence, and it writes  *)
(* them on the row it holds.                                               *)
(***************************************************************************)
NoSale == UNCHANGED <<lockedBy, selections, snapshots, charges>>

(* A step that sells nothing selects nothing.                              *)
NoneSelected ==
  \A o \in Offer : offer'[o].status = "SELECTED" => offer[o].status = "SELECTED"

LEMMA SetOffersSelects ==
  ASSUME NEW S, NEW s, s # "SELECTED", TypeOK, SetOffers(S, s)
  PROVE  NoneSelected
  BY DEF SetOffers, NoneSelected, TypeOK

LEMMA WriteOfferSelects ==
  ASSUME NEW r, NEW b, NEW S, TypeOK, WriteOffer(r, b, S)
  PROVE  NoneSelected
  <1>1. PICK o \in Offer, v \in Validity :
          offer' = [p \in Offer |->
                     CASE p = o -> [status     |-> "PENDING_INTERNAL_APPROVAL",
                                    validUntil |-> v,
                                    approver   |-> "none"]
                       [] p \in S -> [offer[p] EXCEPT !.status = "REVISED"]
                       [] OTHER -> offer[p]]
    BY DEF WriteOffer
  <1> QED  BY <1>1 DEF NoneSelected, TypeOK

LEMMA OnlyAcceptSells ==
  ASSUME TypeOK, [Next]_vars
  PROVE  (NoSale /\ NoneSelected) \/ \E w \in Worker : Accept(w)
  <1> USE DEF NoSale, evidence, requests
  <1>1. ASSUME NEW w \in Worker, Read(w)
        PROVE  NoSale /\ NoneSelected
    BY <1>1 DEF Read, ActivateRead, CreateRead, ReviseRead, ApproveRead, WithdrawRead, AcceptRead,
                Take, NoneSelected
  <1>2. ASSUME NEW w \in Worker, Activate(w) \/ Fail(w)
        PROVE  NoSale /\ NoneSelected
    BY <1>2 DEF Activate, Fail, NoneSelected
  <1>3. ASSUME NEW w \in Worker, Create(w) \/ Revise(w)
        PROVE  NoSale /\ NoneSelected
    <2>1. CASE Create(w)
      BY <2>1, WriteOfferSelects DEF Create
    <2>2. CASE Revise(w)
      BY <2>2, WriteOfferSelects DEF Revise
    <2> QED  BY <1>3, <2>1, <2>2
  <1>4. ASSUME NEW w \in Worker, Approve(w) \/ Withdraw(w)
        PROVE  NoSale /\ NoneSelected
    BY <1>4 DEF Approve, Withdraw, NoneSelected, TypeOK
  <1>5. ASSUME NEW r \in Round, RejectAll(r)
        PROVE  NoSale /\ NoneSelected
    BY <1>5, SetOffersSelects DEF RejectAll
  <1>6. CASE Cancel
    <2>1. CASE state = "OPEN_FOR_OFFERS"
      BY <1>6, <2>1, SetOffersSelects DEF Cancel
    <2>2. CASE state # "OPEN_FOR_OFFERS"
      BY <1>6, <2>2 DEF Cancel, NoneSelected
    <2> QED  BY <2>1, <2>2
  <1>7. CASE SweepStart \/ SweepFindLapsed \/ SweepFail \/ Tick \/ UNCHANGED vars
    BY <1>7 DEF SweepStart, SweepFindLapsed, SweepFail, Tick, vars, NoneSelected
  <1>8. CASE SweepClose \/ SweepLapse
    <2>1. CASE SweepClose
      BY <2>1, SetOffersSelects DEF SweepClose
    <2>2. CASE SweepLapse
      BY <2>2, SetOffersSelects DEF SweepLapse
    <2> QED  BY <1>8, <2>1, <2>2
  <1> QED  BY <1>1, <1>2, <1>3, <1>4, <1>5, <1>6, <1>7, <1>8 DEF Next, Commit, SweepStep

(* The winner's row, the losers' and the evidence, as one acceptance       *)
(* leaves them.                                                            *)
LEMMA AcceptSells ==
  ASSUME TypeOK, LockEvidence, NEW w \in Worker, Accept(w)
  PROVE  /\ worker[w].offer \in Offer
         /\ lockedBy = NoOffer
         /\ lockedBy' = worker[w].offer
         /\ selections' = {lockedBy'} /\ snapshots' = {lockedBy'} /\ charges' = {lockedBy'}
         /\ \A o \in Offer : offer'[o].status = "SELECTED" => o = lockedBy'
  <1>1. worker[w].offer \in Offer
    BY RequestShape DEF Accept
  <1>2. lockedBy = NoOffer
    BY DEF Accept, Unlocked
  <1>3. selections = {} /\ snapshots = {} /\ charges = {}
    BY <1>2 DEF LockEvidence
  <1>4. \A o \in Offer : offer[o].status # "SELECTED"
    BY <1>2, NoOfferAssumption DEF LockEvidence
  <1>5. \A o \in Offer : offer'[o].status = "SELECTED" => o = worker[w].offer
    BY <1>4 DEF Accept, TypeOK
  <1> QED  BY <1>1, <1>2, <1>3, <1>5 DEF Accept

LEMMA SaleStep ==
  ASSUME TypeOK, LockEvidence, [Next]_vars
  PROVE  LockEvidence'
  <1>1. CASE NoSale /\ NoneSelected
    BY <1>1 DEF NoSale, NoneSelected, LockEvidence
  <1>2. ASSUME NEW w \in Worker, Accept(w)
        PROVE  LockEvidence'
    <2>1. lockedBy' # NoOffer
      BY <1>2, AcceptSells, NoOfferAssumption
    <2> QED  BY <1>2, <2>1, AcceptSells DEF LockEvidence
  <1> QED  BY <1>1, <1>2, OnlyAcceptSells

(* INV-1, INV-4 and INV-5 for any number of banks and concurrent           *)
(* acceptances: one lock, one selection, one snapshot, one charge, all of  *)
(* the same offer.                                                         *)
THEOREM LockEvidenceHolds == Spec => []LockEvidence
  <1>1. Init => LockEvidence
    BY NoOfferAssumption DEF Init, LockEvidence, NoRow
  <1>2. TypeOK /\ LockEvidence /\ [Next]_vars => LockEvidence'
    BY SaleStep
  <1> QED  BY <1>1, <1>2, TypeCorrect, PTL DEF Spec

(* Acceptance is the atomic sale: reads made before the lock, losing       *)
(* acceptances, the sweep and a crash between two statements are all       *)
(* invisible at this level.                                                *)
THEOREM AcceptanceRefinesSale == Spec => AcceptanceIsAtomic
  <1>1. Init => Sale!Init
    BY DEF Init, Sale!Init, Sale!Kind
  <1>2. TypeOK /\ LockEvidence /\ [Next]_vars => [Sale!Next]_(Sale!vars)
    <2> SUFFICES ASSUME TypeOK, LockEvidence, [Next]_vars
                 PROVE  [Sale!Next]_(Sale!vars)
      OBVIOUS
    <2>1. CASE NoSale
      BY <2>1 DEF NoSale, Sale!vars
    <2>2. ASSUME NEW w \in Worker, Accept(w)
          PROVE  Sale!Next
      <3>1. PICK o \in Offer : o = worker[w].offer
        BY <2>2, AcceptSells
      <3>2. Sale!Sell(o)
        BY <2>2, <3>1, AcceptSells DEF Sale!Sell, Sale!Kind
      <3> QED  BY <3>2 DEF Sale!Next
    <2> QED  BY <2>1, <2>2, OnlyAcceptSells
  <1> QED  BY <1>1, <1>2, TypeCorrect, LockEvidenceHolds, PTL DEF Spec, AcceptanceIsAtomic, Sale!Spec

(* No interleaving cancels a receivable a bank has bought.                 *)
THEOREM SoldStaysSold == Spec => []SoldIsNeverCancelled
  <1>1. Init => SoldIsNeverCancelled
    BY DEF Init, SoldIsNeverCancelled
  <1>2. SoldIsNeverCancelled /\ [Next]_vars => SoldIsNeverCancelled'
    <2> SUFFICES ASSUME SoldIsNeverCancelled, [Next]_vars
                 PROVE  SoldIsNeverCancelled'
      OBVIOUS
    <2> USE DEF SoldIsNeverCancelled, evidence, requests
    <2>1. ASSUME NEW w \in Worker, Read(w) \/ Fail(w)
          PROVE  SoldIsNeverCancelled'
      BY <2>1 DEF Read, ActivateRead, CreateRead, ReviseRead, ApproveRead, WithdrawRead, AcceptRead,
                  Take, Fail
    <2>2. ASSUME NEW w \in Worker, Commit(w)
          PROVE  SoldIsNeverCancelled'
      BY <2>2 DEF Commit, Activate, Create, Revise, Approve, Withdraw, Accept
    <2>3. ASSUME NEW r \in Round, RejectAll(r)
          PROVE  SoldIsNeverCancelled'
      BY <2>3 DEF RejectAll, BackToEligible
    <2>4. CASE Cancel
      BY <2>4 DEF Cancel, MayCancel, Unlocked
    <2>5. CASE SweepStep \/ SweepFail
      BY <2>5 DEF SweepStep, SweepStart, SweepClose, SweepFindLapsed, SweepLapse, SweepFail,
                  BackToEligible
    <2>6. CASE Tick \/ UNCHANGED vars
      BY <2>6 DEF Tick, vars
    <2> QED  BY <2>1, <2>2, <2>3, <2>4, <2>5, <2>6 DEF Next
  <1> QED  BY <1>1, <1>2, PTL DEF Spec

-----------------------------------------------------------------------------
(***************************************************************************)
(* Listings.  The unique index is asked by every statement that writes a   *)
(* status; what has to be shown is that no step both leaves the            *)
(* transaction open for offers and ends the listing that would close it.   *)
(***************************************************************************)
Listed == \E r \in Round : listing[r].status \in OpenListing

LEMMA ActivateLists ==
  ASSUME TypeOK, NEW w \in Worker, Activate(w)
  PROVE  OneActiveListing(listing') /\ Listed'
  <1>1. PICK r \in Round :
          /\ listing' = [listing EXCEPT ![r] =
                          [status            |-> "OPEN_FOR_OFFERS",
                           offerDeadline     |-> worker[w].at + OfferWindow,
                           selectionDeadline |-> worker[w].at + OfferWindow + SelectionWindow]]
          /\ OneActiveListing(listing')
    BY DEF Activate
  <1>2. listing'[r].status \in OpenListing
    BY <1>1 DEF TypeOK, OpenListing
  <1> QED  BY <1>1, <1>2 DEF Listed

LEMMA CancelKeepsOne ==
  ASSUME TypeOK, OneActiveListing(listing), Cancel
  PROVE  OneActiveListing(listing')
  <1>1. CASE state = "OPEN_FOR_OFFERS"
    <2>1. \A r \in Round : listing'[r].status \in OpenListing => listing[r].status \in OpenListing
      BY <1>1 DEF Cancel, TypeOK, OpenListing
    <2> QED  BY <2>1 DEF OneActiveListing
  <1>2. CASE state # "OPEN_FOR_OFFERS"
    BY <1>2 DEF Cancel
  <1> QED  BY <1>1, <1>2

(* ZM-CON-017 for any number of rounds: never two active listings, and a   *)
(* transaction open for offers always has one, which the sweep will end.   *)
THEOREM OpenIsAlwaysListed == Spec => []OpenIsListed
  <1>1. Init => OpenIsListed
    BY DEF Init, OpenIsListed, OneActiveListing, NoListing, OpenListing
  <1>2. TypeOK /\ OpenIsListed /\ [Next]_vars => OpenIsListed'
    <2> SUFFICES ASSUME TypeOK, OpenIsListed, [Next]_vars
                 PROVE  OpenIsListed'
      OBVIOUS
    <2> USE DEF evidence, requests
    <2>1. CASE UNCHANGED <<state, listing>>
      BY <2>1 DEF OpenIsListed, OneActiveListing
    <2>2. ASSUME NEW w \in Worker, Activate(w)
          PROVE  OpenIsListed'
      BY <2>2, ActivateLists DEF OpenIsListed, Listed, OneActiveListing
    <2>3. ASSUME NEW w \in Worker, Accept(w)
          PROVE  OpenIsListed'
      BY <2>3 DEF Accept, SetListing, OpenIsListed, OneActiveListing
    <2>4. ASSUME NEW r \in Round, RejectAll(r)
          PROVE  OpenIsListed'
      BY <2>4 DEF RejectAll, SetListing, BackToEligible, OpenIsListed, OneActiveListing
    <2>5. CASE Cancel
      BY <2>5, CancelKeepsOne DEF Cancel, OpenIsListed, OneActiveListing
    <2>6. CASE SweepClose
      <3>1. sweep.round \in Round
        BY <2>6, SweepShape DEF SweepClose
      <3>2. listing'[sweep.round].status \in OpenListing
        BY <2>6, <3>1 DEF SweepClose, SetListing, TypeOK, OpenListing
      <3>3. OneActiveListing(listing')
        BY <2>6 DEF SweepClose, SetListing
      <3> QED  BY <3>1, <3>2, <3>3 DEF OpenIsListed, OneActiveListing
    <2>7. CASE SweepLapse
      BY <2>7 DEF SweepLapse, SetListing, BackToEligible, OpenIsListed, OneActiveListing
    <2>8. ASSUME NEW w \in Worker,
                 \/ Read(w) \/ Fail(w) \/ Create(w) \/ Revise(w) \/ Approve(w) \/ Withdraw(w)
          PROVE  UNCHANGED <<state, listing>>
      BY <2>8 DEF Read, ActivateRead, CreateRead, ReviseRead, ApproveRead, WithdrawRead, AcceptRead,
                  Take, Fail, Create, Revise, Approve, Withdraw
    <2>9. CASE SweepStart \/ SweepFindLapsed \/ SweepFail \/ Tick \/ UNCHANGED vars
      BY <2>9, <2>1 DEF SweepStart, SweepFindLapsed, SweepFail, Tick, vars
    <2> QED  BY <2>1, <2>2, <2>3, <2>4, <2>5, <2>6, <2>7, <2>8, <2>9 DEF Next, Commit, SweepStep
  <1> QED  BY <1>1, <1>2, TypeCorrect, PTL DEF Spec

-----------------------------------------------------------------------------
(***************************************************************************)
(* Four eyes.  Accept trusts a row it read before the lock; what makes     *)
(* that sound is that an approval, once on a row, stays on it: rows are    *)
(* superseded by new rows and never written back to an unapproved state.   *)
(***************************************************************************)
Approved(o) == offer[o].approver = "checker"

ApprovalInv ==
  /\ \A o \in Offer : offer[o].status = "NONE" => offer[o].approver = "none"
  /\ \A o \in Offer : offer[o].status = "ACTIVE" => Approved(o)
  /\ \A w \in Worker : worker[w].op = "accept" => Approved(worker[w].offer)
  /\ WinnerWasApproved

(* What a step may do to the offers without disturbing the invariant.      *)
KeepsApprovals ==
  \A o \in Offer :
    /\ Approved(o) => Approved(o)'
    /\ offer'[o].status = "NONE" => offer[o].status = "NONE" /\ offer'[o].approver = offer[o].approver
    /\ offer'[o].status = "ACTIVE" => offer[o].status = "ACTIVE" \/ Approved(o)'

LEMMA SetOffersKeeps ==
  ASSUME TypeOK, NEW S, NEW s, s \notin {"NONE", "ACTIVE"}, SetOffers(S, s)
  PROVE  KeepsApprovals
  BY DEF SetOffers, TypeOK, KeepsApprovals, Approved

LEMMA WriteOfferKeeps ==
  ASSUME TypeOK, ApprovalInv, NEW r, NEW b, NEW S, WriteOffer(r, b, S)
  PROVE  KeepsApprovals
  <1>1. PICK o \in Offer, v \in Validity :
          /\ offer[o].status = "NONE"
          /\ offer' = [p \in Offer |->
                         CASE p = o -> [status     |-> "PENDING_INTERNAL_APPROVAL",
                                        validUntil |-> v,
                                        approver   |-> "none"]
                           [] p \in S -> [offer[p] EXCEPT !.status = "REVISED"]
                           [] OTHER -> offer[p]]
    BY DEF WriteOffer
  <1>2. offer[o].approver = "none"
    BY <1>1 DEF ApprovalInv
  <1> QED  BY <1>1, <1>2 DEF TypeOK, KeepsApprovals, Approved

LEMMA NextKeepsApprovals ==
  ASSUME TypeOK, ApprovalInv, [Next]_vars
  PROVE  KeepsApprovals
  <1> USE DEF evidence, requests
  <1>1. CASE UNCHANGED offer
    BY <1>1 DEF KeepsApprovals, Approved
  <1>2. ASSUME NEW w \in Worker, Create(w) \/ Revise(w)
        PROVE  KeepsApprovals
    <2>1. CASE Create(w)
      BY <2>1, WriteOfferKeeps DEF Create
    <2>2. CASE Revise(w)
      BY <2>2, WriteOfferKeeps DEF Revise
    <2> QED  BY <1>2, <2>1, <2>2
  <1>3. ASSUME NEW w \in Worker, Approve(w)
        PROVE  KeepsApprovals
    <2>1. worker[w].by = "checker"
      BY <1>3, RequestShape DEF Approve, FourEyes
    <2> QED  BY <1>3, <2>1 DEF Approve, TypeOK, KeepsApprovals, Approved
  <1>4. ASSUME NEW w \in Worker, Withdraw(w) \/ Accept(w)
        PROVE  KeepsApprovals
    <2>1. CASE Withdraw(w)
      BY <2>1 DEF Withdraw, TypeOK, KeepsApprovals, Approved
    <2>2. CASE Accept(w)
      <3>1. \A p \in Offer : offer'[p].approver = offer[p].approver
        BY <2>2 DEF Accept, TypeOK
      <3>2. \A p \in Offer :
              offer'[p].status \in {offer[p].status, "SELECTED", "NOT_SELECTED"}
        BY <2>2 DEF Accept, TypeOK
      <3> QED  BY <3>1, <3>2 DEF KeepsApprovals, Approved
    <2> QED  BY <1>4, <2>1, <2>2
  <1>5. ASSUME NEW r \in Round, RejectAll(r)
        PROVE  KeepsApprovals
    BY <1>5, SetOffersKeeps DEF RejectAll
  <1>6. CASE Cancel
    <2>1. CASE state = "OPEN_FOR_OFFERS"
      BY <1>6, <2>1, SetOffersKeeps DEF Cancel
    <2> QED  BY <1>6, <2>1, <1>1 DEF Cancel
  <1>7. CASE SweepClose \/ SweepLapse
    <2>1. CASE SweepClose
      BY <2>1, SetOffersKeeps DEF SweepClose
    <2>2. CASE SweepLapse
      BY <2>2, SetOffersKeeps DEF SweepLapse
    <2> QED  BY <1>7, <2>1, <2>2
  <1>8. ASSUME NEW w \in Worker, Read(w) \/ Fail(w) \/ Activate(w)
        PROVE  UNCHANGED offer
    BY <1>8 DEF Read, ActivateRead, CreateRead, ReviseRead, ApproveRead, WithdrawRead, AcceptRead,
                Take, Fail, Activate
  <1>9. CASE SweepStart \/ SweepFindLapsed \/ SweepFail \/ Tick \/ UNCHANGED vars
    BY <1>9, <1>1 DEF SweepStart, SweepFindLapsed, SweepFail, Tick, vars
  <1> QED  BY <1>1, <1>2, <1>3, <1>4, <1>5, <1>6, <1>7, <1>8, <1>9 DEF Next, Commit, SweepStep

(* A handler that is accepting after a step either was before it, or has   *)
(* just read an active offer.                                              *)
LEMMA AcceptingReadActive ==
  ASSUME TypeOK, [Next]_vars, NEW w \in Worker, worker'[w].op = "accept"
  PROVE  \/ worker'[w] = worker[w]
         \/ worker'[w].offer \in Offer /\ offer[worker'[w].offer].status = "ACTIVE"
  <1> USE DEF evidence, requests
  <1>1. ASSUME NEW v \in Worker, Read(v)
        PROVE  \/ worker'[w] = worker[w]
               \/ worker'[w].offer \in Offer /\ offer[worker'[w].offer].status = "ACTIVE"
    BY <1>1 DEF Read, ActivateRead, CreateRead, ReviseRead, ApproveRead, WithdrawRead, AcceptRead,
                Take, Acceptable, TypeOK
  <1>2. ASSUME NEW v \in Worker, Commit(v) \/ Fail(v)
        PROVE  worker'[w] = worker[w]
    <2>1. worker' = [worker EXCEPT ![v] = Idle]
      BY <1>2 DEF Commit, Activate, Create, Revise, Approve, Withdraw, Accept, Fail, Finish
    <2> QED  BY <2>1 DEF TypeOK, Idle
  <1>3. CASE UNCHANGED worker
    BY <1>3
  <1>4. CASE Cancel \/ SweepStep \/ SweepFail \/ Tick \/ UNCHANGED vars
             \/ \E r \in Round : RejectAll(r)
    BY <1>4 DEF Cancel, SweepStep, SweepStart, SweepClose, SweepFindLapsed, SweepLapse, SweepFail,
                Tick, RejectAll, vars
  <1> QED  BY <1>1, <1>2, <1>3, <1>4 DEF Next

(* INV-12 carried to the sale, for any number of stale handlers.           *)
THEOREM WinnerAlwaysApproved == Spec => []WinnerWasApproved
  <1>1. Init => ApprovalInv
    BY DEF Init, ApprovalInv, WinnerWasApproved, NoRow, Idle
  <1>2. TypeOK /\ TypeOK' /\ LockEvidence /\ ApprovalInv /\ [Next]_vars => ApprovalInv'
    <2> SUFFICES ASSUME TypeOK, TypeOK', LockEvidence, ApprovalInv, [Next]_vars
                 PROVE  ApprovalInv'
      OBVIOUS
    <2>1. KeepsApprovals
      BY NextKeepsApprovals
    <2>2. \A o \in Offer : offer'[o].status = "NONE" => offer'[o].approver = "none"
      BY <2>1 DEF KeepsApprovals, ApprovalInv
    <2>3. \A o \in Offer : offer'[o].status = "ACTIVE" => Approved(o)'
      BY <2>1 DEF KeepsApprovals, ApprovalInv
    <2>4. ASSUME NEW w \in Worker, worker'[w].op = "accept"
          PROVE  offer'[worker'[w].offer].approver = "checker"
      <3>1. CASE worker'[w] = worker[w]
        <4>1. worker[w].offer \in Offer /\ Approved(worker[w].offer)
          BY <2>4, <3>1, RequestShape DEF ApprovalInv
        <4> QED  BY <2>1, <3>1, <4>1 DEF KeepsApprovals, Approved
      <3>2. CASE worker'[w].offer \in Offer /\ offer[worker'[w].offer].status = "ACTIVE"
        BY <2>1, <3>2 DEF KeepsApprovals, ApprovalInv, Approved
      <3> QED  BY <2>4, <3>1, <3>2, AcceptingReadActive
    <2>5. WinnerWasApproved'
      <3>1. CASE lockedBy' = lockedBy
        BY <2>1, <3>1 DEF KeepsApprovals, ApprovalInv, WinnerWasApproved, Approved, TypeOK
      <3>2. ASSUME NEW w \in Worker, Accept(w)
            PROVE  WinnerWasApproved'
        <4>1. lockedBy' = worker[w].offer /\ worker[w].offer \in Offer
          BY <3>2, AcceptSells
        <4>2. Approved(worker[w].offer)
          BY <3>2 DEF Accept, ApprovalInv
        <4> QED  BY <2>1, <4>1, <4>2 DEF KeepsApprovals, WinnerWasApproved, Approved
      <3> QED  BY <3>1, <3>2, OnlyAcceptSells DEF NoSale
    <2> QED  BY <2>2, <2>3, <2>4, <2>5 DEF ApprovalInv, Approved
  <1>3. ApprovalInv => WinnerWasApproved
    BY DEF ApprovalInv
  <1> QED  BY <1>1, <1>2, <1>3, TypeCorrect, LockEvidenceHolds, PTL DEF Spec

=============================================================================
