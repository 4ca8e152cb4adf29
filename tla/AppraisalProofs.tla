---------------------------- MODULE AppraisalProofs ----------------------------
(***************************************************************************)
(* Proofs about what a transaction is appraised at: Pricing, for any       *)
(* tariff, any appetite, any number of rounds and any number of changes to *)
(* them; and Screening as MCAppraisal runs it, for any facts the platform  *)
(* can hold, any answer of the model and any version of the weights and    *)
(* thresholds.                                                             *)
(***************************************************************************)
EXTENDS MCAppraisal, FiniteSetTheorems, WellFoundedInduction, TLAPS

(***************************************************************************)
(* Pricing.                                                                *)
(***************************************************************************)
Amounts == [gross : Int, discount : Int, bankFees : Int, commission : Int,
            listingFee : Int, other : Int]

RoundType == [fee : Nat, status : {"PAYABLE", "WAIVED", "DEDUCTED"}, invited : SUBSET Bank]

Frozen == [gross : Int, commission : Int, listingFee : Int, net : Int]

State == {"ELIGIBLE", "OPEN_FOR_OFFERS", "OFFER_ACCEPTED", "FUNDING_SENT", "PAYOUT_COMPLETED"}

Typed ==
  /\ tiers \subseteq Tier
  /\ fee \in Nat
  /\ receivable \in [outstanding : Int, floor : SUBSET Int]
  /\ state \in State
  /\ rounds \in Seq(RoundType)
  /\ offers \in [Bank -> SUBSET Amounts]

(* What the round in hand left owing.                                      *)
Owed == UnpaidListingFee(Round)

(* An offer that was written in this round: its net is positive, nothing   *)
(* in it is negative, and it withholds the fee the round left owing.       *)
OffersSound ==
  state = "OPEN_FOR_OFFERS" =>
    /\ rounds # <<>>
    /\ \A b \in Bank : \A o \in offers[b] :
         /\ o.discount >= 0 /\ o.bankFees >= 0 /\ o.other >= 0
         /\ o.commission >= 0
         /\ NetPayoutOf(o) > 0
         /\ o.listingFee = Owed

(* What a deal freezes, before and after the money moves.                  *)
SnapshotSound(s) ==
  /\ s \in Frozen
  /\ s.commission >= 0 /\ s.net > 0
  /\ s.commission + s.listingFee + s.net <= s.gross
  /\ s.listingFee = Owed

DealSound ==
  /\ state \in {"ELIGIBLE", "OPEN_FOR_OFFERS"} => snapshot = {} /\ charge = {}
  /\ state \in {"ELIGIBLE", "OPEN_FOR_OFFERS", "OFFER_ACCEPTED"} => settlement = {}
  /\ state \in {"OFFER_ACCEPTED", "FUNDING_SENT", "PAYOUT_COMPLETED"} =>
       /\ rounds # <<>>
       /\ \E s, c : /\ snapshot = {s} /\ SnapshotSound(s)
                    /\ charge = {c}
                    /\ \E p \in Nat : c = [basis |-> s.gross, amount |-> s.commission, percentage |-> p,
                                           status |-> IF state = "PAYOUT_COMPLETED" THEN "FINALIZED" ELSE "CALCULATED"]
                    /\ state # "OFFER_ACCEPTED" =>
                         settlement = {[gross |-> s.gross, commission |-> s.commission,
                                        fee |-> s.listingFee, net |-> s.net]}

(* No offer of an earlier round is left when a new one opens.              *)
Vacant == state # "OPEN_FOR_OFFERS" => \A b \in Bank : offers[b] = {}

IInv == Typed /\ OffersSound /\ DealSound /\ Vacant

(***************************************************************************)
(* Arithmetic.                                                             *)
(***************************************************************************)
LEMMA ProductNat ==
  ASSUME NEW x \in Nat, NEW y \in Nat
  PROVE  x * y \in Nat
  OBVIOUS

LEMMA QuoteNat ==
  ASSUME NEW tier \in Tier, NEW gross \in Nat
  PROVE  Quote(tier, gross) \in Nat
  <1>1. tier.percentage \in Nat /\ tier.fixed \in Nat
    BY TariffAssumption
  <1> DEFINE n == gross * tier.percentage
  <1>2. n \in Nat
    BY <1>1, ProductNat
  <1>3. HalfUp(n, 100) = (2 * n + 100) \div 200
    BY DEF HalfUp
  <1> HIDE DEF n
  <1>4. (2 * n + 100) \div 200 \in Nat
    BY <1>2
  <1>5. HalfUp(n, 100) + tier.fixed \in Nat
    BY <1>1, <1>3, <1>4
  <1> QED  BY <1>5 DEF Quote, n

LEMMA RoundTyped ==
  ASSUME Typed, rounds # <<>>
  PROVE  Round \in RoundType /\ Len(rounds) \in 1..Len(rounds)
  BY DEF Typed, Round

LEMMA OwedNat ==
  ASSUME Typed, rounds # <<>>
  PROVE  Owed \in Nat
  BY RoundTyped DEF Owed, UnpaidListingFee, RoundType

(***************************************************************************)
(* Initially.                                                              *)
(***************************************************************************)
LEMMA InitIInv == Init => IInv
  <1> SUFFICES ASSUME Init PROVE IInv
    OBVIOUS
  <1>1. fee \in Nat /\ tiers \subseteq Tier
    BY TariffAssumption DEF Init
  <1>2. receivable \in [outstanding : Int, floor : SUBSET Int]
    BY TariffAssumption DEF Init
  <1>3. rounds \in Seq(RoundType)
    BY DEF Init
  <1>4. offers \in [Bank -> SUBSET Amounts]
    BY DEF Init
  <1> QED  BY <1>1, <1>2, <1>3, <1>4 DEF Init, IInv, Typed, OffersSound, DealSound, State, Vacant

(***************************************************************************)
(* Steps that leave the market and the deal alone.                         *)
(***************************************************************************)
LEMMA Outside ==
  ASSUME IInv, UNCHANGED <<market, deal>>, Typed'
  PROVE  IInv'
  <1>1. UNCHANGED <<state, rounds, offers, snapshot, charge, settlement>>
    BY DEF market, deal
  <1>2. Owed' = Owed
    BY <1>1 DEF Owed, UnpaidListingFee, Round
  <1>3. OffersSound'
    BY <1>1, <1>2 DEF IInv, OffersSound, NetPayoutOf
  <1>4. DealSound'
    BY <1>1, <1>2 DEF IInv, DealSound, SnapshotSound
  <1>5. Vacant'
    BY <1>1 DEF IInv, Vacant
  <1> QED  BY <1>3, <1>4, <1>5 DEF IInv

LEMMA ChangeKeeps ==
  ASSUME IInv, NEW b,
         CreateCommissionTier \/ PatchSettings \/ PutInvoice \/ PutMinimumAmount \/ Learn \/ EditFilters(b)
  PROVE  IInv'
  <1>1. UNCHANGED <<market, deal>>
    BY DEF CreateCommissionTier, PatchSettings, PutInvoice, PutMinimumAmount, Learn, EditFilters
  <1>2. UNCHANGED <<state, rounds, offers>>
    BY <1>1 DEF market
  <1>3. tiers' \subseteq Tier
    BY DEF IInv, Typed, CreateCommissionTier, PatchSettings, PutInvoice, PutMinimumAmount, Learn, EditFilters
  <1>4. fee' \in Nat
    BY TariffAssumption
    DEF IInv, Typed, CreateCommissionTier, PatchSettings, PutInvoice, PutMinimumAmount, Learn, EditFilters
  <1>5. receivable' \in [outstanding : Int, floor : SUBSET Int]
    BY TariffAssumption
    DEF IInv, Typed, CreateCommissionTier, PatchSettings, PutInvoice, PutMinimumAmount, Learn, EditFilters
  <1>6. Typed'
    BY <1>2, <1>3, <1>4, <1>5 DEF IInv, Typed
  <1> QED  BY <1>1, <1>6, Outside

(***************************************************************************)
(* Steps of the market.                                                    *)
(***************************************************************************)
LEMMA ActivateKeeps ==
  ASSUME IInv, Activate
  PROVE  IInv'
  <1>1. PICK banks \in SUBSET Bank :
        rounds' = Append(rounds, [fee |-> fee, status |-> IF fee > 0 THEN "PAYABLE" ELSE "WAIVED",
                                  invited |-> banks])
    BY DEF Activate
  <1>2. rounds' \in Seq(RoundType) /\ rounds' # <<>>
    BY <1>1 DEF IInv, Typed, RoundType
  <1>3. UNCHANGED <<tiers, fee, receivable, offers, snapshot, charge, settlement>> /\ state' = "OPEN_FOR_OFFERS"
    BY DEF Activate, deal
  <1>4. Typed'
    BY <1>2, <1>3 DEF IInv, Typed, State
  <1>5. \A b \in Bank : offers[b] = {}
    BY DEF Activate, IInv, Vacant
  <1>6. OffersSound'
    BY <1>2, <1>3, <1>5 DEF OffersSound
  <1>7. DealSound'
    BY <1>3 DEF IInv, DealSound, Activate
  <1>8. Vacant'
    BY <1>3 DEF Vacant
  <1> QED  BY <1>4, <1>6, <1>7, <1>8 DEF IInv

LEMMA WriteOfferKeeps ==
  ASSUME IInv, NEW b \in Bank, WriteOffer(b)
  PROVE  IInv'
  <1>1. PICK terms \in Terms, discount \in Deduction, bankFees \in Deduction, other \in Deduction :
        \E tier \in TierFor(terms.gross) :
          LET offer == [gross |-> terms.gross, discount |-> discount, bankFees |-> bankFees,
                        commission |-> Quote(tier, terms.gross),
                        listingFee |-> UnpaidListingFee(Round), other |-> other]
          IN  /\ ValidateOffer(offer, receivable.outstanding)
              /\ offers' = [offers EXCEPT ![b] = {offer}]
    BY DEF WriteOffer
  <1>2. PICK tier \in TierFor(terms.gross) :
          LET offer == [gross |-> terms.gross, discount |-> discount, bankFees |-> bankFees,
                        commission |-> Quote(tier, terms.gross),
                        listingFee |-> UnpaidListingFee(Round), other |-> other]
          IN  /\ ValidateOffer(offer, receivable.outstanding)
              /\ offers' = [offers EXCEPT ![b] = {offer}]
    BY <1>1
  <1> DEFINE q == Quote(tier, terms.gross)
             offer == [gross |-> terms.gross, discount |-> discount, bankFees |-> bankFees,
                       commission |-> q, listingFee |-> Owed, other |-> other]
  <1>3. ValidateOffer(offer, receivable.outstanding) /\ offers' = [offers EXCEPT ![b] = {offer}]
    BY <1>2 DEF Owed
  <1>4. UNCHANGED <<tiers, fee, receivable, state, rounds, snapshot, charge, settlement>>
        /\ state = "OPEN_FOR_OFFERS" /\ rounds # <<>>
    BY DEF WriteOffer, deal, IInv, OffersSound
  <1>5. terms.gross \in Int /\ discount \in Int /\ bankFees \in Int /\ other \in Int
    BY TariffAssumption
  <1>6. terms.gross \in Nat
    BY <1>3, <1>5 DEF ValidateOffer
  <1>7. tier \in Tier
    BY DEF TierFor, IInv, Typed
  <1>8. q \in Nat
    BY <1>6, <1>7, QuoteNat
  <1>9. Owed \in Nat
    BY <1>4, OwedNat DEF IInv
  <1> HIDE DEF q
  <1>10. offer \in Amounts
    BY <1>5, <1>8, <1>9 DEF Amounts
  <1>11. offer.discount >= 0 /\ offer.bankFees >= 0 /\ offer.other >= 0 /\ offer.commission >= 0
         /\ NetPayoutOf(offer) > 0 /\ offer.listingFee = Owed
    BY <1>3, <1>8 DEF ValidateOffer
  <1> HIDE DEF offer
  <1>12. Typed'
    BY <1>3, <1>4, <1>10 DEF IInv, Typed
  <1>13. Owed' = Owed
    BY <1>4 DEF Owed, UnpaidListingFee, Round
  <1>14. \A c \in Bank : \A o \in offers'[c] : o = offer \/ o \in offers[c]
    BY <1>3 DEF IInv, Typed
  <1>15. \A o : NetPayoutOf(o)' = NetPayoutOf(o)
    BY DEF NetPayoutOf
  <1>16. OffersSound'
    BY <1>4, <1>11, <1>13, <1>14 DEF IInv, OffersSound, NetPayoutOf
  <1>17. DealSound'
    BY <1>4 DEF IInv, DealSound
  <1>18. Vacant'
    BY <1>4 DEF Vacant
  <1> QED  BY <1>12, <1>16, <1>17, <1>18 DEF IInv

LEMMA LapseKeeps ==
  ASSUME IInv, Lapse
  PROVE  IInv'
  <1>1. UNCHANGED <<tiers, fee, receivable, rounds, snapshot, charge, settlement>>
        /\ state = "OPEN_FOR_OFFERS" /\ state' = "ELIGIBLE" /\ offers' = [b \in Bank |-> {}]
    BY DEF Lapse, deal
  <1>2. Typed'
    BY <1>1 DEF IInv, Typed, State
  <1>3. OffersSound' /\ Vacant'
    BY <1>1 DEF OffersSound, Vacant
  <1>4. DealSound'
    BY <1>1 DEF IInv, DealSound
  <1> QED  BY <1>2, <1>3, <1>4 DEF IInv

(***************************************************************************)
(* Steps of the deal.                                                      *)
(***************************************************************************)
LEMMA AcceptKeeps ==
  ASSUME IInv, NEW b \in Bank, Accept(b)
  PROVE  IInv'
  <1>1. PICK offer \in offers[b] :
          /\ snapshot' = {[gross |-> offer.gross, commission |-> offer.commission,
                           listingFee |-> offer.listingFee, net |-> NetPayoutOf(offer)]}
          /\ RecordCommission(offer)
    BY DEF Accept
  <1>2. PICK tier \in TierFor(offer.gross) :
          charge' = {[basis |-> offer.gross, amount |-> offer.commission,
                      percentage |-> tier.percentage, status |-> "CALCULATED"]}
    BY <1>1 DEF RecordCommission
  <1>3. UNCHANGED <<tiers, fee, receivable, rounds, settlement>>
        /\ state = "OPEN_FOR_OFFERS" /\ state' = "OFFER_ACCEPTED" /\ offers' = [c \in Bank |-> {}]
    BY DEF Accept
  <1>4. offer \in Amounts
    BY DEF IInv, Typed
  <1>5. /\ offer.discount >= 0 /\ offer.bankFees >= 0 /\ offer.other >= 0 /\ offer.commission >= 0
        /\ NetPayoutOf(offer) > 0 /\ offer.listingFee = Owed /\ rounds # <<>>
    BY <1>3 DEF IInv, OffersSound
  <1>6. tier.percentage \in Nat
    BY TariffAssumption DEF TierFor, IInv, Typed
  <1> DEFINE s == [gross |-> offer.gross, commission |-> offer.commission,
                   listingFee |-> offer.listingFee, net |-> NetPayoutOf(offer)]
             c == [basis |-> s.gross, amount |-> s.commission,
                   percentage |-> tier.percentage, status |-> "CALCULATED"]
  <1>7. Owed' = Owed
    BY <1>3 DEF Owed, UnpaidListingFee, Round
  <1>8. SnapshotSound(s)'
    BY <1>4, <1>5, <1>7 DEF SnapshotSound, Frozen, Amounts, NetPayoutOf
  <1>9. snapshot' = {s} /\ charge' = {c}
    BY <1>1, <1>2
  <1>10. settlement' = {} /\ rounds' # <<>>
    BY <1>3, <1>5 DEF IInv, DealSound
  <1>11. DealSound'
    <2>1. \E p \in Nat : c = [basis |-> s.gross, amount |-> s.commission, percentage |-> p,
                              status |-> IF state' = "PAYOUT_COMPLETED" THEN "FINALIZED" ELSE "CALCULATED"]
      BY <1>3, <1>6
    <2> HIDE DEF s, c
    <2> QED  BY <1>3, <1>8, <1>9, <1>10, <2>1 DEF DealSound
  <1>12. Typed'
    BY <1>3 DEF IInv, Typed, State
  <1>13. OffersSound' /\ Vacant'
    BY <1>3 DEF OffersSound, Vacant
  <1> QED  BY <1>11, <1>12, <1>13 DEF IInv

LEMMA MarkSentKeeps ==
  ASSUME IInv, MarkSent
  PROVE  IInv'
  <1>1. UNCHANGED <<tiers, fee, receivable, rounds, offers, snapshot, charge>>
        /\ state = "OFFER_ACCEPTED" /\ state' = "FUNDING_SENT"
    BY DEF MarkSent
  <1>2. PICK s, c : /\ snapshot = {s} /\ SnapshotSound(s)
                    /\ charge = {c}
                    /\ \E p \in Nat : c = [basis |-> s.gross, amount |-> s.commission, percentage |-> p,
                                           status |-> "CALCULATED"]
    BY <1>1 DEF IInv, DealSound
  <1>3. settlement' = {[gross |-> s.gross, commission |-> s.commission, fee |-> s.listingFee,
                        net |-> s.net]}
    BY <1>2 DEF MarkSent
  <1>4. Owed' = Owed
    BY <1>1 DEF Owed, UnpaidListingFee, Round
  <1>5. SnapshotSound(s)'
    BY <1>2, <1>4 DEF SnapshotSound
  <1>6. rounds' # <<>>
    BY <1>1 DEF IInv, DealSound
  <1>7. DealSound'
    BY <1>1, <1>2, <1>3, <1>5, <1>6 DEF DealSound
  <1>8. Typed'
    BY <1>1 DEF IInv, Typed, State
  <1>9. OffersSound' /\ Vacant'
    BY <1>1 DEF IInv, OffersSound, Vacant
  <1> QED  BY <1>7, <1>8, <1>9 DEF IInv

LEMMA PayOutKeeps ==
  ASSUME IInv, PayOut
  PROVE  IInv'
  <1>1. UNCHANGED <<tiers, fee, receivable, offers, snapshot, settlement>>
        /\ state = "FUNDING_SENT" /\ state' = "PAYOUT_COMPLETED"
    BY DEF PayOut
  <1>2. PICK s, c : /\ snapshot = {s} /\ SnapshotSound(s)
                    /\ charge = {c}
                    /\ \E p \in Nat : c = [basis |-> s.gross, amount |-> s.commission, percentage |-> p,
                                           status |-> "CALCULATED"]
                    /\ settlement = {[gross |-> s.gross, commission |-> s.commission,
                                      fee |-> s.listingFee, net |-> s.net]}
    BY <1>1 DEF IInv, DealSound
  <1>3. rounds # <<>> /\ rounds \in Seq(RoundType)
    BY <1>1 DEF IInv, DealSound, Typed
  <1>4. PICK paid \in BOOLEAN :
          rounds' = [i \in 1..Len(rounds) |->
            IF rounds[i].status = "PAYABLE" /\ paid
              THEN [rounds[i] EXCEPT !.status = "DEDUCTED"] ELSE rounds[i]]
    <2>1. rounds' = [i \in 1..Len(rounds) |->
            IF rounds[i].status = "PAYABLE" /\ \E x \in settlement : x.fee # 0
              THEN [rounds[i] EXCEPT !.status = "DEDUCTED"] ELSE rounds[i]]
      BY <1>3 DEF PayOut
    <2>2. CASE \E x \in settlement : x.fee # 0
      BY <2>1, <2>2
    <2>3. CASE ~ \E x \in settlement : x.fee # 0
      BY <2>1, <2>3
    <2> QED  BY <2>2, <2>3
  <1>5. /\ rounds' \in Seq(RoundType) /\ Len(rounds') = Len(rounds)
        /\ \A i \in 1..Len(rounds) : /\ rounds'[i].fee = rounds[i].fee
                                     /\ rounds'[i].status = "WAIVED" <=> rounds[i].status = "WAIVED"
    <2>1. \A i \in 1..Len(rounds) : rounds[i] \in RoundType
      BY <1>3
    <2>2. \A i \in 1..Len(rounds) : rounds'[i] \in RoundType
      BY <1>4, <2>1 DEF RoundType
    <2>3. rounds' \in Seq(RoundType) /\ Len(rounds') = Len(rounds)
      BY <1>3, <1>4, <2>2
    <2> QED  BY <1>4, <2>1, <2>3 DEF RoundType
  <1>6. Len(rounds) \in 1..Len(rounds) /\ rounds' # <<>>
    BY <1>3, <1>5
  <1>7. Owed' = Owed
    BY <1>5, <1>6 DEF Owed, UnpaidListingFee, Round
  <1>8. SnapshotSound(s)'
    BY <1>2, <1>7 DEF SnapshotSound
  <1> DEFINE d == [c EXCEPT !.status = "FINALIZED"]
  <1>9. charge' = {d}
    BY <1>2 DEF PayOut
  <1>10. \E p \in Nat : d = [basis |-> s.gross, amount |-> s.commission, percentage |-> p,
                             status |-> "FINALIZED"]
    BY <1>2
  <1> HIDE DEF d
  <1>11. DealSound'
    BY <1>1, <1>2, <1>6, <1>8, <1>9, <1>10 DEF DealSound
  <1>12. Typed'
    BY <1>1, <1>5 DEF IInv, Typed, State
  <1>13. OffersSound' /\ Vacant'
    BY <1>1 DEF IInv, OffersSound, Vacant
  <1> QED  BY <1>11, <1>12, <1>13 DEF IInv

(***************************************************************************)
(* The invariant and what follows from it.                                 *)
(***************************************************************************)
LEMMA NextKeeps == IInv /\ [Next]_vars => IInv'
  <1> SUFFICES ASSUME IInv, [Next]_vars PROVE IInv'
    OBVIOUS
  <1>1. CASE CreateCommissionTier \/ PatchSettings \/ PutInvoice \/ PutMinimumAmount \/ Learn
    BY <1>1, ChangeKeeps
  <1>2. CASE \E b \in Bank : EditFilters(b)
    BY <1>2, ChangeKeeps
  <1>3. CASE \E b \in Bank : WriteOffer(b)
    BY <1>3, WriteOfferKeeps
  <1>4. CASE \E b \in Bank : Accept(b)
    BY <1>4, AcceptKeeps
  <1>5. CASE Activate \/ Lapse \/ MarkSent \/ PayOut
    BY <1>5, ActivateKeeps, LapseKeeps, MarkSentKeeps, PayOutKeeps
  <1>6. CASE UNCHANGED vars
    <2>1. UNCHANGED <<market, deal>>
      BY <1>6 DEF vars, market, deal
    <2>2. Typed'
      BY <1>6 DEF vars, IInv, Typed
    <2> QED  BY <2>1, <2>2, Outside
  <1> QED  BY <1>1, <1>2, <1>3, <1>4, <1>5, <1>6 DEF Next

(* The split, the offers and the frozen figures keep their shape: every    *)
(* reachable state satisfies the inductive invariant.                      *)
THEOREM PricesHold == Spec => []IInv
  <1> QED  BY InitIInv, NextKeeps, PTL DEF Spec

(* ZM-SEL-008, for every tariff and every order of changes to it: what was *)
(* accepted is what is recorded, distributed and earned.                   *)
THEOREM AgreedAlwaysCharged == Spec => []AgreedIsCharged
  <1>1. ASSUME IInv PROVE AgreedIsCharged
    <2>1. CASE state \in {"ELIGIBLE", "OPEN_FOR_OFFERS"}
      BY <1>1, <2>1 DEF IInv, DealSound, AgreedIsCharged
    <2>2. CASE state \in {"OFFER_ACCEPTED", "FUNDING_SENT", "PAYOUT_COMPLETED"}
      <3>1. PICK s, c : /\ snapshot = {s} /\ charge = {c}
                        /\ \E p \in Nat : c = [basis |-> s.gross, amount |-> s.commission, percentage |-> p,
                                               status |-> IF state = "PAYOUT_COMPLETED" THEN "FINALIZED" ELSE "CALCULATED"]
                        /\ state # "OFFER_ACCEPTED" =>
                             settlement = {[gross |-> s.gross, commission |-> s.commission,
                                            fee |-> s.listingFee, net |-> s.net]}
        BY <1>1, <2>2 DEF IInv, DealSound
      <3>2. c.amount = s.commission /\ c.basis = s.gross
            /\ (state = "PAYOUT_COMPLETED" => c.status = "FINALIZED")
        BY <3>1
      <3>3. CASE state = "OFFER_ACCEPTED"
        <4>1. settlement = {}
          BY <1>1, <3>3 DEF IInv, DealSound
        <4> QED  BY <3>1, <3>2, <3>3, <4>1 DEF AgreedIsCharged
      <3>4. CASE state # "OFFER_ACCEPTED"
        <4>1. \A t \in settlement : t.commission = s.commission /\ t.fee = s.listingFee /\ t.net = s.net
          BY <3>1, <3>4
        <4>2. settlement # {}
          BY <3>1, <3>4
        <4>3. state = "PAYOUT_COMPLETED" =>
                \E t \in settlement : c.status = "FINALIZED" /\ c.amount = t.commission
          BY <3>2, <4>1, <4>2
        <4> QED  BY <3>1, <3>2, <4>1, <4>3 DEF AgreedIsCharged
      <3> QED  BY <3>3, <3>4
    <2> QED  BY <1>1, <2>1, <2>2 DEF IInv, Typed, State
  <1> QED  BY <1>1, PricesHold, PTL

(* chk_settlement_split never refuses a mark-sent, and the fee withheld is *)
(* the selected round's own.                                               *)
THEOREM SplitAlwaysCovered == Spec => []SplitIsCovered
  <1>1. IInv => SplitIsCovered
    <2> SUFFICES ASSUME IInv, NEW t \in settlement
                 PROVE  /\ t.net > 0 /\ t.commission >= 0 /\ t.fee >= 0
                        /\ t.commission + t.fee + t.net <= t.gross
                        /\ t.fee = Owed
      BY DEF SplitIsCovered, Owed, UnpaidListingFee
    <2>1. state \in {"FUNDING_SENT", "PAYOUT_COMPLETED"} /\ rounds # <<>>
      BY DEF IInv, Typed, State, DealSound
    <2>2. PICK s : /\ SnapshotSound(s)
                   /\ settlement = {[gross |-> s.gross, commission |-> s.commission,
                                     fee |-> s.listingFee, net |-> s.net]}
      BY <2>1 DEF IInv, DealSound
    <2>3. Owed \in Nat
      BY <2>1, OwedNat DEF IInv
    <2> QED  BY <2>2, <2>3 DEF SnapshotSound, Frozen
  <1> QED  BY <1>1, PricesHold, PTL

(***************************************************************************)
(* Sums over finite sets.                                                  *)
(***************************************************************************)
(* A set of naturals that is not empty has a least element.                *)
LEMMA LeastExists ==
  ASSUME NEW S, S \subseteq Nat, S # {}
  PROVE  \E m \in S : \A s \in S : m <= s
  <1>1. PICK m \in S : \A s \in S : <<s, m>> \notin OpToRel(<, Nat)
    BY NatLessThanWellFounded, WFMin
  <1>2. ASSUME NEW s \in S, s < m
        PROVE  FALSE
    <2>1. <<s, m>> \in {p \in Nat \X Nat : p[1] < p[2]}
      BY <1>2
    <2>2. OpToRel(<, Nat) = {p \in Nat \X Nat : p[1] < p[2]}
      BY ZenonT(20) DEF OpToRel
    <2> QED  BY <1>1, <2>1, <2>2
  <1> QED  BY <1>2

(* What holds of a set when it holds of the set with any one element less  *)
(* holds of every finite set: there is no least exception.                 *)
LEMMA LeastSubset ==
  ASSUME NEW S, IsFiniteSet(S), NEW Bad, Bad \subseteq SUBSET S, Bad # {}
  PROVE  \E s \in Bad : \A x \in s : s \ {x} \notin Bad
  <1> DEFINE sizes == {Cardinality(s) : s \in Bad}
  <1>1. \A s \in Bad : IsFiniteSet(s) /\ Cardinality(s) \in Nat
    BY FS_Subset, FS_CardinalityType
  <1>2. sizes \subseteq Nat /\ sizes # {}
    BY <1>1
  <1> HIDE DEF sizes
  <1>3. PICK n \in sizes : \A m \in sizes : n <= m
    BY <1>2, LeastExists
  <1>4. PICK s \in Bad : n = Cardinality(s)
    BY <1>3 DEF sizes
  <1>5. ASSUME NEW x \in s, s \ {x} \in Bad
        PROVE  FALSE
    <2>1. Cardinality(s \ {x}) = Cardinality(s) - 1
      BY <1>1, FS_RemoveElement
    <2>2. n <= Cardinality(s \ {x})
      BY <1>3, <1>5 DEF sizes
    <2> QED  BY <1>1, <1>4, <2>1, <2>2
  <1> QED  BY <1>5

(* g gives every element of the finite set S a whole number.               *)
IntTerms(S, g) == IsFiniteSet(S) /\ \A x \in S : g[x] \in Int

(* The element SumFunction takes first.                                    *)
Pick(s) == CHOOSE x \in s : TRUE

(* h gives every part of S the sum of g over it, as the community modules  *)
(* define it ...                                                           *)
Sums(S, g, h) ==
  h = [s \in SUBSET S |-> IF s = {} THEN 0 ELSE g[Pick(s)] + h[s \ {Pick(s)}]]

(* ... and the function they choose.                                       *)
Summed(S, g) == CHOOSE h : Sums(S, g, h)

(* h sums the subsets of S of at most n elements.                          *)
SumsTo(n, S, g, h) ==
  /\ h \in [SUBSET S -> Int]
  /\ \A s \in SUBSET S : Cardinality(s) <= n =>
       h[s] = IF s = {} THEN 0 ELSE g[Pick(s)] + h[s \ {Pick(s)}]

(* A part of a finite set is finite, and smaller without the element       *)
(* picked.                                                                 *)
LEMMA Smaller ==
  ASSUME NEW S, IsFiniteSet(S), NEW s \in SUBSET S
  PROVE  /\ IsFiniteSet(s) /\ Cardinality(s) \in Nat /\ Cardinality(s) <= Cardinality(S)
         /\ Cardinality(s) = 0 => s = {}
         /\ s # {} => /\ Pick(s) \in s /\ s \ {Pick(s)} \in SUBSET S
                      /\ Cardinality(s \ {Pick(s)}) = Cardinality(s) - 1
  <1>1. s # {} => Pick(s) \in s
    BY DEF Pick
  <1> QED  BY <1>1, FS_Subset, FS_CardinalityType, FS_EmptySet, FS_RemoveElement

(* What sums the parts of n elements can be extended to those of n + 1.    *)
LEMMA SumsToNext ==
  ASSUME NEW S, NEW g, IntTerms(S, g),
         NEW n \in Nat, NEW h, SumsTo(n, S, g, h)
  PROVE  \E k : SumsTo(n + 1, S, g, k)
  <1> IsFiniteSet(S) /\ \A x \in S : g[x] \in Int
    BY DEF IntTerms
  <1> DEFINE k == [s \in SUBSET S |->
               IF s = {} THEN 0
               ELSE IF Cardinality(s) <= n THEN h[s] ELSE g[Pick(s)] + h[s \ {Pick(s)}]]
  <1>1. k \in [SUBSET S -> Int]
    <2> SUFFICES ASSUME NEW s \in SUBSET S PROVE k[s] \in Int
      OBVIOUS
    <2>1. s # {} => Pick(s) \in S /\ s \ {Pick(s)} \in SUBSET S
      BY Smaller
    <2>2. h[s] \in Int /\ (s # {} => g[Pick(s)] \in Int /\ h[s \ {Pick(s)}] \in Int)
      BY <2>1 DEF SumsTo
    <2> QED  BY <2>2
  <1>2. ASSUME NEW s \in SUBSET S, Cardinality(s) <= n + 1, s # {}
        PROVE  k[s] = g[Pick(s)] + k[s \ {Pick(s)}]
    <2> DEFINE r == s \ {Pick(s)}
    <2>1. r \in SUBSET S /\ Cardinality(r) <= n /\ h[{}] = 0
      <3>1. Cardinality({}) <= n
        BY FS_EmptySet
      <3> QED  BY <1>2, Smaller, <3>1 DEF SumsTo
    <2>2. k[s] = g[Pick(s)] + h[r]
      BY <1>2, Smaller DEF SumsTo
    <2>3. k[r] = h[r]
      BY <2>1
    <2> QED  BY <2>2, <2>3
  <1>3. k[{}] = 0
    OBVIOUS
  <1> HIDE DEF k
  <1> QED  BY <1>1, <1>2, <1>3 DEF SumsTo

(* So the sums exist, and each is a whole number.                          *)
LEMMA SumsExist ==
  ASSUME NEW S, NEW g, IntTerms(S, g)
  PROVE  Sums(S, g, Summed(S, g)) /\ Summed(S, g) \in [SUBSET S -> Int]
  <1> IsFiniteSet(S) /\ \A x \in S : g[x] \in Int
    BY DEF IntTerms
  <1> DEFINE Bad == {n \in Nat : \A h : ~SumsTo(n, S, g, h)}
  <1>1. Bad = {}
    <2> SUFFICES ASSUME Bad # {} PROVE FALSE
      OBVIOUS
    <2>1. PICK n \in Bad : \A m \in Bad : n <= m
      <3>1. Bad \subseteq Nat
        OBVIOUS
      <3> HIDE DEF Bad
      <3> QED  BY <3>1, LeastExists
    <2>2. CASE n = 0
      <3>1. SumsTo(0, S, g, [s \in SUBSET S |-> 0])
        <4> DEFINE h == [s \in SUBSET S |-> 0]
        <4>1. ASSUME NEW s \in SUBSET S, Cardinality(s) <= 0 PROVE s = {}
          <5>1. Cardinality(s) \in Nat /\ (Cardinality(s) = 0 => s = {})
            BY Smaller
          <5> QED  BY <4>1, <5>1
        <4>2. h \in [SUBSET S -> Int] /\ h[{}] = 0
          OBVIOUS
        <4> HIDE DEF h
        <4> QED  BY <4>1, <4>2 DEF SumsTo, h
      <3> QED  BY <2>1, <2>2, <3>1
    <2>3. CASE n # 0
      <3>1. n - 1 \in Nat /\ n - 1 + 1 = n /\ ~(n <= n - 1)
        BY <2>1, <2>3
      <3>2. n - 1 \notin Bad
        BY <2>1, <3>1
      <3>3. PICK h : SumsTo(n - 1, S, g, h)
        BY <3>1, <3>2
      <3> QED  BY <2>1, <3>1, <3>3, SumsToNext
    <2> QED  BY <2>2, <2>3
  <1>2. PICK h : SumsTo(Cardinality(S), S, g, h)
    BY <1>1, FS_CardinalityType
  <1>3. \A s \in SUBSET S : h[s] = IF s = {} THEN 0 ELSE g[Pick(s)] + h[s \ {Pick(s)}]
    BY <1>2, Smaller DEF SumsTo
  <1>4. h = [s \in SUBSET S |-> IF s = {} THEN 0 ELSE g[Pick(s)] + h[s \ {Pick(s)}]]
    BY <1>2, <1>3 DEF SumsTo
  <1>5. Sums(S, g, h)
    BY <1>4, Zenon DEF Sums
  <1>6. Sums(S, g, Summed(S, g))
    BY <1>5 DEF Summed
  <1>7. ASSUME NEW k, Sums(S, g, k)
        PROVE  k \in [SUBSET S -> Int]
    <2>1. /\ k = [s \in SUBSET S |-> k[s]]
          /\ \A s \in SUBSET S : k[s] = IF s = {} THEN 0 ELSE g[Pick(s)] + k[s \ {Pick(s)}]
      BY <1>7 DEF Sums
    <2> DEFINE Odd == {s \in SUBSET S : k[s] \notin Int}
    <2>2. Odd = {}
      <3> SUFFICES ASSUME Odd # {} PROVE FALSE
        OBVIOUS
      <3>1. PICK s \in Odd : \A x \in s : s \ {x} \notin Odd
        <4>1. Odd \subseteq SUBSET S
          OBVIOUS
        <4> HIDE DEF Odd
        <4> QED  BY <4>1, LeastSubset
      <3>2. s \in SUBSET S /\ k[s] \notin Int
        BY <3>1
      <3>3. s # {} => Pick(s) \in s /\ Pick(s) \in S /\ s \ {Pick(s)} \in SUBSET S
        BY <3>2, Smaller
      <3>4. s # {} => g[Pick(s)] \in Int /\ k[s \ {Pick(s)}] \in Int
        BY <3>1, <3>3
      <3>5. k[s] = IF s = {} THEN 0 ELSE g[Pick(s)] + k[s \ {Pick(s)}]
        BY <2>1, <3>2
      <3> QED  BY <3>2, <3>4, <3>5
    <2> QED  BY <2>1, <2>2
  <1> QED  BY <1>6, <1>7

(* Any element may be the one that is counted first.                       *)
AnyFirst(S, g, h) == \A s \in SUBSET S : \A x \in s : h[s] = g[x] + h[s \ {x}]

(* ... and is, the sum being the same in every order.                      *)
LEMMA SumAny ==
  ASSUME NEW S, NEW g, IntTerms(S, g)
  PROVE  AnyFirst(S, g, Summed(S, g))
  <1> IsFiniteSet(S) /\ \A x \in S : g[x] \in Int
    BY DEF IntTerms
  <1> DEFINE h == Summed(S, g)
             Bad == {r \in SUBSET S : \E y \in r : h[r] # g[y] + h[r \ {y}]}
  <1>1. /\ h \in [SUBSET S -> Int]
        /\ \A r \in SUBSET S : r # {} => h[r] = g[Pick(r)] + h[r \ {Pick(r)}]
    <2>1. Sums(S, g, h) /\ h \in [SUBSET S -> Int]
      BY SumsExist
    <2> HIDE DEF h
    <2> QED  BY <2>1 DEF Sums
  <1> HIDE DEF h
  <1>2. Bad = {}
    <2> SUFFICES ASSUME Bad # {} PROVE FALSE
      OBVIOUS
    <2>1. PICK r \in Bad : \A y \in r : r \ {y} \notin Bad
      <3>1. Bad \subseteq SUBSET S
        OBVIOUS
      <3> HIDE DEF Bad
      <3> QED  BY <3>1, LeastSubset
    <2>2. PICK y \in r : h[r] # g[y] + h[r \ {y}]
      BY <2>1
    <2> DEFINE p == Pick(r)
    <2>3. p \in r /\ p \in S /\ y \in S /\ r \in SUBSET S
      <3>1. r \in SUBSET S /\ r # {}
        BY <2>1, <2>2
      <3> QED  BY <2>2, <3>1, Smaller
    <2>4. h[r] = g[p] + h[r \ {p}]
      BY <1>1, <2>2, <2>3
    <2>5. p # y
      BY <2>2, <2>4
    <2>6. h[r \ {p}] = g[y] + h[(r \ {p}) \ {y}]
      BY <2>1, <2>3, <2>5
    <2>7. h[r \ {y}] = g[p] + h[(r \ {y}) \ {p}]
      BY <2>1, <2>3, <2>5
    <2>8. (r \ {y}) \ {p} = (r \ {p}) \ {y}
      OBVIOUS
    <2>9. g[p] \in Int /\ g[y] \in Int /\ h[(r \ {p}) \ {y}] \in Int
      BY <1>1, <2>3
    <2> HIDE DEF p, Bad
    <2>10. h[r] = g[p] + (g[y] + h[(r \ {p}) \ {y}])
      BY <2>4, <2>6
    <2>11. h[r \ {y}] = g[p] + h[(r \ {p}) \ {y}]
      BY <2>7, <2>8
    <2>12. \A a, b, c \in Int : a + (b + c) = b + (a + c)
      OBVIOUS
    <2>13. h[r] = g[y] + (g[p] + h[(r \ {p}) \ {y}])
      BY <2>9, <2>10, <2>12
    <2> QED  BY <2>2, <2>11, <2>13
  <1> QED  BY <1>2 DEF h, AnyFirst

(* The sum of the values of g, over the whole of its domain.               *)
SumOf(g) == Summed(DOMAIN g, g)[DOMAIN g]

(* It is the one Screening's operators take.                               *)
LEMMA SumIs == ASSUME NEW g PROVE Facts!SumFunction(g) = SumOf(g)
  BY DEF Facts!SumFunction, Facts!SumFunctionOnSet, Facts!FoldFunctionOnSet,
         Facts!MapThenFoldSet, Pick, Sums, Summed, SumOf

(* The functions that have such a sum.                                     *)
Summable(g) == IntTerms(DOMAIN g, g)

(* Term by term no more, a term that is not there being nothing.           *)
Below(g, h) ==
  /\ \A x \in DOMAIN g \cap DOMAIN h : g[x] <= h[x]
  /\ \A x \in DOMAIN g \ DOMAIN h : g[x] <= 0
  /\ \A x \in DOMAIN h \ DOMAIN g : 0 <= h[x]

(* What is no more term by term is no more over any part ...               *)
LEMMA PartsBelow ==
  ASSUME NEW g, NEW h, Summable(g), Summable(h), Below(g, h),
         NEW s \in SUBSET (DOMAIN g \cup DOMAIN h)
  PROVE  Summed(DOMAIN g, g)[s \cap DOMAIN g] <= Summed(DOMAIN h, h)[s \cap DOMAIN h]
  <1> DEFINE A == DOMAIN g  B == DOMAIN h  G == Summed(A, g)  H == Summed(B, h)
             Bad == {r \in SUBSET (A \cup B) : ~(G[r \cap A] <= H[r \cap B])}
  <1>1. G \in [SUBSET A -> Int] /\ H \in [SUBSET B -> Int] /\ G[{}] = 0 /\ H[{}] = 0
    <2>1. IntTerms(A, g) /\ IntTerms(B, h)
      BY DEF Summable
    <2>2. Sums(A, g, G) /\ Sums(B, h, H) /\ G \in [SUBSET A -> Int] /\ H \in [SUBSET B -> Int]
      BY <2>1, SumsExist
    <2> HIDE DEF A, B, G, H
    <2> QED  BY <2>2 DEF Sums
  <1>2. /\ \A r \in SUBSET A : \A x \in r : G[r] = g[x] + G[r \ {x}]
        /\ \A r \in SUBSET B : \A x \in r : H[r] = h[x] + H[r \ {x}]
    <2>1. IntTerms(A, g) /\ IntTerms(B, h)
      BY DEF Summable
    <2>2. AnyFirst(A, g, G) /\ AnyFirst(B, h, H)
      BY <2>1, SumAny
    <2> HIDE DEF A, B, G, H
    <2> QED  BY <2>2 DEF AnyFirst
  <1>3. IsFiniteSet(A \cup B)
    BY FS_Union DEF Summable, IntTerms
  <1>4. /\ \A x \in A : g[x] \in Int
        /\ \A x \in B : h[x] \in Int
        /\ \A x \in A \cap B : g[x] <= h[x]
        /\ \A x \in A \ B : g[x] <= 0
        /\ \A x \in B \ A : 0 <= h[x]
    BY DEF Below, Summable, IntTerms
  <1> HIDE DEF A, B, G, H
  <1>5. Bad = {}
    <2> SUFFICES ASSUME Bad # {} PROVE FALSE
      OBVIOUS
    <2>1. PICK r \in Bad : \A y \in r : r \ {y} \notin Bad
      <3>1. Bad \subseteq SUBSET (A \cup B)
        OBVIOUS
      <3> HIDE DEF Bad
      <3> QED  BY <1>3, <3>1, LeastSubset
    <2>2. r # {}
      <3> SUFFICES ASSUME r = {} PROVE FALSE
        OBVIOUS
      <3>1. r \cap A = {} /\ r \cap B = {}
        OBVIOUS
      <3>2. ~(G[r \cap A] <= H[r \cap B])
        BY <2>1
      <3>3. ~(G[{}] <= H[{}])
        BY <3>1, <3>2, Zenon
      <3> QED  BY <1>1, <3>3
    <2>3. PICK x \in r : TRUE
      BY <2>2
    <2> DEFINE q == r \ {x}
    <2>4. G[q \cap A] <= H[q \cap B]
      BY <2>1, <2>3
    <2>5. x \in A => r \cap A \in SUBSET A /\ x \in r \cap A /\ (r \cap A) \ {x} = q \cap A
      BY <2>3
    <2>6. x \in B => r \cap B \in SUBSET B /\ x \in r \cap B /\ (r \cap B) \ {x} = q \cap B
      BY <2>3
    <2>7. (x \notin A => r \cap A = q \cap A) /\ (x \notin B => r \cap B = q \cap B) /\ x \in A \cup B
      BY <2>1, <2>3
    <2>8. G[q \cap A] \in Int /\ H[q \cap B] \in Int
      BY <1>1
    <2>14. r \cap A \in SUBSET A /\ r \cap B \in SUBSET B
      OBVIOUS
    <2>15. G[r \cap A] \in Int /\ H[r \cap B] \in Int
      BY <1>1, <2>14
    <2> HIDE DEF q, Bad
    <2>9. /\ x \in A => G[r \cap A] = g[x] + G[q \cap A]
          /\ x \in B => H[r \cap B] = h[x] + H[q \cap B]
      BY <1>2, <2>5, <2>6
    <2>10. ~(G[r \cap A] <= H[r \cap B])
      BY <2>1 DEF Bad
    <2>11. CASE x \in A /\ x \in B
      <3>1. g[x] \in Int /\ h[x] \in Int /\ g[x] <= h[x]
        BY <1>4, <2>11
      <3> QED  BY <2>4, <2>8, <2>9, <2>10, <2>11, <3>1
    <2>12. CASE x \in A /\ x \notin B
      <3>1. g[x] \in Int /\ g[x] <= 0
        BY <1>4, <2>12
      <3>2. H[r \cap B] = H[q \cap B]
        BY <2>7, <2>12
      <3> QED  BY <2>4, <2>8, <2>9, <2>10, <2>12, <3>1, <3>2
    <2>13. CASE x \notin A /\ x \in B
      <3>1. h[x] \in Int /\ 0 <= h[x]
        BY <1>4, <2>13
      <3>2. G[r \cap A] = G[q \cap A]
        BY <2>7, <2>13
      <3> QED  BY <2>4, <2>8, <2>9, <2>10, <2>13, <3>1, <3>2
    <2> QED  BY <2>7, <2>11, <2>12, <2>13
  <1> QED  BY <1>5 DEF A, B, G, H

(* A sum is a whole number.                                                *)
LEMMA SumInt ==
  ASSUME NEW g, Summable(g)
  PROVE  Facts!SumFunction(g) \in Int
  <1>1. Summed(DOMAIN g, g) \in [SUBSET DOMAIN g -> Int]
    BY SumsExist DEF Summable, IntTerms
  <1> QED  BY <1>1, SumIs DEF SumOf

(* ... and so over the whole,                                              *)
LEMMA SumLeq ==
  ASSUME NEW g, NEW h, Summable(g), Summable(h), Below(g, h)
  PROVE  Facts!SumFunction(g) <= Facts!SumFunction(h)
  <1> DEFINE U == DOMAIN g \cup DOMAIN h
  <1>1. U \in SUBSET U /\ U \cap DOMAIN g = DOMAIN g /\ U \cap DOMAIN h = DOMAIN h
    OBVIOUS
  <1> QED  BY <1>1, PartsBelow, SumIs DEF SumOf

(* ... and less, when some term is.                                        *)
LEMMA SumLess ==
  ASSUME NEW g, NEW h, Summable(g), Summable(h), Below(g, h),
         NEW x \in DOMAIN h, IF x \in DOMAIN g THEN g[x] < h[x] ELSE 0 < h[x]
  PROVE  Facts!SumFunction(g) < Facts!SumFunction(h)
  <1> DEFINE A == DOMAIN g  B == DOMAIN h  G == Summed(A, g)  H == Summed(B, h)
             s == (A \cup B) \ {x}
  <1>1. G[s \cap A] <= H[s \cap B]
    BY PartsBelow
  <1>2. s \cap A = A \ {x} /\ s \cap B = B \ {x} /\ (x \notin A => A \ {x} = A)
    OBVIOUS
  <1>3. G \in [SUBSET A -> Int] /\ H \in [SUBSET B -> Int]
    BY SumsExist DEF Summable, IntTerms
  <1>4. x \in A => G[A] = g[x] + G[A \ {x}]
    BY SumAny DEF Summable, AnyFirst
  <1>5. H[B] = h[x] + H[B \ {x}]
    BY SumAny DEF Summable, AnyFirst
  <1>6. h[x] \in Int /\ (x \in A => g[x] \in Int)
    BY DEF Summable, IntTerms
  <1>7. G[A \ {x}] \in Int /\ H[B \ {x}] \in Int /\ G[A] \in Int
    BY <1>3
  <1> HIDE DEF G, H, A, B
  <1>8. G[A] < H[B]
    <2>1. CASE x \in A
      <3>1. g[x] < h[x]
        BY <2>1 DEF A
      <3>2. G[A \ {x}] <= H[B \ {x}] /\ G[A] = g[x] + G[A \ {x}]
        BY <1>1, <1>2, <1>4, <2>1
      <3> QED  BY <1>5, <1>6, <1>7, <2>1, <3>1, <3>2
    <2>2. CASE x \notin A
      <3>1. 0 < h[x]
        BY <2>2 DEF A
      <3>2. G[A] <= H[B \ {x}]
        BY <1>1, <1>2, <2>2
      <3> QED  BY <1>5, <1>6, <1>7, <3>1, <3>2
    <2> QED  BY <2>1, <2>2
  <1> QED  BY <1>8, SumIs DEF SumOf, A, B, G, H

(* The sum of nothing.                                                     *)
LEMMA SumNone ==
  ASSUME NEW g, DOMAIN g = {}
  PROVE  Facts!SumFunction(g) = 0
  <1>1. Sums({}, g, Summed({}, g))
    <2>1. IntTerms({}, g)
      BY FS_EmptySet DEF IntTerms
    <2> QED  BY <2>1, SumsExist
  <1>2. \A h : Sums({}, g, h) => h[{}] = 0
    BY DEF Sums
  <1> QED  BY <1>1, <1>2, SumIs DEF SumOf

(* What is counted up from nothing.                                        *)
LEMMA SumNat ==
  ASSUME NEW g, Summable(g), \A x \in DOMAIN g : g[x] \in Nat
  PROVE  /\ Facts!SumFunction(g) \in Nat
         /\ \A x \in DOMAIN g : 0 < g[x] => 0 < Facts!SumFunction(g)
  <1> DEFINE none == [x \in {} |-> 0]
  <1>1. DOMAIN none = {} /\ Facts!SumFunction(none) = 0 /\ Summable(none)
    <2>1. DOMAIN none = {}
      OBVIOUS
    <2> HIDE DEF none
    <2> QED  BY <2>1, SumNone, FS_EmptySet DEF Summable, IntTerms
  <1> HIDE DEF none
  <1>2. Below(none, g)
    BY <1>1 DEF Below
  <1>3. 0 <= Facts!SumFunction(g) /\ Facts!SumFunction(g) \in Int
    BY <1>1, <1>2, SumLeq, SumInt
  <1>4. ASSUME NEW x \in DOMAIN g, 0 < g[x]
        PROVE  0 < Facts!SumFunction(g)
    <2>1. IF x \in DOMAIN none THEN none[x] < g[x] ELSE 0 < g[x]
      BY <1>1, <1>4
    <2> QED  BY <1>1, <1>2, <2>1, SumLess
  <1> QED  BY <1>3, <1>4

(***************************************************************************)
(* The rounded quotient.                                                   *)
(***************************************************************************)
LEMMA Quotient ==
  ASSUME NEW n \in Int, NEW d \in Nat, d > 0
  PROVE  /\ n \div d \in Int
         /\ d * (n \div d) <= n /\ n < d * (n \div d) + d
         /\ \A q \in Int : d * q <= n => q <= n \div d
  <1>1. n \div d \in Int /\ n % d \in 0..(d - 1) /\ n = d * (n \div d) + (n % d)
    OBVIOUS
  <1>2. ASSUME NEW q \in Int, d * q <= n, ~(q <= n \div d)
        PROVE  FALSE
    <2> DEFINE k == n \div d
    <2>1. k \in Int /\ k + 1 <= q
      BY <1>1, <1>2
    <2> HIDE DEF k
    <2>2. d * (k + 1) <= d * q
      BY <2>1
    <2>3. d * (k + 1) = d * k + d
      BY <2>1
    <2>4. d * k \in Int /\ d * q \in Int
      BY <2>1
    <2>5. n < d * k + d
      BY <1>1 DEF k
    <2> QED  BY <1>2, <2>2, <2>3, <2>4, <2>5
  <1>3. d * (n \div d) \in Int
    BY <1>1
  <1> QED  BY <1>1, <1>2, <1>3

(* A rounded quotient is a whole number,                                   *)
LEMMA RoundedInt ==
  ASSUME NEW n \in Int, NEW d \in Nat, d > 0
  PROVE  Facts!HalfUp(n, d) \in Int
  <1>1. 2 * n + d \in Int /\ 2 * d \in Nat /\ 2 * d > 0
    OBVIOUS
  <1> QED  BY <1>1, Quotient DEF Facts!HalfUp

(* and not negative when what is divided is not.                           *)
LEMMA RoundedNat ==
  ASSUME NEW n \in Nat, NEW d \in Nat, d > 0
  PROVE  Facts!HalfUp(n, d) \in Nat
  <1>1. 2 * n + d \in Int /\ 2 * d \in Nat /\ 2 * d > 0 /\ 2 * d * 0 <= 2 * n + d
    OBVIOUS
  <1>2. Facts!HalfUp(n, d) \in Int /\ 0 <= Facts!HalfUp(n, d)
    BY <1>1, Quotient DEF Facts!HalfUp
  <1> QED  BY <1>2

(* Of no more, in no smaller parts, there is no more.                      *)
LEMMA RoundedMono ==
  ASSUME NEW n \in Nat, NEW m \in Nat, n <= m,
         NEW d \in Nat, NEW e \in Nat, 0 < e, e <= d
  PROVE  Facts!HalfUp(n, d) <= Facts!HalfUp(m, e)
  <1> DEFINE q == Facts!HalfUp(n, d)
  <1>1. q \in Nat
    BY RoundedNat
  <1>2. 2 * d * q <= 2 * n + d
    <2>1. 2 * n + d \in Int /\ 2 * d \in Nat /\ 2 * d > 0
      OBVIOUS
    <2> QED  BY <2>1, Quotient DEF Facts!HalfUp
  <1> HIDE DEF q
  <1>3. 2 * e * q <= 2 * m + e
    <2>1. CASE q = 0
      BY <2>1
    <2>2. CASE q # 0
      <3> DEFINE p == 2 * q - 1
      <3>1. p \in Nat /\ 2 * q = p + 1
        BY <1>1, <2>2
      <3>2. e * p <= d * p
        BY <3>1
      <3>3. 2 * d * q = d * p + d /\ 2 * e * q = e * p + e
        BY <1>1
      <3> HIDE DEF p
      <3>4. e * p \in Int /\ d * p \in Int
        BY <3>1
      <3> QED  BY <1>2, <3>2, <3>3, <3>4
    <2> QED  BY <2>1, <2>2
  <1>4. 2 * m + e \in Int /\ 2 * e \in Nat /\ 2 * e > 0
    OBVIOUS
  <1>5. q <= Facts!HalfUp(m, e)
    BY <1>1, <1>3, <1>4, Quotient DEF Facts!HalfUp
  <1> QED  BY <1>5 DEF q

(* Of nothing there is nothing.                                            *)
LEMMA RoundedZero ==
  ASSUME NEW d \in Nat, d > 0
  PROVE  Facts!HalfUp(0, d) = 0
  <1>1. Facts!HalfUp(0, d) = d \div (2 * d)
    BY DEF Facts!HalfUp
  <1>2. 2 * d \in Nat /\ 2 * d > 0
    OBVIOUS
  <1> DEFINE u == d \div (2 * d)
  <1>3. u \in Int /\ 2 * d * u <= d /\ \A q \in Int : 2 * d * q <= d => q <= u
    BY <1>2, Quotient
  <1>4. 0 <= u
    BY <1>3
  <1> HIDE DEF u
  <1>5. ASSUME u >= 1 PROVE FALSE
    <2>1. 2 * d <= 2 * d * u
      <3>1. \A a, b \in Nat : b >= 1 => a <= a * b
        OBVIOUS
      <3> QED  BY <1>2, <1>3, <1>4, <1>5, <3>1
    <2>2. 2 * d * u \in Int
      BY <1>2, <1>3
    <2> QED  BY <1>3, <2>1, <2>2
  <1>6. u = 0
    BY <1>3, <1>4, <1>5
  <1> QED  BY <1>1, <1>6 DEF u

(* A whole part more is seen after rounding.                               *)
LEMMA RoundedLess ==
  ASSUME NEW n \in Nat, NEW m \in Nat, NEW d \in Nat, 0 < d, n + d <= m
  PROVE  Facts!HalfUp(n, d) < Facts!HalfUp(m, d)
  <1> DEFINE q == Facts!HalfUp(n, d)
  <1>1. q \in Nat
    BY RoundedNat
  <1>2. 2 * d * q <= 2 * n + d
    <2>1. 2 * n + d \in Int /\ 2 * d \in Nat /\ 2 * d > 0
      OBVIOUS
    <2> QED  BY <2>1, Quotient DEF Facts!HalfUp
  <1> HIDE DEF q
  <1>3. 2 * d * (q + 1) <= 2 * m + d
    <2>1. 2 * d * (q + 1) = 2 * d * q + 2 * d /\ 2 * d * q \in Int
      BY <1>1
    <2> QED  BY <1>2, <2>1
  <1>4. 2 * m + d \in Int /\ 2 * d \in Nat /\ 2 * d > 0 /\ q + 1 \in Int
    BY <1>1
  <1>5. q + 1 <= Facts!HalfUp(m, d) /\ Facts!HalfUp(m, d) \in Int
    BY <1>3, <1>4, Quotient DEF Facts!HalfUp
  <1> QED  BY <1>1, <1>5 DEF q

(* clamp01(n / most), in parts of the scale.                               *)
LEMMA CappedIn ==
  ASSUME NEW n \in Nat, NEW most \in {2, 3, 5, 10, 180}
  PROVE  Facts!Capped(n, most) \in 0..Facts!Scale
  <1> DEFINE k == Facts!Least(n, most)
  <1>1. k \in Nat /\ k <= most
    BY DEF Facts!Least
  <1> HIDE DEF k
  <1>2. Facts!Capped(n, most) = (420 * k) \div most
    BY DEF Facts!Capped, Facts!Scale, k
  <1>3. (420 * k) \div most \in 0..420
    <2>1. CASE most = 2   BY <1>1, <2>1
    <2>2. CASE most = 3   BY <1>1, <2>2
    <2>3. CASE most = 5   BY <1>1, <2>3
    <2>4. CASE most = 10  BY <1>1, <2>4
    <2>5. CASE most = 180 BY <1>1, <2>5
    <2> QED  BY <2>1, <2>2, <2>3, <2>4, <2>5
  <1> QED  BY <1>2, <1>3 DEF Facts!Scale

(* No term above c, no sum above c for each term.                          *)
LEMMA SumBound ==
  ASSUME NEW g, Summable(g), NEW c \in Nat, \A x \in DOMAIN g : g[x] <= c
  PROVE  Facts!SumFunction(g) <= c * Cardinality(DOMAIN g)
  <1> DEFINE S == DOMAIN g  h == Summed(S, g)
             Bad == {s \in SUBSET S : ~(h[s] <= c * Cardinality(s))}
  <1>1. Sums(S, g, h) /\ h \in [SUBSET S -> Int] /\ AnyFirst(S, g, h)
    BY SumsExist, SumAny DEF Summable
  <1>2. IsFiniteSet(S) /\ (\A x \in S : g[x] \in Int /\ g[x] <= c)
    BY DEF Summable, IntTerms
  <1> HIDE DEF h, S
  <1>3. h[{}] = 0 /\ (\A s \in SUBSET S : \A x \in s : h[s] = g[x] + h[s \ {x}])
    BY <1>1 DEF Sums, AnyFirst
  <1>4. Bad = {}
    <2> SUFFICES ASSUME Bad # {} PROVE FALSE
      OBVIOUS
    <2>1. PICK s \in Bad : \A y \in s : s \ {y} \notin Bad
      <3>1. Bad \subseteq SUBSET S
        OBVIOUS
      <3> HIDE DEF Bad
      <3> QED  BY <1>2, <3>1, LeastSubset
    <2>2. s \in SUBSET S /\ ~(h[s] <= c * Cardinality(s))
      BY <2>1
    <2>3. s # {}
      <3> SUFFICES ASSUME s = {} PROVE FALSE
        OBVIOUS
      <3>1. ~(h[{}] <= c * Cardinality({}))
        BY <2>2, Zenon
      <3> QED  BY <1>3, <3>1, FS_EmptySet
    <2>4. PICK x \in s : TRUE
      BY <2>3
    <2> DEFINE r == s \ {x}
    <2>5. h[r] <= c * Cardinality(r)
      BY <2>1, <2>2, <2>4
    <2>6. Cardinality(r) = Cardinality(s) - 1 /\ Cardinality(s) \in Nat /\ r \in SUBSET S
      BY <1>2, <2>2, <2>4, FS_Subset, FS_RemoveElement, FS_CardinalityType
    <2>7. h[s] = g[x] + h[r] /\ g[x] \in Int /\ g[x] <= c /\ h[r] \in Int
      BY <1>1, <1>2, <1>3, <2>2, <2>4, <2>6
    <2> HIDE DEF r, Bad
    <2> DEFINE n == Cardinality(s)
    <2>11. n \in Nat
      BY <2>6
    <2>8. c * (n - 1) = c * n - c /\ c * n \in Int
      <3> HIDE DEF n
      <3> QED  BY <2>11
    <2>9. h[r] <= c * n - c
      BY <2>5, <2>6, <2>8
    <2>10. ~(h[s] <= c * n)
      BY <2>2
    <2> HIDE DEF n
    <2> QED  BY <2>7, <2>8, <2>9, <2>10
  <1>5. S \in SUBSET S
    OBVIOUS
  <1>6. h[S] <= c * Cardinality(S)
    BY <1>4, <1>5
  <1> QED  BY <1>6, SumIs DEF SumOf, h, S

(* S has at most n elements.                                               *)
AtMost(S, n) == IsFiniteSet(S) /\ Cardinality(S) \in Nat /\ Cardinality(S) <= n

(* One more element is one more at most ...                                *)
LEMMA OneMore ==
  ASSUME NEW S, NEW x, NEW n \in Nat, AtMost(S, n)
  PROVE  AtMost(S \cup {x}, n + 1)
  <1>1. /\ IsFiniteSet(S \cup {x})
        /\ Cardinality(S \cup {x}) = IF x \in S THEN Cardinality(S) ELSE Cardinality(S) + 1
    BY FS_AddElement DEF AtMost
  <1> QED  BY <1>1 DEF AtMost

(* ... so that eight names are eight at most,                              *)
LEMMA Eight ==
  ASSUME NEW a, NEW b, NEW c, NEW d, NEW e, NEW f, NEW g, NEW h
  PROVE  AtMost({a, b, c, d, e, f, g, h}, 8)
  <1>1. AtMost({a}, 1)
    BY FS_Singleton DEF AtMost
  <1>2. AtMost({a} \cup {b}, 2)
    <2>1. AtMost({a} \cup {b}, 1 + 1)
      BY <1>1, OneMore
    <2> QED  BY <2>1
  <1>3. AtMost({a} \cup {b} \cup {c}, 3)
    <2>1. AtMost({a} \cup {b} \cup {c}, 2 + 1)
      BY <1>2, OneMore
    <2> QED  BY <2>1
  <1>4. AtMost({a} \cup {b} \cup {c} \cup {d}, 4)
    <2>1. AtMost({a} \cup {b} \cup {c} \cup {d}, 3 + 1)
      BY <1>3, OneMore
    <2> QED  BY <2>1
  <1>5. AtMost({a} \cup {b} \cup {c} \cup {d} \cup {e}, 5)
    <2>1. AtMost({a} \cup {b} \cup {c} \cup {d} \cup {e}, 4 + 1)
      BY <1>4, OneMore
    <2> QED  BY <2>1
  <1>6. AtMost({a} \cup {b} \cup {c} \cup {d} \cup {e} \cup {f}, 6)
    <2>1. AtMost({a} \cup {b} \cup {c} \cup {d} \cup {e} \cup {f}, 5 + 1)
      BY <1>5, OneMore
    <2> QED  BY <2>1
  <1>7. AtMost({a} \cup {b} \cup {c} \cup {d} \cup {e} \cup {f} \cup {g}, 7)
    <2>1. AtMost({a} \cup {b} \cup {c} \cup {d} \cup {e} \cup {f} \cup {g}, 6 + 1)
      BY <1>6, OneMore
    <2> QED  BY <2>1
  <1>8. AtMost({a} \cup {b} \cup {c} \cup {d} \cup {e} \cup {f} \cup {g} \cup {h}, 8)
    <2>1. AtMost({a} \cup {b} \cup {c} \cup {d} \cup {e} \cup {f} \cup {g} \cup {h}, 7 + 1)
      BY <1>7, OneMore
    <2> QED  BY <2>1
  <1>9. {a} \cup {b} \cup {c} \cup {d} \cup {e} \cup {f} \cup {g} \cup {h} = {a, b, c, d, e, f, g, h}
    OBVIOUS
  <1> QED  BY <1>8, <1>9, Zenon

(* and a set of some of them no more.                                      *)
LEMMA FewAre ==
  ASSUME NEW S, NEW a, NEW b, NEW c, NEW d, NEW e, NEW f, NEW g, NEW h,
         S \subseteq {a, b, c, d, e, f, g, h}
  PROVE  IsFiniteSet(S) /\ Cardinality(S) \in Nat /\ Cardinality(S) <= 8
  <1> DEFINE T == {a, b, c, d, e, f, g, h}
  <1>1. AtMost(T, 8) /\ S \subseteq T
    BY Eight
  <1> HIDE DEF T
  <1>2. IsFiniteSet(S) /\ Cardinality(S) <= Cardinality(T)
    BY <1>1, FS_Subset DEF AtMost
  <1> QED  BY <1>1, <1>2, FS_CardinalityType DEF AtMost

(***************************************************************************)
(* The signals of the five components.                                     *)
(***************************************************************************)
FactsOk(f) == DOMAIN f = DOMAIN FactType /\ \A k \in DOMAIN FactType : f[k] \in FactType[k]

(* What scoreComponent takes: a weight of the code, and points or the      *)
(* mark of a missing one.                                                  *)
Signal == [weight : 1..6, points : Nat \cup {-1}]

(* As many as the longest component has.                                   *)
Few(S) == IsFiniteSet(S) /\ Cardinality(S) \in Nat /\ Cardinality(S) <= 8

(* A component's signals are well formed.                                  *)
SignalsOk(p) == Few(DOMAIN p) /\ \A x \in DOMAIN p : p[x] \in Signal

(* The fields of typed facts that the signals are computed from.           *)
LEMMA FieldsOk ==
  ASSUME NEW f, FactsOk(f)
  PROVE  /\ f.provenance \subseteq [government : 0..420, oldest : Nat]
         /\ f.years \subseteq Nat /\ f.relationship \subseteq Nat /\ f.onTime \subseteq 0..420
         /\ f.document \in {"NONE", "UNREADABLE", "CHANGED", "SOUND"}
         /\ f.tenor \in Int
         /\ f.qr \in {"NONE", "UNAVAILABLE", "UNPARSED", "INVALID", "VALID"}
         /\ f.optional \in Nat /\ f.prior \in Nat /\ f.disputes \in Nat /\ f.referrals \in Nat
         /\ f.recourses \in Nat
  BY DEF FactsOk, FactType, Whole

(* The value of an optional fact that is there.                            *)
LEMMA TheIn == ASSUME NEW fact, fact # {} PROVE Facts!The(fact) \in fact
  BY DEF Facts!The

(* goodBad gives all points or none.                                       *)
LEMMA GoodIn == ASSUME NEW b PROVE Facts!Good(b) \in {0, 420}
  BY DEF Facts!Good, Facts!Scale

(* An optional fact gives points or is missing.                            *)
LEMMA MaybeIn ==
  ASSUME NEW fact, NEW points, fact # {} => points \in Nat
  PROVE  Facts!FromMaybe(fact, points) \in Nat \cup {-1}
  BY DEF Facts!FromMaybe, Facts!Missing

(* The caps of the five components.                                        *)
LEMMA CappedNat ==
  ASSUME NEW n \in Nat
  PROVE  /\ Facts!Capped(n, 2) \in 0..420 /\ Facts!Capped(n, 3) \in 0..420
         /\ Facts!Capped(n, 5) \in 0..420 /\ Facts!Capped(n, 10) \in 0..420
         /\ Facts!Capped(n, 180) \in 0..420
  <1>1. Facts!Scale = 420
    BY DEF Facts!Scale
  <1>2. \A most \in {2, 3, 5, 10, 180} : Facts!Capped(n, most) \in 0..420
    BY <1>1, CappedIn
  <1> QED  BY <1>2

(* supplierVerification gives well-formed signals ...                      *)
LEMMA SupplierOk ==
  ASSUME NEW f, FactsOk(f)
  PROVE  SignalsOk(Facts!SupplierVerification(f))
  <1> DEFINE p == Facts!SupplierVerification(f)
  <1>1. DOMAIN p = {"status", "registry", "account", "signatory", "tax"}
    BY DEF Facts!SupplierVerification
  <1>2. Few(DOMAIN p)
    <2>1. DOMAIN p \subseteq {"status", "registry", "account", "signatory", "tax",
                              "tax", "tax", "tax"}
      BY <1>1
    <2> HIDE DEF p
    <2> QED  BY <2>1, FewAre DEF Few
  <1>3. p["status"] \in Signal
    BY GoodIn DEF Facts!SupplierVerification, Signal
  <1>4. p["registry"] \in Signal
    BY GoodIn, MaybeIn DEF Facts!SupplierVerification, Signal
  <1>5. p["account"] \in Signal /\ p["signatory"] \in Signal /\ p["tax"] \in Signal
    BY GoodIn, MaybeIn DEF Facts!SupplierVerification, Signal
  <1> HIDE DEF p
  <1>6. SignalsOk(p)
    BY <1>1, <1>2, <1>3, <1>4, <1>5 DEF SignalsOk
  <1> QED  BY <1>6 DEF p

(* ... so does dataConfidence,                                             *)
LEMMA ConfidenceOk ==
  ASSUME NEW f, FactsOk(f)
  PROVE  SignalsOk(Facts!DataConfidence(f))
  <1> DEFINE p == Facts!DataConfidence(f)
  <1>1. DOMAIN p = {"provenance", "freshness"}
    BY DEF Facts!DataConfidence
  <1>2. Few(DOMAIN p)
    <2>1. DOMAIN p \subseteq {"provenance", "freshness", "freshness", "freshness", "freshness",
                              "freshness", "freshness", "freshness"}
      BY <1>1
    <2> HIDE DEF p
    <2> QED  BY <2>1, FewAre DEF Few
  <1>0. f.provenance # {} => Facts!The(f.provenance) \in [government : 0..420, oldest : Nat]
    BY FieldsOk, TheIn
  <1>3. p["provenance"] \in Signal
    <2>1. Facts!FromMaybe(f.provenance, Facts!The(f.provenance).government) \in Nat \cup {-1}
      BY <1>0, MaybeIn
    <2> QED  BY <2>1 DEF Facts!DataConfidence, Signal
  <1>4. p["freshness"] \in Signal
    <2>1. f.provenance # {} => Facts!Capped(Facts!The(f.provenance).oldest, 180) \in 0..420
      BY <1>0, CappedIn DEF Facts!Scale
    <2>2. f.provenance # {} => 420 - Facts!Capped(Facts!The(f.provenance).oldest, 180) \in Nat
      BY <2>1
    <2>3. Facts!FromMaybe(f.provenance, Facts!Scale - Facts!Capped(Facts!The(f.provenance).oldest, 180))
            \in Nat \cup {-1}
      BY <2>2, MaybeIn DEF Facts!Scale
    <2> QED  BY <2>3 DEF Facts!DataConfidence, Signal
  <1> HIDE DEF p
  <1>6. SignalsOk(p)
    BY <1>1, <1>2, <1>3, <1>4 DEF SignalsOk
  <1> QED  BY <1>6 DEF p

(* buyerProfile                                                            *)
LEMMA BuyerOk ==
  ASSUME NEW f, FactsOk(f)
  PROVE  SignalsOk(Facts!BuyerProfile(f))
  <1> DEFINE p == Facts!BuyerProfile(f)
  <1>1. DOMAIN p = {"registry", "age", "relationship", "payments"}
    BY DEF Facts!BuyerProfile
  <1>2. Few(DOMAIN p)
    <2>1. DOMAIN p \subseteq {"registry", "age", "relationship", "payments", "payments", "payments",
                              "payments", "payments"}
      BY <1>1
    <2> HIDE DEF p
    <2> QED  BY <2>1, FewAre DEF Few
  <1>3. p["registry"] \in Signal
    BY GoodIn, MaybeIn DEF Facts!BuyerProfile, Signal
  <1>4. p["age"] \in Signal
    <2>1. ASSUME f.years # {}
          PROVE  Facts!Capped(Facts!The(f.years), 10) \in Nat
      <3> DEFINE n == Facts!The(f.years)
      <3>1. n \in Nat
        BY <2>1, FieldsOk, TheIn
      <3> HIDE DEF n
      <3>2. Facts!Capped(n, 10) \in 0..420
        BY <3>1, CappedNat
      <3> QED  BY <3>2 DEF n
    <2> QED  BY <2>1, MaybeIn DEF Facts!BuyerProfile, Signal
  <1>5. p["relationship"] \in Signal
    <2>1. ASSUME f.relationship # {}
          PROVE  Facts!Capped(Facts!The(f.relationship), 10) \in Nat
      <3> DEFINE n == Facts!The(f.relationship)
      <3>1. n \in Nat
        BY <2>1, FieldsOk, TheIn
      <3> HIDE DEF n
      <3>2. Facts!Capped(n, 10) \in 0..420
        BY <3>1, CappedNat
      <3> QED  BY <3>2 DEF n
    <2> QED  BY <2>1, MaybeIn DEF Facts!BuyerProfile, Signal
  <1>6. p["payments"] \in Signal
    <2>1. f.onTime # {} => Facts!The(f.onTime) \in Nat
      BY FieldsOk, TheIn
    <2> QED  BY <2>1, MaybeIn DEF Facts!BuyerProfile, Signal
  <1> HIDE DEF p
  <1>7. SignalsOk(p)
    BY <1>1, <1>2, <1>3, <1>4, <1>5, <1>6 DEF SignalsOk
  <1> QED  BY <1>7 DEF p

(* and invoiceScore,                                                       *)
LEMMA InvoiceOk ==
  ASSUME NEW f, FactsOk(f)
  PROVE  SignalsOk(Facts!InvoiceScore(f))
  <1> DEFINE p == Facts!InvoiceScore(f)
  <1>1. DOMAIN p = {"completeness", "uniqueness", "evidence", "integrity", "ocr", "qr", "tenor", "paid"}
    BY DEF Facts!InvoiceScore
  <1>2. Few(DOMAIN p)
    <2> HIDE DEF p
    <2> QED  BY <1>1, FewAre DEF Few
  <1>3. p["completeness"] \in Signal
    <2>1. (420 * (4 + f.optional)) \div 7 \in Nat
      <3>1. f.optional \in Nat
        BY FieldsOk
      <3> QED  BY <3>1
    <2> QED  BY <2>1 DEF Facts!InvoiceScore, Signal, Facts!Scale
  <1>4. p["uniqueness"] \in Signal /\ p["evidence"] \in Signal
    BY GoodIn DEF Facts!InvoiceScore, Signal
  <1>5. p["integrity"] \in Signal
    BY GoodIn DEF Facts!InvoiceScore, Signal, Facts!Missing
  <1>6. p["ocr"] \in Signal
    BY GoodIn, MaybeIn DEF Facts!InvoiceScore, Signal
  <1>7. p["qr"] \in Signal
    <2>1. Facts!QrPoints(Facts!Qr(f)) \in Nat
      BY DEF Facts!QrPoints, Facts!Scale
    <2> QED  BY <2>1 DEF Facts!InvoiceScore, Signal, Facts!Missing
  <1>8. p["tenor"] \in Signal
    <2>1. Facts!TenorPoints(f.tenor) \in Nat
      <3>1. f.tenor \in Int
        BY FieldsOk
      <3> QED  BY <3>1 DEF Facts!TenorPoints, Facts!Scale, Facts!RiskMinTenor
    <2> QED  BY <2>1 DEF Facts!InvoiceScore, Signal
  <1>9. p["paid"] \in Signal
    BY DEF Facts!InvoiceScore, Signal, Facts!Scale
  <1> HIDE DEF p
  <1>10. SignalsOk(p)
    BY <1>1, <1>2, <1>3, <1>4, <1>5, <1>6, <1>7, <1>8, <1>9 DEF SignalsOk
  <1> QED  BY <1>10 DEF p

(* and platformBehavior, which always has some;                            *)
LEMMA PlatformOk ==
  ASSUME NEW f, FactsOk(f)
  PROVE  SignalsOk(Facts!PlatformBehavior(f)) /\ DOMAIN Facts!PlatformBehavior(f) # {}
  <1> DEFINE s == [history |-> [weight |-> 2, points |-> (420 + Facts!Capped(f.prior, 5)) \div 2],
                   disputes |-> [weight |-> 3, points |-> 420 - Facts!Capped(f.disputes, 3)],
                   duplicates |-> [weight |-> 3, points |-> 420 - Facts!Capped(f.referrals, 2)],
                   recourse |-> [weight |-> 2, points |-> 420 - Facts!Capped(f.recourses, 2)],
                   clean |-> [weight |-> 1, points |-> 420]]
             D == DOMAIN s \ {x \in {"clean"} : ~Facts!Clean(f)}
             p == Facts!PlatformBehavior(f)
  <1>1. p = [k \in D |-> s[k]]
    BY DEF Facts!PlatformBehavior, Facts!Scale
  <1>2. DOMAIN s = {"history", "disputes", "duplicates", "recourse", "clean"}
    OBVIOUS
  <1>3. Few(D) /\ D # {}
    <2>1. D \subseteq {"history", "disputes", "duplicates", "recourse", "clean", "clean", "clean", "clean"}
      BY <1>2
    <2>2. "history" \in D
      BY <1>2
    <2> HIDE DEF D
    <2> QED  BY <2>1, <2>2, FewAre DEF Few
  <1>4. /\ Facts!Capped(f.prior, 5) \in 0..420 /\ Facts!Capped(f.disputes, 3) \in 0..420
        /\ Facts!Capped(f.referrals, 2) \in 0..420 /\ Facts!Capped(f.recourses, 2) \in 0..420
    <2>1. f.prior \in Nat /\ f.disputes \in Nat /\ f.referrals \in Nat /\ f.recourses \in Nat
      BY FieldsOk
    <2>2. \A n \in Nat : /\ Facts!Capped(n, 5) \in 0..420 /\ Facts!Capped(n, 3) \in 0..420
                         /\ Facts!Capped(n, 2) \in 0..420
      BY CappedNat
    <2> HIDE DEF s, D, p
    <2> QED  BY <2>1, <2>2
  <1>5. /\ (420 + Facts!Capped(f.prior, 5)) \div 2 \in Nat
        /\ 420 - Facts!Capped(f.disputes, 3) \in Nat
        /\ 420 - Facts!Capped(f.referrals, 2) \in Nat
        /\ 420 - Facts!Capped(f.recourses, 2) \in Nat
    <2>1. \A n \in 0..420 : (420 + n) \div 2 \in Nat /\ 420 - n \in Nat
      OBVIOUS
    <2> HIDE DEF s, D, p
    <2> QED  BY <1>4, <2>1, Zenon
  <1>6. s["history"] \in Signal /\ s["disputes"] \in Signal /\ s["duplicates"] \in Signal
        /\ s["recourse"] \in Signal /\ s["clean"] \in Signal
    BY <1>5 DEF Signal
  <1>7. \A k \in DOMAIN s : s[k] \in Signal
    BY <1>2, <1>6
  <1> HIDE DEF s, p
  <1>8. \A k \in D : s[k] \in Signal
    BY <1>7
  <1> HIDE DEF D
  <1>9. DOMAIN p = D /\ \A k \in D : p[k] = s[k]
    BY <1>1
  <1>10. SignalsOk(p) /\ DOMAIN p # {}
    BY <1>3, <1>8, <1>9 DEF SignalsOk
  <1> QED  BY <1>10 DEF p

(* all five.                                                               *)
LEMMA PartsOk ==
  ASSUME NEW f, FactsOk(f)
  PROVE  /\ DOMAIN Facts!AllComponents(f) = Component
         /\ \A c \in Component : SignalsOk(Facts!AllComponents(f)[c])
         /\ DOMAIN Facts!AllComponents(f)["platformBehavior"] # {}
  BY SupplierOk, ConfidenceOk, BuyerOk, InvoiceOk, PlatformOk DEF Facts!AllComponents, Component

(***************************************************************************)
(* The score of a component.                                               *)
(***************************************************************************)
(* The weights of the signals in K, and                                    *)
WeightsFor(p, K) == [k \in K |-> p[k].weight]
(* the weighted points of those that are evaluated.                        *)
PointsFor(p) == [k \in Facts!Evaluated(p) |-> p[k].weight * p[k].points]

(* What is evaluated is what is not missing.                               *)
LEMMA EvaluatedIn ==
  ASSUME NEW p, SignalsOk(p)
  PROVE  /\ Facts!Evaluated(p) \subseteq DOMAIN p /\ IsFiniteSet(Facts!Evaluated(p))
         /\ \A k \in DOMAIN p : k \in Facts!Evaluated(p) <=> p[k].points # -1
         /\ \A k \in Facts!Evaluated(p) : p[k].points \in Nat
  <1>1. Facts!Evaluated(p) \subseteq DOMAIN p
        /\ \A k \in DOMAIN p : k \in Facts!Evaluated(p) <=> p[k].points # -1
    BY DEF Facts!Evaluated, Facts!Missing
  <1>2. IsFiniteSet(DOMAIN p) /\ \A k \in DOMAIN p : p[k].points \in Nat \cup {-1}
    BY DEF SignalsOk, Few, Signal
  <1>3. IsFiniteSet(Facts!Evaluated(p))
    BY <1>1, <1>2, FS_Subset
  <1> QED  BY <1>1, <1>2, <1>3

(* The weights sum, to something when there is a signal.                   *)
LEMMA WeightsOk ==
  ASSUME NEW p, SignalsOk(p), NEW K \in SUBSET DOMAIN p
  PROVE  /\ Summable(WeightsFor(p, K)) /\ DOMAIN WeightsFor(p, K) = K
         /\ \A k \in K : WeightsFor(p, K)[k] = p[k].weight /\ p[k].weight \in 1..6
         /\ Facts!WeightOf(p, K) = Facts!SumFunction(WeightsFor(p, K))
         /\ Facts!WeightOf(p, K) \in 0..48
         /\ K # {} => Facts!WeightOf(p, K) > 0
  <1> DEFINE w == WeightsFor(p, K)
  <1>1. DOMAIN w = K /\ \A k \in K : w[k] = p[k].weight
    BY DEF WeightsFor
  <1>2. \A k \in K : w[k] \in 1..6
    BY <1>1 DEF SignalsOk, Signal
  <1>3. IsFiniteSet(K) /\ Cardinality(K) \in 0..8
    <2>1. IsFiniteSet(DOMAIN p) /\ Cardinality(DOMAIN p) \in Nat /\ Cardinality(DOMAIN p) <= 8
      BY DEF SignalsOk, Few
    <2>2. IsFiniteSet(K) /\ Cardinality(K) <= Cardinality(DOMAIN p)
      BY <2>1, FS_Subset
    <2>3. Cardinality(K) \in Nat
      BY <2>2, FS_CardinalityType
    <2> QED  BY <2>1, <2>2, <2>3
  <1>4. Facts!WeightOf(p, K) = Facts!SumFunction(w)
    BY DEF Facts!WeightOf, WeightsFor
  <1> HIDE DEF w
  <1>5. Summable(w)
    BY <1>1, <1>2, <1>3 DEF Summable, IntTerms
  <1>6. Facts!SumFunction(w) \in Int
    BY <1>5, SumInt
  <1>7. Facts!SumFunction(w) <= 6 * Cardinality(K)
    <2>1. \A k \in DOMAIN w : w[k] <= 6
      BY <1>1, <1>2
    <2>2. Facts!SumFunction(w) <= 6 * Cardinality(DOMAIN w)
      BY <1>5, <2>1, SumBound
    <2> QED  BY <1>1, <2>2
  <1>8. /\ Facts!SumFunction(w) \in Nat
        /\ K # {} => 0 < Facts!SumFunction(w)
    BY <1>1, <1>2, <1>5, SumNat
  <1>9. Facts!SumFunction(w) \in 0..48
    BY <1>3, <1>6, <1>7, <1>8
  <1> QED  BY <1>1, <1>2, <1>4, <1>5, <1>8, <1>9 DEF w

(* The weighted points sum.                                                *)
LEMMA PointsOk ==
  ASSUME NEW p, SignalsOk(p)
  PROVE  /\ Summable(PointsFor(p)) /\ DOMAIN PointsFor(p) = Facts!Evaluated(p)
         /\ \A k \in Facts!Evaluated(p) :
              PointsFor(p)[k] = p[k].weight * p[k].points /\ PointsFor(p)[k] \in Nat
         /\ Facts!SumFunction(PointsFor(p)) \in Nat
  <1> DEFINE w == PointsFor(p)
  <1>1. DOMAIN w = Facts!Evaluated(p) /\ \A k \in Facts!Evaluated(p) : w[k] = p[k].weight * p[k].points
    BY DEF PointsFor
  <1>2. \A k \in Facts!Evaluated(p) : w[k] \in Nat
    <2>1. \A k \in Facts!Evaluated(p) : p[k].weight \in Nat /\ p[k].points \in Nat
      BY EvaluatedIn DEF SignalsOk, Signal
    <2>2. \A a, b \in Nat : a * b \in Nat
      OBVIOUS
    <2> QED  BY <1>1, <2>1, <2>2
  <1> HIDE DEF w
  <1>3. Summable(w)
    BY <1>1, <1>2, EvaluatedIn DEF Summable, IntTerms
  <1>4. Facts!SumFunction(w) \in Nat
    BY <1>1, <1>2, <1>3, SumNat
  <1> QED  BY <1>1, <1>2, <1>3, <1>4 DEF w

(* A component scores the rounded quotient of the two sums, or nothing at  *)
(* all.                                                                    *)
LEMMA ScoreIs ==
  ASSUME NEW p, SignalsOk(p)
  PROVE  /\ Facts!Evaluated(p) = {} => Facts!ScoreComponent(p) = -1
         /\ Facts!Evaluated(p) # {} =>
              /\ Facts!ScoreComponent(p) = Facts!HalfUp(100 * Facts!SumFunction(PointsFor(p)),
                                                        420 * Facts!WeightOf(p, Facts!Evaluated(p)))
              /\ Facts!ScoreComponent(p) \in Nat
  <1>1. Facts!Evaluated(p) = {} => Facts!ScoreComponent(p) = -1
    BY DEF Facts!ScoreComponent, Facts!Missing
  <1>2. ASSUME Facts!Evaluated(p) # {}
        PROVE  /\ Facts!ScoreComponent(p) = Facts!HalfUp(100 * Facts!SumFunction(PointsFor(p)),
                                                        420 * Facts!WeightOf(p, Facts!Evaluated(p)))
               /\ Facts!ScoreComponent(p) \in Nat
    <2>1. Facts!ScoreComponent(p) = Facts!HalfUp(100 * Facts!SumFunction(PointsFor(p)),
                                                 420 * Facts!WeightOf(p, Facts!Evaluated(p)))
      BY <1>2 DEF Facts!ScoreComponent, PointsFor, Facts!Scale
    <2> DEFINE n == Facts!SumFunction(PointsFor(p))  d == Facts!WeightOf(p, Facts!Evaluated(p))
    <2>2. n \in Nat /\ d \in Nat /\ d > 0
      BY <1>2, PointsOk, WeightsOk, EvaluatedIn
    <2> HIDE DEF n, d
    <2>3. 100 * n \in Nat /\ 420 * d \in Nat /\ 420 * d > 0
      BY <2>2
    <2>4. Facts!HalfUp(100 * n, 420 * d) \in Nat
      BY <2>3, RoundedNat
    <2> QED  BY <2>1, <2>4 DEF n, d
  <1> QED  BY <1>1, <1>2

(* The signals of q are those of p, but for some without points that p     *)
(* evaluates and q does not.                                               *)
Muted(p, q) ==
  /\ DOMAIN q = DOMAIN p
  /\ \A k \in DOMAIN p :
       /\ q[k].weight = p[k].weight
       /\ q[k].points = p[k].points \/ (q[k].points = -1 /\ p[k].points = 0)

(* A component with fewer worthless signals scores no less, or is not      *)
(* scored when it scored nothing.                                          *)
LEMMA MutedScore ==
  ASSUME NEW p, NEW q, SignalsOk(p), SignalsOk(q), Muted(p, q)
  PROVE  LET a == Facts!ScoreComponent(p)
             b == Facts!ScoreComponent(q)
         IN  \/ b = -1 /\ a \in {-1, 0}
             \/ b \in Nat /\ a \in Nat /\ a <= b
  <1> DEFINE K == Facts!Evaluated(p)  L == Facts!Evaluated(q)
             m == Facts!SumFunction(PointsFor(p))  n == Facts!SumFunction(PointsFor(q))
             d == Facts!WeightOf(p, K)  e == Facts!WeightOf(q, L)
  <1>1. /\ K \in SUBSET DOMAIN p /\ L \in SUBSET DOMAIN q /\ L \subseteq K
        /\ \A k \in L : q[k].weight = p[k].weight /\ q[k].points = p[k].points
        /\ \A k \in K \ L : p[k].points = 0
    BY EvaluatedIn DEF Muted
  <1>2. m <= n
    <2>1. /\ DOMAIN PointsFor(p) = K /\ DOMAIN PointsFor(q) = L /\ Summable(PointsFor(p)) /\ Summable(PointsFor(q))
          /\ \A k \in K : PointsFor(p)[k] = p[k].weight * p[k].points /\ PointsFor(p)[k] \in Nat
          /\ \A k \in L : PointsFor(q)[k] = q[k].weight * q[k].points /\ PointsFor(q)[k] \in Nat
      BY PointsOk
    <2>2. \A k \in L : PointsFor(q)[k] = PointsFor(p)[k]
      BY <1>1, <2>1
    <2>3. \A k \in K \ L : PointsFor(p)[k] = 0
      <3>1. \A k \in K : p[k].weight \in Int
        BY <1>1 DEF SignalsOk, Signal
      <3> QED  BY <1>1, <2>1, <3>1
    <2> HIDE DEF K, L
    <2>4. Below(PointsFor(p), PointsFor(q))
      BY <1>1, <2>1, <2>2, <2>3 DEF Below
    <2> QED  BY <2>1, <2>4, SumLeq
  <1>3. e <= d
    <2>1. /\ DOMAIN WeightsFor(p, K) = K /\ DOMAIN WeightsFor(q, L) = L
          /\ Summable(WeightsFor(p, K)) /\ Summable(WeightsFor(q, L))
          /\ \A k \in K : WeightsFor(p, K)[k] = p[k].weight /\ p[k].weight \in 1..6
          /\ \A k \in L : WeightsFor(q, L)[k] = q[k].weight
          /\ d = Facts!SumFunction(WeightsFor(p, K)) /\ e = Facts!SumFunction(WeightsFor(q, L))
      BY <1>1, WeightsOk
    <2> HIDE DEF K, L, d, e
    <2>2. Below(WeightsFor(q, L), WeightsFor(p, K))
      BY <1>1, <2>1 DEF Below
    <2> QED  BY <2>1, <2>2, SumLeq
  <1>4. m \in Nat /\ n \in Nat /\ d \in Nat /\ e \in Nat /\ (L # {} => e > 0)
    BY <1>1, PointsOk, WeightsOk
  <1>5. CASE L # {}
    <2>1. K # {}
      BY <1>1, <1>5
    <2>2. /\ Facts!ScoreComponent(p) = Facts!HalfUp(100 * m, 420 * d) /\ Facts!ScoreComponent(p) \in Nat
          /\ Facts!ScoreComponent(q) = Facts!HalfUp(100 * n, 420 * e) /\ Facts!ScoreComponent(q) \in Nat
      BY <1>5, <2>1, ScoreIs
    <2> HIDE DEF m, n, d, e
    <2>3. /\ 100 * m \in Nat /\ 100 * n \in Nat /\ 100 * m <= 100 * n
          /\ 420 * d \in Nat /\ 420 * e \in Nat /\ 0 < 420 * e /\ 420 * e <= 420 * d
      BY <1>2, <1>3, <1>4, <1>5
    <2>4. Facts!HalfUp(100 * m, 420 * d) <= Facts!HalfUp(100 * n, 420 * e)
      BY <2>3, RoundedMono
    <2> QED  BY <2>2, <2>4
  <1>6. CASE L = {} /\ K = {}
    BY <1>6, ScoreIs
  <1>7. CASE L = {} /\ K # {}
    <2>1. Facts!ScoreComponent(q) = -1
      BY <1>7, ScoreIs
    <2>2. n = 0
      <3>1. DOMAIN PointsFor(q) = {}
        BY <1>7, PointsOk
      <3> QED  BY <3>1, SumNone
    <2>3. m = 0
      BY <1>2, <1>4, <2>2
    <2>4. d > 0
      BY <1>1, <1>7, WeightsOk
    <2>5. Facts!ScoreComponent(p) = Facts!HalfUp(100 * m, 420 * d)
      BY <1>7, ScoreIs
    <2>6. Facts!HalfUp(0, 420 * d) = 0
      <3>1. 420 * d \in Nat /\ 420 * d > 0
        BY <1>4, <2>4 DEF d
      <3> QED  BY <3>1, RoundedZero
    <2> HIDE DEF m, d
    <2> QED  BY <2>1, <2>3, <2>5, <2>6
  <1> QED  BY <1>5, <1>6, <1>7

(***************************************************************************)
(* The checks and the blockers.                                            *)
(***************************************************************************)
(* What the eight checks pass has no hard blocker.                         *)
LEMMA PassHasNoBlocker ==
  ASSUME NEW f, f.tenor \in Int, NEW min \in Int, min >= Facts!RiskMinTenor,
         Facts!Verification(f, min) = "PASS"
  PROVE  Facts!HardBlockers(f) = {}
  <1>1. Facts!RunChecks(f, min) \cap {"FAIL", "REVIEW", "MISSING", "UNPARSED"} = {}
    BY DEF Facts!Verification, Facts!OverallResultOf
  <1>2. f.declared /\ f.document # "NONE"
    BY <1>1 DEF Facts!RunChecks, Facts!Completeness
  <1>3. ~f.collided
    BY <1>1 DEF Facts!RunChecks, Facts!Duplicate
  <1>4. /\ f.status = "ACTIVE"
        /\ f.buyer \intersect {"SUSPENDED", "STRUCK_OFF", "UNDER_LIQUIDATION"} = {}
        /\ Facts!DaysToMaturity(f) >= Facts!Most(0, min)
    BY <1>1 DEF Facts!RunChecks, Facts!PartyEligibility
  <1>5. f.tenor >= 7
    BY <1>4 DEF Facts!DaysToMaturity, Facts!Most, Facts!RiskMinTenor
  <1>6. f.document # "CHANGED"
    <2> SUFFICES ASSUME f.document = "CHANGED" PROVE FALSE
      OBVIOUS
    <2>1. Facts!FileIntegrity(f) = "FAIL"
      BY DEF Facts!FileIntegrity
    <2> QED  BY <1>1, <2>1 DEF Facts!RunChecks
  <1>7. f.buyer # {"STRUCK_OFF"} /\ f.buyer # {"SUSPENDED"}
    BY <1>4
  <1> QED  BY <1>2, <1>3, <1>4, <1>5, <1>6, <1>7 DEF Facts!HardBlockers, Facts!RiskMinTenor

(* The steps of a run that are of the facts are Screening's.               *)
LEMMA FactsRun == MCSpec => Facts!Init /\ [][Facts!Next]_screening
  <1>1. MCInit => Facts!Init
    BY DEF MCInit
  <1>2. [MCNext]_<<subject, vars, screening>> => [Facts!Next]_screening
    BY DEF MCNext, OfPrices, OfFacts
  <1> QED  BY <1>1, <1>2, PTL DEF MCSpec

(***************************************************************************)
(* The composite.                                                          *)
(***************************************************************************)
(* The scores of the components that have a weight,                        *)
ScoresOf(f, w) == [c \in DOMAIN w |-> Facts!ScoreComponent(Facts!AllComponents(f)[c])]
(* those that are scored,                                                  *)
ScoredIn(s) == {c \in DOMAIN s : s[c] # -1}
(* what each adds to the mean,                                             *)
Weighted(s, w) == [c \in ScoredIn(s) |-> w[c] * s[c]]
(* and what it counts for.                                                 *)
Weighing(s, w) == [c \in ScoredIn(s) |-> w[c]]

(* The mean compositeScore takes.                                          *)
Mean(s, w) ==
  IF Facts!SumFunction(Weighing(s, w)) = 0 THEN 0
  ELSE Facts!HalfUp(Facts!SumFunction(Weighted(s, w)), Facts!SumFunction(Weighing(s, w)))

(* What the components can score.                                          *)
Scores == [Component -> Nat \cup {-1}]

(* It is that mean.                                                        *)
LEMMA CompositeIs ==
  ASSUME NEW f, NEW w
  PROVE  Facts!CompositeOf(f, w) = Mean(ScoresOf(f, w), w)
  <1> DEFINE s == ScoresOf(f, w)
  <1>1. DOMAIN s = DOMAIN w
    BY DEF ScoresOf
  <1>2. Facts!CompositeOf(f, w) =
          LET scored == {c \in DOMAIN w : s[c] # Facts!Missing}
              weighted == Facts!SumFunction([c \in scored |-> w[c] * s[c]])
              total == Facts!SumFunction([c \in scored |-> w[c]])
          IN  IF total = 0 THEN 0 ELSE Facts!HalfUp(weighted, total)
    BY DEF Facts!CompositeOf, ScoresOf
  <1> HIDE DEF s
  <1>3. {c \in DOMAIN w : s[c] # Facts!Missing} = ScoredIn(s)
    BY <1>1 DEF ScoredIn, Facts!Missing
  <1>4. Facts!CompositeOf(f, w) = Mean(s, w)
    BY <1>2, <1>3 DEF Mean, Weighted, Weighing
  <1> QED  BY <1>4 DEF s

(* The scores are typed.                                                   *)
LEMMA ScoresTyped ==
  ASSUME NEW f, FactsOk(f), NEW w \in [Component -> Nat]
  PROVE  ScoresOf(f, w) \in Scores
  <1>1. \A c \in Component : Facts!ScoreComponent(Facts!AllComponents(f)[c]) \in Nat \cup {-1}
    BY PartsOk, ScoreIs
  <1> QED  BY <1>1 DEF ScoresOf, Scores

(* Both sums of the mean are naturals.                                     *)
LEMMA MeanParts ==
  ASSUME NEW s \in Scores, NEW w \in [Component -> Nat]
  PROVE  /\ ScoredIn(s) \subseteq Component
         /\ Summable(Weighted(s, w)) /\ Summable(Weighing(s, w))
         /\ DOMAIN Weighted(s, w) = ScoredIn(s) /\ DOMAIN Weighing(s, w) = ScoredIn(s)
         /\ \A c \in ScoredIn(s) :
              /\ s[c] \in Nat /\ w[c] \in Nat
              /\ Weighing(s, w)[c] = w[c]
              /\ Weighted(s, w)[c] = w[c] * s[c] /\ Weighted(s, w)[c] \in Nat
         /\ Facts!SumFunction(Weighted(s, w)) \in Nat
         /\ Facts!SumFunction(Weighing(s, w)) \in Nat
         /\ Facts!SumFunction(Weighing(s, w)) = 0 => \A c \in ScoredIn(s) : w[c] = 0
  <1> DEFINE K == ScoredIn(s)  u == Weighted(s, w)  v == Weighing(s, w)
  <1>1. K \subseteq Component /\ \A c \in K : s[c] \in Nat /\ w[c] \in Nat
    BY DEF ScoredIn, Scores
  <1>2. IsFiniteSet(K)
    <2>1. IsFiniteSet(Component)
      <3>1. Component \subseteq {"supplierVerification", "dataConfidence", "buyerProfile", "invoiceScore",
              "platformBehavior", "platformBehavior", "platformBehavior", "platformBehavior"}
        BY DEF Component
      <3> HIDE DEF Component
      <3> QED  BY <3>1, FewAre
    <2> QED  BY <1>1, <2>1, FS_Subset
  <1>3. /\ DOMAIN u = K /\ DOMAIN v = K
        /\ \A c \in K : u[c] = w[c] * s[c] /\ v[c] = w[c]
    BY DEF Weighted, Weighing
  <1> HIDE DEF K, u, v
  <1>4. \A c \in K : u[c] \in Nat /\ v[c] \in Nat
    <2>1. \A a, b \in Nat : a * b \in Nat
      OBVIOUS
    <2> QED  BY <1>1, <1>3, <2>1
  <1>5. Summable(u) /\ Summable(v)
    BY <1>2, <1>3, <1>4 DEF Summable, IntTerms
  <1>6. Facts!SumFunction(u) \in Nat /\ Facts!SumFunction(v) \in Nat
        /\ \A c \in K : 0 < v[c] => 0 < Facts!SumFunction(v)
    BY <1>3, <1>4, <1>5, SumNat
  <1>7. Facts!SumFunction(v) = 0 => \A c \in K : w[c] = 0
    BY <1>1, <1>3, <1>6
  <1> QED  BY <1>1, <1>3, <1>4, <1>5, <1>6, <1>7 DEF K, u, v

(* So is the mean                                                          *)
LEMMA MeanNat ==
  ASSUME NEW s \in Scores, NEW w \in [Component -> Nat]
  PROVE  Mean(s, w) \in Nat
  <1> DEFINE n == Facts!SumFunction(Weighted(s, w))  d == Facts!SumFunction(Weighing(s, w))
  <1>1. n \in Nat /\ d \in Nat
    BY MeanParts
  <1> HIDE DEF n, d
  <1>2. (IF d = 0 THEN 0 ELSE Facts!HalfUp(n, d)) \in Nat
    BY <1>1, RoundedNat
  <1> QED  BY <1>2 DEF Mean, n, d

(* and the composite.                                                      *)
LEMMA CompositeNat ==
  ASSUME NEW f, FactsOk(f), NEW w \in [Component -> Nat]
  PROVE  Facts!CompositeOf(f, w) \in Nat
  BY CompositeIs, ScoresTyped, MeanNat

(* A component that is not scored at all leaves the mean no lower than one *)
(* that scores nothing.                                                    *)
LEMMA MeanMono ==
  ASSUME NEW s \in Scores, NEW t \in Scores, NEW w \in [Component -> Nat],
         \A c \in Component : \/ t[c] = -1 /\ s[c] \in {-1, 0}
                              \/ t[c] \in Nat /\ s[c] \in Nat /\ s[c] <= t[c]
  PROVE  Mean(s, w) <= Mean(t, w)
  <1> DEFINE K == ScoredIn(s)  L == ScoredIn(t)
             n == Facts!SumFunction(Weighted(s, w))  d == Facts!SumFunction(Weighing(s, w))
             m == Facts!SumFunction(Weighted(t, w))  e == Facts!SumFunction(Weighing(t, w))
  <1>1. /\ K \subseteq Component /\ L \subseteq K
        /\ \A c \in L : s[c] \in Nat /\ t[c] \in Nat /\ s[c] <= t[c]
        /\ \A c \in K \ L : s[c] = 0
    BY DEF ScoredIn, Scores
  <1>2. /\ DOMAIN Weighted(s, w) = K /\ DOMAIN Weighing(s, w) = K
        /\ DOMAIN Weighted(t, w) = L /\ DOMAIN Weighing(t, w) = L
        /\ Summable(Weighted(s, w)) /\ Summable(Weighing(s, w))
        /\ Summable(Weighted(t, w)) /\ Summable(Weighing(t, w))
        /\ \A c \in K : /\ w[c] \in Nat /\ Weighing(s, w)[c] = w[c]
                        /\ Weighted(s, w)[c] = w[c] * s[c]
        /\ \A c \in L : Weighing(t, w)[c] = w[c] /\ Weighted(t, w)[c] = w[c] * t[c]
        /\ n \in Nat /\ d \in Nat /\ m \in Nat /\ e \in Nat
        /\ d = 0 => \A c \in K : w[c] = 0
        /\ e = 0 => \A c \in L : w[c] = 0
    BY MeanParts
  <1>3. Mean(s, w) = (IF d = 0 THEN 0 ELSE Facts!HalfUp(n, d))
        /\ Mean(t, w) = (IF e = 0 THEN 0 ELSE Facts!HalfUp(m, e))
    BY DEF Mean
  <1> HIDE DEF K, L
  <1>4. n <= m
    <2>1. \A c \in L : w[c] * s[c] <= w[c] * t[c]
      <3>1. \A a, x, y \in Nat : x <= y => a * x <= a * y
        OBVIOUS
      <3> QED  BY <1>1, <1>2, <3>1
    <2>2. \A c \in K \ L : w[c] * s[c] = 0
      BY <1>1, <1>2
    <2>3. Below(Weighted(s, w), Weighted(t, w))
      BY <1>1, <1>2, <2>1, <2>2 DEF Below
    <2> QED  BY <1>2, <2>3, SumLeq
  <1>5. e <= d
    <2>1. Below(Weighing(t, w), Weighing(s, w))
      BY <1>1, <1>2 DEF Below
    <2> QED  BY <1>2, <2>1, SumLeq
  <1>6. CASE e # 0
    <2> HIDE DEF n, m, d, e
    <2>1. Facts!HalfUp(n, d) <= Facts!HalfUp(m, e)
      BY <1>2, <1>4, <1>5, <1>6, RoundedMono
    <2>2. d # 0
      BY <1>2, <1>5, <1>6
    <2> QED  BY <1>3, <1>6, <2>1, <2>2
  <1>7. CASE e = 0
    <2>1. n = 0
      <3>1. \A c \in L : w[c] * s[c] <= 0
        BY <1>1, <1>2, <1>7
      <3>2. \A c \in K \ L : w[c] * s[c] <= 0
        BY <1>1, <1>2
      <3> DEFINE none == [c \in {} |-> 0]
      <3>3. DOMAIN none = {} /\ Facts!SumFunction(none) = 0 /\ Summable(none)
        <4>1. DOMAIN none = {}
          OBVIOUS
        <4> HIDE DEF none
        <4> QED  BY <4>1, SumNone, FS_EmptySet DEF Summable, IntTerms
      <3> HIDE DEF none
      <3>4. Below(Weighted(s, w), none)
        BY <1>2, <3>1, <3>2, <3>3 DEF Below
      <3>5. n <= 0
        BY <1>2, <3>3, <3>4, SumLeq
      <3> QED  BY <1>2, <3>5
    <2> HIDE DEF n, m, d, e
    <2>2. d # 0 => Facts!HalfUp(n, d) = 0
      BY <1>2, <2>1, RoundedZero
    <2> QED  BY <1>3, <1>7, <2>2
  <1> QED  BY <1>6, <1>7

(***************************************************************************)
(* The invariant, and BlockedIsCritical.                                   *)
(***************************************************************************)
(* BlockedIsCritical, of one assessment, whose version is a known one.     *)
Blocking(row) ==
  /\ row.version \in DOMAIN Version
  /\ LET thresholds == Version[row.version].thresholds
     IN  row.blocked /\ (\A band \in DOMAIN thresholds : thresholds[band] > Facts!BlockedScoreCeiling)
           => row.band = "CRITICAL"

(* The facts are what the platform can hold, and what a calculation in     *)
(* flight has read is typed.                                               *)
ScreeningTyped ==
  /\ FactsOk(facts)
  /\ minTenor \in Int
  /\ version \in DOMAIN Version
  /\ \A r \in reading : r.version \in DOMAIN Version /\ r.composite \in Int

(* The inductive invariant of Screening.                                   *)
ScreeningInv ==
  /\ ScreeningTyped
  /\ \A row \in assessment : Blocking(row)

(* Blended with the model's answer the composite stays a whole number.     *)
LEMMA BlendInt ==
  ASSUME NEW c \in Int, NEW p \in Int, NEW ml \in Int
  PROVE  Facts!BlendWithModel(c, p, ml) \in Int
  <1> DEFINE w == Facts!Least(100, Facts!Most(0, ml))
  <1>1. w \in Int
    BY DEF Facts!Least, Facts!Most
  <1> HIDE DEF w
  <1>2. (100 - w) * c + w * (100 - p) \in Int
    BY <1>1
  <1>3. Facts!HalfUp((100 - w) * c + w * (100 - p), 100) \in Int
    BY <1>2, RoundedInt
  <1> QED  BY <1>3 DEF Facts!BlendWithModel, w

(* A row is persisted with a band its cap allows, whatever the model       *)
(* answered.                                                               *)
LEMMA PersistBlocks ==
  ASSUME ScreeningInv, Facts!Persist
  PROVE  \A row \in assessment' : Blocking(row)
  <1>1. PICK r \in reading, answer \in {{}} \cup {{p} : p \in Estimate} :
          assessment' = {[version |-> r.version,
                          score |-> Facts!Trust(r.composite, r.blockers, Version[r.version], answer),
                          band |-> Facts!BandOf(Facts!Trust(r.composite, r.blockers, Version[r.version], answer),
                                                Version[r.version].thresholds),
                          blocked |-> r.blockers # {}]}
    BY DEF Facts!Persist
  <1> DEFINE v == Version[r.version]
             th == v.thresholds
             s == Facts!Trust(r.composite, r.blockers, v, answer)
             row == [version |-> r.version, score |-> s, band |-> Facts!BandOf(s, th),
                     blocked |-> r.blockers # {}]
  <1>2. r.version \in DOMAIN Version /\ r.composite \in Int /\ v \in VersionType
    BY VersionAssumption DEF ScreeningInv, ScreeningTyped
  <1>3. /\ v.ml \in Int /\ DOMAIN th = {"LOW", "MEDIUM", "HIGH"}
        /\ th.LOW \in Int /\ th.MEDIUM \in Int /\ th.HIGH \in Int
    BY <1>2 DEF VersionType
  <1> HIDE DEF v, th
  <1>4. ASSUME r.blockers # {}, \A band \in DOMAIN th : th[band] > 24
        PROVE  Facts!BandOf(s, th) = "CRITICAL"
    <2> DEFINE blended == IF answer = {} THEN r.composite
                          ELSE Facts!BlendWithModel(r.composite, CHOOSE p \in answer : TRUE, v.ml)
    <2>1. blended \in Int
      <3>1. answer # {} => (CHOOSE p \in answer : TRUE) \in Int
        BY VersionAssumption
      <3> QED  BY <1>2, <1>3, <3>1, BlendInt
    <2>2. s = Facts!CapForBlockers(blended, r.blockers)
      BY DEF Facts!Trust
    <2> HIDE DEF blended, s
    <2>3. s \in Int /\ s <= 24
      BY <1>4, <2>1, <2>2 DEF Facts!CapForBlockers, Facts!Least, Facts!BlockedScoreCeiling
    <2>4. th.LOW > 24 /\ th.MEDIUM > 24 /\ th.HIGH > 24
      BY <1>3, <1>4
    <2> QED  BY <1>3, <2>3, <2>4 DEF Facts!BandOf
  <1>5. row.version = r.version /\ row.band = Facts!BandOf(s, th) /\ row.blocked = (r.blockers # {})
    OBVIOUS
  <1>6. assessment' = {row}
    BY <1>1 DEF v, th
  <1> HIDE DEF row, s
  <1>7. Blocking(row)
    BY <1>2, <1>4, <1>5 DEF Blocking, Facts!BlockedScoreCeiling, th, v
  <1> QED  BY <1>6, <1>7

(* Every step keeps the invariant.                                         *)
LEMMA ScreeningKept ==
  ASSUME ScreeningInv, [Facts!Next]_screening
  PROVE  ScreeningInv'
  <1>1. CASE Facts!Happens
    <2>1. PICK k \in DOMAIN Option : \E value \in Option[k] : facts' = [facts EXCEPT ![k] = value]
      BY <1>1 DEF Facts!Happens
    <2>2. UNCHANGED <<minTenor, version, reading, assessment>>
      BY <1>1 DEF Facts!Happens
    <2>3. FactsOk(facts)'
      <3>1. PICK value \in Option[k] : facts' = [facts EXCEPT ![k] = value]
        BY <2>1
      <3>2. k \in DOMAIN FactType /\ value \in FactType[k]
        BY <3>1, FactsAssumption
      <3> QED  BY <3>1, <3>2 DEF ScreeningInv, ScreeningTyped, FactsOk
    <2> QED  BY <2>2, <2>3 DEF ScreeningInv, ScreeningTyped, Blocking
  <1>2. CASE Facts!SetMinTenor
    <2>1. UNCHANGED <<facts, version, reading, assessment>> /\ minTenor' \in Int
      BY <1>2, FactsAssumption DEF Facts!SetMinTenor
    <2> QED  BY <2>1 DEF ScreeningInv, ScreeningTyped, FactsOk, Blocking
  <1>3. CASE Facts!Activate
    <2>1. UNCHANGED <<facts, minTenor, reading, assessment>> /\ version' \in DOMAIN Version
      BY <1>3 DEF Facts!Activate
    <2> QED  BY <2>1 DEF ScreeningInv, ScreeningTyped, FactsOk, Blocking
  <1>4. CASE Facts!Calculate
    <2> DEFINE c == Facts!RulesComposite(facts, Version[version])
               r == [version |-> version, blockers |-> Facts!HardBlockers(facts), composite |-> c]
    <2>1. UNCHANGED <<facts, minTenor, version, assessment>> /\ reading' = {r}
      BY <1>4 DEF Facts!Calculate
    <2>2. c \in Int
      <3>1. Version[version] \in VersionType
        BY VersionAssumption DEF ScreeningInv, ScreeningTyped
      <3>2. Version[version].weights \in [Component -> Nat]
        BY <3>1 DEF VersionType
      <3> QED  BY <3>2, CompositeNat DEF Facts!RulesComposite, ScreeningInv, ScreeningTyped
    <2>3. r.version = version /\ r.composite = c
      OBVIOUS
    <2> HIDE DEF c, r
    <2>4. \A x \in reading' : x.version \in DOMAIN Version /\ x.composite \in Int
      BY <2>1, <2>2, <2>3 DEF ScreeningInv, ScreeningTyped
    <2> QED  BY <2>1, <2>4 DEF ScreeningInv, ScreeningTyped, FactsOk, Blocking
  <1>5. CASE Facts!Persist
    <2>1. UNCHANGED <<facts, minTenor, version>> /\ reading' = {}
      BY <1>5 DEF Facts!Persist
    <2>2. \A row \in assessment' : Blocking(row)
      BY <1>5, PersistBlocks
    <2> QED  BY <2>1, <2>2 DEF ScreeningInv, ScreeningTyped, FactsOk, Blocking
  <1>6. CASE UNCHANGED screening
    BY <1>6 DEF screening, ScreeningInv, ScreeningTyped, FactsOk, Blocking
  <1> QED  BY <1>1, <1>2, <1>3, <1>4, <1>5, <1>6 DEF Facts!Next

(* It holds at first.                                                      *)
LEMMA ScreeningBegins == Facts!Init => ScreeningInv
  BY FactsAssumption, VersionAssumption
     DEF Facts!Init, ScreeningInv, ScreeningTyped, FactsOk

(* Whatever the registries, the scan and the model answer and whichever    *)
(* version is active, the facts stay typed and a row persisted with a      *)
(* blocker is CRITICAL when every threshold of its version exceeds the     *)
(* ceiling of RiskService's cap.                                           *)
THEOREM ScreeningHolds == MCSpec => []ScreeningInv
  BY ScreeningBegins, ScreeningKept, FactsRun, PTL

(* A transaction with a hard blocker is banded CRITICAL (ZM-RSK-015), the  *)
(* model's answer and the version's weights notwithstanding, unless an     *)
(* administrator has put one of the version's thresholds at or under the   *)
(* ceiling.                                                                *)
THEOREM BlockedIsCriticalHolds == MCSpec => []BlockedIsCritical
  <1>1. ScreeningInv => BlockedIsCritical
    BY DEF ScreeningInv, Blocking, BlockedIsCritical, Facts!BlockedIsCritical
  <1> QED  BY <1>1, ScreeningHolds, PTL

(* What runChecks passes the scoring does not block, as long as            *)
(* MIN_INVOICE_TENOR_DAYS is not under the seven days the scoring has of   *)
(* its own.                                                                *)
THEOREM PassedIsUnblockedHolds == MCSpec => []PassedIsUnblocked
  <1>1. ASSUME ScreeningTyped
        PROVE  facts.tenor \in Int /\ minTenor \in Int
    BY <1>1, FieldsOk DEF ScreeningTyped
  <1>2. ScreeningInv => PassedIsUnblocked
    BY <1>1, PassHasNoBlocker DEF ScreeningInv, PassedIsUnblocked, Facts!PassedIsUnblocked
  <1> QED  BY <1>2, ScreeningHolds, PTL

(***************************************************************************)
(* OutageIsNotAdverse.                                                     *)
(***************************************************************************)
Source == DOMAIN Facts!Lost

(* b is a with some of the adverse answers not given.                      *)
Hushed(a, b) ==
  \A k \in DOMAIN FactType :
    b[k] = a[k] \/ (k \in Source /\ a[k] = Facts!Adverse[k] /\ b[k] = Facts!Lost[k])

(* b is f with some of the sources silent.                                 *)
Silenced(f, b) ==
  /\ f.document # "NONE"
  /\ \A k \in DOMAIN FactType : b[k] = f[k] \/ (k \in Source /\ b[k] = Facts!Lost[k])

(* The eleven facts a source outside the platform gives.                   *)
LEMMA Sources ==
  /\ Source = {"registry", "account", "signatory", "tax", "provenance", "buyer", "years",
               "relationship", "onTime", "document", "qr"}
  /\ Source \subseteq DOMAIN FactType
  BY DEF Source, Facts!Lost, FactType

(* ... field by field.                                                     *)
Fieldwise(a, b) ==
  /\ b.status = a.status /\ b.declared = a.declared /\ b.tenor = a.tenor
  /\ b.collided = a.collided /\ b.ocr = a.ocr /\ b.ocrField = a.ocrField
  /\ b.optional = a.optional /\ b.partlyPaid = a.partlyPaid /\ b.prior = a.prior
  /\ b.disputes = a.disputes /\ b.referrals = a.referrals /\ b.recourses = a.recourses
  /\ b.registry = a.registry \/ (b.registry = {} /\ a.registry = {"SUSPENDED"})
  /\ b.account = a.account \/ (b.account = {} /\ a.account = {FALSE})
  /\ b.signatory = a.signatory \/ (b.signatory = {} /\ a.signatory = {FALSE})
  /\ b.tax = a.tax \/ (b.tax = {} /\ a.tax = {FALSE})
  /\ \/ b.provenance = a.provenance
     \/ b.provenance = {} /\ a.provenance = {[government |-> 0, oldest |-> 180]}
  /\ b.buyer = a.buyer \/ (b.buyer = {} /\ a.buyer = {"UNDER_LIQUIDATION"})
  /\ b.years = a.years \/ (b.years = {} /\ a.years = {0})
  /\ b.relationship = a.relationship \/ (b.relationship = {} /\ a.relationship = {0})
  /\ b.onTime = a.onTime \/ (b.onTime = {} /\ a.onTime = {0})
  /\ b.document = a.document \/ (b.document = "UNREADABLE" /\ a.document = "CHANGED")
  /\ b.qr = a.qr \/ (b.qr = "NONE" /\ a.qr = "INVALID")

(* One is the other.                                                       *)
LEMMA HushedFields ==
  ASSUME NEW a, NEW b, Hushed(a, b)
  PROVE  Fieldwise(a, b)
  <1>1. /\ "status" \in DOMAIN FactType \ Source /\ "declared" \in DOMAIN FactType \ Source
        /\ "tenor" \in DOMAIN FactType \ Source /\ "collided" \in DOMAIN FactType \ Source
        /\ "ocr" \in DOMAIN FactType \ Source /\ "ocrField" \in DOMAIN FactType \ Source
        /\ "optional" \in DOMAIN FactType \ Source /\ "partlyPaid" \in DOMAIN FactType \ Source
        /\ "prior" \in DOMAIN FactType \ Source /\ "disputes" \in DOMAIN FactType \ Source
        /\ "referrals" \in DOMAIN FactType \ Source /\ "recourses" \in DOMAIN FactType \ Source
    BY Sources DEF FactType
  <1>2. \A k \in Source : b[k] = a[k] \/ (a[k] = Facts!Adverse[k] /\ b[k] = Facts!Lost[k])
    BY Sources DEF Hushed
  <1>3. \A k \in DOMAIN FactType \ Source : b[k] = a[k]
    BY DEF Hushed
  <1>4. /\ b.status = a.status /\ b.declared = a.declared /\ b.tenor = a.tenor
        /\ b.collided = a.collided /\ b.ocr = a.ocr /\ b.ocrField = a.ocrField
        /\ b.optional = a.optional /\ b.partlyPaid = a.partlyPaid /\ b.prior = a.prior
        /\ b.disputes = a.disputes /\ b.referrals = a.referrals /\ b.recourses = a.recourses
    BY <1>1, <1>3
  <1>5. /\ b.registry = a.registry \/ (b.registry = {} /\ a.registry = {"SUSPENDED"})
        /\ b.account = a.account \/ (b.account = {} /\ a.account = {FALSE})
        /\ b.signatory = a.signatory \/ (b.signatory = {} /\ a.signatory = {FALSE})
        /\ b.tax = a.tax \/ (b.tax = {} /\ a.tax = {FALSE})
        /\ \/ b.provenance = a.provenance
           \/ b.provenance = {} /\ a.provenance = {[government |-> 0, oldest |-> 180]}
        /\ b.buyer = a.buyer \/ (b.buyer = {} /\ a.buyer = {"UNDER_LIQUIDATION"})
        /\ b.years = a.years \/ (b.years = {} /\ a.years = {0})
    BY <1>2, Sources DEF Facts!Lost, Facts!Adverse
  <1>6. /\ b.relationship = a.relationship \/ (b.relationship = {} /\ a.relationship = {0})
        /\ b.onTime = a.onTime \/ (b.onTime = {} /\ a.onTime = {0})
        /\ b.document = a.document \/ (b.document = "UNREADABLE" /\ a.document = "CHANGED")
        /\ b.qr = a.qr \/ (b.qr = "NONE" /\ a.qr = "INVALID")
    BY <1>2, Sources DEF Facts!Lost, Facts!Adverse
  <1> QED  BY <1>4, <1>5, <1>6 DEF Fieldwise

(* The value of a fact that is there.                                      *)
LEMMA TheOne == ASSUME NEW x PROVE Facts!The({x}) = x
  BY DEF Facts!The

(* The ends of two of the caps.                                            *)
LEMMA CappedEnds ==
  Facts!Capped(0, 10) = 0 /\ Facts!Capped(180, 180) = 420
  BY DEF Facts!Capped, Facts!Least, Facts!Scale

(* A signal is the same in p and q;                                        *)
Same(p, q, k) == q[k].weight = p[k].weight /\ q[k].points = p[k].points
(* it was worth nothing in p and q has it not.                             *)
Dropped(p, q, k) == q[k].weight = p[k].weight /\ q[k].points = -1 /\ p[k].points = 0

(* Without the adverse answers a component loses only signals that were    *)
(* worth nothing: those of the registry, the account, the signatory and    *)
(* the tax status,                                                         *)
LEMMA SupplierMuted ==
  ASSUME NEW a, NEW b, Hushed(a, b)
  PROVE  Muted(Facts!SupplierVerification(a), Facts!SupplierVerification(b))
  <1> DEFINE p == Facts!SupplierVerification(a)  q == Facts!SupplierVerification(b)
  <1>0. Fieldwise(a, b)
    BY HushedFields
  <1>1. DOMAIN p = {"status", "registry", "account", "signatory", "tax"} /\ DOMAIN q = DOMAIN p
    BY DEF Facts!SupplierVerification
  <1>2. Same(p, q, "status")
    BY <1>0 DEF Facts!SupplierVerification, Same, Fieldwise
  <1>3. Same(p, q, "registry") \/ Dropped(p, q, "registry")
    <2>1. CASE b.registry = a.registry
      BY <2>1 DEF Facts!SupplierVerification, Same
    <2>2. CASE b.registry = {} /\ a.registry = {"SUSPENDED"}
      BY <2>2, TheOne DEF Facts!SupplierVerification, Dropped, Facts!FromMaybe, Facts!Missing, Facts!Good
    <2> QED  BY <2>1, <2>2, <1>0 DEF Fieldwise
  <1>4. /\ Same(p, q, "account") \/ Dropped(p, q, "account")
        /\ Same(p, q, "signatory") \/ Dropped(p, q, "signatory")
        /\ Same(p, q, "tax") \/ Dropped(p, q, "tax")
    <2>1. /\ b.account = a.account => Same(p, q, "account")
          /\ b.signatory = a.signatory => Same(p, q, "signatory")
          /\ b.tax = a.tax => Same(p, q, "tax")
      BY DEF Facts!SupplierVerification, Same
    <2>2. Facts!Good(Facts!The({FALSE})) = 0
      BY TheOne DEF Facts!Good
    <2>3. b.account = {} /\ a.account = {FALSE} => Dropped(p, q, "account")
      BY <2>2 DEF Facts!SupplierVerification, Dropped, Facts!FromMaybe, Facts!Missing
    <2>4. b.signatory = {} /\ a.signatory = {FALSE} => Dropped(p, q, "signatory")
      BY <2>2 DEF Facts!SupplierVerification, Dropped, Facts!FromMaybe, Facts!Missing
    <2>5. b.tax = {} /\ a.tax = {FALSE} => Dropped(p, q, "tax")
      BY <2>2 DEF Facts!SupplierVerification, Dropped, Facts!FromMaybe, Facts!Missing
    <2> QED  BY <2>1, <2>3, <2>4, <2>5, <1>0 DEF Fieldwise
  <1> HIDE DEF p, q
  <1>5. Muted(p, q)
    BY <1>1, <1>2, <1>3, <1>4 DEF Muted, Same, Dropped
  <1> QED  BY <1>5 DEF p, q

(* of the provenance,                                                      *)
LEMMA ConfidenceMuted ==
  ASSUME NEW a, NEW b, Hushed(a, b)
  PROVE  Muted(Facts!DataConfidence(a), Facts!DataConfidence(b))
  <1> DEFINE p == Facts!DataConfidence(a)  q == Facts!DataConfidence(b)
  <1>0. Fieldwise(a, b)
    BY HushedFields
  <1>1. DOMAIN p = {"provenance", "freshness"} /\ DOMAIN q = DOMAIN p
    BY DEF Facts!DataConfidence
  <1>2. CASE b.provenance = a.provenance
    <2>1. Same(p, q, "provenance") /\ Same(p, q, "freshness")
      BY <1>2 DEF Facts!DataConfidence, Same
    <2> HIDE DEF p, q
    <2>2. Muted(p, q)
      BY <1>1, <2>1 DEF Muted, Same
    <2> QED  BY <2>2 DEF p, q
  <1>3. CASE b.provenance = {} /\ a.provenance = {[government |-> 0, oldest |-> 180]}
    <2> DEFINE g == Facts!The(a.provenance)
    <2>1. g = [government |-> 0, oldest |-> 180]
      BY <1>3, TheOne
    <2>2. g.government = 0 /\ g.oldest = 180
      BY <2>1
    <2> HIDE DEF g
    <2>3. Facts!Scale - Facts!Capped(g.oldest, 180) = 0
      BY <2>2, CappedEnds DEF Facts!Scale
    <2>4. p["provenance"].points = 0 /\ p["freshness"].points = 0
      BY <1>3, <2>2, <2>3 DEF Facts!DataConfidence, Facts!FromMaybe, g
    <2>5. q["provenance"].points = -1 /\ q["freshness"].points = -1
      BY <1>3 DEF Facts!DataConfidence, Facts!FromMaybe, Facts!Missing
    <2>6. q["provenance"].weight = p["provenance"].weight /\ q["freshness"].weight = p["freshness"].weight
      BY DEF Facts!DataConfidence
    <2> HIDE DEF p, q
    <2>7. Muted(p, q)
      BY <1>1, <2>4, <2>5, <2>6 DEF Muted
    <2> QED  BY <2>7 DEF p, q
  <1> QED  BY <1>2, <1>3, <1>0 DEF Fieldwise

(* of the buyer                                                            *)
LEMMA BuyerMuted ==
  ASSUME NEW a, NEW b, Hushed(a, b)
  PROVE  Muted(Facts!BuyerProfile(a), Facts!BuyerProfile(b))
  <1> DEFINE p == Facts!BuyerProfile(a)  q == Facts!BuyerProfile(b)
  <1>0. Fieldwise(a, b)
    BY HushedFields
  <1>1. DOMAIN p = {"registry", "age", "relationship", "payments"} /\ DOMAIN q = DOMAIN p
    BY DEF Facts!BuyerProfile
  <1>2. Same(p, q, "registry") \/ Dropped(p, q, "registry")
    <2>1. CASE b.buyer = a.buyer
      BY <2>1 DEF Facts!BuyerProfile, Same
    <2>2. CASE b.buyer = {} /\ a.buyer = {"UNDER_LIQUIDATION"}
      BY <2>2, TheOne DEF Facts!BuyerProfile, Dropped, Facts!FromMaybe, Facts!Missing, Facts!Good
    <2> QED  BY <2>1, <2>2, <1>0 DEF Fieldwise
  <1>3. Same(p, q, "age") \/ Dropped(p, q, "age")
    <2>1. CASE b.years = a.years
      BY <2>1 DEF Facts!BuyerProfile, Same
    <2>2. CASE b.years = {} /\ a.years = {0}
      <3>1. Facts!The(a.years) = 0
        BY <2>2, TheOne
      <3> QED  BY <2>2, <3>1, CappedEnds DEF Facts!BuyerProfile, Dropped, Facts!FromMaybe, Facts!Missing
    <2> QED  BY <2>1, <2>2, <1>0 DEF Fieldwise
  <1>4. Same(p, q, "relationship") \/ Dropped(p, q, "relationship")
    <2>1. CASE b.relationship = a.relationship
      BY <2>1 DEF Facts!BuyerProfile, Same
    <2>2. CASE b.relationship = {} /\ a.relationship = {0}
      <3>1. Facts!The(a.relationship) = 0
        BY <2>2, TheOne
      <3> QED  BY <2>2, <3>1, CappedEnds DEF Facts!BuyerProfile, Dropped, Facts!FromMaybe, Facts!Missing
    <2> QED  BY <2>1, <2>2, <1>0 DEF Fieldwise
  <1>5. Same(p, q, "payments") \/ Dropped(p, q, "payments")
    <2>1. CASE b.onTime = a.onTime
      BY <2>1 DEF Facts!BuyerProfile, Same
    <2>2. CASE b.onTime = {} /\ a.onTime = {0}
      <3>1. Facts!The(a.onTime) = 0
        BY <2>2, TheOne
      <3> QED  BY <2>2, <3>1 DEF Facts!BuyerProfile, Dropped, Facts!FromMaybe, Facts!Missing
    <2> QED  BY <2>1, <2>2, <1>0 DEF Fieldwise
  <1> HIDE DEF p, q
  <1>6. Muted(p, q)
    BY <1>1, <1>2, <1>3, <1>4, <1>5 DEF Muted, Same, Dropped
  <1> QED  BY <1>6 DEF p, q

(* and of the invoice.                                                     *)
LEMMA InvoiceMuted ==
  ASSUME NEW a, NEW b, Hushed(a, b)
  PROVE  Muted(Facts!InvoiceScore(a), Facts!InvoiceScore(b))
  <1> DEFINE p == Facts!InvoiceScore(a)  q == Facts!InvoiceScore(b)
  <1>0. Fieldwise(a, b)
    BY HushedFields
  <1>1. DOMAIN p = {"completeness", "uniqueness", "evidence", "integrity", "ocr", "qr", "tenor", "paid"}
        /\ DOMAIN q = DOMAIN p
    BY DEF Facts!InvoiceScore
  <1>2. (b.document = "NONE") = (a.document = "NONE")
    BY <1>0 DEF Fieldwise
  <1>3. Same(p, q, "completeness") /\ Same(p, q, "uniqueness") /\ Same(p, q, "tenor") /\ Same(p, q, "paid")
    BY <1>0 DEF Facts!InvoiceScore, Same, Fieldwise
  <1>4. Same(p, q, "evidence")
    BY <1>2 DEF Facts!InvoiceScore, Same, Facts!Good
  <1>5. Same(p, q, "ocr")
    <2>1. Facts!Ocr(b) = Facts!Ocr(a)
      BY <1>2, <1>0 DEF Facts!Ocr, Fieldwise
    <2>2. \A k : Facts!OcrField(b, k) = Facts!OcrField(a, k)
      BY <2>1, <1>0 DEF Facts!OcrField, Fieldwise
    <2>3. Facts!OcrConsistent(b) = Facts!OcrConsistent(a)
      BY <2>2 DEF Facts!OcrConsistent
    <2> QED  BY <2>3 DEF Facts!InvoiceScore, Same
  <1>6. Same(p, q, "integrity") \/ Dropped(p, q, "integrity")
    <2>1. CASE b.document = a.document
      BY <2>1 DEF Facts!InvoiceScore, Same
    <2>2. CASE b.document = "UNREADABLE" /\ a.document = "CHANGED"
      BY <2>2 DEF Facts!InvoiceScore, Dropped, Facts!Missing, Facts!Good
    <2> QED  BY <2>1, <2>2, <1>0 DEF Fieldwise
  <1>7. Same(p, q, "qr") \/ Dropped(p, q, "qr")
    <2>1. CASE Facts!Qr(b) = Facts!Qr(a)
      BY <2>1 DEF Facts!InvoiceScore, Same
    <2>2. CASE Facts!Qr(b) = "NONE" /\ Facts!Qr(a) = "INVALID"
      BY <2>2 DEF Facts!InvoiceScore, Dropped, Facts!Missing, Facts!QrPoints
    <2>3. Facts!Qr(b) = Facts!Qr(a) \/ (Facts!Qr(b) = "NONE" /\ Facts!Qr(a) = "INVALID")
      BY <1>2, <1>0 DEF Facts!Qr, Fieldwise
    <2> QED  BY <2>1, <2>2, <2>3
  <1> HIDE DEF p, q
  <1>8. Muted(p, q)
    BY <1>1, <1>3, <1>4, <1>5, <1>6, <1>7 DEF Muted, Same, Dropped
  <1> QED  BY <1>8 DEF p, q

(* What the platform knows itself stays as it is.                          *)
LEMMA PlatformMuted ==
  ASSUME NEW a, NEW b, Hushed(a, b)
  PROVE  Facts!PlatformBehavior(b) = Facts!PlatformBehavior(a)
  <1>0. Fieldwise(a, b)
    BY HushedFields
  <1>1. Facts!Clean(b) = Facts!Clean(a)
    BY <1>0 DEF Facts!Clean, Fieldwise
  <1>2. b.prior = a.prior /\ b.disputes = a.disputes /\ b.referrals = a.referrals /\ b.recourses = a.recourses
    BY <1>0 DEF Fieldwise
  <1> QED  BY <1>1, <1>2 DEF Facts!PlatformBehavior

(* The five components together.                                           *)
LEMMA PartsMuted ==
  ASSUME NEW a, NEW b, Hushed(a, b)
  PROVE  \A c \in Component : Muted(Facts!AllComponents(a)[c], Facts!AllComponents(b)[c])
  <1>1. Muted(Facts!PlatformBehavior(a), Facts!PlatformBehavior(b))
    BY PlatformMuted DEF Muted
  <1> QED  BY <1>1, SupplierMuted, ConfidenceMuted, BuyerMuted, InvoiceMuted
           DEF Facts!AllComponents, Component

(* What is not answered blocks nothing that an adverse answer would not.   *)
LEMMA HushedBlockers ==
  ASSUME NEW a, NEW b, Hushed(a, b)
  PROVE  Facts!HardBlockers(b) \subseteq Facts!HardBlockers(a)
  <1>0. Fieldwise(a, b)
    BY HushedFields
  <1>1. /\ b.buyer = {"STRUCK_OFF"} => a.buyer = {"STRUCK_OFF"}
        /\ b.buyer = {"SUSPENDED"} => a.buyer = {"SUSPENDED"}
        /\ b.document = "CHANGED" => a.document = "CHANGED"
        /\ b.document = "NONE" => a.document = "NONE"
    BY <1>0 DEF Fieldwise
  <1>2. b.status = a.status /\ b.collided = a.collided /\ b.tenor = a.tenor /\ b.declared = a.declared
    BY <1>0 DEF Fieldwise
  <1> QED  BY <1>1, <1>2 DEF Facts!HardBlockers

(* An outage scores no less than the adverse answer.                       *)
LEMMA HushedScore ==
  ASSUME NEW a, NEW b, FactsOk(a), FactsOk(b), Hushed(a, b), version \in DOMAIN Version
  PROVE  Facts!Score(b) >= Facts!Score(a)
  <1> DEFINE w == Version[version].weights
             s == ScoresOf(a, w)  t == ScoresOf(b, w)
             m == Facts!CompositeOf(a, w)  n == Facts!CompositeOf(b, w)
  <1>1. w \in [Component -> Nat]
    <2>1. Version[version] \in VersionType
      BY VersionAssumption
    <2> QED  BY <2>1 DEF VersionType
  <1> HIDE DEF w
  <1>2. s \in Scores /\ t \in Scores
    BY <1>1, ScoresTyped
  <1>3. ASSUME NEW c \in Component
        PROVE  \/ t[c] = -1 /\ s[c] \in {-1, 0}
               \/ t[c] \in Nat /\ s[c] \in Nat /\ s[c] <= t[c]
    <2> DEFINE p == Facts!AllComponents(a)[c]  q == Facts!AllComponents(b)[c]
    <2>1. SignalsOk(p) /\ SignalsOk(q) /\ Muted(p, q)
      BY PartsOk, PartsMuted
    <2>2. s[c] = Facts!ScoreComponent(p) /\ t[c] = Facts!ScoreComponent(q)
      BY <1>1 DEF ScoresOf
    <2> HIDE DEF p, q, s, t
    <2> QED  BY <2>1, <2>2, MutedScore
  <1>4. m = Mean(s, w) /\ n = Mean(t, w)
    BY CompositeIs
  <1>5. m \in Nat /\ n \in Nat
    BY <1>1, CompositeNat
  <1> HIDE DEF s, t, m, n
  <1>6. m <= n
    BY <1>1, <1>2, <1>3, <1>4, MeanMono
  <1>7. /\ Facts!Score(a) = Facts!CapForBlockers(m, Facts!HardBlockers(a))
        /\ Facts!Score(b) = Facts!CapForBlockers(n, Facts!HardBlockers(b))
    BY DEF Facts!Score, Facts!Trust, Facts!RulesComposite, m, n, w
  <1>8. Facts!HardBlockers(b) # {} => Facts!HardBlockers(a) # {}
    BY HushedBlockers
  <1> QED  BY <1>5, <1>6, <1>7, <1>8
           DEF Facts!CapForBlockers, Facts!Least, Facts!BlockedScoreCeiling

(* Silenced, field by field.                                               *)
SilencedFieldwise(f, b) ==
  /\ b.status = f.status /\ b.declared = f.declared /\ b.tenor = f.tenor
  /\ b.collided = f.collided /\ b.ocr = f.ocr /\ b.ocrField = f.ocrField
  /\ b.optional = f.optional /\ b.partlyPaid = f.partlyPaid /\ b.prior = f.prior
  /\ b.disputes = f.disputes /\ b.referrals = f.referrals /\ b.recourses = f.recourses
  /\ b.registry = f.registry \/ b.registry = {}
  /\ b.account = f.account \/ b.account = {}
  /\ b.signatory = f.signatory \/ b.signatory = {}
  /\ b.tax = f.tax \/ b.tax = {}
  /\ b.provenance = f.provenance \/ b.provenance = {}
  /\ b.buyer = f.buyer \/ b.buyer = {}
  /\ b.years = f.years \/ b.years = {}
  /\ b.relationship = f.relationship \/ b.relationship = {}
  /\ b.onTime = f.onTime \/ b.onTime = {}
  /\ f.document # "NONE" /\ (b.document = f.document \/ b.document = "UNREADABLE")
  /\ b.qr = f.qr \/ b.qr = "NONE"

(* One is the other.                                                       *)
LEMMA SilencedFields ==
  ASSUME NEW f, NEW b, Silenced(f, b)
  PROVE  SilencedFieldwise(f, b)
  <1>1. /\ "status" \in DOMAIN FactType \ Source /\ "declared" \in DOMAIN FactType \ Source
        /\ "tenor" \in DOMAIN FactType \ Source /\ "collided" \in DOMAIN FactType \ Source
        /\ "ocr" \in DOMAIN FactType \ Source /\ "ocrField" \in DOMAIN FactType \ Source
        /\ "optional" \in DOMAIN FactType \ Source /\ "partlyPaid" \in DOMAIN FactType \ Source
        /\ "prior" \in DOMAIN FactType \ Source /\ "disputes" \in DOMAIN FactType \ Source
        /\ "referrals" \in DOMAIN FactType \ Source /\ "recourses" \in DOMAIN FactType \ Source
    BY Sources DEF FactType
  <1>2. \A k \in Source : b[k] = f[k] \/ b[k] = Facts!Lost[k]
    BY Sources DEF Silenced
  <1>3. \A k \in DOMAIN FactType \ Source : b[k] = f[k]
    BY DEF Silenced
  <1>4. /\ b.status = f.status /\ b.declared = f.declared /\ b.tenor = f.tenor
        /\ b.collided = f.collided /\ b.ocr = f.ocr /\ b.ocrField = f.ocrField
        /\ b.optional = f.optional /\ b.partlyPaid = f.partlyPaid /\ b.prior = f.prior
        /\ b.disputes = f.disputes /\ b.referrals = f.referrals /\ b.recourses = f.recourses
    BY <1>1, <1>3
  <1>5. /\ b.registry = f.registry \/ b.registry = {}
        /\ b.account = f.account \/ b.account = {}
        /\ b.signatory = f.signatory \/ b.signatory = {}
        /\ b.tax = f.tax \/ b.tax = {}
        /\ b.provenance = f.provenance \/ b.provenance = {}
        /\ b.buyer = f.buyer \/ b.buyer = {}
        /\ b.years = f.years \/ b.years = {}
    BY <1>2, Sources DEF Facts!Lost
  <1>6. /\ b.relationship = f.relationship \/ b.relationship = {}
        /\ b.onTime = f.onTime \/ b.onTime = {}
        /\ b.document = f.document \/ b.document = "UNREADABLE"
        /\ b.qr = f.qr \/ b.qr = "NONE"
    BY <1>2, Sources DEF Facts!Lost
  <1>7. f.document # "NONE"
    BY DEF Silenced
  <1> QED  BY <1>4, <1>5, <1>6, <1>7 DEF SilencedFieldwise

(* A silent source adds no blocker.                                        *)
LEMMA SilencedBlockers ==
  ASSUME NEW f, NEW b, Silenced(f, b)
  PROVE  Facts!HardBlockers(b) \subseteq Facts!HardBlockers(f)
  <1>0. SilencedFieldwise(f, b)
    BY SilencedFields
  <1>1. /\ b.buyer = {"STRUCK_OFF"} => f.buyer = {"STRUCK_OFF"}
        /\ b.buyer = {"SUSPENDED"} => f.buyer = {"SUSPENDED"}
        /\ b.document = "CHANGED" => f.document = "CHANGED"
        /\ b.document # "NONE"
    BY <1>0 DEF SilencedFieldwise
  <1>2. b.status = f.status /\ b.collided = f.collided /\ b.tenor = f.tenor /\ b.declared = f.declared
    BY <1>0 DEF SilencedFieldwise
  <1> QED  BY <1>1, <1>2 DEF Facts!HardBlockers

(* Only a collision and a changed file fail a check.                       *)
LEMMA FailOnly ==
  ASSUME NEW f, FactsOk(f), NEW min
  PROVE  Facts!Verification(f, min) = "FAIL" <=> f.collided \/ f.document = "CHANGED"
  <1>1. f.document \in {"NONE", "UNREADABLE", "CHANGED", "SOUND"} /\ f.collided \in BOOLEAN
        /\ f.qr \in {"NONE", "UNAVAILABLE", "UNPARSED", "INVALID", "VALID"}
    BY FieldsOk DEF FactsOk, FactType
  <1>2. Facts!Completeness(f) # "FAIL" /\ Facts!IdentityMatch(f) # "FAIL"
        /\ Facts!TransactionLogic(f) # "FAIL" /\ Facts!PartyEligibility(f, min) # "FAIL"
    BY DEF Facts!Completeness, Facts!IdentityMatch, Facts!TransactionLogic, Facts!PartyEligibility
  <1>3. \A field : Facts!Compared(field) # "FAIL"
    BY DEF Facts!Compared
  <1>4. Facts!OcrConsistency(f) # "FAIL"
    BY <1>3 DEF Facts!OcrConsistency
  <1>5. Facts!QrConsistency(f) # "FAIL"
    <2>1. Facts!Qr(f) \in {"NONE", "UNAVAILABLE", "UNPARSED", "INVALID", "VALID"}
      BY <1>1 DEF Facts!Qr
    <2>2. Facts!Compared(f.qrField) # "FAIL"
      BY <1>3
    <2> QED  BY <2>1, <2>2 DEF Facts!QrConsistency
  <1>6. Facts!Duplicate(f) = "FAIL" <=> f.collided
    BY <1>1 DEF Facts!Duplicate
  <1>7. Facts!FileIntegrity(f) = "FAIL" <=> f.document = "CHANGED"
    BY <1>1 DEF Facts!FileIntegrity
  <1>8. "FAIL" \in Facts!RunChecks(f, min) <=> f.collided \/ f.document = "CHANGED"
    BY <1>2, <1>4, <1>5, <1>6, <1>7 DEF Facts!RunChecks
  <1> QED  BY <1>8 DEF Facts!Verification, Facts!OverallResultOf

(***************************************************************************)
(* The availability.                                                       *)
(***************************************************************************)
(* The signals of q are those of p, some of them not evaluated.            *)
Quieter(p, q) ==
  /\ DOMAIN q = DOMAIN p
  /\ \A k \in DOMAIN p :
       q[k].weight = p[k].weight /\ (q[k].points = p[k].points \/ q[k].points = -1)

(* ... and k is one of them.                                               *)
Fallen(p, q, k) == k \in DOMAIN p /\ p[k].points # -1 /\ q[k].points = -1

(* Signal k of q is the one of p, or is missing.                           *)
Hushable(p, q, k) == q[k].weight = p[k].weight /\ (q[k].points = p[k].points \/ q[k].points = -1)

(* A source that falls silent takes its signal away: the registry, the     *)
(* account, the signatory and the tax status,                              *)
LEMMA SupplierQuieter ==
  ASSUME NEW f, NEW b, Silenced(f, b)
  PROVE  LET p == Facts!SupplierVerification(f)
             q == Facts!SupplierVerification(b)
         IN  /\ Quieter(p, q)
             /\ b.registry # f.registry => Fallen(p, q, "registry")
             /\ b.account # f.account => Fallen(p, q, "account")
             /\ b.signatory # f.signatory => Fallen(p, q, "signatory")
             /\ b.tax # f.tax => Fallen(p, q, "tax")
  <1> DEFINE p == Facts!SupplierVerification(f)  q == Facts!SupplierVerification(b)
  <1>0. SilencedFieldwise(f, b)
    BY SilencedFields
  <1>1. DOMAIN p = {"status", "registry", "account", "signatory", "tax"} /\ DOMAIN q = DOMAIN p
    BY DEF Facts!SupplierVerification
  <1>2. Hushable(p, q, "status") /\ Hushable(p, q, "registry")
        /\ Hushable(p, q, "account") /\ Hushable(p, q, "signatory") /\ Hushable(p, q, "tax")
    BY <1>0 DEF SilencedFieldwise, Facts!SupplierVerification, Hushable, Facts!FromMaybe, Facts!Missing
  <1>3. /\ b.registry # f.registry => Fallen(p, q, "registry")
        /\ b.account # f.account => Fallen(p, q, "account")
        /\ b.signatory # f.signatory => Fallen(p, q, "signatory")
        /\ b.tax # f.tax => Fallen(p, q, "tax")
    <2>1. b.registry # f.registry => Fallen(p, q, "registry")
      <3>1. b.registry # f.registry => b.registry = {} /\ f.registry # {}
        BY <1>0 DEF SilencedFieldwise
      <3> QED  BY <3>1, GoodIn DEF Facts!SupplierVerification, Fallen, Facts!FromMaybe, Facts!Missing
    <2>2. b.account # f.account => Fallen(p, q, "account")
      <3>1. b.account # f.account => b.account = {} /\ f.account # {}
        BY <1>0 DEF SilencedFieldwise
      <3> QED  BY <3>1, GoodIn DEF Facts!SupplierVerification, Fallen, Facts!FromMaybe, Facts!Missing
    <2>3. b.signatory # f.signatory => Fallen(p, q, "signatory")
      <3>1. b.signatory # f.signatory => b.signatory = {} /\ f.signatory # {}
        BY <1>0 DEF SilencedFieldwise
      <3> QED  BY <3>1, GoodIn DEF Facts!SupplierVerification, Fallen, Facts!FromMaybe, Facts!Missing
    <2>4. b.tax # f.tax => Fallen(p, q, "tax")
      <3>1. b.tax # f.tax => b.tax = {} /\ f.tax # {}
        BY <1>0 DEF SilencedFieldwise
      <3> QED  BY <3>1, GoodIn DEF Facts!SupplierVerification, Fallen, Facts!FromMaybe, Facts!Missing
    <2> QED  BY <2>1, <2>2, <2>3, <2>4
  <1> HIDE DEF p, q
  <1>4. Quieter(p, q)
    BY <1>1, <1>2 DEF Quieter, Hushable
  <1> QED  BY <1>3, <1>4 DEF p, q

(* the provenance,                                                         *)
LEMMA ConfidenceQuieter ==
  ASSUME NEW f, NEW b, Silenced(f, b), FactsOk(f)
  PROVE  LET p == Facts!DataConfidence(f)
             q == Facts!DataConfidence(b)
         IN  /\ Quieter(p, q)
             /\ b.provenance # f.provenance => Fallen(p, q, "provenance")
  <1> DEFINE p == Facts!DataConfidence(f)  q == Facts!DataConfidence(b)
  <1>0. SilencedFieldwise(f, b)
    BY SilencedFields
  <1>1. DOMAIN p = {"provenance", "freshness"} /\ DOMAIN q = DOMAIN p
    BY DEF Facts!DataConfidence
  <1>2. Hushable(p, q, "provenance") /\ Hushable(p, q, "freshness")
    BY <1>0 DEF SilencedFieldwise, Facts!DataConfidence, Hushable, Facts!FromMaybe, Facts!Missing
  <1>3. b.provenance # f.provenance => Fallen(p, q, "provenance")
    <2> SUFFICES ASSUME b.provenance # f.provenance PROVE Fallen(p, q, "provenance")
      OBVIOUS
    <2>1. b.provenance = {} /\ f.provenance # {}
      BY <1>0 DEF SilencedFieldwise
    <2>2. Facts!The(f.provenance).government \in Nat
      BY <2>1, FieldsOk, TheIn
    <2> QED  BY <2>1, <2>2 DEF Facts!DataConfidence, Fallen, Facts!FromMaybe, Facts!Missing
  <1> HIDE DEF p, q
  <1>4. Quieter(p, q)
    BY <1>1, <1>2 DEF Quieter, Hushable
  <1> QED  BY <1>3, <1>4 DEF p, q

(* the buyer's registry and history,                                       *)
LEMMA BuyerQuieter ==
  ASSUME NEW f, NEW b, Silenced(f, b), FactsOk(f)
  PROVE  LET p == Facts!BuyerProfile(f)
             q == Facts!BuyerProfile(b)
         IN  /\ Quieter(p, q)
             /\ b.buyer # f.buyer => Fallen(p, q, "registry")
             /\ b.years # f.years => Fallen(p, q, "age")
             /\ b.relationship # f.relationship => Fallen(p, q, "relationship")
             /\ b.onTime # f.onTime => Fallen(p, q, "payments")
  <1> DEFINE p == Facts!BuyerProfile(f)  q == Facts!BuyerProfile(b)
  <1>0. SilencedFieldwise(f, b)
    BY SilencedFields
  <1>1. DOMAIN p = {"registry", "age", "relationship", "payments"} /\ DOMAIN q = DOMAIN p
    BY DEF Facts!BuyerProfile
  <1>2. Hushable(p, q, "registry") /\ Hushable(p, q, "age") /\ Hushable(p, q, "relationship")
        /\ Hushable(p, q, "payments")
    BY <1>0 DEF SilencedFieldwise, Facts!BuyerProfile, Hushable, Facts!FromMaybe, Facts!Missing
  <1>3. b.buyer # f.buyer => Fallen(p, q, "registry")
    BY <1>0, GoodIn DEF SilencedFieldwise, Facts!BuyerProfile, Fallen, Facts!FromMaybe, Facts!Missing
  <1>4. ASSUME b.years # f.years PROVE Fallen(p, q, "age")
    <2>1. b.years = {} /\ f.years # {}
      BY <1>0, <1>4 DEF SilencedFieldwise
    <2> DEFINE n == Facts!The(f.years)
    <2>2. n \in Nat
      BY <2>1, FieldsOk, TheIn
    <2> HIDE DEF n
    <2>3. Facts!Capped(n, 10) \in 0..420
      BY <2>2, CappedNat
    <2> QED  BY <2>1, <2>3 DEF Facts!BuyerProfile, Fallen, Facts!FromMaybe, Facts!Missing, n
  <1>5. ASSUME b.relationship # f.relationship PROVE Fallen(p, q, "relationship")
    <2>1. b.relationship = {} /\ f.relationship # {}
      BY <1>0, <1>5 DEF SilencedFieldwise
    <2> DEFINE n == Facts!The(f.relationship)
    <2>2. n \in Nat
      BY <2>1, FieldsOk, TheIn
    <2> HIDE DEF n
    <2>3. Facts!Capped(n, 10) \in 0..420
      BY <2>2, CappedNat
    <2> QED  BY <2>1, <2>3 DEF Facts!BuyerProfile, Fallen, Facts!FromMaybe, Facts!Missing, n
  <1>6. ASSUME b.onTime # f.onTime PROVE Fallen(p, q, "payments")
    <2>1. b.onTime = {} /\ f.onTime # {}
      BY <1>0, <1>6 DEF SilencedFieldwise
    <2>2. Facts!The(f.onTime) \in Nat
      BY <2>1, FieldsOk, TheIn
    <2> QED  BY <2>1, <2>2 DEF Facts!BuyerProfile, Fallen, Facts!FromMaybe, Facts!Missing
  <1> HIDE DEF p, q
  <1>7. Quieter(p, q)
    BY <1>1, <1>2 DEF Quieter, Hushable
  <1> QED  BY <1>3, <1>4, <1>5, <1>6, <1>7 DEF p, q

(* the document and its QR code;                                           *)
LEMMA InvoiceQuieter ==
  ASSUME NEW f, NEW b, Silenced(f, b), FactsOk(f)
  PROVE  LET p == Facts!InvoiceScore(f)
             q == Facts!InvoiceScore(b)
         IN  /\ Quieter(p, q)
             /\ b.document # f.document => Fallen(p, q, "integrity")
             /\ b.qr # f.qr => Fallen(p, q, "qr")
  <1> DEFINE p == Facts!InvoiceScore(f)  q == Facts!InvoiceScore(b)
  <1>0. SilencedFieldwise(f, b)
    BY SilencedFields
  <1>1. DOMAIN p = {"completeness", "uniqueness", "evidence", "integrity", "ocr", "qr", "tenor", "paid"}
        /\ DOMAIN q = DOMAIN p
    BY DEF Facts!InvoiceScore
  <1>2. f.document # "NONE" /\ b.document # "NONE"
    BY <1>0 DEF SilencedFieldwise
  <1>3. Hushable(p, q, "completeness") /\ Hushable(p, q, "uniqueness") /\ Hushable(p, q, "tenor")
        /\ Hushable(p, q, "paid")
    BY <1>0 DEF SilencedFieldwise, Facts!InvoiceScore, Hushable
  <1>4. Hushable(p, q, "evidence")
    BY <1>2 DEF Facts!InvoiceScore, Hushable, Facts!Good
  <1>5. Hushable(p, q, "ocr")
    <2>1. Facts!Ocr(b) = Facts!Ocr(f)
      BY <1>0, <1>2 DEF SilencedFieldwise, Facts!Ocr
    <2>2. \A k : Facts!OcrField(b, k) = Facts!OcrField(f, k)
      BY <1>0, <2>1 DEF SilencedFieldwise, Facts!OcrField
    <2>3. Facts!OcrConsistent(b) = Facts!OcrConsistent(f)
      BY <2>2 DEF Facts!OcrConsistent
    <2> QED  BY <2>3 DEF Facts!InvoiceScore, Hushable
  <1>6. Hushable(p, q, "integrity") /\ (b.document # f.document => Fallen(p, q, "integrity"))
    <2>1. CASE b.document = f.document
      BY <2>1 DEF Facts!InvoiceScore, Hushable
    <2>2. CASE b.document # f.document
      <3>1. b.document = "UNREADABLE" /\ f.document \notin {"NONE", "UNREADABLE"}
        BY <1>0, <2>2 DEF SilencedFieldwise
      <3> QED  BY <3>1, GoodIn DEF Facts!InvoiceScore, Hushable, Fallen, Facts!Missing
    <2> QED  BY <2>1, <2>2
  <1>7. Hushable(p, q, "qr") /\ (b.qr # f.qr => Fallen(p, q, "qr"))
    <2>1. Facts!Qr(b) = b.qr /\ Facts!Qr(f) = f.qr
      BY <1>2 DEF Facts!Qr
    <2>2. CASE b.qr = f.qr
      BY <2>1, <2>2 DEF Facts!InvoiceScore, Hushable
    <2>3. CASE b.qr # f.qr
      <3>1. b.qr = "NONE" /\ f.qr # "NONE"
        BY <1>0, <2>3 DEF SilencedFieldwise
      <3>2. Facts!QrPoints(f.qr) \in Nat
        BY DEF Facts!QrPoints, Facts!Scale
      <3> QED  BY <2>1, <3>1, <3>2 DEF Facts!InvoiceScore, Hushable, Fallen, Facts!Missing
    <2> QED  BY <2>2, <2>3
  <1> HIDE DEF p, q
  <1>8. Quieter(p, q)
    BY <1>1, <1>3, <1>4, <1>5, <1>6, <1>7 DEF Quieter, Hushable
  <1> QED  BY <1>6, <1>7, <1>8 DEF p, q

(* none takes what the platform knows itself.                              *)
LEMMA PlatformQuieter ==
  ASSUME NEW f, NEW b, Silenced(f, b)
  PROVE  Facts!PlatformBehavior(b) = Facts!PlatformBehavior(f)
  <1>0. SilencedFieldwise(f, b)
    BY SilencedFields
  <1>1. Facts!Clean(b) = Facts!Clean(f)
    BY <1>0 DEF SilencedFieldwise, Facts!Clean
  <1>2. b.prior = f.prior /\ b.disputes = f.disputes /\ b.referrals = f.referrals /\ b.recourses = f.recourses
    BY <1>0 DEF SilencedFieldwise
  <1> QED  BY <1>1, <1>2 DEF Facts!PlatformBehavior

(* All five, and one signal falls.                                         *)
LEMMA PartsQuieter ==
  ASSUME NEW f, NEW b, FactsOk(f), FactsOk(b), Silenced(f, b), NEW k \in Source, b[k] # f[k]
  PROVE  LET parts == Facts!AllComponents(f)
             quiet == Facts!AllComponents(b)
         IN  /\ \A c \in Component : Quieter(parts[c], quiet[c])
             /\ \E c \in Component : \E x : Fallen(parts[c], quiet[c], x)
  <1> DEFINE parts == Facts!AllComponents(f)  quiet == Facts!AllComponents(b)
  <1>1. /\ parts["supplierVerification"] = Facts!SupplierVerification(f)
        /\ parts["dataConfidence"] = Facts!DataConfidence(f)
        /\ parts["buyerProfile"] = Facts!BuyerProfile(f)
        /\ parts["invoiceScore"] = Facts!InvoiceScore(f)
        /\ parts["platformBehavior"] = Facts!PlatformBehavior(f)
    BY DEF Facts!AllComponents
  <1>2. /\ quiet["supplierVerification"] = Facts!SupplierVerification(b)
        /\ quiet["dataConfidence"] = Facts!DataConfidence(b)
        /\ quiet["buyerProfile"] = Facts!BuyerProfile(b)
        /\ quiet["invoiceScore"] = Facts!InvoiceScore(b)
        /\ quiet["platformBehavior"] = Facts!PlatformBehavior(b)
    BY DEF Facts!AllComponents
  <1> HIDE DEF parts, quiet
  <1>3. Quieter(parts["platformBehavior"], quiet["platformBehavior"])
    BY <1>1, <1>2, PlatformQuieter DEF Quieter
  <1>4. \A c \in Component : Quieter(parts[c], quiet[c])
    BY <1>1, <1>2, <1>3, SupplierQuieter, ConfidenceQuieter, BuyerQuieter, InvoiceQuieter DEF Component
  <1>5. \E c \in Component : \E x : Fallen(parts[c], quiet[c], x)
    <2>1. CASE k = "registry"
      <3>1. Fallen(parts["supplierVerification"], quiet["supplierVerification"], "registry")
        BY <1>1, <1>2, <2>1, SupplierQuieter
      <3> QED  BY <3>1 DEF Component
    <2>2. CASE k \in {"account", "signatory", "tax"}
      <3>1. Fallen(parts["supplierVerification"], quiet["supplierVerification"], k)
        BY <1>1, <1>2, <2>2, SupplierQuieter
      <3> QED  BY <3>1 DEF Component
    <2>3. CASE k = "provenance"
      <3>1. Fallen(parts["dataConfidence"], quiet["dataConfidence"], "provenance")
        BY <1>1, <1>2, <2>3, ConfidenceQuieter
      <3> QED  BY <3>1 DEF Component
    <2>4. CASE k \in {"buyer", "years", "relationship", "onTime"}
      <3>1. \E x : Fallen(parts["buyerProfile"], quiet["buyerProfile"], x)
        BY <1>1, <1>2, <2>4, BuyerQuieter
      <3> QED  BY <3>1 DEF Component
    <2>5. CASE k \in {"document", "qr"}
      <3>1. \E x : Fallen(parts["invoiceScore"], quiet["invoiceScore"], x)
        BY <1>1, <1>2, <2>5, InvoiceQuieter
      <3> QED  BY <3>1 DEF Component
    <2> QED  BY <2>1, <2>2, <2>3, <2>4, <2>5, Sources
  <1> QED  BY <1>4, <1>5 DEF parts, quiet

(* The weights of the components, of all signals                           *)
Totals(part) == [c \in Component |-> Facts!WeightOf(part[c], DOMAIN part[c])]
(* and of the evaluated ones.                                              *)
Knowns(part) == [c \in Component |-> Facts!WeightOf(part[c], Facts!Evaluated(part[c]))]

(* dataAvailability is their quotient, in hundredths of a percent.         *)
LEMMA AvailabilityIs ==
  ASSUME NEW f, FactsOk(f)
  PROVE  LET part == Facts!AllComponents(f)
         IN  Facts!DataAvailability(f)
               = Facts!HalfUp(10000 * Facts!SumFunction(Knowns(part)), Facts!SumFunction(Totals(part)))
  <1>1. DOMAIN Facts!AllComponents(f) = Component
    BY PartsOk
  <1> QED  BY <1>1 DEF Facts!DataAvailability, Knowns, Totals

(* There are five components.                                              *)
LEMMA ComponentsFinite == IsFiniteSet(Component) /\ Cardinality(Component) \in Nat /\ Cardinality(Component) <= 8
  <1>1. Component \subseteq {"supplierVerification", "dataConfidence", "buyerProfile", "invoiceScore",
          "platformBehavior", "platformBehavior", "platformBehavior", "platformBehavior"}
    BY DEF Component
  <1> HIDE DEF Component
  <1> QED  BY <1>1, FewAre

(* The components of a profile: well formed, with the platform's never     *)
(* empty.                                                                  *)
PartsSound(part) ==
  (\A c \in Component : SignalsOk(part[c])) /\ DOMAIN part["platformBehavior"] # {}

(* Both sums are naturals, and the larger is not nothing.                  *)
LEMMA SumsOk ==
  ASSUME NEW part, PartsSound(part)
  PROVE  /\ Summable(Totals(part)) /\ Summable(Knowns(part))
         /\ Facts!SumFunction(Totals(part)) \in 1..10000
         /\ Facts!SumFunction(Knowns(part)) \in Nat
  <1> DEFINE t == Totals(part)  k == Knowns(part)
  <1>0. (\A c \in Component : SignalsOk(part[c])) /\ DOMAIN part["platformBehavior"] # {}
    BY DEF PartsSound
  <1>1. DOMAIN t = Component /\ DOMAIN k = Component
        /\ \A c \in Component : /\ t[c] = Facts!WeightOf(part[c], DOMAIN part[c])
                                /\ k[c] = Facts!WeightOf(part[c], Facts!Evaluated(part[c]))
    BY DEF Totals, Knowns
  <1>2. ASSUME NEW c \in Component
        PROVE  /\ Facts!WeightOf(part[c], DOMAIN part[c]) \in 0..48
               /\ Facts!WeightOf(part[c], Facts!Evaluated(part[c])) \in 0..48
    <2> DEFINE p == part[c]
    <2>1. SignalsOk(p)
      BY <1>0
    <2> HIDE DEF p
    <2>2. Facts!Evaluated(p) \in SUBSET DOMAIN p /\ DOMAIN p \in SUBSET DOMAIN p
      BY <2>1, EvaluatedIn
    <2>3. Facts!WeightOf(p, DOMAIN p) \in 0..48 /\ Facts!WeightOf(p, Facts!Evaluated(p)) \in 0..48
      BY <2>1, <2>2, WeightsOk
    <2> QED  BY <2>3 DEF p
  <1> HIDE DEF t, k
  <1>3. Summable(t) /\ Summable(k)
    BY <1>1, <1>2, ComponentsFinite DEF Summable, IntTerms
  <1>4. Facts!SumFunction(t) \in Nat /\ Facts!SumFunction(k) \in Nat
        /\ \A c \in Component : 0 < t[c] => 0 < Facts!SumFunction(t)
    BY <1>1, <1>2, <1>3, SumNat
  <1>5. Facts!SumFunction(t) <= 48 * Cardinality(Component)
    <2>1. \A c \in DOMAIN t : t[c] <= 48
      BY <1>1, <1>2
    <2>2. Facts!SumFunction(t) <= 48 * Cardinality(DOMAIN t)
      BY <1>3, <2>1, SumBound
    <2> QED  BY <1>1, <2>2
  <1>6. 0 < Facts!SumFunction(t)
    <2> DEFINE p == part["platformBehavior"]
    <2>1. "platformBehavior" \in Component
      BY DEF Component
    <2>2. SignalsOk(p) /\ DOMAIN p # {} /\ DOMAIN p \in SUBSET DOMAIN p
      BY <1>0, <2>1
    <2> HIDE DEF p
    <2>3. Facts!WeightOf(p, DOMAIN p) > 0 /\ Facts!WeightOf(p, DOMAIN p) \in Int
      BY <2>2, WeightsOk
    <2>4. t["platformBehavior"] = Facts!WeightOf(p, DOMAIN p)
      BY <1>1, <2>1 DEF p
    <2> QED  BY <1>4, <2>1, <2>3, <2>4
  <1>7. Facts!SumFunction(t) \in 1..10000
    BY <1>4, <1>5, <1>6, ComponentsFinite
  <1> QED  BY <1>3, <1>4, <1>7 DEF t, k

(* A signal that is missing counts in the total and not among the known.   *)
LEMMA QuieterWeights ==
  ASSUME NEW p, NEW q, SignalsOk(p), SignalsOk(q), Quieter(p, q)
  PROVE  /\ Facts!WeightOf(q, DOMAIN q) = Facts!WeightOf(p, DOMAIN p)
         /\ Facts!WeightOf(q, Facts!Evaluated(q)) <= Facts!WeightOf(p, Facts!Evaluated(p))
         /\ \A x : Fallen(p, q, x) =>
              Facts!WeightOf(q, Facts!Evaluated(q)) < Facts!WeightOf(p, Facts!Evaluated(p))
  <1> DEFINE K == Facts!Evaluated(p)  L == Facts!Evaluated(q)
             u == WeightsFor(p, K)  v == WeightsFor(q, L)
             d == Facts!WeightOf(p, K)  e == Facts!WeightOf(q, L)
  <1>1. WeightsFor(q, DOMAIN q) = WeightsFor(p, DOMAIN p)
    BY DEF Quieter, WeightsFor
  <1>2. Facts!WeightOf(q, DOMAIN q) = Facts!WeightOf(p, DOMAIN p)
    <2>1. DOMAIN p \in SUBSET DOMAIN p /\ DOMAIN q \in SUBSET DOMAIN q
      OBVIOUS
    <2> QED  BY <1>1, <2>1, WeightsOk
  <1>3. /\ K \in SUBSET DOMAIN p /\ L \in SUBSET DOMAIN q /\ L \subseteq K
        /\ \A k \in L : q[k].weight = p[k].weight
        /\ \A k : Fallen(p, q, k) => k \in K /\ k \notin L
    BY EvaluatedIn DEF Quieter, Fallen
  <1>4. /\ DOMAIN u = K /\ DOMAIN v = L /\ Summable(u) /\ Summable(v)
        /\ \A k \in K : u[k] = p[k].weight /\ p[k].weight \in 1..6
        /\ \A k \in L : v[k] = q[k].weight
        /\ d = Facts!SumFunction(u) /\ e = Facts!SumFunction(v)
    BY <1>3, WeightsOk
  <1> HIDE DEF K, L, u, v, d, e
  <1>5. Below(v, u)
    BY <1>3, <1>4 DEF Below
  <1>6. e <= d
    BY <1>4, <1>5, SumLeq
  <1>7. ASSUME NEW x, Fallen(p, q, x)
        PROVE  e < d
    <2>1. x \in DOMAIN u /\ (IF x \in DOMAIN v THEN v[x] < u[x] ELSE 0 < u[x])
      BY <1>3, <1>4, <1>7
    <2> QED  BY <1>4, <1>5, <2>1, SumLess
  <1> QED  BY <1>2, <1>6, <1>7 DEF K, L, d, e

(* So the availability falls when a source does.                           *)
LEMMA SilencedAvailability ==
  ASSUME NEW f, NEW b, FactsOk(f), FactsOk(b), Silenced(f, b), NEW k \in Source, b[k] # f[k]
  PROVE  Facts!DataAvailability(b) < Facts!DataAvailability(f)
  <1> DEFINE p == Facts!AllComponents(f)  q == Facts!AllComponents(b)
             T == Facts!SumFunction(Totals(p))  S == Facts!SumFunction(Totals(q))
             m == Facts!SumFunction(Knowns(p))  n == Facts!SumFunction(Knowns(q))
  <1>1. Facts!DataAvailability(f) = Facts!HalfUp(10000 * m, T)
        /\ Facts!DataAvailability(b) = Facts!HalfUp(10000 * n, S)
    BY AvailabilityIs
  <1>2. /\ \A c \in Component : SignalsOk(p[c]) /\ SignalsOk(q[c])
        /\ DOMAIN p["platformBehavior"] # {} /\ DOMAIN q["platformBehavior"] # {}
    BY PartsOk
  <1>3. (\A c \in Component : Quieter(p[c], q[c])) /\ (\E c \in Component : \E x : Fallen(p[c], q[c], x))
    BY PartsQuieter
  <1> HIDE DEF p, q
  <1>4. /\ Summable(Totals(p)) /\ Summable(Knowns(p)) /\ Summable(Totals(q)) /\ Summable(Knowns(q))
        /\ T \in 1..10000 /\ S \in 1..10000 /\ m \in Nat /\ n \in Nat
    <2>0. PartsSound(p) /\ PartsSound(q)
      BY <1>2 DEF PartsSound
    <2>1. /\ Summable(Totals(p)) /\ Summable(Knowns(p))
          /\ Facts!SumFunction(Totals(p)) \in 1..10000 /\ Facts!SumFunction(Knowns(p)) \in Nat
      BY <2>0, SumsOk
    <2>2. /\ Summable(Totals(q)) /\ Summable(Knowns(q))
          /\ Facts!SumFunction(Totals(q)) \in 1..10000 /\ Facts!SumFunction(Knowns(q)) \in Nat
      BY <2>0, SumsOk
    <2>3. Summable(Totals(p)) /\ Summable(Knowns(p))
      BY <2>1
    <2>4. Summable(Totals(q)) /\ Summable(Knowns(q))
      BY <2>2
    <2>5. T \in 1..10000
      BY <2>1
    <2>6. S \in 1..10000
      BY <2>2
    <2>7. m \in Nat
      BY <2>1
    <2>8. n \in Nat
      BY <2>2
    <2> HIDE DEF T, S, m, n
    <2> QED  BY <2>3, <2>4, <2>5, <2>6, <2>7, <2>8
  <1>5. S = T
    <2>1. \A c \in Component : Facts!WeightOf(q[c], DOMAIN q[c]) = Facts!WeightOf(p[c], DOMAIN p[c])
      BY <1>2, <1>3, QuieterWeights
    <2>2. Totals(q) = Totals(p)
      BY <2>1 DEF Totals
    <2> QED  BY <2>2
  <1>6. n < m
    <2> DEFINE u == Knowns(p)  v == Knowns(q)
    <2>1. DOMAIN u = Component /\ DOMAIN v = Component
          /\ \A c \in Component : /\ u[c] = Facts!WeightOf(p[c], Facts!Evaluated(p[c]))
                                  /\ v[c] = Facts!WeightOf(q[c], Facts!Evaluated(q[c]))
      BY DEF Knowns
    <2>2. \A c \in Component : v[c] <= u[c]
      BY <1>2, <1>3, <2>1, QuieterWeights
    <2>3. PICK c \in Component : \E x : Fallen(p[c], q[c], x)
      BY <1>3
    <2>4. v[c] < u[c]
      BY <1>2, <1>3, <2>1, <2>3, QuieterWeights
    <2> HIDE DEF u, v
    <2>5. Below(v, u)
      BY <2>1, <2>2 DEF Below
    <2>6. Facts!SumFunction(v) < Facts!SumFunction(u)
      <3>1. Summable(u) /\ Summable(v)
        BY <1>4 DEF u, v
      <3>2. c \in DOMAIN u /\ (IF c \in DOMAIN v THEN v[c] < u[c] ELSE 0 < u[c])
        BY <2>1, <2>4
      <3> QED  BY <2>5, <3>1, <3>2, SumLess
    <2> QED  BY <2>6 DEF u, v
  <1> HIDE DEF T, S, m, n
  <1>7. 10000 * n \in Nat /\ 10000 * m \in Nat /\ T \in Nat /\ 0 < T /\ 10000 * n + T <= 10000 * m
    BY <1>4, <1>6
  <1>8. Facts!HalfUp(10000 * n, T) < Facts!HalfUp(10000 * m, T)
    BY <1>7, RoundedLess
  <1> QED  BY <1>1, <1>5, <1>8

(* A source that does not answer is not an adverse answer (INV-9): it adds *)
(* no blocker, fails no check, scores no less than the worst the source    *)
(* could have said, and shows in the availability. For all facts and for   *)
(* the weights of any version.                                             *)
THEOREM OutageIsNotAdverseHolds == MCSpec => []OutageIsNotAdverse
  <1>1. ASSUME ScreeningTyped, NEW k \in Facts!Held
        PROVE  LET silent == [facts EXCEPT ![k] = Facts!Lost[k]]
                   adverse == [facts EXCEPT ![k] = Facts!Adverse[k]]
               IN  /\ Facts!HardBlockers(silent) \subseteq Facts!HardBlockers(facts)
                   /\ Facts!Verification(silent, minTenor) = "FAIL" => Facts!Verification(facts, minTenor) = "FAIL"
                   /\ Facts!Score(silent) >= Facts!Score(adverse)
                   /\ Facts!DataAvailability(silent) < Facts!DataAvailability(facts)
    <2> DEFINE silent == [facts EXCEPT ![k] = Facts!Lost[k]]
               adverse == [facts EXCEPT ![k] = Facts!Adverse[k]]
    <2>1. k \in Source /\ k \in DOMAIN FactType /\ facts[k] # Facts!Lost[k] /\ facts.document # "NONE"
      BY Sources DEF Facts!Held, Source
    <2>2. Facts!Lost[k] \in FactType[k] /\ Facts!Adverse[k] \in FactType[k]
      <3>1. /\ {} \in SUBSET RegistryStatus /\ {"SUSPENDED"} \in SUBSET RegistryStatus
            /\ {"UNDER_LIQUIDATION"} \in SUBSET RegistryStatus
            /\ {} \in SUBSET BOOLEAN /\ {FALSE} \in SUBSET BOOLEAN
            /\ {} \in SUBSET Nat /\ {0} \in SUBSET Nat
            /\ {} \in SUBSET (0..420) /\ {0} \in SUBSET (0..420)
        <4>1. /\ {} \in SUBSET RegistryStatus /\ {"SUSPENDED"} \in SUBSET RegistryStatus
              /\ {"UNDER_LIQUIDATION"} \in SUBSET RegistryStatus
          BY DEF RegistryStatus
        <4>2. {} \in SUBSET BOOLEAN /\ {FALSE} \in SUBSET BOOLEAN
          BY Zenon
        <4>3. /\ {} \in SUBSET Nat /\ {0} \in SUBSET Nat
              /\ {} \in SUBSET (0..420) /\ {0} \in SUBSET (0..420)
          OBVIOUS
        <4> QED  BY <4>1, <4>2, <4>3
      <3>2. /\ {} \in SUBSET [government : 0..420, oldest : Nat]
            /\ {[government |-> 0, oldest |-> 180]} \in SUBSET [government : 0..420, oldest : Nat]
        OBVIOUS
      <3>3. CASE k = "registry"
        BY <3>1, <3>3 DEF Facts!Lost, Facts!Adverse, FactType
      <3>4. CASE k \in {"account", "signatory", "tax"}
        <4>1. CASE k = "account"
          BY <3>1, <4>1 DEF Facts!Lost, Facts!Adverse, FactType
        <4>2. CASE k = "signatory"
          BY <3>1, <4>2 DEF Facts!Lost, Facts!Adverse, FactType
        <4>3. CASE k = "tax"
          BY <3>1, <4>3 DEF Facts!Lost, Facts!Adverse, FactType
        <4> QED  BY <3>4, <4>1, <4>2, <4>3
      <3>5. CASE k = "provenance"
        BY <3>2, <3>5 DEF Facts!Lost, Facts!Adverse, FactType, Whole
      <3>6. CASE k = "buyer"
        BY <3>1, <3>6 DEF Facts!Lost, Facts!Adverse, FactType
      <3>7. CASE k = "years"
        BY <3>1, <3>7 DEF Facts!Lost, Facts!Adverse, FactType
      <3>8. CASE k = "relationship"
        BY <3>1, <3>8 DEF Facts!Lost, Facts!Adverse, FactType
      <3>9. CASE k = "onTime"
        BY <3>1, <3>9 DEF Facts!Lost, Facts!Adverse, FactType, Whole
      <3>10. CASE k = "document"
        BY <3>10 DEF Facts!Lost, Facts!Adverse, FactType
      <3>11. CASE k = "qr"
        BY <3>11 DEF Facts!Lost, Facts!Adverse, FactType
      <3> QED  BY <2>1, <3>3, <3>4, <3>5, <3>6, <3>7, <3>8, <3>9, <3>10, <3>11, Sources
    <2>3. FactsOk(facts)
      BY <1>1 DEF ScreeningTyped
    <2>4. /\ FactsOk(silent) /\ FactsOk(adverse)
          /\ silent[k] = Facts!Lost[k] /\ adverse[k] = Facts!Adverse[k]
          /\ \A j \in DOMAIN FactType \ {k} : silent[j] = facts[j] /\ adverse[j] = facts[j]
      BY <2>1, <2>2, <2>3 DEF FactsOk
    <2> HIDE DEF silent, adverse
    <2>5. Silenced(facts, silent)
      BY <2>1, <2>4 DEF Silenced
    <2>6. Hushed(adverse, silent)
      BY <2>1, <2>4 DEF Hushed
    <2>7. Facts!HardBlockers(silent) \subseteq Facts!HardBlockers(facts)
      BY <2>5, SilencedBlockers
    <2>8. Facts!Verification(silent, minTenor) = "FAIL" => Facts!Verification(facts, minTenor) = "FAIL"
      <3>1. SilencedFieldwise(facts, silent)
        BY <2>5, SilencedFields
      <3>2. silent.collided = facts.collided /\ (silent.document = "CHANGED" => facts.document = "CHANGED")
        BY <3>1 DEF SilencedFieldwise
      <3> QED  BY <2>3, <2>4, <3>2, FailOnly
    <2>9. Facts!Score(silent) >= Facts!Score(adverse)
      BY <1>1, <2>4, <2>6, HushedScore DEF ScreeningTyped
    <2>10. Facts!DataAvailability(silent) < Facts!DataAvailability(facts)
      BY <2>1, <2>3, <2>4, <2>5, SilencedAvailability
    <2> QED  BY <2>7, <2>8, <2>9, <2>10 DEF silent, adverse
  <1>2. ScreeningInv => OutageIsNotAdverse
    BY <1>1 DEF ScreeningInv, OutageIsNotAdverse, Facts!OutageIsNotAdverse
  <1> QED  BY <1>2, ScreeningHolds, PTL
=============================================================================
