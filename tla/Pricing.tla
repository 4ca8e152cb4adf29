------------------------------- MODULE Pricing -------------------------------
(***************************************************************************)
(* The money of one receivable, from the appetite that decides which banks *)
(* may bid to the split a payout distributes: policy filters and           *)
(* eligibility, commission tiers, the listing fee of each round, the       *)
(* arithmetic of an offer, and the figures an acceptance freezes           *)
(* (eligibility.ts, commission.service.ts, offer-math.ts and what calls    *)
(* them).  Who may act, approvals and deadlines are Marketplace's subject, *)
(* attempts and journals Funding's.                                        *)
(*                                                                         *)
(* An optional value is a set: {} when it is null, {v} when it is v.       *)
(* Amounts are integers of the smallest unit.                              *)
(***************************************************************************)
EXTENDS Integers, Sequences

CONSTANTS
  Bank,
  Appetite,    \* the sets of active filters a bank may declare
  Listed,      \* what activation may find out about the receivable
  Tier,        \* commission tiers there may be
  FirstTiers,  \* those of the migration
  ListingFee,  \* values of platform_settings.listing_fee_amount
  Terms,       \* [gross, outstanding, floor]: amounts a party may enter
  Deduction,   \* what a bank may enter as discount, fees and the rest
  MaxRound,    \* bound: rounds
  MaxChange    \* bound: settings, tiers, appetites and edits

(* Neither administration nor the parsing of amounts lets a negative       *)
(* tariff in; what a party enters may have any sign.                       *)
ASSUME TariffAssumption ==
  /\ Tier \subseteq [min : Nat, max : SUBSET Nat, percentage : Nat, fixed : Nat]
  /\ FirstTiers \subseteq Tier
  /\ ListingFee \subseteq Nat
  /\ Terms \subseteq [gross : Int, outstanding : Int, floor : SUBSET Int]
  /\ Deduction \subseteq Int

VARIABLES
  tiers,       \* commission_tiers in force
  appetite,    \* bank_policy_filters: active ones, by bank
  fee,         \* listing_fee_amount
  receivable,  \* the invoice's outstanding amount and the supplier's floor
  listed,      \* the facts an activation reads
  state,       \* the transaction, as far as money is concerned
  rounds,      \* listings with their obligation and the banks invited
  offers,      \* by bank: the live offer on the open listing
  snapshot,    \* accepted_offer_snapshots
  charge,      \* commission_calculations
  settlement,  \* settlements
  changes      \* bound

vars == <<tiers, appetite, fee, receivable, listed, state, rounds, offers,
          snapshot, charge, settlement, changes>>

deal == <<snapshot, charge, settlement>>
market == <<state, rounds, offers>>
-----------------------------------------------------------------------------
Severity == [LOW |-> 0, MEDIUM |-> 1, HIGH |-> 2, CRITICAL |-> 3]

(* A rule that is not set is not evaluated, and an unscored listing fails  *)
(* no rule about scores; an unknown sector fails a rule that asks for one. *)
(* Governorates are included, and parties excluded, the way sectors are.   *)
EvaluateFilter(filter, facts) ==
  /\ \A least \in filter.minAmount : facts.outstanding >= least
  /\ \A most \in filter.maxAmount : facts.outstanding <= most
  /\ \A least \in filter.minTenor : facts.tenor >= least
  /\ \A most \in filter.maxTenor : facts.tenor <= most
  /\ \A least \in filter.minScore : \A score \in facts.score : score >= least
  /\ \A worst \in filter.maxBand : \A band \in facts.band : Severity[band] <= Severity[worst]
  /\ filter.sectorsInclude # {} => facts.sector \intersect filter.sectorsInclude # {}
  /\ facts.sector \intersect filter.sectorsExclude = {}

(* Filters are disjunctive, and no filter is no restriction.               *)
EvaluateBank(filters, facts) ==
  filters = {} \/ \E filter \in filters : EvaluateFilter(filter, facts)

HalfUp(n, d) == (2 * n + d) \div (2 * d)

(* The tiers that cover an amount, of which the one with the highest lower *)
(* bound is taken; nothing orders two with the same bound.                 *)
TierFor(gross) ==
  LET covering == {t \in tiers : t.min <= gross /\ \A max \in t.max : gross < max}
  IN  {t \in covering : \A u \in covering : u.min <= t.min}

Quote(tier, gross) == HalfUp(gross * tier.percentage, 100) + tier.fixed

(* The open listing is the last one.                                       *)
Round == rounds[Len(rounds)]

(* Mutant: the fee the setting asks for today. *)
UnpaidListingFeeOfToday(listing) == fee

(* What the obligation was created with, unless it is settled or waived.   *)
UnpaidListingFee(listing) == IF listing.status = "WAIVED" THEN 0 ELSE listing.fee

NetPayoutOf(o) == o.gross - o.discount - o.bankFees - o.commission - o.listingFee - o.other

ValidateOffer(o, outstanding) ==
  /\ o.gross > 0
  /\ o.discount >= 0 /\ o.bankFees >= 0 /\ o.other >= 0
  /\ outstanding >= o.gross
  /\ NetPayoutOf(o) > 0

MeetsFloor(net, floor) == \A least \in floor : net >= least
-----------------------------------------------------------------------------
Init ==
  /\ tiers = FirstTiers
  /\ appetite \in [Bank -> Appetite]
  /\ fee \in ListingFee
  /\ receivable \in {[outstanding |-> t.outstanding, floor |-> t.floor] : t \in Terms}
  /\ listed \in Listed
  /\ state = "ELIGIBLE"
  /\ rounds = <<>>
  /\ offers = [b \in Bank |-> {}]
  /\ snapshot = {} /\ charge = {} /\ settlement = {}
  /\ changes = 0

Change == changes < MaxChange /\ changes' = changes + 1

(* A tier is created and never edited, ended or checked against another.   *)
CreateCommissionTier ==
  /\ Change
  /\ \E t \in Tier \ tiers : tiers' = tiers \union {t}
  /\ UNCHANGED <<appetite, fee, receivable, listed, market, deal>>

PatchSettings ==
  /\ Change
  /\ fee' \in ListingFee \ {fee}
  /\ UNCHANGED <<tiers, appetite, receivable, listed, market, deal>>

(* create and update of a filter, deactivation included.                   *)
EditFilters(b) ==
  /\ Change
  /\ \E filters \in Appetite \ {appetite[b]} : appetite' = [appetite EXCEPT ![b] = filters]
  /\ UNCHANGED <<tiers, fee, receivable, listed, market, deal>>

(* putInvoice and putMinimumAmount check the state before they write, so   *)
(* an edit of the draft may land late.  Only the floor is checked against  *)
(* the other amount.                                                       *)
PutInvoice ==
  /\ Change
  /\ \E t \in Terms : receivable' = [receivable EXCEPT !.outstanding = t.outstanding]
  /\ UNCHANGED <<tiers, appetite, fee, listed, market, deal>>

PutMinimumAmount ==
  /\ Change
  /\ \E t \in Terms :
       /\ \A least \in t.floor : least > 0 /\ receivable.outstanding >= least
       /\ t.floor # {}
       /\ receivable' = [receivable EXCEPT !.floor = t.floor]
  /\ UNCHANGED <<tiers, appetite, fee, listed, market, deal>>

(* A first read of the Trust Score, or a registry's answer.                *)
Learn ==
  /\ Change
  /\ listed' \in Listed \ {listed}
  /\ UNCHANGED <<tiers, appetite, fee, receivable, market, deal>>

Activate ==
  /\ state = "ELIGIBLE" /\ Len(rounds) < MaxRound
  /\ LET facts == [outstanding |-> receivable.outstanding, tenor |-> listed.tenor,
                   score |-> listed.score, band |-> listed.band, sector |-> listed.sector]
     IN  rounds' = Append(rounds, [fee |-> fee, status |-> IF fee > 0 THEN "PAYABLE" ELSE "WAIVED",
                                   invited |-> {b \in Bank : EvaluateBank(appetite[b], facts)}])
  /\ state' = "OPEN_FOR_OFFERS"
  /\ UNCHANGED <<tiers, appetite, fee, receivable, listed, offers, deal, changes>>

(* writeOffer, for create and revise: the platform prices what it charges, *)
(* validates the sum and checks the floor last.                            *)
WriteOffer(b) ==
  /\ state = "OPEN_FOR_OFFERS"
  /\ b \in Round.invited
  /\ \E terms \in Terms, discount, bankFees, other \in Deduction :
     \E tier \in TierFor(terms.gross) :
       LET offer == [gross |-> terms.gross, discount |-> discount, bankFees |-> bankFees,
                     commission |-> Quote(tier, terms.gross),
                     listingFee |-> UnpaidListingFee(Round), other |-> other]
       IN  /\ ValidateOffer(offer, receivable.outstanding)
           /\ MeetsFloor(NetPayoutOf(offer), receivable.floor)
           /\ offers' = [offers EXCEPT ![b] = {offer}]
  /\ UNCHANGED <<tiers, appetite, fee, receivable, listed, state, rounds, deal, changes>>

(* The round ends without a selection; its obligation stays as it is.      *)
Lapse ==
  /\ state = "OPEN_FOR_OFFERS"
  /\ state' = "ELIGIBLE"
  /\ offers' = [b \in Bank |-> {}]
  /\ UNCHANGED <<tiers, appetite, fee, receivable, listed, rounds, deal, changes>>

(* Mutant: the live tier's price is charged. *)
RecordCommissionOfToday(offer) ==
  \E tier \in TierFor(offer.gross) :
    charge' = {[basis |-> offer.gross, amount |-> Quote(tier, offer.gross),
                percentage |-> tier.percentage, status |-> "CALCULATED"]}

(* recordCommission: the tier is looked up anew, the amount is the one the *)
(* offer committed to.                                                     *)
RecordCommission(offer) ==
  \E tier \in TierFor(offer.gross) :
    charge' = {[basis |-> offer.gross, amount |-> offer.commission,
                percentage |-> tier.percentage, status |-> "CALCULATED"]}

Accept(b) ==
  /\ state = "OPEN_FOR_OFFERS"
  /\ \E offer \in offers[b] :
       /\ MeetsFloor(NetPayoutOf(offer), receivable.floor)
       /\ receivable.outstanding >= offer.gross
       /\ snapshot' = {[gross |-> offer.gross, commission |-> offer.commission,
                        listingFee |-> offer.listingFee, net |-> NetPayoutOf(offer)]}
       /\ RecordCommission(offer)
  /\ state' = "OFFER_ACCEPTED"
  /\ offers' = [c \in Bank |-> {}]
  /\ UNCHANGED <<tiers, appetite, fee, receivable, listed, rounds, settlement, changes>>

(* createSettlement, with the snapshot's figures.                          *)
MarkSent ==
  /\ state = "OFFER_ACCEPTED"
  /\ settlement' = {[gross |-> s.gross, commission |-> s.commission, fee |-> s.listingFee,
                     net |-> s.net] : s \in snapshot}
  /\ state' = "FUNDING_SENT"
  /\ UNCHANGED <<tiers, appetite, fee, receivable, listed, rounds, offers, snapshot, charge, changes>>

(* recordSuccess: the commission is earned, and a fee that was withheld    *)
(* settles every obligation of the transaction that is still payable.      *)
PayOut ==
  /\ state = "FUNDING_SENT"
  /\ charge' = {[c EXCEPT !.status = "FINALIZED"] : c \in charge}
  /\ rounds' = [i \in DOMAIN rounds |->
       IF rounds[i].status = "PAYABLE" /\ \E s \in settlement : s.fee # 0
         THEN [rounds[i] EXCEPT !.status = "DEDUCTED"] ELSE rounds[i]]
  /\ state' = "PAYOUT_COMPLETED"
  /\ UNCHANGED <<tiers, appetite, fee, receivable, listed, offers, snapshot, settlement, changes>>

Next ==
  \/ CreateCommissionTier \/ PatchSettings \/ PutInvoice \/ PutMinimumAmount \/ Learn
  \/ \E b \in Bank : EditFilters(b) \/ WriteOffer(b) \/ Accept(b)
  \/ Activate \/ Lapse \/ MarkSent \/ PayOut

Spec == Init /\ [][Next]_vars
-----------------------------------------------------------------------------
(* ZM-SEL-008: whatever tiers, settings and edits came after the offer,    *)
(* the commission recorded, the commission a payout distributes and the    *)
(* net it pays are the ones the supplier accepted.                         *)
AgreedIsCharged ==
  /\ \A s \in snapshot : \A c \in charge : c.amount = s.commission /\ c.basis = s.gross
  /\ \A s \in snapshot : \A t \in settlement :
       t.commission = s.commission /\ t.fee = s.listingFee /\ t.net = s.net
  /\ state = "PAYOUT_COMPLETED" =>
       \E c \in charge : \E t \in settlement : c.status = "FINALIZED" /\ c.amount = t.commission

(* What a settlement distributes fits in the gross the bank advances, as   *)
(* chk_settlement_split will insist, and the listing fee in it is what the *)
(* selected round left owing, never what the setting says since.           *)
SplitIsCovered ==
  \A t \in settlement :
    /\ t.net > 0 /\ t.commission >= 0 /\ t.fee >= 0
    /\ t.commission + t.fee + t.net <= t.gross
    /\ t.fee = (IF Round.status = "WAIVED" THEN 0 ELSE Round.fee)
=============================================================================
