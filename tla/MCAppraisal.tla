------------------------------- MODULE MCAppraisal ------------------------------
(***************************************************************************)
(* What a receivable is worth and whether it may be sold: the prices of a  *)
(* deal, and the facts a transaction is verified and scored on.  The two   *)
(* specifications share no state and are checked in one run: a behaviour   *)
(* is of one of them, and the other stays as it begins.                    *)
(***************************************************************************)
EXTENDS Pricing, TLC

CONSTANTS b1, b2
CONSTANTS Profile, Option, Version, MinTenor, Estimate, MaxChanges

VARIABLES
  subject,                                                   \* whose behaviour it is
  facts, minTenor, version, reading, assessment, revisions   \* Screening

Facts == INSTANCE Screening WITH changes <- revisions

screening == <<facts, minTenor, version, reading, assessment, revisions>>

(* A whole, as Screening counts points. *)
Whole == 420

ASSUME WholeIsScale == Whole = Facts!Scale

OrganizationStatus ==
  {"INVITED", "ONBOARDING", "UNDER_REVIEW", "ACTIVE", "APPROVED_CONDITIONAL", "SUSPENDED",
   "RESTRICTED", "TERMINATED", "REJECTED"}

RegistryStatus == {"ACTIVE", "SUSPENDED", "STRUCK_OFF", "UNDER_LIQUIDATION", "UNKNOWN"}

FieldReading == [{"number", "amount", "seller", "buyer"} -> {"SAME", "RESPELT", "OTHER", "UNREAD"}]

(* What each fact of a submission may be. *)
FactType ==
  [status |-> OrganizationStatus, registry |-> SUBSET RegistryStatus,
   account |-> SUBSET BOOLEAN, signatory |-> SUBSET BOOLEAN, tax |-> SUBSET BOOLEAN,
   provenance |-> SUBSET [government : 0..Whole, oldest : Nat], buyer |-> SUBSET RegistryStatus,
   years |-> SUBSET Nat, relationship |-> SUBSET Nat, onTime |-> SUBSET (0..Whole),
   declared |-> BOOLEAN, document |-> {"NONE", "UNREADABLE", "CHANGED", "SOUND"},
   tenor |-> Int, midnight |-> BOOLEAN, collided |-> BOOLEAN, sums |-> BOOLEAN,
   ocr |-> {"NONE", "FAILED", "READ"}, ocrField |-> FieldReading,
   qr |-> {"NONE", "UNAVAILABLE", "UNPARSED", "INVALID", "VALID"},
   qrField |-> FieldReading, optional |-> Nat, partlyPaid |-> BOOLEAN, prior |-> Nat, disputes |-> Nat,
   referrals |-> Nat, recourses |-> Nat]

Component == {"supplierVerification", "dataConfidence", "buyerProfile", "invoiceScore",
              "platformBehavior"}

VersionType ==
  [weights : [Component -> Nat], ml : Int, thresholds : [LOW : Int, MEDIUM : Int, HIGH : Int]]

ASSUME FactsAssumption ==
  /\ \A p \in Profile :
       /\ DOMAIN p = DOMAIN FactType
       /\ \A k \in DOMAIN FactType : p[k] \in FactType[k]
  /\ DOMAIN Option \subseteq DOMAIN FactType
  /\ \A k \in DOMAIN Option : Option[k] \subseteq FactType[k]
  /\ MinTenor \subseteq Int

ASSUME VersionAssumption ==
  /\ "default" \in DOMAIN Version
  /\ \A v \in DOMAIN Version : Version[v] \in VersionType
  /\ Estimate \subseteq Int
-----------------------------------------------------------------------------
(* The deals. *)

MCDeduction == {-1, 0, 1}

Filter(minAmount, maxAmount, minScore, sectors) ==
  [minAmount |-> minAmount, maxAmount |-> maxAmount, minTenor |-> {}, maxTenor |-> {180},
   minScore |-> minScore, maxBand |-> {"HIGH"}, sectorsInclude |-> sectors,
   sectorsExclude |-> {"tobacco"}]

Small == Filter({}, {15}, {50}, {})
Large == Filter({16}, {}, {}, {"food"})

MCAppetite == {{}, {Small, Large}}

MCListed ==
  {[tenor |-> 90, score |-> {}, band |-> {}, sector |-> {}],
   [tenor |-> 90, score |-> {40}, band |-> {"HIGH"}, sector |-> {"food"}]}

TierOf(min, max, percentage, fixed) ==
  [min |-> min, max |-> max, percentage |-> percentage, fixed |-> fixed]

(* Two half-open bands, a successor of the second that competes with it,   *)
(* and one that prices the least of the amounts out of the market.         *)
MCFirstTiers == {TierOf(0, {15}, 10, 0), TierOf(15, {}, 5, 0)}
MCTier == MCFirstTiers \union {TierOf(15, {}, 10, 1), TierOf(5, {12}, 50, 5)}

MCTerms ==
  {[gross |-> 10, outstanding |-> 15, floor |-> {}],
   [gross |-> 15, outstanding |-> 20, floor |-> {11}]}
-----------------------------------------------------------------------------
(* The facts. *)

Fields(number, amount, seller, buyer) ==
  [number |-> number, amount |-> amount, seller |-> seller, buyer |-> buyer]
Read == Fields("SAME", "SAME", "SAME", "SAME")
Unread == Fields("UNREAD", "UNREAD", "UNREAD", "UNREAD")

(* An established supplier and buyer, everything answered and in order.    *)
Sound ==
  [status |-> "ACTIVE", registry |-> {"ACTIVE"}, account |-> {TRUE}, signatory |-> {TRUE}, tax |-> {TRUE},
   provenance |-> {[government |-> Whole, oldest |-> 0]}, buyer |-> {"ACTIVE"},
   years |-> {10}, relationship |-> {5}, onTime |-> {Whole}, declared |-> TRUE,
   document |-> "SOUND", tenor |-> 90, midnight |-> FALSE, collided |-> FALSE,
   sums |-> TRUE, ocr |-> "READ", ocrField |-> Read, qr |-> "VALID", qrField |-> Read,
   optional |-> 3, partlyPaid |-> FALSE, prior |-> 5, disputes |-> 0, referrals |-> 0,
   recourses |-> 0]

(* A newcomer of whom little is known, selling to a new company.           *)
Newcomer ==
  [Sound EXCEPT !.registry = {}, !.account = {}, !.signatory = {}, !.tax = {}, !.buyer = {}, !.years = {1},
                !.relationship = {}, !.onTime = {}, !.qr = "UNAVAILABLE", !.qrField = Unread,
                !.optional = 0, !.prior = 0, !.tenor = 8]

MCProfile == {Sound, Newcomer}

MCOption ==
  [status |-> {"SUSPENDED"}, registry |-> {{}, {"SUSPENDED"}},
   account |-> {{}}, signatory |-> {{}, {FALSE}, {TRUE}}, tax |-> {{FALSE}},
   provenance |-> {{}, {[government |-> Whole \div 2, oldest |-> 90]}},
   buyer |-> {{}, {"ACTIVE"}, {"UNDER_LIQUIDATION"}, {"SUSPENDED"}, {"STRUCK_OFF"}},
   years |-> {{}}, relationship |-> {{0}}, onTime |-> {{}, {0}}, declared |-> {FALSE},
   document |-> {"NONE", "CHANGED", "UNREADABLE"}, tenor |-> {-1, 0, 6, 7, 8, 150, 200},
   midnight |-> {TRUE}, collided |-> {TRUE}, sums |-> {FALSE}, ocr |-> {"NONE", "FAILED"},
   ocrField |-> {Fields("OTHER", "SAME", "UNREAD", "SAME"),
                Fields("UNREAD", "RESPELT", "OTHER", "UNREAD"), Unread},
   qr |-> {"NONE", "UNAVAILABLE", "UNPARSED", "INVALID"},
   qrField |-> {Fields("UNREAD", "OTHER", "SAME", "SAME"),
               Fields("UNREAD", "UNREAD", "UNREAD", "OTHER"), Unread},
   optional |-> {1}, partlyPaid |-> {TRUE}, prior |-> {2}, disputes |-> {1, 3},
   referrals |-> {1}, recourses |-> {2}]

Weights(supplier, data, buyer, invoice, platform) ==
  [supplierVerification |-> supplier, dataConfidence |-> data, buyerProfile |-> buyer,
   invoiceScore |-> invoice, platformBehavior |-> platform]

Default == [weights |-> Weights(20, 15, 25, 30, 10), ml |-> 25,
            thresholds |-> [LOW |-> 75, MEDIUM |-> 50, HIGH |-> 25]]

(* The seeded version; one that follows the model and the buyer alone; one *)
(* whose bands are out of order, which nothing refuses.                    *)
MCVersion ==
  [default |-> Default,
   model |-> [Default EXCEPT !.weights = Weights(0, 0, 100, 0, 0), !.ml = 100],
   muddled |-> [Default EXCEPT !.thresholds = [LOW |-> 60, MEDIUM |-> 20, HIGH |-> 40]]]
-----------------------------------------------------------------------------
MCInit ==
  /\ Init /\ Facts!Init
  /\ \/ subject = "PRICES" /\ facts = Sound
     \/ subject = "FACTS" /\ receivable.floor = {} /\ listed.score = {}
        /\ fee = 0 /\ appetite = [b \in Bank |-> {}]

OfPrices == subject = "PRICES" /\ Next /\ UNCHANGED screening
OfFacts == subject = "FACTS" /\ Facts!Next /\ UNCHANGED vars

MCNext == (OfPrices \/ OfFacts) /\ UNCHANGED subject

MCSpec == MCInit /\ [][MCNext]_<<subject, vars, screening>>
-----------------------------------------------------------------------------
Symmetry == Permutations(Bank)

(* What the eight checks pass, the scoring does not block.                 *)
PassedIsUnblocked == subject = "FACTS" => Facts!PassedIsUnblocked

(* A source that falls silent is never evidence against the supplier.      *)
OutageIsNotAdverse == subject = "FACTS" => Facts!OutageIsNotAdverse

(* Whatever the model said, a blocked transaction is stored CRITICAL.      *)
BlockedIsCritical == subject = "FACTS" => Facts!BlockedIsCritical
=============================================================================
