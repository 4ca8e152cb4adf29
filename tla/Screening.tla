------------------------------ MODULE Screening ------------------------------
(***************************************************************************)
(* What the platform makes of one submitted transaction: the eight         *)
(* automated checks (verification.ts), and the Trust Score with its hard   *)
(* blockers (scoring.ts, rules-engine.ts, risk.service.ts) under the model *)
(* version an administrator activated.                                     *)
(*                                                                         *)
(* A fact a source may not supply is a set: {} when it is missing, {v}     *)
(* when its value is v.  Points are counted in Scale-ths, weights and      *)
(* thresholds as in the code, the components' weights in hundredths.       *)
(***************************************************************************)
EXTENDS Integers, FiniteSets, Functions

CONSTANTS
  Profile,     \* the facts a transaction may be submitted with
  Option,      \* what each fact may turn into
  Version,     \* risk_model_versions
  MinTenor,    \* values of platform_settings.min_tenor_days
  Estimate,    \* the model's risk probability, in hundredths
  MaxChanges   \* bound: facts, settings and versions that change

Scale == 420
Missing == -1

VARIABLES
  facts,       \* what the tables and the stored file say
  minTenor,    \* min_tenor_days
  version,     \* the active model version
  reading,     \* calculate, until the model has answered: {} or one reading
  assessment,  \* risk_assessments of the transaction: {} or one row
  changes      \* bound

vars == <<facts, minTenor, version, reading, assessment, changes>>

Least(a, b) == IF a < b THEN a ELSE b
Most(a, b) == IF a < b THEN b ELSE a
HalfUp(n, d) == (2 * n + d) \div (2 * d)      \* Math.round(n / d)
-----------------------------------------------------------------------------
(* The eight checks.                                                       *)

(* An extraction belongs to the attached electronic invoice.               *)
Ocr(f) == IF f.document = "NONE" THEN "NONE" ELSE f.ocr
Qr(f) == IF f.document = "NONE" THEN "NONE" ELSE f.qr
OcrField(f, k) == IF Ocr(f) = "READ" THEN f.ocrField[k] ELSE "UNREAD"
QrField(f, k) == IF Qr(f) = "NONE" THEN "UNREAD" ELSE f.qrField[k]

Completeness(f) ==
  IF f.declared /\ f.document # "NONE" THEN "PASS" ELSE "MISSING"

(* The QR reading of a party overrides the OCR one.                        *)
IdentityMatch(f) ==
  LET Seen(k) == IF QrField(f, k) # "UNREAD" THEN QrField(f, k) ELSE OcrField(f, k)
      read == {Seen(k) : k \in {"seller", "buyer"}} \ {"UNREAD"}
  IN  IF read = {} THEN "NOT_APPLICABLE" ELSE IF read = {"SAME"} THEN "PASS" ELSE "REVIEW"

Duplicate(f) == IF f.collided THEN "FAIL" ELSE "PASS"

TransactionLogic(f) == IF f.sums THEN "PASS" ELSE "REVIEW"

(* Whole days from this moment to the due date's midnight, UTC.            *)
DaysToMaturity(f) == IF f.midnight THEN f.tenor ELSE f.tenor - 1

PartyEligibility(f, min) ==
  IF /\ f.status = "ACTIVE"
     /\ f.buyer \intersect {"SUSPENDED", "STRUCK_OFF", "UNDER_LIQUIDATION"} = {}
     /\ DaysToMaturity(f) >= Most(0, min)
    THEN "PASS" ELSE "REVIEW"

(* Mutant: a file that cannot be read back fails its check.                *)
FileIntegrityOfUnread(f) ==
  IF f.document = "NONE" THEN "MISSING" ELSE IF f.document = "SOUND" THEN "PASS" ELSE "FAIL"

FileIntegrity(f) ==
  CASE f.document = "NONE" -> "MISSING"
    [] f.document = "UNREADABLE" -> "REVIEW"
    [] f.document = "CHANGED" -> "FAIL"
    [] f.document = "SOUND" -> "PASS"

(* Only what was read is compared, and amounts by their value.             *)
Compared(field) ==
  LET read == {k \in {"number", "amount"} : field[k] # "UNREAD"}
      agree == {k \in read : field[k] = "SAME" \/ (k = "amount" /\ field[k] = "RESPELT")}
  IN  IF read = {} THEN "NOT_APPLICABLE" ELSE IF agree = read THEN "PASS" ELSE "REVIEW"

OcrConsistency(f) == IF Ocr(f) # "READ" THEN "UNPARSED" ELSE Compared(f.ocrField)

QrConsistency(f) ==
  LET versusOcr == {k \in DOMAIN f.qrField :
                      /\ "UNREAD" \notin {QrField(f, k), OcrField(f, k)}
                      /\ QrField(f, k) # OcrField(f, k)}
      result == Compared(f.qrField)
  IN  CASE Qr(f) \in {"NONE", "UNPARSED"} -> "UNPARSED"
        [] Qr(f) = "UNAVAILABLE" -> "NOT_APPLICABLE"
        [] Qr(f) = "INVALID" -> "REVIEW"
        [] Qr(f) = "VALID" -> IF result = "PASS" /\ versusOcr # {} THEN "REVIEW" ELSE result

RunChecks(f, min) ==
  {Completeness(f), IdentityMatch(f), Duplicate(f), TransactionLogic(f),
   PartyEligibility(f, min), FileIntegrity(f), OcrConsistency(f), QrConsistency(f)}

(* Mutant: a missing declaration or document does not hold the run back.   *)
OverallResultOfPresent(results) ==
  IF "FAIL" \in results THEN "FAIL"
  ELSE IF results \intersect {"REVIEW", "UNPARSED"} # {} THEN "REVIEW" ELSE "PASS"

OverallResultOf(results) ==
  IF "FAIL" \in results THEN "FAIL"
  ELSE IF results \intersect {"REVIEW", "MISSING", "UNPARSED"} # {} THEN "REVIEW"
  ELSE "PASS"

Verification(f, min) == OverallResultOf(RunChecks(f, min))
-----------------------------------------------------------------------------
(* The Trust Score.                                                        *)

RiskMinTenor == 7
BlockedScoreCeiling == 24

(* Whole calendar days, UTC, and the tenor the scoring is told to require. *)
HardBlockers(f) ==
     {b \in {"SUPPLIER_NOT_ACTIVE"} : f.status # "ACTIVE"}
  \union {b \in {"BUYER_STRUCK_OFF"} : f.buyer = {"STRUCK_OFF"}}
  \union {b \in {"BUYER_SUSPENDED"} : f.buyer = {"SUSPENDED"}}
  \union {b \in {"DUPLICATE_INVOICE"} : f.collided}
  \union {b \in {"FILE_INTEGRITY_FAILED"} : f.document = "CHANGED"}
  \union {b \in {"NO_ELECTRONIC_INVOICE"} : f.document = "NONE"}
  \union {b \in {"INVOICE_PAST_DUE"} : f.tenor < 0}
  \union {b \in {"TENOR_TOO_SHORT"} : f.tenor < RiskMinTenor}
  \union {b \in {"DECLARATIONS_MISSING"} : ~f.declared}

(* OCR as the scoring compares it: the strings, and only these two.        *)
OcrConsistent(f) ==
  LET read == {OcrField(f, k) : k \in {"number", "amount"}} \ {"UNREAD"}
  IN  IF read = {} THEN {} ELSE {read = {"SAME"}}

The(fact) == CHOOSE v \in fact : TRUE
FromMaybe(fact, points) == IF fact = {} THEN Missing ELSE points

Good(b) == IF b THEN Scale ELSE 0
Capped(n, most) == (Scale * Least(n, most)) \div most
Clean(f) == f.disputes = 0 /\ f.referrals = 0 /\ f.recourses = 0

SupplierVerification(f) ==
  [status |-> [weight |-> 3, points |-> Good(f.status = "ACTIVE")],
   registry |-> [weight |-> 3, points |-> FromMaybe(f.registry, Good(The(f.registry) = "ACTIVE"))],
   account |-> [weight |-> 2, points |-> FromMaybe(f.account, Good(The(f.account)))],
   signatory |-> [weight |-> 2, points |-> FromMaybe(f.signatory, Good(The(f.signatory)))],
   tax |-> [weight |-> 2, points |-> FromMaybe(f.tax, Good(The(f.tax)))]]

DataConfidence(f) ==
  [provenance |-> [weight |-> 4, points |-> FromMaybe(f.provenance, The(f.provenance).government)],
   freshness |-> [weight |-> 2, points |->
     FromMaybe(f.provenance, Scale - Capped(The(f.provenance).oldest, 180))]]

BuyerProfile(f) ==
  [registry |-> [weight |-> 4, points |-> FromMaybe(f.buyer, Good(The(f.buyer) = "ACTIVE"))],
   age |-> [weight |-> 2, points |-> FromMaybe(f.years, Capped(The(f.years), 10))],
   relationship |-> [weight |-> 2, points |-> FromMaybe(f.relationship, Capped(The(f.relationship), 10))],
   payments |-> [weight |-> 3, points |-> FromMaybe(f.onTime, The(f.onTime))]]

QrPoints(status) ==
  CASE status = "VALID" -> Scale
    [] status = "UNAVAILABLE" -> Scale \div 2
    [] status = "UNPARSED" -> (2 * Scale) \div 5
    [] OTHER -> 0

TenorPoints(days) ==
  CASE days < RiskMinTenor -> 0
    [] days >= RiskMinTenor /\ days <= 120 -> Scale
    [] days > 120 /\ days <= 180 -> (7 * Scale) \div 10
    [] days > 180 -> (2 * Scale) \div 5

InvoiceScore(f) ==
  [completeness |-> [weight |-> 3, points |-> (Scale * (4 + f.optional)) \div 7],
   uniqueness |-> [weight |-> 4, points |-> Good(~f.collided)],
   evidence |-> [weight |-> 3, points |-> Good(f.document # "NONE")],
   integrity |-> [weight |-> 4, points |->
     IF f.document \in {"NONE", "UNREADABLE"} THEN Missing ELSE Good(f.document = "SOUND")],
   ocr |-> [weight |-> 2, points |-> FromMaybe(OcrConsistent(f), Good(The(OcrConsistent(f))))],
   qr |-> [weight |-> 2, points |-> IF Qr(f) = "NONE" THEN Missing ELSE QrPoints(Qr(f))],
   tenor |-> [weight |-> 2, points |-> TenorPoints(f.tenor)],
   paid |-> [weight |-> 1, points |-> IF f.partlyPaid THEN Scale \div 2 ELSE Scale]]

PlatformBehavior(f) ==
  LET signals ==
        [history |-> [weight |-> 2, points |-> (Scale + Capped(f.prior, 5)) \div 2],
         disputes |-> [weight |-> 3, points |-> Scale - Capped(f.disputes, 3)],
         duplicates |-> [weight |-> 3, points |-> Scale - Capped(f.referrals, 2)],
         recourse |-> [weight |-> 2, points |-> Scale - Capped(f.recourses, 2)],
         clean |-> [weight |-> 1, points |-> Scale]]
  IN  [k \in DOMAIN signals \ {s \in {"clean"} : ~Clean(f)} |-> signals[k]]

AllComponents(f) ==
  [supplierVerification |-> SupplierVerification(f), dataConfidence |-> DataConfidence(f),
   buyerProfile |-> BuyerProfile(f), invoiceScore |-> InvoiceScore(f),
   platformBehavior |-> PlatformBehavior(f)]

Evaluated(signals) == {k \in DOMAIN signals : signals[k].points # Missing}
WeightOf(signals, keys) == SumFunction([k \in keys |-> signals[k].weight])

(* The mean over the signals that were evaluated, and over nothing else.   *)
ScoreComponent(signals) ==
  LET known == Evaluated(signals)
      weighted == SumFunction([k \in known |-> signals[k].weight * signals[k].points])
  IN  IF known = {} THEN Missing ELSE HalfUp(100 * weighted, Scale * WeightOf(signals, known))

DataAvailability(f) ==
  LET part == AllComponents(f)
      total == SumFunction([c \in DOMAIN part |-> WeightOf(part[c], DOMAIN part[c])])
      known == SumFunction([c \in DOMAIN part |-> WeightOf(part[c], Evaluated(part[c]))])
  IN  HalfUp(10000 * known, total)

CompositeOf(f, weights) ==
  LET part == AllComponents(f)
      score == [c \in DOMAIN weights |-> ScoreComponent(part[c])]
      scored == {c \in DOMAIN weights : score[c] # Missing}
      weighted == SumFunction([c \in scored |-> weights[c] * score[c]])
      total == SumFunction([c \in scored |-> weights[c]])
  IN  IF total = 0 THEN 0 ELSE HalfUp(weighted, total)

BlendWithModel(composite, probability, mlWeight) ==
  LET w == Least(100, Most(0, mlWeight))
  IN  HalfUp((100 - w) * composite + w * (100 - probability), 100)

CapForBlockers(composite, blockers) ==
  IF blockers = {} THEN composite ELSE Least(composite, BlockedScoreCeiling)

BandOf(score, thresholds) ==
  IF score >= thresholds.LOW THEN "LOW"
  ELSE IF score >= thresholds.MEDIUM THEN "MEDIUM"
  ELSE IF score >= thresholds.HIGH THEN "HIGH"
  ELSE "CRITICAL"

(* Mutant: the ceiling is applied before the model's contribution.         *)
TrustCappedFirst(composite, blockers, v, answer) ==
  LET capped == CapForBlockers(composite, blockers)
  IN  IF answer = {} THEN capped ELSE BlendWithModel(capped, CHOOSE p \in answer : TRUE, v.ml)

(* Steps 2 to 5 of calculate; the model answers a probability or, {}, not. *)
RulesComposite(f, v) == CompositeOf(f, v.weights)

Trust(composite, blockers, v, answer) ==
  LET blended == IF answer = {} THEN composite
                 ELSE BlendWithModel(composite, CHOOSE p \in answer : TRUE, v.ml)
  IN  CapForBlockers(blended, blockers)
-----------------------------------------------------------------------------
Init ==
  /\ facts \in Profile
  /\ minTenor = 7
  /\ version = "default"
  /\ reading = {} /\ assessment = {}
  /\ changes = 0

Change == changes < MaxChanges /\ changes' = changes + 1

(* A registry answers or falls silent, the file is altered, a reading comes *)
(* out differently, days pass, a dispute is opened: one fact changes.       *)
Happens ==
  /\ Change
  /\ \E k \in DOMAIN Option : \E value \in Option[k] \ {facts[k]} :
       facts' = [facts EXCEPT ![k] = value]
  /\ UNCHANGED <<minTenor, version, reading, assessment>>

(* An administrator edits the setting; the scoring does not read it.       *)
SetMinTenor ==
  /\ Change
  /\ minTenor' \in MinTenor \ {minTenor}
  /\ UNCHANGED <<facts, version, reading, assessment>>

(* create, with activate: a version is written once and never edited.      *)
Activate ==
  /\ Change
  /\ version' \in DOMAIN Version \ {version}
  /\ UNCHANGED <<facts, minTenor, reading, assessment>>

(* latest calculates when no row is stored: requireActive, then the facts. *)
Calculate ==
  /\ assessment = {} /\ reading = {}
  /\ reading' = {[version |-> version, blockers |-> HardBlockers(facts),
                  composite |-> RulesComposite(facts, Version[version])]}
  /\ UNCHANGED <<facts, minTenor, version, assessment, changes>>

(* The model's answer, or its fallback, and persist.                       *)
Persist ==
  /\ \E r \in reading, answer \in {{}} \union {{p} : p \in Estimate} :
       LET score == Trust(r.composite, r.blockers, Version[r.version], answer)
       IN  assessment' = {[version |-> r.version, score |-> score,
                           band |-> BandOf(score, Version[r.version].thresholds),
                           blocked |-> r.blockers # {}]}
  /\ reading' = {}
  /\ UNCHANGED <<facts, minTenor, version, changes>>

Next == Happens \/ SetMinTenor \/ Activate \/ Calculate \/ Persist

Spec == Init /\ [][Next]_vars
-----------------------------------------------------------------------------
(* The verification and the scoring read the facts through two functions   *)
(* written apart.  What the eight checks pass has no hard blocker, as long *)
(* as the setting asks for the tenor the scoring has built in.             *)
PassedIsUnblocked ==
  minTenor >= RiskMinTenor /\ Verification(facts, minTenor) = "PASS"
    => HardBlockers(facts) = {}

(* What may fail to answer, and the adverse answer it might have given.    *)
Lost ==
  [registry |-> {}, account |-> {}, signatory |-> {}, tax |-> {}, provenance |-> {}, buyer |-> {},
   years |-> {}, relationship |-> {}, onTime |-> {}, document |-> "UNREADABLE", qr |-> "NONE"]

Adverse ==
  [registry |-> {"SUSPENDED"}, account |-> {FALSE}, signatory |-> {FALSE}, tax |-> {FALSE},
   buyer |-> {"UNDER_LIQUIDATION"},
   provenance |-> {[government |-> 0, oldest |-> 180]}, years |-> {0},
   relationship |-> {0}, onTime |-> {0}, document |-> "CHANGED", qr |-> "INVALID"]

Held == {k \in DOMAIN Lost : facts[k] # Lost[k] /\ facts.document # "NONE"}

Score(f) == Trust(RulesComposite(f, Version[version]), HardBlockers(f), Version[version], {})

(* INV-9: a source that falls silent adds no blocker and fails no check,   *)
(* its silence is never worse than the adverse answer it could have given, *)
(* and the availability always shows it.                                   *)
OutageIsNotAdverse ==
  \A k \in Held :
    LET silent == [facts EXCEPT ![k] = Lost[k]]
        adverse == [facts EXCEPT ![k] = Adverse[k]]
    IN  /\ HardBlockers(silent) \subseteq HardBlockers(facts)
        /\ Verification(silent, minTenor) = "FAIL" => Verification(facts, minTenor) = "FAIL"
        /\ Score(silent) >= Score(adverse)
        /\ DataAvailability(silent) < DataAvailability(facts)

(* ZM-RSK-015: whatever the model said, and whichever version blended it,  *)
(* a transaction with a hard blocker is stored CRITICAL, if every other    *)
(* band of that version begins above the ceiling: create accepts any three *)
(* thresholds, in any order.                                               *)
BlockedIsCritical ==
  \A row \in assessment :
    LET thresholds == Version[row.version].thresholds
    IN  row.blocked /\ (\A band \in DOMAIN thresholds : thresholds[band] > BlockedScoreCeiling)
          => row.band = "CRITICAL"
=============================================================================
