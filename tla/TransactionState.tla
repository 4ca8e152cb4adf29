--------------------------- MODULE TransactionState ---------------------------
(***************************************************************************)
(* The whitelist of a receivable transaction's moves, and what the other   *)
(* parts of the system read off a state.                                   *)
(***************************************************************************)

PreMarket == {"DRAFT", "SUBMITTED", "AUTOMATED_CHECKS", "UNDER_REVIEW",
              "INFORMATION_REQUIRED", "ELIGIBLE", "OPEN_FOR_OFFERS"}

Deal == {"OFFER_ACCEPTED", "CONDITIONS_PENDING", "CONTRACTED", "READY_FOR_DISBURSEMENT",
         "FUNDING_CONFIRMATION_PENDING"}

AfterFunding == {"FUNDED", "PARTIALLY_PAID", "PAID", "OVERDUE_UNCONFIRMED", "OVERDUE",
                 "RECOURSE_ACTIVE", "DISPUTED"}

Ended == {"REJECTED", "CANCELLED", "CLOSED"}

State == PreMarket \cup Deal \cup AfterFunding \cup Ended \cup {"FRAUD_REVIEW"}

(* The states a transaction may move to from s.                            *)
Moves(s) ==
  CASE s = "DRAFT" -> {"SUBMITTED", "CANCELLED"}
    [] s = "SUBMITTED" -> {"AUTOMATED_CHECKS", "CANCELLED"}
    [] s = "AUTOMATED_CHECKS" ->
         {"ELIGIBLE", "UNDER_REVIEW", "FRAUD_REVIEW", "REJECTED", "CANCELLED"}
    [] s = "UNDER_REVIEW" ->
         {"ELIGIBLE", "INFORMATION_REQUIRED", "REJECTED", "FRAUD_REVIEW", "CANCELLED"}
    [] s = "INFORMATION_REQUIRED" -> {"AUTOMATED_CHECKS", "UNDER_REVIEW", "CANCELLED"}
    [] s = "ELIGIBLE" -> {"OPEN_FOR_OFFERS", "CANCELLED"}
    [] s = "OPEN_FOR_OFFERS" -> {"ELIGIBLE", "OFFER_ACCEPTED", "CANCELLED"}
    [] s = "OFFER_ACCEPTED" -> {"CONDITIONS_PENDING", "CONTRACTED", "CANCELLED"}
    [] s = "CONDITIONS_PENDING" -> {"OFFER_ACCEPTED", "CONTRACTED", "CANCELLED"}
    [] s = "CONTRACTED" -> {"FUNDING_CONFIRMATION_PENDING"}
    [] s = "FUNDING_CONFIRMATION_PENDING" -> {"FUNDED"}
    [] s = "FUNDED" ->
         {"PARTIALLY_PAID", "PAID", "OVERDUE_UNCONFIRMED", "DISPUTED", "FRAUD_REVIEW"}
    [] s = "OVERDUE_UNCONFIRMED" ->
         {"PAID", "PARTIALLY_PAID", "OVERDUE", "DISPUTED", "FRAUD_REVIEW"}
    [] s = "PARTIALLY_PAID" ->
         {"PAID", "OVERDUE_UNCONFIRMED", "OVERDUE", "DISPUTED", "FRAUD_REVIEW", "CLOSED"}
    [] s = "PAID" -> {"CLOSED", "DISPUTED"}
    [] s = "OVERDUE" -> {"RECOURSE_ACTIVE", "PAID", "PARTIALLY_PAID", "DISPUTED", "CLOSED"}
    [] s = "RECOURSE_ACTIVE" -> {"CLOSED", "DISPUTED", "PAID"}
    [] s = "DISPUTED" -> (AfterFunding \ {"DISPUTED"}) \cup {"CLOSED"}
    [] s = "FRAUD_REVIEW" -> {"ELIGIBLE", "REJECTED", "FUNDED", "CLOSED"}
    [] OTHER -> {}

CanTransition(from, to) == to \in Moves(from)

(* States in which the invoice is in the way of another one like it.       *)
KeepsFingerprintActive(s) == s \notin Ended

IsEditable(s) == s \in {"DRAFT", "INFORMATION_REQUIRED"}

(* Where the automated checks send a transaction: a check points at        *)
(* tampering, leaves a question, or neither.                               *)
OutcomeOf(checks) ==
  IF \E c \in checks : c.type = "FILE_INTEGRITY" /\ c.result = "FAIL" THEN "FRAUD_REVIEW"
  ELSE IF \E c \in checks : c.result \in {"FAIL", "REVIEW", "MISSING", "UNPARSED"}
       THEN "UNDER_REVIEW" ELSE "ELIGIBLE"
=============================================================================
