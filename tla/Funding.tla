------------------------------- MODULE Funding -------------------------------
(***************************************************************************)
(* A contracted transaction is funded and its supplier paid: the bank      *)
(* marks its transfer sent, issues one-time codes, the supplier confirms,  *)
(* and the payout is executed, retried and booked, while the scheduler     *)
(* reminds and escalates.                                                  *)
(*                                                                         *)
(* mark-sent, confirm, the payout's claim and the recording of its outcome *)
(* are database transactions on a locked row: one action each.  Between    *)
(* them a handler holds no lock: the code's issue reads first and writes   *)
(* later, a retry acts on a settlement it read before, and the rail is     *)
(* called between claim and record.  A handler that dies leaves whatever   *)
(* it had committed.                                                       *)
(*                                                                         *)
(* A wrong or expired code changes nothing and is not an action: verifyIn  *)
(* throws inside its caller's transaction, so the attempt count, the       *)
(* EXPIRED status and the event it wrote are rolled back with it.  A bank  *)
(* that marks its transfer sent again is answered with the settlement.     *)
(***************************************************************************)
EXTENDS Integers, FiniteSets

CONSTANTS
  Worker,            \* request handlers in flight at once
  Instance,          \* API processes, each with its own scheduler
  Round,             \* the transaction's listing rounds
  ListingFee,        \* the fee of each round
  Commission, Net,   \* the snapshot's commission and net supplier payout
  OtpValidity,       \* otp_validity_minutes
  MaxResends,        \* otp_max_resends
  EscalationWindow,  \* funding_confirmation_escalation_hours
  MaxRetries,        \* settlements.max_retries
  Otp,               \* bound: the funding_otps rows there can be
  MaxAttempts,       \* bound: payout attempts
  MaxClock           \* bound: the TimeProvider's clock

Clock == 0 .. MaxClock

ASSUME AmountAssumption ==
  /\ ListingFee \in Nat /\ Commission \in Nat
  /\ Net \in Nat \ {0}
ASSUME PolicyAssumption ==
  /\ OtpValidity \in Nat \ {0}
  /\ MaxResends \in Nat
  /\ EscalationWindow \in Nat \ {0}
  /\ MaxRetries \in Nat \ {0}
ASSUME FundingBoundAssumption == MaxAttempts \in Nat /\ MaxClock \in Nat

VARIABLES
  now,          \* TimeProvider.now()
  state,        \* receivable_transactions.state
  settlement,   \* the settlements row
  attempts,     \* settlement_attempts: (attempt_no, succeeded)
  otp,          \* funding_otps
  transfers,    \* idempotency keys under which the rail has paid
  posted,       \* ledger_entries: how often each journal was posted
  commission,   \* commission_calculations.status
  fees,         \* listing_fee_obligations.status, by round
  sent,         \* notifications, by template
  worker,       \* what each request handler is doing
  scheduler,    \* what each instance's sweep has read and not yet written
  abandoned     \* history: a handler died between claim and record

books == <<posted, commission, fees>>
vars == <<now, state, settlement, attempts, otp, transfers, books, sent,
          worker, scheduler, abandoned>>

FundingState == {"CONTRACTED", "FUNDING_CONFIRMATION_PENDING", "FUNDED"}

SettlementStatus ==
  {"NONE", "FUNDING_RECEIVED", "PAYOUT_INITIATED", "PAYOUT_COMPLETED",
   "PAYOUT_FAILED", "MANUAL_REVIEW"}

OtpStatus == {"NONE", "SENT", "VERIFIED"}

Never == -1

(* settlements.bank_marked_sent_at IS NOT NULL: hasSettlementEvidence.     *)
MarkedSent == settlement.sentAt # Never

Idle == [op |-> "idle"]
Attempt == 1 .. MaxAttempts
Request ==
       {Idle}
  \cup [op : {"issue", "insert"}, at : Clock]
  \cup [op : {"pay"}]
  \cup [op : {"rail"}, attempt : Attempt]
  \cup [op : {"record"}, attempt : Attempt, ok : BOOLEAN]

Template == {"REMINDER", "ESCALATED"}

(***************************************************************************)
(* The double-entry journals of settlement-postings, debits positive.      *)
(***************************************************************************)
Journal == {"received", "distribution", "payout"}
Account == {"BANK_FUNDING", "SETTLEMENT_CLEARING", "SUPPLIER_PAYABLE", "SUPPLIER_RECEIVABLE",
            "PLATFORM_COMMISSION_REVENUE", "PLATFORM_LISTING_FEE_REVENUE"}

Distributable == Commission + ListingFee + Net

Line(j, a) ==
  CASE j = "received" /\ a = "SETTLEMENT_CLEARING" -> Distributable
    [] j = "received" /\ a = "BANK_FUNDING" -> -Distributable
    [] j = "distribution" /\ a = "SETTLEMENT_CLEARING" -> -Distributable
    [] j = "distribution" /\ a = "PLATFORM_COMMISSION_REVENUE" -> Commission
    [] j = "distribution" /\ a = "PLATFORM_LISTING_FEE_REVENUE" -> ListingFee
    [] j = "distribution" /\ a = "SUPPLIER_PAYABLE" -> Net
    [] j = "payout" /\ a = "SUPPLIER_PAYABLE" -> -Net
    [] j = "payout" /\ a = "SUPPLIER_RECEIVABLE" -> Net
    [] OTHER -> 0

(* LedgerService.accountBalance                                            *)
Balance(a) ==
    posted["received"] * Line("received", a)
  + posted["distribution"] * Line("distribution", a)
  + posted["payout"] * Line("payout", a)

Post(S) == posted' = [j \in Journal |-> IF j \in S THEN posted[j] + 1 ELSE posted[j]]

Init ==
  /\ now = 0
  /\ state = "CONTRACTED"
  /\ settlement = [status |-> "NONE", sentAt |-> Never, retries |-> 0]
  /\ attempts = {}
  /\ otp = [r \in Otp |-> [status |-> "NONE", expiresAt |-> 0, verifiedAt |-> 0, resends |-> 0]]
  /\ transfers = {}
  /\ posted = [j \in Journal |-> 0]
  /\ commission = "CALCULATED"
  /\ fees = [r \in Round |-> IF ListingFee > 0 THEN "PAYABLE" ELSE "WAIVED"]
  /\ sent = [t \in Template |-> 0]
  /\ worker = [w \in Worker |-> Idle]
  /\ scheduler = [i \in Instance |-> Idle]
  /\ abandoned = FALSE

Become(w, request) == worker' = [worker EXCEPT ![w] = request]

(***************************************************************************)
(* The bank marks its transfer sent.                                       *)
(***************************************************************************)
MarkSent ==
  /\ state = "CONTRACTED"
  /\ ~MarkedSent
  /\ now + EscalationWindow <= MaxClock    \* bound
  /\ settlement' = [settlement EXCEPT !.status = "FUNDING_RECEIVED", !.sentAt = now]
  /\ Post({"received"})
  /\ state' = "FUNDING_CONFIRMATION_PENDING"
  /\ UNCHANGED <<now, attempts, otp, transfers, commission, fees, sent,
                 worker, scheduler, abandoned>>

(***************************************************************************)
(* The bank issues a code.  The transaction's state is read before the     *)
(* database transaction, and the expiry computed.  FOR UPDATE on a row     *)
(* that does not exist yet locks nothing, and transaction_id is not        *)
(* unique: two first issues each insert a row, and which of them a later   *)
(* rows[0] is, nothing says.                                               *)
(***************************************************************************)
OtpRows == {r \in Otp : otp[r].status # "NONE"}

IssueRead(w) ==
  /\ worker[w] = Idle
  /\ state = "FUNDING_CONFIRMATION_PENDING"
  /\ Become(w, [op |-> "issue", at |-> now])
  /\ UNCHANGED <<now, state, settlement, attempts, otp, transfers, books, sent,
                 scheduler, abandoned>>

Issued(r, at, resends) ==
  otp' = [otp EXCEPT ![r] = [@ EXCEPT !.status = "SENT", !.expiresAt = at + OtpValidity,
                                      !.resends = resends]]

Reissue(w) ==
  /\ worker[w].op = "issue"
  /\ \E r \in OtpRows :
       /\ otp[r].status # "VERIFIED"
       /\ otp[r].resends < MaxResends
       /\ Issued(r, worker[w].at, otp[r].resends + 1)
  /\ Become(w, Idle)
  /\ UNCHANGED <<now, state, settlement, attempts, transfers, books, sent, scheduler, abandoned>>

IssueFirst(w) ==
  /\ worker[w].op = "issue"
  /\ OtpRows = {}
  /\ Become(w, [op |-> "insert", at |-> worker[w].at])
  /\ UNCHANGED <<now, state, settlement, attempts, otp, transfers, books, sent,
                 scheduler, abandoned>>

Insert(w) ==
  /\ worker[w].op = "insert"
  /\ \E r \in Otp \ OtpRows : Issued(r, worker[w].at, 0)
  /\ Become(w, Idle)
  /\ UNCHANGED <<now, state, settlement, attempts, transfers, books, sent, scheduler, abandoned>>

(***************************************************************************)
(* The supplier confirms with the code of the row it is checked against;   *)
(* when that funds the transaction, or finds it funded, the same request   *)
(* goes on to execute the payout.                                          *)
(***************************************************************************)
(* Mutant of Verifiable.                                                   *)
VerifiableAtExpiry(r) == otp[r].status = "SENT" /\ now <= otp[r].expiresAt

Verifiable(r) == otp[r].status = "SENT" /\ now < otp[r].expiresAt

Confirm(w) ==
  /\ worker[w] = Idle
  /\ state \in {"FUNDING_CONFIRMATION_PENDING", "FUNDED"}
  /\ \E r \in Otp :
       /\ Verifiable(r)
       /\ otp' = [otp EXCEPT ![r] = [@ EXCEPT !.status = "VERIFIED", !.verifiedAt = now]]
  /\ IF MarkedSent
       THEN state' = "FUNDED" /\ Become(w, [op |-> "pay"])
       ELSE UNCHANGED <<state, worker>>
  /\ UNCHANGED <<now, settlement, attempts, transfers, books, sent, scheduler, abandoned>>

(***************************************************************************)
(* A bank or platform user retries the payout of the settlement it read.   *)
(***************************************************************************)
RetryRead(w, by) ==
  /\ worker[w] = Idle
  /\ MarkedSent
  /\ settlement.status # "PAYOUT_COMPLETED"
  /\ settlement.status = "MANUAL_REVIEW" => by = "PLATFORM"
  /\ Become(w, [op |-> "pay"])
  /\ UNCHANGED <<now, state, settlement, attempts, otp, transfers, books, sent,
                 scheduler, abandoned>>

(***************************************************************************)
(* executePayout: claim under the row lock, call the rail without one,     *)
(* record what it answered.                                                *)
(***************************************************************************)
(* Mutant of Claimable.                                                    *)
ClaimableInFlight == settlement.status # "PAYOUT_COMPLETED" /\ MarkedSent

Claimable ==
  /\ settlement.status \notin {"PAYOUT_COMPLETED", "PAYOUT_INITIATED"}
  /\ MarkedSent

Claimed == [settlement EXCEPT !.status = "PAYOUT_INITIATED"]

Claim(w) ==
  /\ worker[w].op = "pay"
  /\ Claimable
  /\ settlement.retries < MaxAttempts    \* bound
  /\ settlement' = Claimed
  /\ Become(w, [op |-> "rail", attempt |-> settlement.retries + 1])
  /\ UNCHANGED <<now, state, attempts, otp, transfers, books, sent, scheduler, abandoned>>

Decline(w) ==
  /\ worker[w].op = "pay"
  /\ ~Claimable
  /\ Become(w, Idle)
  /\ UNCHANGED <<now, state, settlement, attempts, otp, transfers, books, sent,
                 scheduler, abandoned>>

(* Mutant of IdempotencyKey.                                               *)
KeyOfAttempt(attempt) == <<"settlement id", attempt>>

(* INV-13: the settlement's id, on every attempt.                          *)
IdempotencyKey(attempt) == <<"settlement id">>

(* Mutant of Answered.                                                     *)
AnsweredOrLost(w, attempt, ok) ==
  Become(w, IF ok THEN [op |-> "record", attempt |-> attempt, ok |-> TRUE] ELSE Idle)

(* A rail that throws is recorded like one that refuses.                   *)
Answered(w, attempt, ok) ==
  Become(w, [op |-> "record", attempt |-> attempt, ok |-> ok])

(* The rail: external, and it honours the key.  It pays and says so, or    *)
(* refuses, or its answer is lost after it paid.                           *)
Rail(w) ==
  /\ worker[w].op = "rail"
  /\ \E ok, pays \in BOOLEAN :
       /\ ok => pays
       /\ transfers' = transfers \cup (IF pays THEN {IdempotencyKey(worker[w].attempt)} ELSE {})
       /\ Answered(w, worker[w].attempt, ok)
  /\ UNCHANGED <<now, state, settlement, attempts, otp, books, sent, scheduler, abandoned>>

(* INSERT ... ON CONFLICT (settlement_id, attempt_no) DO NOTHING           *)
RecordAttempt(attempt, ok) ==
  attempts' = IF \E a \in attempts : a.no = attempt
                THEN attempts
                ELSE attempts \cup {[no |-> attempt, ok |-> ok]}

DeductedFees ==
  [r \in Round |-> IF ListingFee # 0 /\ fees[r] = "PAYABLE" THEN "DEDUCTED" ELSE fees[r]]

RecordSuccess(w) ==
  /\ worker[w].op = "record" /\ worker[w].ok
  /\ RecordAttempt(worker[w].attempt, TRUE)
  /\ IF settlement.status = "PAYOUT_COMPLETED"
       THEN UNCHANGED <<settlement, books>>
       ELSE /\ settlement' = [settlement EXCEPT !.status = "PAYOUT_COMPLETED"]
            /\ Post({"distribution", "payout"})
            /\ commission' = "FINALIZED"
            /\ fees' = DeductedFees
  /\ Become(w, Idle)
  /\ UNCHANGED <<now, state, otp, transfers, sent, scheduler, abandoned>>

(* Mutant of Failed.                                                       *)
FailedUncounted(attempt) ==
  [settlement EXCEPT !.status = IF attempt >= MaxRetries THEN "MANUAL_REVIEW" ELSE "PAYOUT_FAILED"]

Failed(attempt) ==
  [settlement EXCEPT !.retries = attempt,
                     !.status = IF attempt >= MaxRetries THEN "MANUAL_REVIEW" ELSE "PAYOUT_FAILED"]

(* Unlike success, failure is written without reading the row again.       *)
RecordFailure(w) ==
  /\ worker[w].op = "record" /\ ~worker[w].ok
  /\ RecordAttempt(worker[w].attempt, FALSE)
  /\ settlement' = Failed(worker[w].attempt)
  /\ Become(w, Idle)
  /\ UNCHANGED <<now, state, otp, transfers, books, sent, scheduler, abandoned>>

(* The handler fails or its process dies.                                  *)
Abort(w) ==
  /\ worker[w] # Idle
  /\ abandoned' = (abandoned \/ worker[w].op \in {"rail", "record"})
  /\ Become(w, Idle)
  /\ UNCHANGED <<now, state, settlement, attempts, otp, transfers, books, sent, scheduler>>

(***************************************************************************)
(* The scheduler's sweep of stalled confirmations.                         *)
(***************************************************************************)
(* Mutant of WaitingSince.                                                 *)
WaitingSinceIssue ==
  IF OtpRows = {} THEN settlement.sentAt
  ELSE LET Latest(r) == \A s \in OtpRows : otp[r].expiresAt >= otp[s].expiresAt
       IN  otp[CHOOSE r \in OtpRows : Latest(r)].expiresAt - OtpValidity

WaitingSince == settlement.sentAt

Elapsed == now - WaitingSince

Notice ==
  IF Elapsed >= EscalationWindow THEN "ESCALATED" ELSE "REMINDER"

AlreadySent(t) == sent[t] > 0

SweepRead(i) ==
  /\ scheduler[i] = Idle
  /\ state = "FUNDING_CONFIRMATION_PENDING" /\ MarkedSent
  /\ 2 * Elapsed >= EscalationWindow
  /\ ~AlreadySent(Notice)
  /\ scheduler' = [scheduler EXCEPT ![i] = [op |-> "notify", template |-> Notice]]
  /\ UNCHANGED <<now, state, settlement, attempts, otp, transfers, books, sent, worker, abandoned>>

(* One database transaction for all recipients, and the audit entry.       *)
SweepNotify(i) ==
  /\ scheduler[i].op = "notify"
  /\ sent' = [sent EXCEPT ![scheduler[i].template] = @ + 1]
  /\ scheduler' = [scheduler EXCEPT ![i] = Idle]
  /\ UNCHANGED <<now, state, settlement, attempts, otp, transfers, books, worker, abandoned>>

SweepFail(i) ==
  /\ scheduler[i] # Idle
  /\ scheduler' = [scheduler EXCEPT ![i] = Idle]
  /\ UNCHANGED <<now, state, settlement, attempts, otp, transfers, books, sent, worker, abandoned>>

Tick ==
  /\ now < MaxClock
  /\ now' = now + 1
  /\ UNCHANGED <<state, settlement, attempts, otp, transfers, books, sent,
                 worker, scheduler, abandoned>>

Issue(w) == IssueRead(w) \/ Reissue(w) \/ IssueFirst(w) \/ Insert(w)

Record(w) == RecordSuccess(w) \/ RecordFailure(w)

ExecutePayout(w) == Claim(w) \/ Decline(w) \/ Rail(w) \/ Record(w)

Sweep(i) == SweepRead(i) \/ SweepNotify(i) \/ SweepFail(i)

Next ==
  \/ MarkSent
  \/ \E w \in Worker :
       \/ Issue(w)
       \/ Confirm(w)
       \/ \E by \in {"BANK", "PLATFORM"} : RetryRead(w, by)
       \/ ExecutePayout(w)
       \/ Abort(w)
  \/ \E i \in Instance : Sweep(i)
  \/ Tick

Spec == Init /\ [][Next]_vars

(* A request that is running ends, one way or the other; the scheduler of  *)
(* each process ticks while it runs, and a pass that failed is retried on  *)
(* the next tick, so it does not fail for ever; the clock advances.        *)
Fairness ==
  /\ WF_vars(Tick)
  /\ \A w \in Worker : WF_vars(ExecutePayout(w) \/ Abort(w))
  /\ \A i \in Instance : WF_vars(Sweep(i)) /\ SF_vars(SweepNotify(i))

FairSpec == Spec /\ Fairness

-----------------------------------------------------------------------------
(***************************************************************************)
(* What must hold                                                          *)
(***************************************************************************)

(* Every column holds one of the values the code writes to it.             *)
TypeOK ==
  /\ now \in Clock
  /\ state \in FundingState
  /\ settlement \in [status : SettlementStatus, sentAt : Clock \cup {Never},
                     retries : 0 .. MaxAttempts]
  /\ attempts \subseteq [no : Attempt, ok : BOOLEAN]
  /\ otp \in [Otp -> [status : OtpStatus, expiresAt : Nat, verifiedAt : Nat,
                      resends : 0 .. MaxResends]]
  /\ posted \in [Journal -> Nat]
  /\ commission \in {"CALCULATED", "FINALIZED"}
  /\ fees \in [Round -> {"PAYABLE", "WAIVED", "DEDUCTED"}]
  /\ sent \in [Template -> Nat]
  /\ worker \in [Worker -> Request]
  /\ scheduler \in [Instance -> {Idle} \cup [op : {"notify"}, template : Template]]
  /\ abandoned \in BOOLEAN

(* INV-10, with its times: a funded transaction has the bank's recorded    *)
(* transfer and a code that was issued after it and confirmed before its   *)
(* expiry, however the issues raced.                                       *)
FundedTogether ==
  state = "FUNDED" =>
    /\ MarkedSent
    /\ \E r \in Otp :
         /\ otp[r].status = "VERIFIED"
         /\ settlement.sentAt + OtpValidity <= otp[r].expiresAt
         /\ otp[r].verifiedAt < otp[r].expiresAt

(* INV-5 and the rule of ledger.accounts: whatever retries and failures    *)
(* interleave, the commission is final exactly when the payout is, a       *)
(* completed settlement leaves clearing and the supplier's payable at      *)
(* zero, and until then clearing holds what the bank sent.                 *)
BooksFollowPayout ==
  LET paid == settlement.status = "PAYOUT_COMPLETED"
  IN  /\ commission = "FINALIZED" <=> paid
      /\ Balance("SETTLEMENT_CLEARING") = IF MarkedSent /\ ~paid THEN Distributable ELSE 0
      /\ Balance("SUPPLIER_PAYABLE") = 0
      /\ Balance("SUPPLIER_RECEIVABLE") = IF paid THEN Net ELSE 0

(* Two retries, or a retry and the confirmation's own payout, never have   *)
(* two attempts at the rail or its outcome at once; while one is out, the  *)
(* settlement says so.                                                     *)
InFlight(w) == worker[w].op \in {"rail", "record"}

OneAttemptAtATime ==
  \A w \in Worker : InFlight(w) =>
    /\ settlement.status = "PAYOUT_INITIATED"
    /\ \A v \in Worker : InFlight(v) => v = w

(* Every recorded outcome has its own attempt row, though conflicts are    *)
(* ignored: the rows are 1 .. n without a gap, only the last a success,    *)
(* and the retry count is the number of failures.                          *)
AttemptsAreEvidence ==
  /\ {a.no : a \in attempts} =
       1 .. (settlement.retries + (IF settlement.status = "PAYOUT_COMPLETED" THEN 1 ELSE 0))
  /\ \A a \in attempts :
       a.ok <=> settlement.status = "PAYOUT_COMPLETED" /\ a.no = settlement.retries + 1

(* INV-13: the payout is the one of Payout - paid once however often it is *)
(* retried, an answer is lost or a handler dies, and then booked once.     *)
Booked ==
  [p \in {"distribution", "payout", "commission"} |->
     IF p = "commission" THEN IF commission = "FINALIZED" THEN 1 ELSE 0 ELSE posted[p]]

Paid == INSTANCE Payout WITH Key <- {IdempotencyKey(n) : n \in Attempt}, record <- Booked

PaidOnce == Paid!Spec

(* Notices are sent once: a sweep every minute, a clock jump and a failed  *)
(* pass repeat none.  scheduler.service.ts:36-39 says two instances repeat *)
(* none either.                                                            *)
NoticesSentOnce == \A t \in Template : sent[t] <= 1

(* ZM-FND-012: a confirmation does not stall silently, however often the   *)
(* bank issues a new code and whatever pass of the sweep fails.            *)
NeverStallsSilently ==
  MarkedSent ~> (state = "FUNDED" \/ sent["ESCALATED"] > 0)

(* A rail that hangs up, throws or refuses never strands a settlement in   *)
(* PAYOUT_INITIATED: only a handler that died with the claim does.         *)
ClaimsAreSettled ==
  (settlement.status = "PAYOUT_INITIATED")
    ~> (settlement.status # "PAYOUT_INITIATED" \/ abandoned)
=============================================================================
