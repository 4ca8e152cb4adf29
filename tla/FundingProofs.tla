---------------------------- MODULE FundingProofs ----------------------------
(***************************************************************************)
(* Funding for every number of handlers, scheduler instances, rounds and   *)
(* code rows, every amount, and every policy on codes and retries.         *)
(***************************************************************************)
EXTENDS Funding, TLAPS

USE DEF Clock, Attempt

(***************************************************************************)
(* What a handler carries, by the operation it is in.                      *)
(***************************************************************************)
LEMMA RequestShape ==
  ASSUME TypeOK, NEW w \in Worker
  PROVE  /\ worker[w].op \in {"issue", "insert"} => worker[w].at \in Clock
         /\ InFlight(w) => worker[w].attempt \in Attempt
         /\ worker[w].op = "record" => worker[w].ok \in BOOLEAN
  <1>1. worker[w] \in Request
    BY DEF TypeOK
  <1> QED  BY <1>1 DEF Request, Idle, InFlight

LEMMA BecomeType ==
  ASSUME TypeOK, NEW w \in Worker, NEW r \in Request, Become(w, r)
  PROVE  worker' \in [Worker -> Request]
  BY DEF TypeOK, Become

LEMMA IdleIsRequest == Idle \in Request
  BY DEF Request

LEMMA PostType ==
  ASSUME TypeOK, NEW S, Post(S)
  PROVE  posted' \in [Journal -> Nat]
  BY DEF TypeOK, Post

LEMMA IssuedType ==
  ASSUME TypeOK, NEW r \in Otp, NEW at \in Clock, NEW n \in 0 .. MaxResends, Issued(r, at, n)
  PROVE  otp' \in [Otp -> [status : OtpStatus, expiresAt : Nat, verifiedAt : Nat,
                           resends : 0 .. MaxResends]]
  <1>1. at + OtpValidity \in Nat
    BY PolicyAssumption, FundingBoundAssumption
  <1> QED  BY <1>1 DEF TypeOK, Issued, OtpStatus

LEMMA RecordAttemptType ==
  ASSUME TypeOK, NEW n \in Attempt, NEW ok \in BOOLEAN, RecordAttempt(n, ok)
  PROVE  attempts' \subseteq [no : Attempt, ok : BOOLEAN]
  <1>1. [no |-> n, ok |-> ok] \in [no : Attempt, ok : BOOLEAN]
    OBVIOUS
  <1>2. attempts' \subseteq attempts \cup {[no |-> n, ok |-> ok]}
    BY DEF RecordAttempt
  <1> QED  BY <1>1, <1>2 DEF TypeOK

(***************************************************************************)
(* Types.                                                                  *)
(***************************************************************************)
LEMMA IssueType ==
  ASSUME TypeOK, NEW w \in Worker, Issue(w)
  PROVE  TypeOK'
  <1> USE DEF books
  <1>1. CASE IssueRead(w)
    <2>1. [op |-> "issue", at |-> now] \in Request
      BY DEF TypeOK, Request
    <2> QED  BY <1>1, <2>1, BecomeType DEF IssueRead, TypeOK
  <1>2. CASE Reissue(w)
    <2>1. worker[w].at \in Clock
      BY <1>2, RequestShape DEF Reissue
    <2>2. PICK r \in OtpRows :
            /\ otp[r].resends < MaxResends
            /\ Issued(r, worker[w].at, otp[r].resends + 1)
      BY <1>2 DEF Reissue
    <2>3. r \in Otp /\ otp[r].resends + 1 \in 0 .. MaxResends
      BY <2>2, PolicyAssumption DEF TypeOK, OtpRows
    <2>4. otp' \in [Otp -> [status : OtpStatus, expiresAt : Nat, verifiedAt : Nat,
                            resends : 0 .. MaxResends]]
      BY <2>1, <2>2, <2>3, IssuedType
    <2> QED  BY <1>2, <2>4, BecomeType, IdleIsRequest DEF Reissue, TypeOK
  <1>3. CASE IssueFirst(w)
    <2>1. [op |-> "insert", at |-> worker[w].at] \in Request
      BY <1>3, RequestShape DEF IssueFirst, Request
    <2> QED  BY <1>3, <2>1, BecomeType DEF IssueFirst, TypeOK
  <1>4. CASE Insert(w)
    <2>1. worker[w].at \in Clock
      BY <1>4, RequestShape DEF Insert
    <2>2. PICK r \in Otp : Issued(r, worker[w].at, 0)
      BY <1>4 DEF Insert
    <2>3. otp' \in [Otp -> [status : OtpStatus, expiresAt : Nat, verifiedAt : Nat,
                            resends : 0 .. MaxResends]]
      BY <2>1, <2>2, PolicyAssumption, IssuedType
    <2> QED  BY <1>4, <2>3, BecomeType, IdleIsRequest DEF Insert, TypeOK
  <1> QED  BY <1>1, <1>2, <1>3, <1>4 DEF Issue

LEMMA PayoutType ==
  ASSUME TypeOK, NEW w \in Worker, ExecutePayout(w)
  PROVE  TypeOK'
  <1> USE DEF books
  <1>1. CASE Claim(w)
    <2>1. settlement.retries + 1 \in Attempt
      BY <1>1, FundingBoundAssumption DEF Claim, TypeOK
    <2>2. [op |-> "rail", attempt |-> settlement.retries + 1] \in Request
      BY <2>1 DEF Request
    <2>3. worker' \in [Worker -> Request]
      BY <1>1, <2>2, BecomeType DEF Claim
    <2> QED  BY <1>1, <2>3 DEF Claim, Claimed, TypeOK, SettlementStatus
  <1>2. CASE Decline(w)
    BY <1>2, BecomeType, IdleIsRequest DEF Decline, TypeOK
  <1>3. CASE Rail(w)
    <2>1. PICK ok \in BOOLEAN : Answered(w, worker[w].attempt, ok)
      BY <1>3 DEF Rail
    <2>2. [op |-> "record", attempt |-> worker[w].attempt, ok |-> ok] \in Request
      BY <1>3, RequestShape DEF Rail, InFlight, Request
    <2>3. worker' \in [Worker -> Request]
      BY <2>1, <2>2, BecomeType DEF Answered
    <2> QED  BY <1>3, <2>3 DEF Rail, TypeOK
  <1>4. CASE RecordSuccess(w)
    <2>1. attempts' \subseteq [no : Attempt, ok : BOOLEAN]
      BY <1>4, RequestShape, RecordAttemptType DEF RecordSuccess, InFlight
    <2>2. fees' \in [Round -> {"PAYABLE", "WAIVED", "DEDUCTED"}]
      BY <1>4 DEF RecordSuccess, DeductedFees, TypeOK
    <2>3. worker' \in [Worker -> Request]
      BY <1>4, BecomeType, IdleIsRequest DEF RecordSuccess
    <2>4. posted' \in [Journal -> Nat]
      BY <1>4, PostType DEF RecordSuccess, TypeOK
    <2> QED  BY <1>4, <2>1, <2>2, <2>3, <2>4 DEF RecordSuccess, TypeOK, SettlementStatus
  <1>5. CASE RecordFailure(w)
    <2>1. attempts' \subseteq [no : Attempt, ok : BOOLEAN]
      BY <1>5, RequestShape, RecordAttemptType DEF RecordFailure, InFlight
    <2>2. worker' \in [Worker -> Request]
      BY <1>5, BecomeType, IdleIsRequest DEF RecordFailure
    <2>3. worker[w].attempt \in 0 .. MaxAttempts
      BY <1>5, RequestShape, FundingBoundAssumption DEF RecordFailure, InFlight
    <2> QED  BY <1>5, <2>1, <2>2, <2>3 DEF RecordFailure, Failed, TypeOK, SettlementStatus
  <1> QED  BY <1>1, <1>2, <1>3, <1>4, <1>5 DEF ExecutePayout, Record

LEMMA SweepType ==
  ASSUME TypeOK, NEW i \in Instance, Sweep(i)
  PROVE  TypeOK'
  <1> USE DEF books
  <1>1. CASE SweepRead(i)
    BY <1>1 DEF SweepRead, TypeOK, Notice, Template
  <1>2. CASE SweepNotify(i)
    <2>1. scheduler[i].template \in Template
      BY <1>2 DEF SweepNotify, TypeOK, Idle
    <2>2. sent' \in [Template -> Nat]
      BY <1>2, <2>1 DEF SweepNotify, TypeOK
    <2> QED  BY <1>2, <2>2 DEF SweepNotify, TypeOK
  <1>3. CASE SweepFail(i)
    BY <1>3 DEF SweepFail, TypeOK
  <1> QED  BY <1>1, <1>2, <1>3 DEF Sweep

(* The columns of the funding tables hold only values the code writes, for *)
(* any number of handlers, code rows and instances.                        *)
THEOREM TypeCorrect == Spec => []TypeOK
  <1>1. Init => TypeOK
    <2> SUFFICES ASSUME Init
                 PROVE  TypeOK
      OBVIOUS
    <2> USE DEF Init
    <2>1. now \in Clock /\ state \in FundingState
      BY FundingBoundAssumption DEF FundingState
    <2>2. settlement \in [status : SettlementStatus, sentAt : Clock \cup {Never},
                          retries : 0 .. MaxAttempts]
      BY FundingBoundAssumption DEF SettlementStatus
    <2>3. otp \in [Otp -> [status : OtpStatus, expiresAt : Nat, verifiedAt : Nat,
                           resends : 0 .. MaxResends]]
      BY PolicyAssumption DEF OtpStatus
    <2>4. posted \in [Journal -> Nat] /\ sent \in [Template -> Nat]
      OBVIOUS
    <2>5. fees \in [Round -> {"PAYABLE", "WAIVED", "DEDUCTED"}]
      OBVIOUS
    <2>6. attempts \subseteq [no : Attempt, ok : BOOLEAN]
      OBVIOUS
    <2>7. worker \in [Worker -> Request]
      BY IdleIsRequest
    <2>8. scheduler \in [Instance -> {Idle} \cup [op : {"notify"}, template : Template]]
      OBVIOUS
    <2> QED  BY <2>1, <2>2, <2>3, <2>4, <2>5, <2>6, <2>7, <2>8 DEF TypeOK
  <1>2. TypeOK /\ [Next]_vars => TypeOK'
    <2> SUFFICES ASSUME TypeOK, [Next]_vars
                 PROVE  TypeOK'
      OBVIOUS
    <2> USE DEF books
    <2>1. CASE MarkSent
      <3>1. posted' \in [Journal -> Nat]
        BY <2>1, PostType DEF MarkSent
      <3> QED  BY <2>1, <3>1 DEF MarkSent, TypeOK, FundingState, SettlementStatus
    <2>2. ASSUME NEW w \in Worker, Issue(w) \/ ExecutePayout(w)
          PROVE  TypeOK'
      BY <2>2, IssueType, PayoutType
    <2>3. ASSUME NEW w \in Worker, Confirm(w)
          PROVE  TypeOK'
      <3>1. now \in Nat
        BY FundingBoundAssumption DEF TypeOK
      <3>2. otp' \in [Otp -> [status : OtpStatus, expiresAt : Nat, verifiedAt : Nat,
                              resends : 0 .. MaxResends]]
        <4>1. PICK r \in Otp : otp' = [otp EXCEPT ![r] = [@ EXCEPT !.status = "VERIFIED",
                                                                  !.verifiedAt = now]]
          BY <2>3 DEF Confirm
        <4> QED  BY <3>1, <4>1 DEF TypeOK, OtpStatus
      <3>3. [op |-> "pay"] \in Request
        BY DEF Request
      <3>4. worker' \in [Worker -> Request]
        BY <2>3, <3>3, BecomeType DEF Confirm, TypeOK
      <3> QED  BY <2>3, <3>2, <3>4 DEF Confirm, TypeOK, FundingState
    <2>4. ASSUME NEW w \in Worker, NEW by \in {"BANK", "PLATFORM"}, RetryRead(w, by)
          PROVE  TypeOK'
      <3>1. [op |-> "pay"] \in Request
        BY DEF Request
      <3> QED  BY <2>4, <3>1, BecomeType DEF RetryRead, TypeOK
    <2>5. ASSUME NEW w \in Worker, Abort(w)
          PROVE  TypeOK'
      BY <2>5, BecomeType, IdleIsRequest DEF Abort, TypeOK
    <2>6. ASSUME NEW i \in Instance, Sweep(i)
          PROVE  TypeOK'
      BY <2>6, SweepType
    <2>7. CASE Tick
      BY <2>7, FundingBoundAssumption DEF Tick, TypeOK
    <2>8. CASE UNCHANGED vars
      BY <2>8 DEF vars, TypeOK
    <2> QED  BY <2>1, <2>2, <2>3, <2>4, <2>5, <2>6, <2>7, <2>8 DEF Next
  <1> QED  BY <1>1, <1>2, PTL DEF Spec

-----------------------------------------------------------------------------
(***************************************************************************)
(* The payout.  The claim is what everything rests on: whoever is between  *)
(* claim and record is alone, numbered one past the recorded failures, and *)
(* the settlement says PAYOUT_INITIATED; so an outcome is never written    *)
(* over another's, although failure is written without a second look.      *)
(***************************************************************************)
Completed == settlement.status = "PAYOUT_COMPLETED"

Count(b) == IF b THEN 1 ELSE 0

SettlementInv == MarkedSent <=> settlement.status # "NONE"

AttemptInv ==
  \A w \in Worker : InFlight(w) =>
    /\ worker[w].attempt = settlement.retries + 1
    /\ worker[w].op = "record" /\ worker[w].ok => transfers # {}

MoneyInv ==
  /\ transfers \subseteq {<<"settlement id">>}
  /\ Completed => transfers # {}
  /\ posted = [j \in Journal |-> IF j = "received" THEN Count(MarkedSent) ELSE Count(Completed)]
  /\ commission = "FINALIZED" <=> Completed

PayoutInv ==
  SettlementInv /\ OneAttemptAtATime /\ AttemptInv /\ MoneyInv /\ AttemptsAreEvidence

(* Nothing of the payout moves and no handler enters one.                  *)
NoPayoutStep ==
  /\ UNCHANGED <<settlement, attempts, transfers, posted, commission>>
  /\ \A w \in Worker : InFlight(w)' => worker'[w] = worker[w]

LEMMA NoPayoutStepKeeps ==
  ASSUME TypeOK, PayoutInv, NoPayoutStep
  PROVE  PayoutInv'
  <1> USE DEF NoPayoutStep
  <1>1. SettlementInv' /\ MoneyInv' /\ AttemptsAreEvidence'
    BY DEF PayoutInv, SettlementInv, MarkedSent, MoneyInv, Completed, AttemptsAreEvidence
  <1>2. OneAttemptAtATime' /\ AttemptInv'
    BY DEF PayoutInv, OneAttemptAtATime, AttemptInv, InFlight
  <1> QED  BY <1>1, <1>2 DEF PayoutInv

LEMMA OtherSteps ==
  ASSUME TypeOK,
         \/ \E w \in Worker : Issue(w) \/ Confirm(w) \/ Decline(w) \/ Abort(w)
         \/ \E w \in Worker, by \in {"BANK", "PLATFORM"} : RetryRead(w, by)
         \/ \E i \in Instance : Sweep(i)
         \/ Tick \/ UNCHANGED vars
  PROVE  NoPayoutStep
  <1> USE DEF books
  <1>1. ASSUME NEW w \in Worker, NEW r,
               r.op \notin {"rail", "record"}, Become(w, r)
        PROVE  \A v \in Worker : InFlight(v)' => worker'[v] = worker[v]
    BY <1>1 DEF Become, TypeOK, InFlight
  <1>2. ASSUME NEW w \in Worker, Issue(w)
        PROVE  NoPayoutStep
    <2>1. \E r : r.op \notin {"rail", "record"} /\ Become(w, r)
      BY <1>2 DEF Issue, IssueRead, Reissue, IssueFirst, Insert, Idle
    <2> QED  BY <1>1, <1>2, <2>1 DEF Issue, IssueRead, Reissue, IssueFirst, Insert, NoPayoutStep
  <1>3. ASSUME NEW w \in Worker, Confirm(w)
        PROVE  NoPayoutStep
    <2>1. [op |-> "pay"].op \notin {"rail", "record"}
      OBVIOUS
    <2>2. CASE MarkedSent
      BY <1>1, <1>3, <2>1, <2>2 DEF Confirm, NoPayoutStep
    <2>3. CASE ~MarkedSent
      BY <1>3, <2>3 DEF Confirm, NoPayoutStep
    <2> QED  BY <2>2, <2>3
  <1>4. ASSUME NEW w \in Worker, NEW by, RetryRead(w, by)
        PROVE  NoPayoutStep
    <2>1. [op |-> "pay"].op \notin {"rail", "record"}
      OBVIOUS
    <2> QED  BY <1>1, <1>4, <2>1 DEF RetryRead, NoPayoutStep
  <1>5. ASSUME NEW w \in Worker, Decline(w) \/ Abort(w)
        PROVE  NoPayoutStep
    <2>1. Idle.op \notin {"rail", "record"}
      BY DEF Idle
    <2> QED  BY <1>1, <1>5, <2>1 DEF Decline, Abort, NoPayoutStep
  <1>6. ASSUME NEW i \in Instance, Sweep(i)
        PROVE  NoPayoutStep
    BY <1>6 DEF Sweep, SweepRead, SweepNotify, SweepFail, NoPayoutStep
  <1>7. CASE Tick \/ UNCHANGED vars
    BY <1>7 DEF Tick, vars, NoPayoutStep
  <1> QED  BY <1>2, <1>3, <1>4, <1>5, <1>6, <1>7

LEMMA MarkSentKeeps ==
  ASSUME TypeOK, PayoutInv, MarkSent
  PROVE  PayoutInv'
  <1> USE DEF PayoutInv
  <1>1. settlement.status = "NONE"
    BY DEF MarkSent, SettlementInv
  <1>2. /\ settlement'.status = "FUNDING_RECEIVED"
        /\ settlement'.retries = settlement.retries
        /\ MarkedSent'
    BY FundingBoundAssumption DEF MarkSent, TypeOK, MarkedSent, Never
  <1>3. \A w \in Worker : ~InFlight(w) /\ ~InFlight(w)'
    BY <1>1 DEF OneAttemptAtATime, InFlight, MarkSent
  <1>4. MoneyInv'
    <2>1. ~MarkedSent /\ ~Completed /\ ~Completed'
      BY <1>1, <1>2 DEF MarkSent, Completed
    <2>2. posted = [j \in Journal |-> 0]
      BY <2>1 DEF MoneyInv, Count
    <2>3. posted' = [j \in Journal |-> IF j = "received" THEN 1 ELSE 0]
      BY <2>2 DEF MarkSent, Post
    <2> QED  BY <1>2, <2>1, <2>3 DEF MarkSent, MoneyInv, Count
  <1>5. AttemptsAreEvidence'
    BY <1>1, <1>2 DEF MarkSent, AttemptsAreEvidence
  <1> QED  BY <1>2, <1>3, <1>4, <1>5 DEF SettlementInv, OneAttemptAtATime, AttemptInv

LEMMA ClaimKeeps ==
  ASSUME TypeOK, PayoutInv, NEW w \in Worker, Claim(w)
  PROVE  PayoutInv'
  <1> USE DEF PayoutInv
  <1>1. /\ settlement.status \notin {"PAYOUT_COMPLETED", "PAYOUT_INITIATED"}
        /\ settlement'.status = "PAYOUT_INITIATED"
        /\ settlement'.retries = settlement.retries
        /\ MarkedSent /\ MarkedSent'
    BY DEF Claim, Claimable, Claimed, TypeOK, MarkedSent
  <1>2. \A v \in Worker : ~InFlight(v)
    BY <1>1 DEF OneAttemptAtATime
  <1>3. /\ worker'[w] = [op |-> "rail", attempt |-> settlement.retries + 1]
        /\ \A v \in Worker : v # w => worker'[v] = worker[v]
    BY DEF Claim, Become, TypeOK
  <1>4. OneAttemptAtATime' /\ AttemptInv'
    BY <1>1, <1>2, <1>3 DEF OneAttemptAtATime, AttemptInv, InFlight
  <1>5. MoneyInv'
    BY <1>1 DEF Claim, MoneyInv, Completed, books
  <1>6. AttemptsAreEvidence'
    BY <1>1 DEF Claim, AttemptsAreEvidence
  <1> QED  BY <1>1, <1>4, <1>5, <1>6 DEF SettlementInv

LEMMA RailKeeps ==
  ASSUME TypeOK, PayoutInv, NEW w \in Worker, Rail(w)
  PROVE  PayoutInv'
  <1> USE DEF PayoutInv
  <1>1. PICK ok \in BOOLEAN, pays \in BOOLEAN :
          /\ ok => pays
          /\ transfers' = IF pays THEN transfers \cup {<<"settlement id">>} ELSE transfers
          /\ worker' = [worker EXCEPT ![w] =
                          [op |-> "record", attempt |-> worker[w].attempt, ok |-> ok]]
    BY DEF Rail, Answered, Become, IdempotencyKey
  <1>2. /\ worker'[w] = [op |-> "record", attempt |-> worker[w].attempt, ok |-> ok]
        /\ \A v \in Worker : v # w => worker'[v] = worker[v]
    BY <1>1 DEF TypeOK
  <1>3. InFlight(w) /\ settlement' = settlement
    BY DEF Rail, InFlight
  <1>4. \A v \in Worker : v # w => ~InFlight(v) /\ ~InFlight(v)'
    BY <1>2, <1>3 DEF OneAttemptAtATime, InFlight
  <1>5. OneAttemptAtATime'
    BY <1>3, <1>4 DEF OneAttemptAtATime
  <1>6. ok => transfers' # {}
    BY <1>1
  <1>7. AttemptInv'
    BY <1>2, <1>3, <1>4, <1>6 DEF AttemptInv
  <1>8. MoneyInv'
    <2>1. transfers' \subseteq {<<"settlement id">>} /\ transfers \subseteq transfers'
      BY <1>1 DEF MoneyInv
    <2> QED  BY <1>3, <2>1 DEF Rail, MoneyInv, Completed, MarkedSent, books
  <1>9. SettlementInv' /\ AttemptsAreEvidence'
    BY <1>3 DEF Rail, SettlementInv, MarkedSent, AttemptsAreEvidence
  <1> QED  BY <1>5, <1>7, <1>8, <1>9

(* The next attempt's row is new, so the conflict clause loses nothing.    *)
LEMMA NextAttemptIsNew ==
  ASSUME TypeOK, PayoutInv, NEW ok \in BOOLEAN, ~Completed,
         RecordAttempt(settlement.retries + 1, ok)
  PROVE  /\ attempts' = attempts \cup {[no |-> settlement.retries + 1, ok |-> ok]}
         /\ {a.no : a \in attempts'} = 1 .. (settlement.retries + 1)
         /\ \A a \in attempts : a.no # settlement.retries + 1 /\ ~a.ok
  <1>1. settlement.retries \in Nat
    BY FundingBoundAssumption DEF TypeOK
  <1>2. {a.no : a \in attempts} = 1 .. settlement.retries
    BY <1>1 DEF PayoutInv, AttemptsAreEvidence, Completed
  <1>3. \A a \in attempts : a.no \in 1 .. settlement.retries
    BY <1>2
  <1>4. attempts' = attempts \cup {[no |-> settlement.retries + 1, ok |-> ok]}
    BY <1>1, <1>3 DEF RecordAttempt
  <1>5. {a.no : a \in attempts'} = {a.no : a \in attempts} \cup {settlement.retries + 1}
    <2> DEFINE row == [no |-> settlement.retries + 1, ok |-> ok]
    <2>1. row.no = settlement.retries + 1 /\ attempts' = attempts \cup {row}
      BY <1>4
    <2> HIDE DEF row
    <2> QED  BY <2>1
  <1>6. \A a \in attempts : ~a.ok
    BY DEF PayoutInv, AttemptsAreEvidence, Completed
  <1> QED  BY <1>1, <1>2, <1>3, <1>4, <1>5, <1>6

LEMMA RecordSuccessKeeps ==
  ASSUME TypeOK, PayoutInv, NEW w \in Worker, RecordSuccess(w)
  PROVE  PayoutInv'
  <1> USE DEF PayoutInv
  <1>1. /\ InFlight(w)
        /\ settlement.status = "PAYOUT_INITIATED"
        /\ worker[w].attempt = settlement.retries + 1
        /\ transfers # {}
    BY DEF RecordSuccess, InFlight, OneAttemptAtATime, AttemptInv
  <1>2. ~Completed /\ MarkedSent
    BY <1>1 DEF Completed, SettlementInv
  <1>3. /\ settlement' = [settlement EXCEPT !.status = "PAYOUT_COMPLETED"]
        /\ Post({"distribution", "payout"})
        /\ commission' = "FINALIZED"
        /\ transfers' = transfers
    BY <1>1 DEF RecordSuccess
  <1>4. /\ settlement'.status = "PAYOUT_COMPLETED"
        /\ settlement'.retries = settlement.retries
        /\ Completed' /\ MarkedSent'
    BY <1>2, <1>3 DEF TypeOK, Completed, MarkedSent
  <1>5. \A v \in Worker : ~InFlight(v)'
    BY <1>1 DEF RecordSuccess, Become, Idle, TypeOK, OneAttemptAtATime, InFlight
  <1>6. MoneyInv'
    <2>1. posted = [j \in Journal |-> IF j = "received" THEN 1 ELSE 0]
      BY <1>2 DEF MoneyInv, Count
    <2>2. posted' = [j \in Journal |-> 1]
      BY <1>3, <2>1 DEF Post, Journal
    <2> QED  BY <1>1, <1>3, <1>4, <2>2 DEF MoneyInv, Count
  <1>7. AttemptsAreEvidence'
    <2>1. RecordAttempt(settlement.retries + 1, TRUE)
      BY <1>1 DEF RecordSuccess
    <2>2. /\ attempts' = attempts \cup {[no |-> settlement.retries + 1, ok |-> TRUE]}
          /\ {a.no : a \in attempts'} = 1 .. (settlement.retries + 1)
          /\ \A a \in attempts : a.no # settlement.retries + 1 /\ ~a.ok
      BY <1>2, <2>1, NextAttemptIsNew
    <2> QED  BY <1>4, <2>2 DEF AttemptsAreEvidence
  <1> QED  BY <1>4, <1>5, <1>6, <1>7 DEF SettlementInv, OneAttemptAtATime, AttemptInv

LEMMA RecordFailureKeeps ==
  ASSUME TypeOK, PayoutInv, NEW w \in Worker, RecordFailure(w)
  PROVE  PayoutInv'
  <1> USE DEF PayoutInv
  <1>1. /\ InFlight(w)
        /\ settlement.status = "PAYOUT_INITIATED"
        /\ worker[w].attempt = settlement.retries + 1
    BY DEF RecordFailure, InFlight, OneAttemptAtATime, AttemptInv
  <1>2. ~Completed /\ MarkedSent
    BY <1>1 DEF Completed, SettlementInv
  <1>3. /\ settlement'.status \in {"MANUAL_REVIEW", "PAYOUT_FAILED"}
        /\ settlement'.retries = settlement.retries + 1
        /\ settlement'.sentAt = settlement.sentAt
    BY <1>1 DEF RecordFailure, Failed, TypeOK
  <1>4. ~Completed' /\ MarkedSent'
    BY <1>2, <1>3 DEF Completed, MarkedSent
  <1>5. \A v \in Worker : ~InFlight(v)'
    BY <1>1 DEF RecordFailure, Become, Idle, TypeOK, OneAttemptAtATime, InFlight
  <1>6. MoneyInv'
    BY <1>2, <1>4 DEF RecordFailure, MoneyInv, Count, books
  <1>7. AttemptsAreEvidence'
    <2>1. RecordAttempt(settlement.retries + 1, FALSE)
      BY <1>1 DEF RecordFailure
    <2>2. /\ attempts' = attempts \cup {[no |-> settlement.retries + 1, ok |-> FALSE]}
          /\ {a.no : a \in attempts'} = 1 .. (settlement.retries + 1)
          /\ \A a \in attempts : a.no # settlement.retries + 1 /\ ~a.ok
      BY <1>2, <2>1, NextAttemptIsNew
    <2>3. \A a \in attempts' : ~a.ok
      BY <2>2
    <2>4. settlement'.retries + 0 = settlement.retries + 1
      BY <1>3, FundingBoundAssumption DEF TypeOK
    <2> QED  BY <1>3, <2>2, <2>3, <2>4 DEF AttemptsAreEvidence
  <1> QED  BY <1>3, <1>4, <1>5, <1>6, <1>7 DEF SettlementInv, OneAttemptAtATime, AttemptInv

LEMMA PayoutInvStep ==
  ASSUME TypeOK, PayoutInv, [Next]_vars
  PROVE  PayoutInv'
  <1>1. CASE MarkSent
    BY <1>1, MarkSentKeeps
  <1>2. ASSUME NEW w \in Worker, Claim(w) \/ Rail(w) \/ RecordSuccess(w) \/ RecordFailure(w)
        PROVE  PayoutInv'
    BY <1>2, ClaimKeeps, RailKeeps, RecordSuccessKeeps, RecordFailureKeeps
  <1>3. CASE \/ \E w \in Worker : Issue(w) \/ Confirm(w) \/ Decline(w) \/ Abort(w)
             \/ \E w \in Worker, by \in {"BANK", "PLATFORM"} : RetryRead(w, by)
             \/ \E i \in Instance : Sweep(i)
             \/ Tick \/ UNCHANGED vars
    BY <1>3, OtherSteps, NoPayoutStepKeeps
  <1> QED  BY <1>1, <1>2, <1>3 DEF Next, ExecutePayout, Record

LEMMA PayoutInvInit == Init => PayoutInv
  <1> SUFFICES ASSUME Init PROVE PayoutInv
    OBVIOUS
  <1>1. ~MarkedSent /\ ~Completed /\ \A w \in Worker : ~InFlight(w)
    BY DEF Init, MarkedSent, Completed, InFlight, Idle
  <1>2. MoneyInv
    BY <1>1 DEF Init, MoneyInv, Count
  <1>3. AttemptsAreEvidence
    BY DEF Init, AttemptsAreEvidence
  <1> QED  BY <1>1, <1>2, <1>3 DEF Init, PayoutInv, SettlementInv, OneAttemptAtATime, AttemptInv

LEMMA PayoutInvHolds == Spec => [](TypeOK /\ PayoutInv)
  <1>1. TypeOK /\ PayoutInv /\ [Next]_vars => PayoutInv'
    BY PayoutInvStep
  <1> QED  BY <1>1, PayoutInvInit, TypeCorrect, PTL DEF Spec

(* There is never a second attempt at the rail, or waiting to be recorded, *)
(* beside the first, whoever retries and whoever confirms.                 *)
THEOREM OneAttempt == Spec => []OneAttemptAtATime
  <1>1. PayoutInv => OneAttemptAtATime
    BY DEF PayoutInv
  <1> QED  BY <1>1, PayoutInvHolds, PTL

(* The attempt rows are a gapless history of what the rail answered.       *)
THEOREM AttemptsEvidence == Spec => []AttemptsAreEvidence
  <1>1. PayoutInv => AttemptsAreEvidence
    BY DEF PayoutInv
  <1> QED  BY <1>1, PayoutInvHolds, PTL

(* What the journals of a settlement leave on the two accounts they pass   *)
(* through and on the supplier's, by how often each was posted.            *)
LEMMA BalanceOf ==
  ASSUME NEW r \in {0, 1}, NEW p \in {0, 1},
         posted = [j \in Journal |-> IF j = "received" THEN r ELSE p]
  PROVE  /\ Balance("SETTLEMENT_CLEARING") = (IF r = 1 THEN Distributable ELSE 0)
                                              - (IF p = 1 THEN Distributable ELSE 0)
         /\ Balance("SUPPLIER_PAYABLE") = 0
         /\ Balance("SUPPLIER_RECEIVABLE") = IF p = 1 THEN Net ELSE 0
  <1> DEFINE D == Distributable
  <1>1. D \in Nat /\ Net \in Nat
    BY AmountAssumption DEF Distributable
  <1>2. posted["received"] = r /\ posted["distribution"] = p /\ posted["payout"] = p
    BY DEF Journal
  <1>3. /\ Line("received", "SETTLEMENT_CLEARING") = D
        /\ Line("distribution", "SETTLEMENT_CLEARING") = -D
        /\ Line("payout", "SETTLEMENT_CLEARING") = 0
    BY DEF Line
  <1>4. /\ Line("received", "SUPPLIER_PAYABLE") = 0
        /\ Line("distribution", "SUPPLIER_PAYABLE") = Net
        /\ Line("payout", "SUPPLIER_PAYABLE") = -Net
    BY DEF Line
  <1>5. /\ Line("received", "SUPPLIER_RECEIVABLE") = 0
        /\ Line("distribution", "SUPPLIER_RECEIVABLE") = 0
        /\ Line("payout", "SUPPLIER_RECEIVABLE") = Net
    BY DEF Line
  <1> HIDE DEF D
  <1>6. /\ Balance("SETTLEMENT_CLEARING") = r * D + p * (-D) + p * 0
        /\ Balance("SUPPLIER_PAYABLE") = r * 0 + p * Net + p * (-Net)
        /\ Balance("SUPPLIER_RECEIVABLE") = r * 0 + p * 0 + p * Net
    BY <1>2, <1>3, <1>4, <1>5 DEF Balance
  <1>7. CASE p = 0
    BY <1>1, <1>6, <1>7 DEF D
  <1>8. CASE p = 1
    BY <1>1, <1>6, <1>8 DEF D
  <1> QED  BY <1>7, <1>8

(* INV-5 and the clearing rule: the commission is final exactly when the   *)
(* payout is, and no completed settlement leaves money in clearing.        *)
THEOREM BooksFollow == Spec => []BooksFollowPayout
  <1>1. ASSUME TypeOK, PayoutInv
        PROVE  BooksFollowPayout
    <2> DEFINE r == Count(MarkedSent)
               p == Count(Completed)
    <2>1. r \in {0, 1} /\ p \in {0, 1} /\ (r = 1 <=> MarkedSent) /\ (p = 1 <=> Completed)
      BY DEF Count
    <2>2. Completed => MarkedSent
      BY <1>1 DEF PayoutInv, SettlementInv, Completed
    <2>3. posted = [j \in Journal |-> IF j = "received" THEN r ELSE p]
      BY <1>1 DEF PayoutInv, MoneyInv
    <2>4. Distributable \in Nat
      BY AmountAssumption DEF Distributable
    <2> HIDE DEF r, p
    <2>5. /\ Balance("SETTLEMENT_CLEARING") = (IF r = 1 THEN Distributable ELSE 0)
                                               - (IF p = 1 THEN Distributable ELSE 0)
          /\ Balance("SUPPLIER_PAYABLE") = 0
          /\ Balance("SUPPLIER_RECEIVABLE") = IF p = 1 THEN Net ELSE 0
      BY <2>1, <2>3, BalanceOf
    <2>6. Balance("SETTLEMENT_CLEARING") = IF MarkedSent /\ ~Completed THEN Distributable ELSE 0
      BY <2>1, <2>2, <2>4, <2>5
    <2>7. Balance("SUPPLIER_RECEIVABLE") = IF Completed THEN Net ELSE 0
      BY <2>1, <2>5
    <2>8. commission = "FINALIZED" <=> Completed
      BY <1>1 DEF PayoutInv, MoneyInv
    <2> QED  BY <2>5, <2>6, <2>7, <2>8 DEF BooksFollowPayout, Completed
  <1> QED  BY <1>1, PayoutInvHolds, PTL

(***************************************************************************)
(* The payout implements Payout: the rail's first payment is its Pay, the  *)
(* recording of a success its Book, and everything else a stutter.         *)
(***************************************************************************)
LEMMA BookedIsCompletion ==
  ASSUME MoneyInv
  PROVE  Booked = [p \in {"distribution", "payout", "commission"} |-> Count(Completed)]
  <1>1. posted["distribution"] = Count(Completed) /\ posted["payout"] = Count(Completed)
    BY DEF MoneyInv, Journal
  <1>2. (IF commission = "FINALIZED" THEN 1 ELSE 0) = Count(Completed)
    BY DEF MoneyInv, Count
  <1> QED  BY <1>1, <1>2 DEF Booked

(* Until a handler records its success, no step completes the payout, and  *)
(* only the rail moves money.                                              *)
LEMMA CompletesOnlyByRecord ==
  ASSUME TypeOK, PayoutInv, [Next]_vars
  PROVE  \/ transfers' = transfers /\ (Completed' <=> Completed)
         \/ \E w \in Worker : Rail(w) \/ RecordSuccess(w)
  <1> USE DEF Completed
  <1>1. CASE MarkSent
    <2>1. settlement.status = "NONE" /\ settlement'.status = "FUNDING_RECEIVED"
      BY <1>1 DEF MarkSent, TypeOK, PayoutInv, SettlementInv
    <2> QED  BY <1>1, <2>1 DEF MarkSent
  <1>2. ASSUME NEW w \in Worker, Claim(w)
        PROVE  transfers' = transfers /\ (Completed' <=> Completed)
    BY <1>2 DEF Claim, Claimable, Claimed, TypeOK
  <1>3. ASSUME NEW w \in Worker, RecordFailure(w)
        PROVE  transfers' = transfers /\ (Completed' <=> Completed)
    <2>1. settlement.status = "PAYOUT_INITIATED"
      BY <1>3 DEF RecordFailure, PayoutInv, OneAttemptAtATime, InFlight
    <2>2. settlement'.status \in {"MANUAL_REVIEW", "PAYOUT_FAILED"}
      BY <1>3 DEF RecordFailure, Failed, TypeOK
    <2> QED  BY <1>3, <2>1, <2>2 DEF RecordFailure
  <1>4. CASE \/ \E w \in Worker : Issue(w) \/ Confirm(w) \/ Decline(w) \/ Abort(w)
             \/ \E w \in Worker, by \in {"BANK", "PLATFORM"} : RetryRead(w, by)
             \/ \E i \in Instance : Sweep(i)
             \/ Tick \/ UNCHANGED vars
    BY <1>4, OtherSteps DEF NoPayoutStep
  <1> QED  BY <1>1, <1>2, <1>3, <1>4 DEF Next, ExecutePayout, Record

(* The platform pays a supplier once, however often it tries, and books it *)
(* once, after the money moved.                                            *)
THEOREM PayoutRefines == Spec => PaidOnce
  <1>1. Init => Paid!Init
    BY DEF Init, Paid!Init, Paid!Piece, Booked, Journal
  <1>2. TypeOK /\ PayoutInv /\ (TypeOK /\ PayoutInv)' /\ [Next]_vars => [Paid!Next]_(Paid!vars)
    <2> SUFFICES ASSUME TypeOK, PayoutInv, (TypeOK /\ PayoutInv)', [Next]_vars
                 PROVE  [Paid!Next]_(Paid!vars)
      OBVIOUS
    <2>1. /\ Booked = [p \in Paid!Piece |-> Count(Completed)]
          /\ Booked' = [p \in Paid!Piece |-> Count(Completed)']
      <3>1. MoneyInv /\ MoneyInv'
        BY DEF PayoutInv
      <3>2. posted'["distribution"] = Count(Completed)' /\ posted'["payout"] = Count(Completed)'
        BY <3>1 DEF MoneyInv, Journal
      <3>3. (IF commission' = "FINALIZED" THEN 1 ELSE 0) = Count(Completed)'
        BY <3>1 DEF MoneyInv, Count
      <3> QED  BY <3>1, <3>2, <3>3, BookedIsCompletion DEF Paid!Piece, Booked
    <2>2. CASE transfers' = transfers /\ (Completed' <=> Completed)
      BY <2>1, <2>2 DEF Paid!vars, Count
    <2>3. ASSUME NEW w \in Worker, Rail(w)
          PROVE  [Paid!Next]_(Paid!vars)
      <3>1. worker[w].attempt \in Attempt
        BY <2>3, RequestShape DEF Rail, InFlight
      <3>2. transfers' \in {transfers, transfers \cup {<<"settlement id">>}}
        BY <2>3 DEF Rail, IdempotencyKey
      <3>3. UNCHANGED Booked
        BY <2>3 DEF Rail, Booked, books
      <3>4. CASE transfers = {} /\ transfers' # transfers
        <4>1. <<"settlement id">> \in {IdempotencyKey(n) : n \in Attempt}
          BY <3>1 DEF IdempotencyKey
        <4>2. Paid!Pay(<<"settlement id">>)
          BY <3>2, <3>3, <3>4 DEF Paid!Pay
        <4> QED  BY <4>1, <4>2 DEF Paid!Next
      <3>5. CASE transfers # {} \/ transfers' = transfers
        <4>1. transfers' = transfers
          BY <3>2, <3>5 DEF PayoutInv, MoneyInv
        <4> QED  BY <3>3, <4>1 DEF Paid!vars
      <3> QED  BY <3>4, <3>5
    <2>4. ASSUME NEW w \in Worker, RecordSuccess(w)
          PROVE  Paid!Next
      <3>1. transfers' = transfers /\ transfers # {}
        BY <2>4 DEF RecordSuccess, PayoutInv, AttemptInv, InFlight
      <3>2. ~Completed /\ Completed'
        BY <2>4 DEF RecordSuccess, PayoutInv, OneAttemptAtATime, InFlight, Completed, TypeOK
      <3>3. Paid!Book
        BY <2>1, <3>1, <3>2 DEF Paid!Book, Count
      <3> QED  BY <3>3 DEF Paid!Next
    <2> QED  BY <2>2, <2>3, <2>4, CompletesOnlyByRecord
  <1> QED  BY <1>1, <1>2, PayoutInvHolds, PTL DEF PaidOnce, Paid!Spec, Spec

(***************************************************************************)
(* INV-10.  A code request carries a time no earlier than the transfer,    *)
(* because it was read in a state only the transfer leads to; so every     *)
(* row's expiry lies its whole validity after the transfer, and a row that *)
(* is verified is never issued again.                                      *)
(***************************************************************************)
StateInv ==
  /\ state # "CONTRACTED" => MarkedSent
  /\ MarkedSent => settlement.sentAt <= now

RequestInv ==
  \A w \in Worker : worker[w].op \in {"issue", "insert"} =>
    MarkedSent /\ settlement.sentAt <= worker[w].at

RowInv ==
  \A r \in Otp :
    /\ otp[r].status # "NONE" => MarkedSent /\ settlement.sentAt + OtpValidity <= otp[r].expiresAt
    /\ otp[r].status = "VERIFIED" => otp[r].verifiedAt < otp[r].expiresAt

VerifiedInv == state = "FUNDED" => \E r \in Otp : otp[r].status = "VERIFIED"

CodeInv == StateInv /\ RequestInv /\ RowInv /\ VerifiedInv

LEMMA IssuedKeepsRows ==
  ASSUME TypeOK, CodeInv, NEW w \in Worker, NEW r \in Otp, NEW n,
         worker[w].op \in {"issue", "insert"}, otp[r].status # "VERIFIED",
         Issued(r, worker[w].at, n), UNCHANGED <<state, settlement>>
  PROVE  RowInv' /\ VerifiedInv'
  <1>1. MarkedSent /\ settlement.sentAt <= worker[w].at
    BY DEF CodeInv, RequestInv
  <1>2. otp' = [otp EXCEPT ![r] = [otp[r] EXCEPT !.status = "SENT",
                                   !.expiresAt = worker[w].at + OtpValidity, !.resends = n]]
    BY DEF Issued
  <1>3. \A q \in Otp : q # r => otp'[q] = otp[q]
    BY <1>2 DEF TypeOK
  <1>4. otp'[r].status = "SENT" /\ otp'[r].expiresAt = worker[w].at + OtpValidity
    BY <1>2 DEF TypeOK
  <1>5. settlement.sentAt + OtpValidity <= worker[w].at + OtpValidity
    <2>1. worker[w].at \in Nat /\ settlement.sentAt \in Int /\ OtpValidity \in Nat
      BY RequestShape, FundingBoundAssumption, PolicyAssumption DEF TypeOK, Never
    <2> QED  BY <1>1, <2>1
  <1>6. RowInv'
    BY <1>1, <1>3, <1>4, <1>5 DEF CodeInv, RowInv, MarkedSent
  <1>7. VerifiedInv'
    BY <1>3 DEF CodeInv, VerifiedInv
  <1> QED  BY <1>6, <1>7

LEMMA CodeInvStep ==
  ASSUME TypeOK, CodeInv, [Next]_vars
  PROVE  CodeInv'
  <1> USE DEF CodeInv
  <1>1. CASE MarkSent
    <2>1. /\ ~MarkedSent /\ state = "CONTRACTED"
          /\ settlement'.sentAt = now /\ now' = now
      BY <1>1 DEF MarkSent, TypeOK
    <2>2. MarkedSent'
      BY <2>1, FundingBoundAssumption DEF TypeOK, MarkedSent, Never
    <2>3. StateInv'
      BY <2>1, <2>2, FundingBoundAssumption DEF TypeOK, StateInv
    <2>4. RequestInv'
      BY <1>1, <2>1 DEF MarkSent, RequestInv
    <2>5. RowInv'
      BY <1>1, <2>1 DEF MarkSent, RowInv
    <2>6. VerifiedInv'
      BY <1>1 DEF MarkSent, VerifiedInv
    <2> QED  BY <2>3, <2>4, <2>5, <2>6
  <1>2. ASSUME NEW w \in Worker, IssueRead(w)
        PROVE  CodeInv'
    <2>1. MarkedSent /\ settlement.sentAt <= now
      BY <1>2 DEF IssueRead, StateInv
    <2>2. worker'[w] = [op |-> "issue", at |-> now] /\ \A v \in Worker : v # w => worker'[v] = worker[v]
      BY <1>2 DEF IssueRead, Become, TypeOK
    <2>3. RequestInv'
      BY <1>2, <2>1, <2>2 DEF IssueRead, RequestInv, MarkedSent
    <2> QED  BY <1>2, <2>3 DEF IssueRead, StateInv, RowInv, VerifiedInv, MarkedSent
  <1>3. ASSUME NEW w \in Worker, Reissue(w) \/ Insert(w)
        PROVE  CodeInv'
    <2>1. PICK r \in Otp : otp[r].status # "VERIFIED" /\ \E n : Issued(r, worker[w].at, n)
      BY <1>3 DEF Reissue, Insert, OtpRows
    <2>2. /\ worker[w].op \in {"issue", "insert"}
          /\ UNCHANGED <<now, state, settlement>>
          /\ Become(w, Idle)
      BY <1>3 DEF Reissue, Insert
    <2>3. RowInv' /\ VerifiedInv'
      BY <2>1, <2>2, IssuedKeepsRows
    <2>4. worker'[w] = Idle /\ \A v \in Worker : v # w => worker'[v] = worker[v]
      BY <2>2 DEF Become, TypeOK
    <2>5. RequestInv'
      BY <2>2, <2>4 DEF RequestInv, Idle, MarkedSent
    <2> QED  BY <2>2, <2>3, <2>5 DEF StateInv, MarkedSent
  <1>4. ASSUME NEW w \in Worker, IssueFirst(w)
        PROVE  CodeInv'
    <2>1. /\ worker'[w] = [op |-> "insert", at |-> worker[w].at]
          /\ \A v \in Worker : v # w => worker'[v] = worker[v]
      BY <1>4 DEF IssueFirst, Become, TypeOK
    <2>2. RequestInv'
      BY <1>4, <2>1 DEF IssueFirst, RequestInv, MarkedSent
    <2> QED  BY <1>4, <2>2 DEF IssueFirst, StateInv, RowInv, VerifiedInv, MarkedSent
  <1>5. ASSUME NEW w \in Worker, Confirm(w)
        PROVE  CodeInv'
    <2>1. PICK r \in Otp :
            /\ Verifiable(r)
            /\ otp' = [otp EXCEPT ![r] = [otp[r] EXCEPT !.status = "VERIFIED", !.verifiedAt = now]]
      BY <1>5 DEF Confirm
    <2>2. \A q \in Otp : q # r => otp'[q] = otp[q]
      BY <2>1 DEF TypeOK
    <2>3. /\ otp'[r].status = "VERIFIED" /\ otp'[r].verifiedAt = now
          /\ otp'[r].expiresAt = otp[r].expiresAt
      BY <2>1 DEF TypeOK
    <2>4. MarkedSent /\ MarkedSent' /\ settlement' = settlement /\ now' = now
      BY <1>5, <2>1 DEF Confirm, Verifiable, RowInv, MarkedSent
    <2>5. RowInv'
      BY <2>1, <2>2, <2>3, <2>4 DEF RowInv, Verifiable
    <2>6. VerifiedInv'
      BY <2>3 DEF VerifiedInv
    <2>7. worker'[w] = [op |-> "pay"] /\ \A v \in Worker : v # w => worker'[v] = worker[v]
      BY <1>5, <2>4 DEF Confirm, Become, TypeOK
    <2>8. RequestInv'
      BY <2>4, <2>7 DEF RequestInv
    <2> QED  BY <2>4, <2>5, <2>6, <2>8 DEF StateInv
  <1>6. ASSUME NEW w \in Worker, NEW q,
               q.op \notin {"issue", "insert"}, Become(w, q),
               UNCHANGED <<now, state, otp>>, settlement'.sentAt = settlement.sentAt
        PROVE  CodeInv'
    <2>1. worker'[w] = q /\ \A v \in Worker : v # w => worker'[v] = worker[v]
      BY <1>6 DEF Become, TypeOK
    <2>2. RequestInv'
      BY <1>6, <2>1 DEF RequestInv, MarkedSent
    <2> QED  BY <1>6, <2>2 DEF StateInv, RowInv, VerifiedInv, MarkedSent
  <1>7. ASSUME NEW w \in Worker,
               \/ \E by \in {"BANK", "PLATFORM"} : RetryRead(w, by)
               \/ ExecutePayout(w) \/ Abort(w)
        PROVE  CodeInv'
    <2>1. settlement'.sentAt = settlement.sentAt
      BY <1>7 DEF RetryRead, ExecutePayout, Claim, Claimed, Decline, Rail, Record, RecordSuccess,
                  RecordFailure, Failed, Abort, TypeOK
    <2>2. UNCHANGED <<now, state, otp>>
      BY <1>7 DEF RetryRead, ExecutePayout, Claim, Decline, Rail, Record, RecordSuccess,
                  RecordFailure, Abort
    <2>3. CASE ~Rail(w) /\ ~Claim(w)
      <3>1. [op |-> "pay"].op \notin {"issue", "insert"} /\ Idle.op \notin {"issue", "insert"}
        BY DEF Idle
      <3>2. Become(w, [op |-> "pay"]) \/ Become(w, Idle)
        BY <1>7, <2>3 DEF RetryRead, ExecutePayout, Decline, Record, RecordSuccess, RecordFailure, Abort
      <3> QED  BY <1>6, <2>1, <2>2, <3>1, <3>2
    <2>4. CASE Rail(w) \/ Claim(w)
      <3>1. \E q : q.op \notin {"issue", "insert"} /\ Become(w, q)
        BY <2>4 DEF Rail, Claim, Answered
      <3> QED  BY <1>6, <2>1, <2>2, <3>1
    <2> QED  BY <2>3, <2>4
  <1>8. CASE (\E i \in Instance : Sweep(i)) \/ UNCHANGED vars
    <2>1. UNCHANGED <<now, state, settlement, otp, worker>>
      BY <1>8 DEF Sweep, SweepRead, SweepNotify, SweepFail, vars
    <2> QED  BY <2>1 DEF StateInv, RequestInv, RowInv, VerifiedInv, MarkedSent
  <1>9. CASE Tick
    <2>1. MarkedSent => settlement.sentAt <= now'
      <3>1. now \in Int /\ settlement.sentAt \in Int /\ now' = now + 1
        BY <1>9, FundingBoundAssumption DEF Tick, TypeOK, Never
      <3> QED  BY <3>1 DEF StateInv
    <2> QED  BY <1>9, <2>1 DEF Tick, StateInv, RequestInv, RowInv, VerifiedInv, MarkedSent
  <1> QED  BY <1>1, <1>2, <1>3, <1>4, <1>5, <1>7, <1>8, <1>9 DEF Next, Issue

(* A funded transaction has the bank's transfer and a code that was issued *)
(* after it and confirmed in time, however the issues raced.               *)
THEOREM FundedOnEvidence == Spec => []FundedTogether
  <1>1. Init => CodeInv
    BY DEF Init, CodeInv, StateInv, RequestInv, RowInv, VerifiedInv, MarkedSent, Idle
  <1>2. TypeOK /\ CodeInv /\ [Next]_vars => CodeInv'
    BY CodeInvStep
  <1>3. CodeInv => FundedTogether
    BY DEF CodeInv, StateInv, RowInv, VerifiedInv, FundedTogether
  <1> QED  BY <1>1, <1>2, <1>3, TypeCorrect, PTL DEF Spec

(***************************************************************************)
(* The sweep asks for an earlier notice before it writes one, so a notice  *)
(* read as missing must still be missing when it is written: one scheduler *)
(* has one such reading at a time.                                         *)
(***************************************************************************)
PendingNoticeIsNew ==
  \A i \in Instance : scheduler[i].op = "notify" => sent[scheduler[i].template] = 0

LEMMA NoticeStep ==
  ASSUME TypeOK, PendingNoticeIsNew, NoticesSentOnce, [Next]_vars,
         \A i, j \in Instance : i = j
  PROVE  PendingNoticeIsNew' /\ NoticesSentOnce'
  <1>1. ASSUME NEW i \in Instance, SweepRead(i)
        PROVE  PendingNoticeIsNew' /\ NoticesSentOnce'
    <2>1. Notice \in Template /\ sent[Notice] = 0
      BY <1>1 DEF SweepRead, AlreadySent, Notice, Template, TypeOK
    <2>2. /\ scheduler'[i] = [op |-> "notify", template |-> Notice]
          /\ \A j \in Instance : j = i
      BY <1>1 DEF SweepRead, TypeOK
    <2>3. sent' = sent
      BY <1>1 DEF SweepRead
    <2> QED  BY <2>1, <2>2, <2>3 DEF PendingNoticeIsNew, NoticesSentOnce
  <1>2. ASSUME NEW i \in Instance, SweepNotify(i)
        PROVE  PendingNoticeIsNew' /\ NoticesSentOnce'
    <2>1. PICK t \in Template : t = scheduler[i].template
      BY <1>2 DEF SweepNotify, TypeOK, Idle
    <2>2. sent[t] = 0 /\ sent' = [sent EXCEPT ![t] = sent[t] + 1]
      BY <1>2, <2>1 DEF SweepNotify, PendingNoticeIsNew
    <2>3. \A u \in Template : sent'[u] <= 1
      BY <2>2 DEF NoticesSentOnce, TypeOK
    <2>4. scheduler'[i] = Idle /\ \A j \in Instance : j = i
      BY <1>2 DEF SweepNotify, TypeOK
    <2> QED  BY <2>3, <2>4 DEF PendingNoticeIsNew, NoticesSentOnce, Idle
  <1>3. ASSUME NEW i \in Instance, SweepFail(i)
        PROVE  PendingNoticeIsNew' /\ NoticesSentOnce'
    <2>1. scheduler'[i] = Idle /\ \A j \in Instance : j = i
      BY <1>3 DEF SweepFail, TypeOK
    <2> QED  BY <1>3, <2>1 DEF SweepFail, PendingNoticeIsNew, NoticesSentOnce, Idle
  <1>4. CASE ~\E i \in Instance : Sweep(i)
    <2>1. UNCHANGED <<scheduler, sent>>
      BY <1>4 DEF Next, vars, MarkSent, Issue, IssueRead, Reissue, IssueFirst, Insert, Confirm,
                  RetryRead, ExecutePayout, Claim, Decline, Rail, Record, RecordSuccess,
                  RecordFailure, Abort, Tick
    <2> QED  BY <2>1 DEF PendingNoticeIsNew, NoticesSentOnce
  <1> QED  BY <1>1, <1>2, <1>3, <1>4 DEF Sweep

(* With one API process a reminder and an escalation are each sent at most *)
(* once, whatever the clock does and whichever pass fails.                 *)
THEOREM OneSchedulerSendsOnce ==
  ASSUME \A i, j \in Instance : i = j
  PROVE  Spec => []NoticesSentOnce
  <1>1. Init => PendingNoticeIsNew /\ NoticesSentOnce
    BY DEF Init, PendingNoticeIsNew, NoticesSentOnce, Idle, Template
  <1>2. TypeOK /\ PendingNoticeIsNew /\ NoticesSentOnce /\ [Next]_vars
          => PendingNoticeIsNew' /\ NoticesSentOnce'
    BY NoticeStep
  <1> QED  BY <1>1, <1>2, TypeCorrect, PTL DEF Spec

=============================================================================
