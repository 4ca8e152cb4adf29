--------------------------- MODULE SubmissionProofs ---------------------------
(***************************************************************************)
(* Proofs about Submission, for any number of transactions, buyers,        *)
(* invoices and requests under way.                                        *)
(***************************************************************************)
EXTENDS Submission, TLAPS

USE DEF draft, claim

(***************************************************************************)
(* What the whitelist and the checks say.                                  *)
(***************************************************************************)
LEMMA ToFraudReview ==
  ASSUME NEW s \in PreMarket, CanTransition(s, "FRAUD_REVIEW")
  PROVE  s \in {"AUTOMATED_CHECKS", "UNDER_REVIEW"}
  BY DEF CanTransition, Moves, PreMarket

LEMMA OutcomeIsOutcome == ASSUME NEW c PROVE OutcomeOf(c) \in Outcome
  BY DEF OutcomeOf, Outcome

LEMMA ChecksMayMove ==
  ASSUME NEW o \in Outcome
  PROVE  CanTransition("AUTOMATED_CHECKS", o)
  BY DEF CanTransition, Moves, Outcome

(***************************************************************************)
(* Types.                                                                  *)
(***************************************************************************)
LEMMA WorkShape ==
  ASSUME TypeOK, NEW h \in Handler
  PROVE  /\ work[h].op = "buyer" => work[h].tx \in Tx /\ work[h].to \in Buyer
         /\ work[h].op = "invoice" => work[h].tx \in Tx /\ work[h].to \in Invoice
         /\ work[h].op \in Submitting =>
              /\ work[h].tx \in Tx /\ work[h].seen \in State /\ work[h].mark \in Fingerprint
              /\ \A op \in Submitting : Onto(h, op) \in Work
         /\ work[h].op \in {"gather", "dead"} => work[h].tx \in Tx
         /\ work[h].op = "route" => work[h].tx \in Tx /\ work[h].to \in Outcome
         /\ work[h].op \notin {"idle", "dead"} => work[h].tx \in Tx
  <1>1. work[h] \in Work
    BY DEF TypeOK
  <1> QED  BY <1>1 DEF Work, Idle, Submitting, Onto

LEMMA StepType ==
  ASSUME TypeOK, NEW h \in Handler, NEW step \in Work, Step(h, step)
  PROVE  work' \in [Handler -> Work] /\ work'[h] = step
         /\ \A g \in Handler : g # h => work'[g] = work[g]
  BY DEF TypeOK, Step

LEMMA SetStateType ==
  ASSUME TypeOK, NEW t \in Tx, NEW s \in State, SetState(t, s)
  PROVE  /\ state' \in [Tx -> State] /\ active' \in [Tx -> BOOLEAN]
         /\ state'[t] = s
         /\ active'[t] = IF s # state[t] THEN KeepsFingerprintActive(s) ELSE active[t]
         /\ \A u \in Tx : u # t => state'[u] = state[u] /\ active'[u] = active[u]
  <1>1. KeepsFingerprintActive(s) \in BOOLEAN
    BY DEF KeepsFingerprintActive
  <1> QED  BY <1>1 DEF TypeOK, SetState, Synced

LEMMA IdleIsWork == Idle \in Work
  BY DEF Work

LEMMA StatesAreStates ==
  /\ "AUTOMATED_CHECKS" \in State /\ "CANCELLED" \in State /\ "FRAUD_REVIEW" \in State
  /\ "FUNDED" \in State /\ "CLOSED" \in State
  /\ Outcome \subseteq State
  /\ \A s \in State : Unfrozen(s) \in State
  BY DEF State, PreMarket, Ended, AfterFunding, Outcome, Unfrozen

LEMMA TypeInit == Init => TypeOK
  BY DEF Init, TypeOK, State, PreMarket, Work, Review

LEMMA EditsKeepTypes ==
  ASSUME TypeOK, NEW h \in Handler, EditRead(h) \/ PutBuyer(h) \/ PutInvoice(h)
  PROVE  TypeOK'
  <1>1. CASE EditRead(h)
    <2>1. PICK t \in Tx :
            \/ \E b \in Buyer : Step(h, [op |-> "buyer", tx |-> t, to |-> b])
            \/ \E i \in Invoice : Step(h, [op |-> "invoice", tx |-> t, to |-> i])
      BY <1>1 DEF EditRead
    <2>2. \A b \in Buyer : [op |-> "buyer", tx |-> t, to |-> b] \in Work
      BY DEF Work
    <2>3. \A i \in Invoice : [op |-> "invoice", tx |-> t, to |-> i] \in Work
      BY DEF Work
    <2>4. work' \in [Handler -> Work]
      BY <2>1, <2>2, <2>3, StepType
    <2> QED  BY <1>1, <2>4 DEF EditRead, TypeOK
  <1>2. CASE PutBuyer(h)
    <2>1. work' \in [Handler -> Work]
      BY <1>2, StepType, IdleIsWork DEF PutBuyer
    <2> QED  BY <1>2, <2>1, WorkShape DEF PutBuyer, NoteEdit, TypeOK
  <1>3. CASE PutInvoice(h)
    <2>1. work' \in [Handler -> Work]
      BY <1>3, StepType, IdleIsWork DEF PutInvoice
    <2> QED  BY <1>3, <2>1, WorkShape DEF PutInvoice, NoteEdit, TypeOK
  <1> QED  BY <1>1, <1>2, <1>3

LEMMA SubmissionKeepsTypes ==
  ASSUME TypeOK, NEW h \in Handler,
         Submit(h) \/ Search(h) \/ Claim(h) \/ Refuse(h) \/ Enter(h)
  PROVE  TypeOK'
  <1>1. CASE Submit(h)
    <2>1. PICK t \in Tx :
            /\ invoice[t] # None /\ buyer[t] # None
            /\ Step(h, [op |-> "search", tx |-> t, seen |-> state[t], mark |-> Mark(t)])
      BY <1>1 DEF Submit
    <2>2. Mark(t) \in Fingerprint
      BY <2>1 DEF TypeOK, Mark, Fingerprint
    <2>3. [op |-> "search", tx |-> t, seen |-> state[t], mark |-> Mark(t)] \in Work
      BY <2>2 DEF TypeOK, Work, Submitting
    <2>4. work' \in [Handler -> Work]
      BY <2>1, <2>3, StepType
    <2> QED  BY <1>1, <2>4 DEF Submit, TypeOK
  <1>2. CASE Search(h)
    <2>1. work[h].op \in Submitting
      BY <1>2 DEF Search, Submitting
    <2>2. work' \in [Handler -> Work]
      BY <1>2, <2>1, WorkShape, StepType DEF Search, Submitting
    <2> QED  BY <1>2, <2>2 DEF Search, TypeOK
  <1>3. CASE Claim(h)
    <2>1. work[h].op \in Submitting
      BY <1>3 DEF Claim, Submitting
    <2>2. work' \in [Handler -> Work]
      BY <1>3, <2>1, WorkShape, StepType DEF Claim, Submitting
    <2>3. print' \in [Tx -> Fingerprint \cup {Placeholder}]
      BY <1>3, <2>1, WorkShape DEF Claim, Claimed, TypeOK
    <2> QED  BY <1>3, <2>2, <2>3 DEF Claim, TypeOK
  <1>4. CASE Refuse(h)
    <2>1. work' \in [Handler -> Work]
      BY <1>4, StepType, IdleIsWork DEF Refuse
    <2>2. review' \in [Tx -> SUBSET Review]
      BY <1>4 DEF Refuse, TypeOK, Review
    <2> QED  BY <1>4, <2>1, <2>2 DEF Refuse, TypeOK
  <1>5. CASE Enter(h)
    <2>1. work[h].tx \in Tx
      BY <1>5, WorkShape DEF Enter
    <2>2. [op |-> "gather", tx |-> work[h].tx] \in Work
      BY <2>1 DEF Work
    <2>3. work' \in [Handler -> Work]
      BY <1>5, <2>2, StepType DEF Enter
    <2> QED  BY <1>5, <2>1, <2>3, SetStateType, StatesAreStates DEF Enter, TypeOK
  <1> QED  BY <1>1, <1>2, <1>3, <1>4, <1>5

(* What Gather does, in terms of one outcome.                              *)
LEMMA GatherStep ==
  ASSUME NEW h \in Handler, Gather(h)
  PROVE  /\ work[h].op = "gather"
         /\ \E to \in Outcome :
              IF CanTransition(state[work[h].tx], to)
                THEN Step(h, [op |-> "route", tx |-> work[h].tx, to |-> to]) ELSE Step(h, Idle)
         /\ UNCHANGED <<state, draft, claim, review, edited>>
  BY OutcomeIsOutcome DEF Gather

LEMMA ChecksKeepTypes ==
  ASSUME TypeOK, NEW h \in Handler, Gather(h) \/ Route(h) \/ RefusedMove(h) \/ Fail(h)
  PROVE  TypeOK'
  <1>1. CASE Gather(h)
    <2>1. work[h].tx \in Tx
      BY <1>1, WorkShape DEF Gather
    <2>2. \A to \in Outcome : [op |-> "route", tx |-> work[h].tx, to |-> to] \in Work
      BY <2>1 DEF Work
    <2>3. work' \in [Handler -> Work]
      BY <1>1, <2>2, GatherStep, StepType, IdleIsWork
    <2> QED  BY <1>1, <2>3, GatherStep DEF TypeOK
  <1>2. CASE Route(h)
    <2>1. work[h].tx \in Tx /\ work[h].to \in State
      BY <1>2, WorkShape, StatesAreStates DEF Route
    <2>2. work' \in [Handler -> Work]
      BY <1>2, StepType, IdleIsWork DEF Route
    <2> QED  BY <1>2, <2>1, <2>2, SetStateType DEF Route, TypeOK
  <1>3. CASE RefusedMove(h)
    <2>1. work' \in [Handler -> Work]
      BY <1>3, StepType, IdleIsWork DEF RefusedMove
    <2> QED  BY <1>3, <2>1 DEF RefusedMove, TypeOK
  <1>4. CASE Fail(h)
    <2>1. [op |-> "dead", tx |-> work[h].tx] \in Work
      BY <1>4, WorkShape DEF Fail, Work
    <2>2. work' \in [Handler -> Work]
      BY <1>4, <2>1, StepType DEF Fail
    <2> QED  BY <1>4, <2>2 DEF Fail, TypeOK
  <1> QED  BY <1>1, <1>2, <1>3, <1>4

Decisions(t) == Cancel(t) \/ OpenFraud(t) \/ \E r \in Review : ClearFraud(t, r) \/ FindFraud(t, r)

(* A decision of a person moves one transaction under its lock.            *)
LEMMA DecisionStep ==
  ASSUME TypeOK, NEW t \in Tx, Decisions(t)
  PROVE  /\ \E s \in {"CANCELLED", "FRAUD_REVIEW", "FUNDED", "CLOSED", state[t]} :
              SetState(t, s) /\ (s = "FUNDED" => state[t] \in {"FRAUD_REVIEW", "FUNDED"})
                             /\ (s = "FRAUD_REVIEW" =>
                                   state[t] \in {"AUTOMATED_CHECKS", "UNDER_REVIEW", "FRAUD_REVIEW"})
         /\ review' \in [Tx -> SUBSET Review]
         /\ UNCHANGED <<draft, print, work, edited>>
  <1>1. CASE Cancel(t)
    BY <1>1 DEF Cancel, TypeOK
  <1>2. CASE OpenFraud(t)
    BY <1>2, ToFraudReview DEF OpenFraud, TypeOK, Review
  <1>3. ASSUME NEW r \in Review, ClearFraud(t, r) PROVE SetState(t, Unfrozen(state[t]))
                                     /\ review' \in [Tx -> SUBSET Review]
                                     /\ UNCHANGED <<draft, print, work, edited>>
    BY <1>3 DEF ClearFraud, TypeOK
  <1>4. ASSUME NEW r \in Review, FindFraud(t, r) PROVE SetState(t, "CLOSED")
                                     /\ review' \in [Tx -> SUBSET Review]
                                     /\ UNCHANGED <<draft, print, work, edited>>
    BY <1>4 DEF FindFraud, TypeOK
  <1> QED  BY <1>1, <1>2, <1>3, <1>4 DEF Decisions, Unfrozen

LEMMA DecisionsKeepTypes ==
  ASSUME TypeOK, NEW t \in Tx, Decisions(t)
  PROVE  TypeOK'
  <1>1. PICK s \in State : SetState(t, s)
    BY DecisionStep, StatesAreStates DEF TypeOK
  <1> QED  BY <1>1, DecisionStep, SetStateType DEF TypeOK

LEMMA NextSteps ==
  ASSUME Next
  PROVE  \/ \E h \in Handler :
              \/ EditRead(h) \/ PutBuyer(h) \/ PutInvoice(h)
              \/ Submit(h) \/ Search(h) \/ Claim(h) \/ Refuse(h) \/ Enter(h)
              \/ Gather(h) \/ Route(h) \/ RefusedMove(h) \/ Fail(h)
         \/ \E t \in Tx : Decisions(t)
  BY DEF Next, Progress, Decisions

(* Every variable keeps its type, whatever requests and decisions do.      *)
THEOREM TypeCorrect == Spec => []TypeOK
  <1>1. TypeOK /\ [Next]_vars => TypeOK'
    <2> SUFFICES ASSUME TypeOK, [Next]_vars PROVE TypeOK'
      OBVIOUS
    <2>1. CASE Next
      BY <2>1, NextSteps, EditsKeepTypes, SubmissionKeepsTypes, ChecksKeepTypes, DecisionsKeepTypes
    <2>2. CASE UNCHANGED vars
      BY <2>2 DEF vars, TypeOK
    <2> QED  BY <2>1, <2>2
  <1> QED  BY TypeInit, <1>1, PTL DEF Spec

(***************************************************************************)
(* The strengthening.  The flag the index looks at follows the state, so   *)
(* the index speaks of what is live; and as long as nobody edits it under  *)
(* way, what a transaction holds is its own fingerprint.                   *)
(***************************************************************************)
FlagFollowsState == \A t \in Tx : active[t] = KeepsFingerprintActive(state[t])

Indexed == Unique(print, active)

NeverAsked == \A t \in Tx : state[t] # "INFORMATION_REQUIRED"

Entered == \A h \in Handler : work[h].op \in {"gather", "route"} => state[work[h].tx] # "DRAFT"

Held(t) == print[t] = Mark(t) /\ Mark(t) \in Fingerprint

ClaimIsCurrent(t) ==
  /\ Submitted(t) => Held(t)
  /\ \A h \in Handler : work[h].op \in {"enter", "gather", "route"} /\ work[h].tx = t => Held(t)
  /\ \A h \in Handler : work[h].op \in Submitting /\ work[h].tx = t => work[h].mark = Mark(t)

ClaimsAreCurrent == \A t \in Tx \ edited : ClaimIsCurrent(t)

Inv ==
  TypeOK /\ FlagFollowsState /\ Indexed /\ NeverAsked /\ Entered
    /\ ClaimsAreCurrent /\ ChecksAreInHand

Work1(h) == EditRead(h) \/ PutBuyer(h) \/ Submit(h) \/ Search(h) \/ Refuse(h)
              \/ Gather(h) \/ RefusedMove(h) \/ Fail(h)

LEMMA PlaceholderIsNone == Placeholder \notin Fingerprint
  BY DEF Placeholder, Fingerprint

LEMMA InitInv == Init => Inv
  <1> SUFFICES ASSUME Init PROVE Inv
    OBVIOUS
  <1>1. \A t \in Tx : state[t] = "DRAFT" /\ active[t] = TRUE /\ print[t] = Placeholder
    BY DEF Init
  <1>2. \A h \in Handler : work[h].op = "idle"
    BY DEF Init, Idle
  <1>3. FlagFollowsState
    BY <1>1 DEF FlagFollowsState, KeepsFingerprintActive, Ended
  <1>4. Indexed
    BY <1>1, PlaceholderIsNone DEF Indexed, Unique
  <1>5. ClaimsAreCurrent
    BY <1>1, <1>2 DEF ClaimsAreCurrent, ClaimIsCurrent, Submitted, Submitting
  <1> QED  BY <1>1, <1>2, <1>3, <1>4, <1>5, TypeInit DEF Inv, NeverAsked, Entered, ChecksAreInHand

(* Steps that leave state, print and flag alone.                           *)
LEMMA QuietSteps ==
  ASSUME NEW h \in Handler, Work1(h)
  PROVE  UNCHANGED <<state, print, active>>
  BY DEF Work1, EditRead, PutBuyer, Submit, Search, Refuse, Gather, RefusedMove, Fail

LEMMA FlagKept ==
  ASSUME TypeOK, FlagFollowsState, Next
  PROVE  FlagFollowsState'
  <1>1. ASSUME NEW t \in Tx, NEW s \in State, SetState(t, s) PROVE FlagFollowsState'
    BY <1>1, SetStateType DEF FlagFollowsState
  <1>2. ASSUME NEW h \in Handler, Work1(h) \/ PutInvoice(h) \/ Claim(h)
        PROVE  FlagFollowsState'
    BY <1>2, QuietSteps DEF FlagFollowsState, PutInvoice, Claim
  <1>3. ASSUME NEW h \in Handler, Enter(h) PROVE FlagFollowsState'
    BY <1>3, <1>1, WorkShape, StatesAreStates DEF Enter
  <1>4. ASSUME NEW h \in Handler, Route(h) PROVE FlagFollowsState'
    BY <1>4, <1>1, WorkShape, StatesAreStates DEF Route
  <1>5. ASSUME NEW t \in Tx, Decisions(t) PROVE FlagFollowsState'
    BY <1>5, <1>1, DecisionStep, StatesAreStates DEF TypeOK
  <1> QED  BY NextSteps, <1>2, <1>3, <1>4, <1>5 DEF Work1

(* A decision never makes a flag true.                                     *)
LEMMA DecisionsRelease ==
  ASSUME TypeOK, FlagFollowsState, NEW t \in Tx, Decisions(t)
  PROVE  \A u \in Tx : active'[u] => active[u]
  <1>1. PICK s \in {"CANCELLED", "FRAUD_REVIEW", "FUNDED", "CLOSED", state[t]} :
          /\ SetState(t, s) /\ (s = "FUNDED" => state[t] \in {"FRAUD_REVIEW", "FUNDED"})
          /\ (s = "FRAUD_REVIEW" =>
                state[t] \in {"AUTOMATED_CHECKS", "UNDER_REVIEW", "FRAUD_REVIEW"})
    BY DecisionStep
  <1>2. s \in State
    BY StatesAreStates DEF TypeOK
  <1>3. ~KeepsFingerprintActive("CANCELLED") /\ ~KeepsFingerprintActive("CLOSED")
        /\ KeepsFingerprintActive("AUTOMATED_CHECKS") /\ KeepsFingerprintActive("UNDER_REVIEW")
        /\ KeepsFingerprintActive("FRAUD_REVIEW") /\ KeepsFingerprintActive("FUNDED")
    BY DEF KeepsFingerprintActive, Ended
  <1> QED  BY <1>1, <1>2, <1>3, SetStateType DEF FlagFollowsState

LEMMA IndexKept ==
  ASSUME TypeOK, FlagFollowsState, Indexed, Next
  PROVE  Indexed'
  <1>1. ASSUME NEW h \in Handler, Work1(h) PROVE Indexed'
    BY <1>1, QuietSteps DEF Indexed, Unique
  <1>2. ASSUME NEW h \in Handler, PutInvoice(h) PROVE Indexed'
    <2>1. \A u \in Tx : print'[u] \in Fingerprint => print'[u] = print[u]
      BY <1>2, PlaceholderIsNone DEF PutInvoice, TypeOK
    <2>2. \A t, u \in Tx : print'[t] \in Fingerprint /\ print'[t] = print'[u] => print[t] = print[u]
      BY <2>1
    <2> QED  BY <1>2, <2>1, <2>2 DEF PutInvoice, Indexed, Unique
  <1>3. ASSUME NEW h \in Handler, Claim(h) PROVE Indexed'
    BY <1>3 DEF Claim, Indexed, Unique
  <1>4. ASSUME NEW h \in Handler, Enter(h) PROVE Indexed'
    BY <1>4 DEF Enter, SetState, Indexed, Unique
  <1>5. ASSUME NEW h \in Handler, Route(h) PROVE Indexed'
    BY <1>5 DEF Route, SetState, Indexed, Unique
  <1>6. ASSUME NEW t \in Tx, Decisions(t) PROVE Indexed'
    BY <1>6, DecisionStep, DecisionsRelease DEF Indexed, Unique
  <1> QED  BY NextSteps, <1>1, <1>2, <1>3, <1>4, <1>5, <1>6 DEF Work1

LEMMA NeverAskedKept ==
  ASSUME TypeOK, NeverAsked, Next
  PROVE  NeverAsked'
  <1>1. ASSUME NEW h \in Handler, Work1(h) \/ PutInvoice(h) \/ Claim(h)
        PROVE  NeverAsked'
    BY <1>1, QuietSteps DEF NeverAsked, PutInvoice, Claim
  <1>2. ASSUME NEW h \in Handler, Enter(h) PROVE NeverAsked'
    BY <1>2, WorkShape, SetStateType, StatesAreStates DEF Enter, NeverAsked
  <1>3. ASSUME NEW h \in Handler, Route(h) PROVE NeverAsked'
    BY <1>3, WorkShape, SetStateType, StatesAreStates DEF Route, NeverAsked, Outcome
  <1>4. ASSUME NEW t \in Tx, Decisions(t) PROVE NeverAsked'
    <2>1. PICK s \in {"CANCELLED", "FRAUD_REVIEW", "FUNDED", "CLOSED", state[t]} : SetState(t, s)
      BY <1>4, DecisionStep
    <2>2. s \in State
      BY StatesAreStates DEF TypeOK
    <2> QED  BY <2>1, <2>2, SetStateType DEF NeverAsked
  <1> QED  BY NextSteps, <1>1, <1>2, <1>3, <1>4 DEF Work1

LEMMA EnteredKept ==
  ASSUME TypeOK, Entered, Next
  PROVE  Entered'
  <1>1. ASSUME NEW h \in Handler, EditRead(h) \/ PutBuyer(h) \/ PutInvoice(h) \/ Submit(h)
               \/ Search(h) \/ Claim(h) \/ Refuse(h) \/ RefusedMove(h) \/ Fail(h)
        PROVE  Entered'
    <2>1. UNCHANGED state /\ work' \in [Handler -> Work]
      BY <1>1, EditsKeepTypes, SubmissionKeepsTypes, ChecksKeepTypes
         DEF TypeOK, EditRead, PutBuyer, PutInvoice, Submit, Search, Claim, Refuse, RefusedMove, Fail
    <2>2. work'[h].op \notin {"gather", "route"} /\ \A g \in Handler : g # h => work'[g] = work[g]
      BY <1>1 DEF TypeOK, Step, Onto, Idle, EditRead, PutBuyer, PutInvoice, Submit, Search, Claim,
           Refuse, RefusedMove, Fail
    <2> QED  BY <2>1, <2>2 DEF Entered
  <1>2. ASSUME NEW h \in Handler, Enter(h) PROVE Entered'
    <2>1. work[h].tx \in Tx
      BY <1>2, WorkShape DEF Enter
    <2>2. state'[work[h].tx] = "AUTOMATED_CHECKS"
          /\ \A u \in Tx : u # work[h].tx => state'[u] = state[u]
      BY <1>2, <2>1, SetStateType, StatesAreStates DEF Enter
    <2>3. work'[h].tx = work[h].tx /\ \A g \in Handler : g # h => work'[g] = work[g]
      BY <1>2 DEF Enter, Step, TypeOK
    <2> QED  BY <2>1, <2>2, <2>3, WorkShape DEF Entered
  <1>3. ASSUME NEW h \in Handler, Gather(h) PROVE Entered'
    <2>1. PICK to \in Outcome :
            IF CanTransition(state[work[h].tx], to)
              THEN Step(h, [op |-> "route", tx |-> work[h].tx, to |-> to]) ELSE Step(h, Idle)
      BY <1>3, GatherStep
    <2>2. UNCHANGED state /\ work[h].op = "gather"
      BY <1>3, GatherStep
    <2>3. (work'[h] = Idle \/ work'[h].tx = work[h].tx)
          /\ \A g \in Handler : g # h => work'[g] = work[g]
      BY <2>1 DEF Step, TypeOK
    <2> QED  BY <2>2, <2>3 DEF Entered, Idle
  <1>4. ASSUME NEW h \in Handler, Route(h) PROVE Entered'
    <2>1. work[h].tx \in Tx /\ work[h].to \in Outcome
      BY <1>4, WorkShape DEF Route
    <2>2. state'[work[h].tx] = work[h].to
          /\ \A u \in Tx : u # work[h].tx => state'[u] = state[u]
      BY <1>4, <2>1, SetStateType, StatesAreStates DEF Route
    <2>3. work'[h] = Idle /\ \A g \in Handler : g # h => work'[g] = work[g]
      BY <1>4 DEF Route, Step, TypeOK
    <2> QED  BY <2>1, <2>2, <2>3, WorkShape DEF Entered, Outcome, Idle
  <1>5. ASSUME NEW t \in Tx, Decisions(t) PROVE Entered'
    <2>1. PICK s \in {"CANCELLED", "FRAUD_REVIEW", "FUNDED", "CLOSED", state[t]} : SetState(t, s)
      BY <1>5, DecisionStep
    <2>2. s \in State
      BY StatesAreStates DEF TypeOK
    <2>3. \A u \in Tx : state[u] # "DRAFT" => state'[u] # "DRAFT"
      BY <2>1, <2>2, SetStateType
    <2>4. UNCHANGED work
      BY <1>5, DecisionStep
    <2> QED  BY <2>3, <2>4, WorkShape DEF Entered
  <1> QED  BY NextSteps, <1>1, <1>2, <1>3, <1>4, <1>5

(* An edit of a transaction that is not noted as edited under way is an    *)
(* edit of a draft no request is submitting.                               *)
LEMMA EditsAreOfDrafts ==
  ASSUME TypeOK, NeverAsked, Entered, NEW h \in Handler, PutBuyer(h) \/ PutInvoice(h),
         NEW t, t = work[h].tx, t \notin edited'
  PROVE  /\ state'[t] = "DRAFT"
         /\ \A g \in Handler :
              work[g].op \in Submitting \cup {"gather", "route"} => work[g].tx # t
  <1>1. t \in Tx
    BY WorkShape DEF PutBuyer, PutInvoice
  <1>2. IsEditable(state[t]) /\ ~BeingSubmitted(t)
    BY DEF PutBuyer, PutInvoice, NoteEdit
  <1>3. state[t] = "DRAFT" /\ UNCHANGED state
    BY <1>1, <1>2 DEF NeverAsked, IsEditable, PutBuyer, PutInvoice
  <1> QED  BY <1>2, <1>3 DEF BeingSubmitted, Entered

LEMMA EditsKeepClaims ==
  ASSUME TypeOK, NeverAsked, Entered, ClaimsAreCurrent, NEW h \in Handler,
         PutBuyer(h) \/ PutInvoice(h)
  PROVE  ClaimsAreCurrent'
  <1> SUFFICES ASSUME NEW t \in Tx \ edited' PROVE ClaimIsCurrent(t)'
    BY DEF ClaimsAreCurrent
  <1>1. work[h].tx \in Tx
    BY WorkShape DEF PutBuyer, PutInvoice
  <1>2. t \notin edited /\ ClaimIsCurrent(t)
    BY DEF PutBuyer, PutInvoice, NoteEdit, ClaimsAreCurrent
  <1>3. work'[h].op = "idle" /\ \A g \in Handler : g # h => work'[g] = work[g]
    BY DEF PutBuyer, PutInvoice, Step, TypeOK, Idle
  <1>4. CASE t = work[h].tx
    <2>1. state'[t] = "DRAFT" /\ \A g \in Handler :
            work[g].op \in Submitting \cup {"gather", "route"} => work[g].tx # t
      BY <1>4, EditsAreOfDrafts
    <2> QED  BY <1>3, <2>1 DEF ClaimIsCurrent, Submitted, Submitting
  <1>5. CASE t # work[h].tx
    <2>1. UNCHANGED <<state, Mark(t), print[t]>>
      BY <1>1, <1>5 DEF PutBuyer, PutInvoice, Mark, TypeOK
    <2> QED  BY <1>2, <1>3, <2>1 DEF ClaimIsCurrent, Submitted, Live, Held, Submitting
  <1> QED  BY <1>4, <1>5

(* Steps of a request that leave every draft and every state alone.        *)
LEMMA ReadsKeepClaims ==
  ASSUME TypeOK, ClaimsAreCurrent, NEW h \in Handler,
         EditRead(h) \/ Submit(h) \/ Search(h) \/ Refuse(h) \/ RefusedMove(h) \/ Fail(h)
           \/ Gather(h)
  PROVE  ClaimsAreCurrent'
  <1> SUFFICES ASSUME NEW t \in Tx \ edited PROVE ClaimIsCurrent(t)'
    BY GatherStep DEF ClaimsAreCurrent, EditRead, Submit, Search, Refuse, RefusedMove, Fail
  <1>1. ClaimIsCurrent(t)
    BY DEF ClaimsAreCurrent
  <1>2. UNCHANGED <<state, buyer, invoice, print>>
    BY GatherStep DEF EditRead, Submit, Search, Refuse, RefusedMove, Fail
  <1>3. \A g \in Handler : g # h => work'[g] = work[g]
    BY GatherStep DEF EditRead, Submit, Search, Refuse, RefusedMove, Fail, Step, TypeOK
  <1>4. /\ work'[h].op \in {"enter", "gather", "route"} =>
             work[h].op \in {"enter", "gather", "route"} /\ work'[h].tx = work[h].tx
        /\ work'[h].op \in Submitting =>
             \/ work'[h].mark = Mark(work'[h].tx)
             \/ work[h].op \in Submitting /\ work'[h].tx = work[h].tx
                 /\ work'[h].mark = work[h].mark
    <2>1. CASE EditRead(h)
      BY <2>1 DEF EditRead, Step, TypeOK, Submitting
    <2>2. CASE Submit(h)
      BY <2>2 DEF Submit, Step, TypeOK, Submitting
    <2>3. CASE Search(h)
      BY <2>3 DEF Search, Onto, Step, TypeOK, Submitting
    <2>4. CASE Refuse(h) \/ RefusedMove(h) \/ Fail(h)
      BY <2>4 DEF Refuse, RefusedMove, Fail, Idle, Step, TypeOK, Submitting
    <2>5. CASE Gather(h)
      BY <2>5, GatherStep DEF Idle, Step, TypeOK, Submitting
    <2> QED  BY <2>1, <2>2, <2>3, <2>4, <2>5
  <1>5. UNCHANGED Mark(t) /\ \A u : Mark(u)' = Mark(u)
    BY <1>2 DEF Mark
  <1> QED  BY <1>1, <1>2, <1>3, <1>4, <1>5 DEF ClaimIsCurrent, Submitted, Live, Held

LEMMA ClaimingKeepsClaims ==
  ASSUME TypeOK, ClaimsAreCurrent, NEW h \in Handler, Claim(h)
  PROVE  ClaimsAreCurrent'
  <1> SUFFICES ASSUME NEW t \in Tx \ edited PROVE ClaimIsCurrent(t)'
    BY DEF ClaimsAreCurrent, Claim
  <1>1. ClaimIsCurrent(t)
    BY DEF ClaimsAreCurrent
  <1>2. work[h].op \in Submitting /\ work[h].tx \in Tx /\ work[h].mark \in Fingerprint
    BY WorkShape DEF Claim, Submitting
  <1>3. UNCHANGED <<state, buyer, invoice>>
    BY DEF Claim
  <1>4. (\A g \in Handler : g # h => work'[g] = work[g])
        /\ work'[h].op \in {"enter", "refuse"} /\ work'[h].tx = work[h].tx
        /\ work'[h].mark = work[h].mark
    BY DEF Claim, Onto, Step, TypeOK
  <1>5. \/ print' = print /\ work'[h].op = "refuse"
        \/ print'[work[h].tx] = work[h].mark
           /\ \A u \in Tx : u # work[h].tx => print'[u] = print[u]
    BY <1>2 DEF Claim, Claimed, Onto, Step, TypeOK
  <1>6. Mark(t)' = Mark(t)
    BY <1>3 DEF Mark
  <1>7. t = work[h].tx => work[h].mark = Mark(t)
    BY <1>1, <1>2 DEF ClaimIsCurrent
  <1>8. Held(t) => Held(t)'
    BY <1>2, <1>5, <1>6, <1>7 DEF Held
  <1>9. t = work[h].tx /\ work'[h].op = "enter" => Held(t)'
    BY <1>2, <1>5, <1>6, <1>7 DEF Held
  <1> QED  BY <1>1, <1>2, <1>3, <1>4, <1>6, <1>8, <1>9 DEF ClaimIsCurrent, Submitted, Live, Submitting

(* A state written by id: the request that writes it holds the fingerprint.*)
LEMMA MovesKeepClaims ==
  ASSUME TypeOK, ClaimsAreCurrent, NEW h \in Handler, Enter(h) \/ Route(h)
  PROVE  ClaimsAreCurrent'
  <1> SUFFICES ASSUME NEW t \in Tx \ edited PROVE ClaimIsCurrent(t)'
    BY DEF ClaimsAreCurrent, Enter, Route
  <1>1. ClaimIsCurrent(t)
    BY DEF ClaimsAreCurrent
  <1>2. work[h].op \in {"enter", "route"} /\ work[h].tx \in Tx
    BY WorkShape DEF Enter, Route
  <1>3. UNCHANGED <<buyer, invoice, print>> /\ \A u \in Tx : u # work[h].tx => state'[u] = state[u]
    BY <1>2, WorkShape, SetStateType, StatesAreStates DEF Enter, Route
  <1>4. (\A g \in Handler : g # h => work'[g] = work[g])
        /\ (work'[h].op = "gather" => work'[h].tx = work[h].tx)
        /\ work'[h].op \in {"gather", "idle"}
    BY DEF Enter, Route, Step, Idle, TypeOK
  <1>5. Mark(t)' = Mark(t) /\ Held(t)' = Held(t)
    BY <1>3 DEF Mark, Held
  <1>6. t = work[h].tx => Held(t)
    BY <1>1, <1>2 DEF ClaimIsCurrent
  <1>7. t # work[h].tx => Submitted(t)' = Submitted(t)
    BY <1>3 DEF Submitted, Live
  <1> QED  BY <1>1, <1>4, <1>5, <1>6, <1>7 DEF ClaimIsCurrent, Submitting

LEMMA DecisionsKeepClaims ==
  ASSUME TypeOK, ClaimsAreCurrent, NEW u \in Tx, Decisions(u)
  PROVE  ClaimsAreCurrent'
  <1>0. UNCHANGED <<buyer, invoice, print, work, edited>>
    BY DecisionStep
  <1> SUFFICES ASSUME NEW t \in Tx \ edited PROVE ClaimIsCurrent(t)'
    BY <1>0 DEF ClaimsAreCurrent
  <1>1. ClaimIsCurrent(t)
    BY DEF ClaimsAreCurrent
  <1>2. PICK s \in {"CANCELLED", "FRAUD_REVIEW", "FUNDED", "CLOSED", state[u]} :
          /\ SetState(u, s) /\ (s = "FUNDED" => state[u] \in {"FRAUD_REVIEW", "FUNDED"})
          /\ (s = "FRAUD_REVIEW" =>
                state[u] \in {"AUTOMATED_CHECKS", "UNDER_REVIEW", "FRAUD_REVIEW"})
    BY DecisionStep
  <1>3. s \in State
    BY StatesAreStates DEF TypeOK
  <1>4. state'[u] = s /\ \A v \in Tx : v # u => state'[v] = state[v]
    BY <1>2, <1>3, SetStateType
  <1>5. Submitted(t)' => Submitted(t)
    BY <1>2, <1>4 DEF Submitted, Live, KeepsFingerprintActive, Ended
  <1>6. Mark(t)' = Mark(t) /\ Held(t)' = Held(t)
    BY <1>0 DEF Mark, Held
  <1> QED  BY <1>0, <1>1, <1>5, <1>6 DEF ClaimIsCurrent

(***************************************************************************)
(* The checks always stay in somebody's hand.                              *)
(***************************************************************************)
InHand(t, h) == work[h].op \in {"gather", "route", "dead"} /\ work[h].tx = t

(* The index never refuses a request the transaction is still waiting for. *)
LEMMA LiveIsNotRefused ==
  ASSUME TypeOK, FlagFollowsState, Indexed, NEW t \in Tx, state[t] = "AUTOMATED_CHECKS",
         NEW s \in Outcome
  PROVE  Unique(print, Synced(t, s))
  <1>1. KeepsFingerprintActive(s) /\ active[t]
    BY DEF FlagFollowsState, KeepsFingerprintActive, Ended, Outcome
  <1>2. \A u \in Tx : Synced(t, s)[u] => active[u]
    BY <1>1 DEF Synced, TypeOK
  <1> QED  BY <1>2 DEF Indexed, Unique

LEMMA RequestsKeepChecks ==
  ASSUME TypeOK, FlagFollowsState, Indexed, ChecksAreInHand, NEW h \in Handler,
         NEW t \in Tx, state[t] = "AUTOMATED_CHECKS", InHand(t, h),
         Work1(h) \/ PutInvoice(h) \/ Claim(h) \/ Enter(h) \/ Route(h)
  PROVE  InHand(t, h)' \/ state'[t] # "AUTOMATED_CHECKS"
  <1>1. CASE Gather(h)
    <2>1. PICK to \in Outcome :
            IF CanTransition(state[work[h].tx], to)
              THEN Step(h, [op |-> "route", tx |-> work[h].tx, to |-> to]) ELSE Step(h, Idle)
      BY <1>1, GatherStep
    <2>2. Step(h, [op |-> "route", tx |-> t, to |-> to])
      BY <2>1, ChecksMayMove DEF InHand
    <2> QED  BY <2>2 DEF InHand, Step, TypeOK
  <1>2. CASE Route(h)
    BY <1>2, WorkShape, SetStateType, StatesAreStates DEF Route, InHand, Outcome
  <1>3. CASE RefusedMove(h)
    BY <1>3, WorkShape, LiveIsNotRefused DEF RefusedMove, InHand
  <1>4. CASE Fail(h)
    BY <1>4 DEF Fail, InHand, Step, TypeOK
  <1>5. CASE EditRead(h) \/ PutBuyer(h) \/ PutInvoice(h) \/ Submit(h) \/ Search(h) \/ Claim(h)
               \/ Refuse(h) \/ Enter(h)
    BY <1>5 DEF InHand, Idle, EditRead, PutBuyer, PutInvoice, Submit, Search, Claim, Refuse, Enter
  <1> QED  BY <1>1, <1>2, <1>3, <1>4, <1>5 DEF Work1

LEMMA ChecksKept ==
  ASSUME TypeOK, FlagFollowsState, Indexed, ChecksAreInHand, Next
  PROVE  ChecksAreInHand'
  <1> SUFFICES ASSUME NEW t \in Tx, state'[t] = "AUTOMATED_CHECKS"
               PROVE  \E h \in Handler : InHand(t, h)'
    BY DEF ChecksAreInHand, InHand
  <1>1. ASSUME NEW h \in Handler, Work1(h) \/ PutInvoice(h) \/ Claim(h) \/ Enter(h) \/ Route(h),
               state[t] = "AUTOMATED_CHECKS"
        PROVE  \E g \in Handler : InHand(t, g)'
    <2>1. PICK g \in Handler : InHand(t, g)
      BY <1>1 DEF ChecksAreInHand, InHand
    <2>2. CASE g = h
      BY <1>1, <2>1, <2>2, RequestsKeepChecks
    <2>3. CASE g # h
      <3>1. work'[g] = work[g]
        BY <1>1, <2>3, GatherStep
           DEF Work1, Step, TypeOK, EditRead, PutBuyer, PutInvoice, Submit, Search, Claim, Refuse,
               Enter, Route, RefusedMove, Fail
      <3> QED  BY <2>1, <3>1 DEF InHand
    <2> QED  BY <2>2, <2>3
  <1>2. ASSUME NEW h \in Handler, Work1(h) \/ PutInvoice(h) \/ Claim(h) \/ Enter(h) \/ Route(h),
               state[t] # "AUTOMATED_CHECKS"
        PROVE  \E g \in Handler : InHand(t, g)'
    <2>1. CASE Work1(h) \/ PutInvoice(h) \/ Claim(h)
      BY <1>2, <2>1, QuietSteps DEF PutInvoice, Claim
    <2>2. CASE Route(h)
      BY <1>2, <2>2, WorkShape, SetStateType, StatesAreStates DEF Route, Outcome
    <2>3. CASE Enter(h)
      <3>1. work[h].tx = t
        BY <1>2, <2>3, WorkShape, SetStateType, StatesAreStates DEF Enter
      <3> QED  BY <2>3, <3>1 DEF Enter, InHand, Step, TypeOK
    <2> QED  BY <1>2, <2>1, <2>2, <2>3
  <1>3. ASSUME NEW u \in Tx, Decisions(u) PROVE \E g \in Handler : InHand(t, g)'
    <2>1. PICK s \in {"CANCELLED", "FRAUD_REVIEW", "FUNDED", "CLOSED", state[u]} : SetState(u, s)
      BY <1>3, DecisionStep
    <2>2. s \in State
      BY StatesAreStates DEF TypeOK
    <2>3. state[t] = "AUTOMATED_CHECKS"
      BY <2>1, <2>2, SetStateType
    <2>4. UNCHANGED work
      BY <1>3, DecisionStep
    <2> QED  BY <2>3, <2>4 DEF ChecksAreInHand, InHand
  <1> QED  BY NextSteps, <1>1, <1>2, <1>3 DEF Work1

(***************************************************************************)
(* The theorems.                                                           *)
(***************************************************************************)
LEMMA ClaimsKept ==
  ASSUME TypeOK, NeverAsked, Entered, ClaimsAreCurrent, Next
  PROVE  ClaimsAreCurrent'
  BY NextSteps, EditsKeepClaims, ReadsKeepClaims, ClaimingKeepsClaims, MovesKeepClaims,
     DecisionsKeepClaims

LEMMA InvHolds == Spec => []Inv
  <1>1. Inv /\ [Next]_vars /\ TypeOK' => Inv'
    <2> SUFFICES ASSUME Inv, [Next]_vars, TypeOK' PROVE Inv'
      OBVIOUS
    <2>1. CASE Next
      BY <2>1, FlagKept, IndexKept, NeverAskedKept, EnteredKept, ClaimsKept, ChecksKept DEF Inv
    <2>2. CASE UNCHANGED vars
      BY <2>2 DEF vars, Inv, FlagFollowsState, Indexed, Unique, NeverAsked, Entered,
           ClaimsAreCurrent, ClaimIsCurrent, Submitted, Live, Held, Mark, ChecksAreInHand
    <2> QED  BY <2>1, <2>2
  <1> QED  BY InitInv, TypeCorrect, <1>1, PTL DEF Spec

(* No two transactions that have not ended hold the same fingerprint,      *)
(* though stale requests bring ended ones back.                            *)
THEOREM OneLivePrintHolds == Spec => []OneLivePrint
  <1>1. Inv => OneLivePrint
    BY DEF Inv, OneLivePrint, FlagFollowsState, Indexed, Unique, Live
  <1> QED  BY InvHolds, <1>1, PTL

(* Of two transactions with the same buyer and invoice at most one goes    *)
(* on, unless one was edited while it was being submitted.                 *)
THEOREM ReceivableFinancedOnce == Spec => []FinancedOnce
  <1>1. Inv => FinancedOnce
    <2> SUFFICES ASSUME Inv, NEW t \in Tx \ edited, NEW u \in Tx \ edited, t # u,
                        Submitted(t), Submitted(u)
                 PROVE  Mark(t) # Mark(u)
      BY DEF FinancedOnce
    <2>1. Held(t) /\ Held(u)
      BY DEF Inv, ClaimsAreCurrent, ClaimIsCurrent
    <2>2. active[t] /\ active[u]
      BY DEF Inv, FlagFollowsState, Submitted, Live
    <2> QED  BY <2>1, <2>2 DEF Inv, Indexed, Unique, Held
  <1> QED  BY InvHolds, <1>1, PTL

(* Automated checks are always in the hand of a request that answers them  *)
(* or that died.                                                           *)
THEOREM ChecksStayInHand == Spec => []ChecksAreInHand
  <1>1. Inv => ChecksAreInHand
    BY DEF Inv
  <1> QED  BY InvHolds, <1>1, PTL
=============================================================================
