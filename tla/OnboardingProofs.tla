--------------------------- MODULE OnboardingProofs ---------------------------
(***************************************************************************)
(* Proofs about Onboarding, for any number of handlers, requests,          *)
(* registries and hours, and about the SLA clock, for any calendars,       *)
(* working hours, budget and length of the run.                            *)
(***************************************************************************)
EXTENDS MCOnboarding, Sequences, FiniteSetTheorems, WellFoundedInduction, TLAPS

USE DEF application, Goto, Idle

HandlerStep(w) ==
  \/ EnterRead(w) \/ Submit(w) \/ Retry(w)
  \/ VerifyRead(w) \/ Ask(w) \/ Route(w) \/ RouteRefused(w)
  \/ DecideRead(w) \/ Decide(w)
  \/ RespondRead(w) \/ RespondCount(w) \/ Respond(w)
  \/ Die(w)

(***************************************************************************)
(* Types.                                                                  *)
(***************************************************************************)
LEMMA MovesType ==
  ASSUME NEW s, NEW t \in Moves(s)
  PROVE  t \in Status
  BY DEF Moves, Status, Held, Waiting, Decided

LEMMA AppliedType ==
  ASSUME TypeOK, NEW e
  PROVE  Applied(clock, e, now) \in
           [started : BOOLEAN, running : BOOLEAN, stopped : BOOLEAN, since : 0..LastHour, elapsed : Int]
  <1>1. /\ clock.started \in BOOLEAN /\ clock.running \in BOOLEAN /\ clock.stopped \in BOOLEAN
        /\ clock.since \in Int /\ clock.elapsed \in Int /\ now \in 0..LastHour
    BY HourAssumption DEF TypeOK
  <1>2. Elapsed(clock, now) \in Int
    BY <1>1, HourAssumption DEF Elapsed
  <1>3. 0 \in 0..LastHour
    BY HourAssumption
  <1>4. (clock.stopped \/ e = "STOP") \in BOOLEAN
    OBVIOUS
  <1> QED  BY <1>1, <1>2, <1>3, <1>4 DEF Applied, TypeOK

LEMMA TransitionType ==
  ASSUME TypeOK, NEW s, NEW t, Transition(s, t)
  PROVE  /\ status' \in Status
         /\ org' \in {"ONBOARDING", "ACTIVE", "APPROVED_CONDITIONAL", "REJECTED"}
         /\ clock' \in [started : BOOLEAN, running : BOOLEAN, stopped : BOOLEAN,
                        since : 0..LastHour, elapsed : Int]
         /\ overtaken' \in BOOLEAN
  <1>1. status' \in Status
    BY MovesType DEF Transition
  <1>2. clock' \in [started : BOOLEAN, running : BOOLEAN, stopped : BOOLEAN,
                    since : 0..LastHour, elapsed : Int]
    BY AppliedType DEF Transition
  <1>3. overtaken' \in BOOLEAN
    BY DEF Transition, TypeOK
  <1> QED  BY <1>1, <1>2, <1>3 DEF Transition, OrganizationStatusFor, TypeOK

(* What a handler remembers has one of the shapes of Step.                 *)
LEMMA StepShape ==
  ASSUME TypeOK, NEW w \in Worker
  PROVE  /\ work[w].op \in {"enter", "decide", "ask", "respond", "answer"} => work[w].read \in Status
         /\ work[w].op = "ask" => work[w].left \subseteq Source /\ work[w].answered \subseteq Source
         /\ work[w].op \in {"respond", "answer"} => work[w].request \in Request
  BY DEF TypeOK, Step

LEMMA WorkType ==
  ASSUME TypeOK, NEW w \in Worker, HandlerStep(w)
  PROVE  work' \in [Worker -> Step]
  <1>1. work \in [Worker -> Step] /\ status \in Status
    BY DEF TypeOK
  <1>2. CASE EnterRead(w) \/ DecideRead(w)
    BY <1>1, <1>2 DEF EnterRead, DecideRead, Step
  <1>3. CASE Submit(w) \/ Retry(w) \/ Route(w) \/ RouteRefused(w) \/ Decide(w) \/ Respond(w) \/ Die(w)
    BY <1>1, <1>3 DEF Submit, Retry, Route, RouteRefused, Decide, Respond, Die, Step
  <1>4. CASE VerifyRead(w)
    BY <1>1, <1>4 DEF VerifyRead, Step
  <1>5. CASE Ask(w)
    <2>1. PICK s \in work[w].left :
          \E a \in {work[w].answered, work[w].answered \cup {s}} :
            work' = [work EXCEPT ![w] = [op |-> "ask", read |-> work[w].read,
                                         left |-> work[w].left \ {s}, answered |-> a]]
      BY <1>5 DEF Ask
    <2>3. PICK a \in {work[w].answered, work[w].answered \cup {s}} :
            work' = [work EXCEPT ![w] = [op |-> "ask", read |-> work[w].read,
                                         left |-> work[w].left \ {s}, answered |-> a]]
      BY <2>1
    <2>2. work[w].read \in Status /\ work[w].left \subseteq Source /\ a \subseteq Source
      BY <1>5, StepShape, <2>1, <2>3 DEF Ask
    <2> QED  BY <1>1, <2>3, <2>2 DEF Step
  <1>6. CASE RespondRead(w)
    BY <1>1, <1>6 DEF RespondRead, Step
  <1>7. CASE RespondCount(w)
    <2>1. work[w].read \in Status /\ work[w].request \in Request
      BY <1>7, StepShape DEF RespondCount
    <2>2. Last(work[w].request) \in BOOLEAN
      BY DEF Last
    <2> QED  BY <1>1, <1>7, <2>1, <2>2 DEF RespondCount, Step
  <1> QED  BY <1>2, <1>3, <1>4, <1>5, <1>6, <1>7 DEF HandlerStep

(* Every variable keeps its type.                                          *)
THEOREM TypeCorrect == Spec => []TypeOK
  <1>1. Init => TypeOK
    <2> SUFFICES ASSUME Init PROVE TypeOK
      OBVIOUS
    <2>1. 0 \in 0..LastHour
      BY HourAssumption
    <2>2. work \in [Worker -> Step]
      BY DEF Init, Step
    <2>3. clock \in [started : BOOLEAN, running : BOOLEAN, stopped : BOOLEAN,
                     since : 0..LastHour, elapsed : Int]
      BY <2>1 DEF Init
    <2> QED  BY <2>1, <2>2, <2>3 DEF Init, TypeOK, Status
  <1>2. TypeOK /\ [Next]_vars => TypeOK'
    <2> SUFFICES ASSUME TypeOK, [Next]_vars PROVE TypeOK'
      OBVIOUS
    <2>1. ASSUME NEW w \in Worker, HandlerStep(w) PROVE TypeOK'
      <3>1. work' \in [Worker -> Step]
        BY <2>1, WorkType
      <3>2. UNCHANGED <<adverse, now, held>>
        BY <2>1 DEF HandlerStep, EnterRead, Submit, Retry, VerifyRead, Ask, Route, RouteRefused,
                    DecideRead, Decide, RespondRead, RespondCount, Respond, Die
      <3>3. request' \in [Request -> {"NONE", "OPEN", "FULFILLED"}]
        BY <2>1 DEF HandlerStep, EnterRead, Submit, Retry, VerifyRead, Ask, Route, RouteRefused,
                    DecideRead, Decide, RespondRead, RespondCount, Respond, Die, TypeOK
      <3>4. dropped' \in BOOLEAN
        BY <2>1 DEF HandlerStep, EnterRead, Submit, Retry, VerifyRead, Ask, Route, RouteRefused,
                    DecideRead, Decide, RespondRead, RespondCount, Respond, Die, TypeOK
      <3>5. /\ status' \in Status
            /\ org' \in {"ONBOARDING", "ACTIVE", "APPROVED_CONDITIONAL", "REJECTED"}
            /\ clock' \in [started : BOOLEAN, running : BOOLEAN, stopped : BOOLEAN,
                           since : 0..LastHour, elapsed : Int]
            /\ overtaken' \in BOOLEAN
        <4>1. CASE \E s, t : Transition(s, t)
          BY <4>1, TransitionType
        <4>2. CASE UNCHANGED application
          BY <4>2 DEF TypeOK
        <4>3. CASE Submit(w)
          BY <4>3, AppliedType DEF Submit, TypeOK, Status, Held
        <4> QED  BY <2>1, <4>1, <4>2, <4>3
                 DEF HandlerStep, EnterRead, Retry, VerifyRead, Ask, Route, RouteRefused,
                     DecideRead, Decide, RespondRead, RespondCount, Respond, Die
      <3> QED  BY <3>1, <3>2, <3>3, <3>4, <3>5 DEF TypeOK
    <2>2. CASE Tick
      BY <2>2, HourAssumption DEF Tick, TypeOK
    <2>3. CASE UNCHANGED vars
      BY <2>3 DEF vars, TypeOK
    <2> QED  BY <2>1, <2>2, <2>3 DEF Next, HandlerStep
  <1> QED  BY <1>1, <1>2, PTL DEF Spec

(***************************************************************************)
(* The clock.  It runs only while the platform holds the case, because     *)
(* every transition into a status the platform waits in, or is done in,    *)
(* pauses or stops it in the same transaction, whatever was overwritten.   *)
(***************************************************************************)
Reckoning ==
  [started : BOOLEAN, running : BOOLEAN, stopped : BOOLEAN, since : 0..LastHour, elapsed : Int]

Running(c, at) == c.running => c.started /\ ~c.stopped /\ c.since <= at

ClockInv ==
  /\ Running(clock, now)
  /\ clock.running => status \in Held
  /\ Elapsed(clock, now) <= held
  /\ ~overtaken => /\ Elapsed(clock, now) = held
                   /\ clock.running <=> status \in Held
                   /\ clock.stopped => status \in Decided
                   /\ clock.started <=> status # "DRAFT"

(* An event never changes what has elapsed.                                *)
LEMMA AppliedKeeps ==
  ASSUME NEW c \in Reckoning, NEW at \in 0..LastHour, NEW e, Running(c, at)
  PROVE  Elapsed(Applied(c, e, at), at) = Elapsed(c, at) /\ Running(Applied(c, e, at), at)
  <1>1. /\ c.running \in BOOLEAN /\ c.since \in Int /\ c.elapsed \in Int /\ at \in Int
        /\ c.started \in BOOLEAN /\ c.stopped \in BOOLEAN
    BY HourAssumption DEF Reckoning
  <1>2. CASE e \in {"START", "RESUME"}
    BY <1>1, <1>2 DEF Applied, Elapsed, Running
  <1>3. CASE e \in {"PAUSE", "STOP"}
    BY <1>1, <1>3 DEF Applied, Elapsed, Running
  <1>4. CASE e \notin {"START", "RESUME", "PAUSE", "STOP"}
    <2>1. Applied(c, e, at) = c
      BY <1>4 DEF Applied
    <2> QED  BY <2>1
  <1> QED  BY <1>2, <1>3, <1>4

(* Which event a transition implies.                                       *)
LEMMA EventOf ==
  ASSUME NEW s, NEW t \in Moves(s), t # "SUBMITTED"
  PROVE  /\ s # "DRAFT" /\ t # "DRAFT"
         /\ t \in Waiting => ClockEvent(s, t) = "PAUSE"
         /\ t \in Decided => ClockEvent(s, t) = "STOP"
         /\ (t \in Held /\ s \in Waiting) => ClockEvent(s, t) = "RESUME"
         /\ (t \in Held /\ s \notin Waiting) => (ClockEvent(s, t) = "NONE" /\ s \in Held)
         /\ t \in Held \cup Waiting \cup Decided
         /\ s \notin Decided
  <1>1. s \in {"SUBMITTED", "AUTOMATED_VERIFICATION", "GOVERNMENT_SERVICE_UNAVAILABLE",
              "UNDER_REVIEW", "INFORMATION_REQUIRED", "INFORMATION_RESUBMITTED", "FINAL_REVIEW"}
    BY DEF Moves
  <1>2. CASE s \in {"SUBMITTED", "AUTOMATED_VERIFICATION"}
    BY <1>2 DEF Moves, ClockEvent, Held, Waiting, Decided
  <1>3. CASE s \in Waiting
    <2>1. \/ s = "INFORMATION_REQUIRED" /\ t \in {"INFORMATION_RESUBMITTED", "REJECTED"}
          \/ /\ s = "GOVERNMENT_SERVICE_UNAVAILABLE"
             /\ t \in {"AUTOMATED_VERIFICATION", "UNDER_REVIEW"}
      BY <1>3 DEF Moves, Waiting
    <2> QED  BY <2>1 DEF ClockEvent, Held, Waiting, Decided
  <1>4. CASE s \in {"UNDER_REVIEW", "INFORMATION_RESUBMITTED", "FINAL_REVIEW"}
    BY <1>4 DEF Moves, ClockEvent, Held, Waiting, Decided
  <1> QED  BY <1>1, <1>2, <1>3, <1>4 DEF Waiting

LEMMA TransitionClock ==
  ASSUME TypeOK, ClockInv, NEW s, NEW t, Transition(s, t), t # "SUBMITTED", UNCHANGED <<now, held>>
  PROVE  ClockInv'
  <1> DEFINE e == ClockEvent(s, t)
             c == Applied(clock, e, now)
  <1>1. clock \in Reckoning /\ now \in 0..LastHour /\ clock' = c /\ status' = t /\ t \in Moves(s)
    BY DEF TypeOK, Reckoning, Transition
  <1>2. Elapsed(c, now) = Elapsed(clock, now) /\ Running(c, now)
    BY <1>1, AppliedKeeps DEF ClockInv
  <1>4. t \in Waiting \cup Decided => ~c.running
    <2>1. t \in Waiting \cup Decided => e \in {"PAUSE", "STOP"}
      BY <1>1, EventOf
    <2> QED  BY <2>1 DEF Applied
  <1>5. ASSUME ~overtaken'
        PROVE  /\ c.running <=> t \in Held
               /\ c.stopped => t \in Decided
               /\ c.started <=> t # "DRAFT"
    <2>1. ~overtaken /\ status = s
      BY <1>5 DEF Transition
    <2>2. /\ clock.running <=> s \in Held
          /\ clock.stopped => s \in Decided
          /\ clock.started <=> s # "DRAFT"
      BY <2>1 DEF ClockInv
    <2>3. clock.started /\ ~clock.stopped
      BY <1>1, <2>2, EventOf
    <2>4. CASE t \in Waiting
      <3>1. e = "PAUSE" /\ t \notin Held /\ t \notin Decided /\ t # "DRAFT"
        BY <1>1, <2>4, EventOf DEF Waiting, Held, Decided
      <3> QED  BY <2>3, <3>1 DEF Applied
    <2>5. CASE t \in Decided
      <3>1. e = "STOP" /\ t \notin Held /\ t # "DRAFT"
        BY <1>1, <2>5, EventOf DEF Held, Decided
      <3> QED  BY <2>3, <2>5, <3>1 DEF Applied
    <2>6. CASE t \in Held /\ s \in Waiting
      <3>1. e = "RESUME" /\ s \notin Held /\ t # "DRAFT"
        BY <1>1, <2>6, EventOf DEF Held, Waiting
      <3>2. ~clock.running
        BY <2>2, <3>1
      <3> QED  BY <2>3, <2>6, <3>1, <3>2 DEF Applied
    <2>7. CASE t \in Held /\ s \notin Waiting
      <3>1. e = "NONE" /\ s \in Held /\ t # "DRAFT"
        BY <1>1, <2>7, EventOf
      <3>2. c = clock
        BY <3>1 DEF Applied
      <3> QED  BY <2>2, <2>3, <2>7, <3>1, <3>2
    <2> QED  BY <1>1, <2>4, <2>5, <2>6, <2>7, EventOf
  <1>6. t \in Held \cup Waiting \cup Decided
    BY <1>1, EventOf
  <1>7. ~overtaken' => ~overtaken
    BY DEF Transition
  <1>8. clock'.running => status' \in Held
    BY <1>1, <1>4, <1>6
  <1>9. Elapsed(clock', now') <= held' /\ (~overtaken' => Elapsed(clock', now') = held')
    BY <1>1, <1>2, <1>7 DEF ClockInv
  <1>10. Running(clock', now')
    BY <1>1, <1>2
  <1> QED  BY <1>1, <1>5, <1>8, <1>9, <1>10 DEF ClockInv

LEMMA SubmitClock ==
  ASSUME TypeOK, ClockInv, NEW w \in Worker, Submit(w)
  PROVE  ClockInv'
  <1> DEFINE c == Applied(clock, "START", now)
  <1>1. /\ clock \in Reckoning /\ now \in 0..LastHour
        /\ clock' = c /\ status' = "AUTOMATED_VERIFICATION" /\ UNCHANGED <<now, held>>
        /\ overtaken' = (overtaken \/ status # "DRAFT")
    BY DEF TypeOK, Reckoning, Submit, ClockEvent
  <1>2. Elapsed(c, now) = Elapsed(clock, now) /\ Running(c, now)
    BY <1>1, AppliedKeeps DEF ClockInv
  <1>3. status' \in Held /\ status' # "DRAFT"
    BY <1>1 DEF Held
  <1>4. ASSUME ~overtaken'
        PROVE  c.running /\ c.started /\ ~c.stopped
    <2>1. ~overtaken /\ status = "DRAFT"
      BY <1>1, <1>4
    <2>2. ~clock.started /\ ~clock.stopped
      BY <2>1 DEF ClockInv, Decided
    <2> QED  BY <2>2 DEF Applied
  <1>5. Elapsed(clock', now') <= held' /\ (~overtaken' => Elapsed(clock', now') = held')
    BY <1>1, <1>2 DEF ClockInv
  <1> QED  BY <1>1, <1>2, <1>3, <1>4, <1>5 DEF ClockInv

LEMMA TickClock ==
  ASSUME TypeOK, ClockInv, Tick
  PROVE  ClockInv'
  <1>1. /\ clock.running \in BOOLEAN /\ clock.since \in Int /\ clock.elapsed \in Int
        /\ now \in Int /\ held \in Int
    BY HourAssumption DEF TypeOK
  <1>2. UNCHANGED application /\ now' = now + 1 /\ held' = IF status \in Held THEN held + 1 ELSE held
    BY DEF Tick
  <1>3. CASE clock.running
    <2>1. status \in Held /\ Elapsed(clock, now') = Elapsed(clock, now) + 1
      BY <1>1, <1>2, <1>3 DEF ClockInv, Elapsed
    <2>2. Elapsed(clock, now) \in Int
      BY <1>1 DEF Elapsed
    <2> QED  BY <1>1, <1>2, <1>3, <2>1, <2>2 DEF ClockInv, Running
  <1>4. CASE ~clock.running
    <2>1. Elapsed(clock, now') = Elapsed(clock, now) /\ Elapsed(clock, now) \in Int
      BY <1>1, <1>2, <1>4 DEF Elapsed
    <2> QED  BY <1>1, <1>2, <1>4, <2>1 DEF ClockInv, Running
  <1> QED  BY <1>3, <1>4

LEMMA ClockKept ==
  ASSUME TypeOK, ClockInv, [Next]_vars
  PROVE  ClockInv'
  <1>1. ASSUME NEW w \in Worker, HandlerStep(w) PROVE ClockInv'
    <2>1. CASE Submit(w)
      BY <2>1, SubmitClock
    <2>2. UNCHANGED <<now, held>>
      BY <1>1 DEF HandlerStep, EnterRead, Submit, Retry, VerifyRead, Ask, Route, RouteRefused,
                  DecideRead, Decide, RespondRead, RespondCount, Respond, Die
    <2>3. CASE \E s, t : Transition(s, t) /\ t # "SUBMITTED"
      BY <2>2, <2>3, TransitionClock
    <2>4. CASE UNCHANGED application
      BY <2>2, <2>4 DEF ClockInv
    <2>5. RouteOf(work[w].answered) # "SUBMITTED" /\ \A t \in Decided : t # "SUBMITTED"
      BY DEF RouteOf, Decided
    <2> QED  BY <1>1, <2>1, <2>3, <2>4, <2>5
             DEF HandlerStep, EnterRead, Retry, VerifyRead, Ask, Route, RouteRefused,
                 DecideRead, Decide, RespondRead, RespondCount, Respond, Die
  <1>2. CASE Tick
    BY <1>2, TickClock
  <1>3. CASE UNCHANGED vars
    BY <1>3 DEF vars, ClockInv
  <1> QED  BY <1>1, <1>2, <1>3 DEF Next, HandlerStep

(* The clock charges at most the hours the platform held the case, and     *)
(* exactly those unless a stale status was written.                        *)
THEOREM ClockAlwaysHonest == Spec => []ClockIsHonest
  <1>1. Init => ClockInv
    BY DEF Init, ClockInv, Running, Elapsed, Held
  <1>2. TypeOK /\ ClockInv /\ [Next]_vars => ClockInv'
    BY ClockKept
  <1>3. ClockInv => ClockIsHonest
    BY DEF ClockInv, ClockIsHonest
  <1> QED  BY <1>1, <1>2, <1>3, TypeCorrect, PTL DEF Spec
-----------------------------------------------------------------------------
(***************************************************************************)
(* Verification.  Whoever put the application there reads it there, and    *)
(* the route taken from there is always allowed.                           *)
(***************************************************************************)
VerifiedBy(w) ==
  work[w].op = "verify" \/ (work[w].op = "ask" /\ work[w].read = "AUTOMATED_VERIFICATION")

LEMMA RouteAllowed ==
  ASSUME NEW answered
  PROVE  /\ RouteOf(answered) \in Moves("AUTOMATED_VERIFICATION")
         /\ RouteOf(answered) # "AUTOMATED_VERIFICATION"
  BY DEF RouteOf, Moves

LEMMA VerificationKept ==
  ASSUME TypeOK, VerificationIsInHand, [Next]_vars
  PROVE  VerificationIsInHand'
  <1> SUFFICES ASSUME status' = "AUTOMATED_VERIFICATION", ~dropped'
               PROVE  \E v \in Worker : VerifiedBy(v)'
    BY DEF VerificationIsInHand, VerifiedBy
  <1>1. ASSUME NEW w \in Worker, HandlerStep(w) PROVE \E v \in Worker : VerifiedBy(v)'
    <2>1. /\ work \in [Worker -> Step]
          /\ \E s : work' = [work EXCEPT ![w] = s]
      BY <1>1 DEF TypeOK, HandlerStep, EnterRead, Submit, Retry, VerifyRead, Ask, Route,
                  RouteRefused, DecideRead, Decide, RespondRead, RespondCount, Respond, Die, Goto
    <2>2. \A v \in Worker \ {w} : work'[v] = work[v]
      BY <2>1
    <2>3. CASE Submit(w) \/ Retry(w)
      <3>1. work'[w] = [op |-> "verify"]
        BY <2>1, <2>3 DEF Submit, Retry, Goto
      <3> QED  BY <3>1 DEF VerifiedBy
    <2>4. CASE VerifyRead(w)
      <3>1. work'[w] = [op |-> "ask", read |-> status, left |-> Source, answered |-> {}]
        BY <2>1, <2>4 DEF VerifyRead, Goto
      <3>2. status = "AUTOMATED_VERIFICATION"
        BY <2>4 DEF VerifyRead, application
      <3> QED  BY <3>1, <3>2 DEF VerifiedBy
    <2>5. CASE Ask(w)
      <3>1. /\ work[w].op = "ask" /\ work'[w].op = "ask" /\ work'[w].read = work[w].read
            /\ UNCHANGED <<status, dropped>>
        BY <2>1, <2>5 DEF Ask, Goto, application
      <3>2. PICK v \in Worker : VerifiedBy(v)
        BY <3>1 DEF VerificationIsInHand, VerifiedBy
      <3>3. CASE v = w
        BY <3>1, <3>2, <3>3 DEF VerifiedBy
      <3>4. CASE v # w
        BY <2>2, <3>2, <3>4 DEF VerifiedBy
      <3> QED  BY <3>3, <3>4
    <2>6. ASSUME UNCHANGED status, ~dropped, ~VerifiedBy(w)
          PROVE  \E v \in Worker : VerifiedBy(v)'
      <3>1. PICK v \in Worker : VerifiedBy(v)
        BY <2>6 DEF VerificationIsInHand, VerifiedBy
      <3> QED  BY <2>2, <2>6, <3>1 DEF VerifiedBy
    <2>7. CASE Route(w) \/ Decide(w) \/ Respond(w)
      <3>1. CASE Route(w)
        BY <3>1, RouteAllowed DEF Route, Transition
      <3>2. CASE Decide(w)
        BY <3>2 DEF Decide, Transition, Decided
      <3>3. CASE Respond(w)
        <4>1. work[w].op = "answer" /\ UNCHANGED <<status, dropped>>
          BY <3>3 DEF Respond, Transition, application
        <4> QED  BY <2>6, <4>1 DEF VerifiedBy
      <3> QED  BY <2>7, <3>1, <3>2, <3>3
    <2>8. CASE RouteRefused(w)
      <3>1. ~VerifiedBy(w)
        BY <2>8, RouteAllowed DEF RouteRefused, VerifiedBy
      <3> QED  BY <2>6, <2>8, <3>1 DEF RouteRefused, application
    <2>9. CASE Die(w)
      <3>1. ~VerifiedBy(w) /\ ~dropped /\ UNCHANGED status
        BY <2>9 DEF Die, VerifiedBy, application
      <3> QED  BY <2>6, <3>1
    <2>10. CASE EnterRead(w) \/ DecideRead(w) \/ RespondRead(w) \/ RespondCount(w)
      <3>1. ~VerifiedBy(w) /\ UNCHANGED <<status, dropped>>
        BY <2>10 DEF EnterRead, DecideRead, RespondRead, RespondCount, VerifiedBy, Idle, application
      <3> QED  BY <2>6, <3>1
    <2> QED  BY <1>1, <2>3, <2>4, <2>5, <2>7, <2>8, <2>9, <2>10 DEF HandlerStep
  <1>2. CASE Tick \/ UNCHANGED vars
    <2>1. UNCHANGED <<status, work, dropped>>
      BY <1>2 DEF Tick, vars, application
    <2> QED  BY <2>1 DEF VerificationIsInHand, VerifiedBy
  <1> QED  BY <1>1, <1>2 DEF Next, HandlerStep

(* No application stays in automated verification with nobody verifying    *)
(* it, unless the request that was died.                                   *)
THEOREM VerificationStaysInHand == Spec => []VerificationIsInHand
  <1>1. Init => VerificationIsInHand
    BY DEF Init, VerificationIsInHand
  <1> QED  BY <1>1, VerificationKept, TypeCorrect, PTL DEF Spec
-----------------------------------------------------------------------------
(***************************************************************************)
(* Information.  Unless a stale status was written, at most one request is *)
(* open, it is open exactly while the supplier is waited for or has been   *)
(* refused, and the one answer under way is the last.                      *)
(***************************************************************************)
AnswerInv ==
  /\ \A v, w \in Worker :
       work[v].op = "answer" /\ work[w].op = "answer" /\ work[v].request = work[w].request => v = w
  /\ \A w \in Worker : work[w].op = "answer" => request[work[w].request] = "OPEN"
  /\ \A w \in Worker : work[w].op \in {"respond", "answer"} => request[work[w].request] # "NONE"
  /\ ~overtaken =>
       /\ \A q, r \in Open : q = r
       /\ status = "INFORMATION_REQUIRED" => Open # {}
       /\ Open # {} => status \in {"INFORMATION_REQUIRED", "REJECTED"}
       /\ \A w \in Worker :
            work[w].op \in {"respond", "answer"} /\ request[work[w].request] = "OPEN" =>
              /\ work[w].read \in {"INFORMATION_REQUIRED", "REJECTED"}
              /\ work[w].read = "REJECTED" => status = "REJECTED"
       /\ \A w \in Worker : work[w].op = "answer" => work[w].last

(* A step that answers nothing, and that moves the application only out of *)
(* a status in which nothing is open, or refuses it.                       *)
LEMMA NothingAnswered ==
  ASSUME AnswerInv, NEW w \in Worker,
         \A v \in Worker \ {w} : work'[v] = work[v],
         work'[w].op \notin {"respond", "answer"},
         request' = request,
         ~overtaken' => /\ ~overtaken
                        /\ \/ status' = status
                           \/ status' = "REJECTED"
                           \/ /\ status \notin {"INFORMATION_REQUIRED", "REJECTED"}
                              /\ status' # "INFORMATION_REQUIRED"
  PROVE  AnswerInv'
  <1>1. Open' = Open
    BY DEF Open
  <1>2. \A v \in Worker : work'[v].op \in {"respond", "answer"} => v # w /\ work'[v] = work[v]
    OBVIOUS
  <1>3. /\ (\A u, v \in Worker :
              work[u].op = "answer" /\ work[v].op = "answer" /\ work[u].request = work[v].request
                => u = v)'
        /\ (\A v \in Worker : work[v].op = "answer" => request[work[v].request] = "OPEN")'
        /\ (\A v \in Worker :
              work[v].op \in {"respond", "answer"} => request[work[v].request] # "NONE")'
    BY <1>2 DEF AnswerInv
  <1>4. ASSUME ~overtaken'
        PROVE  /\ \A q, r \in Open : q = r
               /\ status' = "INFORMATION_REQUIRED" => Open # {}
               /\ Open # {} => status' \in {"INFORMATION_REQUIRED", "REJECTED"}
    BY <1>4 DEF AnswerInv
  <1>5. ASSUME ~overtaken', NEW v \in Worker
        PROVE  /\ work'[v].op \in {"respond", "answer"} /\ request[work'[v].request] = "OPEN" =>
                    /\ work'[v].read \in {"INFORMATION_REQUIRED", "REJECTED"}
                    /\ work'[v].read = "REJECTED" => status = "REJECTED"
               /\ work'[v].op = "answer" => work'[v].last
    BY <1>2, <1>5 DEF AnswerInv
  <1>6. ASSUME ~overtaken', status = "REJECTED" PROVE status' = "REJECTED"
    BY <1>6
  <1> QED  BY <1>1, <1>3, <1>4, <1>5, <1>6 DEF AnswerInv

(* No status is reached from REJECTED, and none but the reviewer's ask     *)
(* leads to INFORMATION_REQUIRED.                                          *)
LEMMA MoveFrom ==
  ASSUME NEW read, NEW to \in Moves(read)
  PROVE  /\ read # "REJECTED"
         /\ read = "INFORMATION_REQUIRED" => to \in {"INFORMATION_RESUBMITTED", "REJECTED"}
  BY DEF Moves

LEMMA AnswerKeptByHandler ==
  ASSUME TypeOK, AnswerInv, NEW w \in Worker, HandlerStep(w)
  PROVE  AnswerInv'
  <1>1. work \in [Worker -> Step] /\ \E s : work' = [work EXCEPT ![w] = s]
    BY DEF TypeOK, HandlerStep, EnterRead, Submit, Retry, VerifyRead, Ask, Route,
           RouteRefused, DecideRead, Decide, RespondRead, RespondCount, Respond, Die, Goto
  <1>2. \A v \in Worker \ {w} : work'[v] = work[v]
    BY <1>1
  <1>3. CASE EnterRead(w) \/ VerifyRead(w) \/ Ask(w) \/ RouteRefused(w) \/ DecideRead(w) \/ Die(w)
    <2>1. work'[w].op \notin {"respond", "answer"} /\ UNCHANGED <<application, request>>
      <3>1. CASE Ask(w)
        BY <1>1, <3>1 DEF Ask, Goto
      <3>2. CASE EnterRead(w) \/ VerifyRead(w) \/ DecideRead(w)
        BY <1>1, <3>2 DEF EnterRead, VerifyRead, DecideRead, Goto
      <3>3. CASE RouteRefused(w) \/ Die(w)
        BY <1>1, <3>3 DEF RouteRefused, Die, Goto, Idle
      <3> QED  BY <1>3, <3>1, <3>2, <3>3
    <2> QED  BY <1>2, <2>1, NothingAnswered DEF application
  <1>4. CASE Submit(w) \/ Retry(w) \/ Route(w)
    <2>1. work'[w].op \notin {"respond", "answer"} /\ UNCHANGED request
      BY <1>1, <1>4 DEF Submit, Retry, Route, Goto, Idle
    <2>2. CASE Submit(w)
      BY <1>2, <2>1, <2>2, NothingAnswered DEF Submit
    <2>3. CASE Retry(w)
      BY <1>2, <2>1, <2>3, NothingAnswered DEF Retry, Transition
    <2>4. CASE Route(w)
      <3>1. PICK s : Transition(s, RouteOf(work[w].answered))
        BY <2>4 DEF Route
      <3>2. RouteOf(work[w].answered) \in {"GOVERNMENT_SERVICE_UNAVAILABLE", "REJECTED", "UNDER_REVIEW"}
        BY DEF RouteOf
      <3> QED  BY <1>2, <2>1, <3>1, <3>2, MoveFrom, NothingAnswered DEF Transition
    <2> QED  BY <1>4, <2>2, <2>3, <2>4
  <1>5. CASE Decide(w)
    <2>1. work'[w].op \notin {"respond", "answer"}
      BY <1>1, <1>5 DEF Decide, Goto, Idle
    <2>2. CASE UNCHANGED request /\ \E to \in Decided : Transition(work[w].read, to)
      <3>1. PICK to \in Decided : Transition(work[w].read, to)
        BY <2>2
      <3> QED  BY <1>2, <2>1, <2>2, <3>1, MoveFrom, NothingAnswered DEF Transition, Decided
    <2>3. ASSUME Transition(work[w].read, "INFORMATION_REQUIRED"), NEW r \in Request,
                 request[r] = "NONE", request' = [request EXCEPT ![r] = "OPEN"]
          PROVE  AnswerInv'
      <3>1. /\ request \in [Request -> {"NONE", "OPEN", "FULFILLED"}]
            /\ request'[r] = "OPEN" /\ \A q \in Request \ {r} : request'[q] = request[q]
        BY <2>3 DEF TypeOK
      <3>2. \A v \in Worker : work'[v].op \in {"respond", "answer"} =>
              /\ v # w /\ work'[v] = work[v]
              /\ work[v].request \in Request /\ work[v].request # r
        BY <1>2, <2>1, <2>3, StepShape DEF AnswerInv
      <3>3. /\ (\A u, v \in Worker :
                  work[u].op = "answer" /\ work[v].op = "answer" /\ work[u].request = work[v].request
                    => u = v)'
            /\ (\A v \in Worker : work[v].op = "answer" => request[work[v].request] = "OPEN")'
            /\ (\A v \in Worker :
                  work[v].op \in {"respond", "answer"} => request[work[v].request] # "NONE")'
        BY <3>1, <3>2 DEF AnswerInv
      <3>4. Open' = Open \cup {r}
        BY <3>1 DEF Open
      <3>5. ASSUME ~overtaken' PROVE ~overtaken /\ Open = {}
        BY <2>3, <3>5, MoveFrom DEF Transition, AnswerInv
      <3>6. status' = "INFORMATION_REQUIRED"
        BY <2>3 DEF Transition
      <3>7. ASSUME ~overtaken', NEW v \in Worker, work'[v].op \in {"respond", "answer"}
            PROVE  request'[work'[v].request] # "OPEN" /\ work'[v].op # "answer"
        BY <3>1, <3>2, <3>5, <3>7 DEF AnswerInv, Open
      <3> QED  BY <3>3, <3>4, <3>5, <3>6, <3>7 DEF AnswerInv
    <2> QED  BY <1>5, <2>2, <2>3 DEF Decide
  <1>6. CASE RespondRead(w)
    <2>1. PICK r \in Request :
            request[r] = "OPEN" /\ work' = [work EXCEPT ![w] = [op |-> "respond", read |-> status,
                                                               request |-> r]]
      BY <1>6 DEF RespondRead, Goto
    <2>2. work'[w] = [op |-> "respond", read |-> status, request |-> r]
      BY <1>1, <2>1
    <2>3. UNCHANGED <<status, request, overtaken>> /\ r \in Open /\ Open' = Open
      BY <1>6, <2>1 DEF RespondRead, application, Open
    <2>4. /\ (\A u, v \in Worker :
                work[u].op = "answer" /\ work[v].op = "answer" /\ work[u].request = work[v].request
                  => u = v)'
          /\ (\A v \in Worker : work[v].op = "answer" => request[work[v].request] = "OPEN")'
          /\ (\A v \in Worker :
                work[v].op \in {"respond", "answer"} => request[work[v].request] # "NONE")'
      BY <1>2, <2>1, <2>2, <2>3 DEF AnswerInv
    <2>5. ASSUME ~overtaken, NEW v \in Worker
          PROVE  /\ work'[v].op \in {"respond", "answer"} /\ request[work'[v].request] = "OPEN" =>
                      /\ work'[v].read \in {"INFORMATION_REQUIRED", "REJECTED"}
                      /\ work'[v].read = "REJECTED" => status = "REJECTED"
                 /\ work'[v].op = "answer" => work'[v].last
      <3>1. CASE v = w
        BY <2>2, <2>3, <2>5, <3>1 DEF AnswerInv
      <3>2. CASE v # w
        BY <1>2, <2>5, <3>2 DEF AnswerInv
      <3> QED  BY <3>1, <3>2
    <2> QED  BY <2>3, <2>4, <2>5 DEF AnswerInv
  <1>7. CASE RespondCount(w)
    <2> DEFINE r == work[w].request
    <2>1. /\ work[w].op = "respond" /\ request[r] = "OPEN" /\ r \in Request
          /\ work'[w] = [op |-> "answer", read |-> work[w].read, request |-> r, last |-> Last(r)]
          /\ \A v \in Worker : work[v].op = "answer" => work[v].request # r
      BY <1>1, <1>7, StepShape DEF RespondCount, Goto
    <2>2. UNCHANGED <<status, request, overtaken>> /\ r \in Open /\ Open' = Open
      BY <1>7, <2>1 DEF RespondCount, application, Open
    <2>3. /\ (\A u, v \in Worker :
                work[u].op = "answer" /\ work[v].op = "answer" /\ work[u].request = work[v].request
                  => u = v)'
          /\ (\A v \in Worker : work[v].op = "answer" => request[work[v].request] = "OPEN")'
          /\ (\A v \in Worker :
                work[v].op \in {"respond", "answer"} => request[work[v].request] # "NONE")'
      BY <1>2, <2>1, <2>2 DEF AnswerInv
    <2>4. ASSUME ~overtaken, NEW v \in Worker
          PROVE  /\ work'[v].op \in {"respond", "answer"} /\ request[work'[v].request] = "OPEN" =>
                      /\ work'[v].read \in {"INFORMATION_REQUIRED", "REJECTED"}
                      /\ work'[v].read = "REJECTED" => status = "REJECTED"
                 /\ work'[v].op = "answer" => work'[v].last
      <3>1. CASE v = w
        <4>1. Last(r)
          BY <2>2, <2>4 DEF AnswerInv, Last
        <4> QED  BY <2>1, <2>4, <3>1, <4>1 DEF AnswerInv
      <3>2. CASE v # w
        BY <1>2, <2>4, <3>2 DEF AnswerInv
      <3> QED  BY <3>1, <3>2
    <2> QED  BY <2>2, <2>3, <2>4 DEF AnswerInv
  <1>8. CASE Respond(w)
    <2> DEFINE r == work[w].request
    <2>1. /\ work[w].op = "answer" /\ r \in Request /\ request[r] = "OPEN"
          /\ request' = [request EXCEPT ![r] = "FULFILLED"]
          /\ work'[w].op \notin {"respond", "answer"}
      BY <1>1, <1>8, StepShape DEF Respond, Goto, Idle, AnswerInv
    <2>2. /\ request'[r] = "FULFILLED" /\ \A q \in Request \ {r} : request'[q] = request[q]
          /\ Open' = Open \ {r} /\ r \in Open
      BY <2>1 DEF TypeOK, Open
    <2>3. \A v \in Worker : work'[v].op \in {"respond", "answer"} =>
            v # w /\ work'[v] = work[v] /\ work[v].request \in Request
      BY <1>2, <2>1, StepShape
    <2>4. /\ (\A u, v \in Worker :
                work[u].op = "answer" /\ work[v].op = "answer" /\ work[u].request = work[v].request
                  => u = v)'
          /\ (\A v \in Worker : work[v].op = "answer" => request[work[v].request] = "OPEN")'
          /\ (\A v \in Worker :
                work[v].op \in {"respond", "answer"} => request[work[v].request] # "NONE")'
      <3>1. \A v \in Worker : v # w /\ work[v].op = "answer" => work[v].request # r
        BY <2>1 DEF AnswerInv
      <3> QED  BY <2>1, <2>2, <2>3, <3>1 DEF AnswerInv
    <2>5. ASSUME ~overtaken'
          PROVE  Open' = {} /\ status' # "INFORMATION_REQUIRED"
      <3>1. ~overtaken
        BY <1>8, <2>5 DEF Respond, Transition, application
      <3>2. Open' = {}
        BY <2>2, <3>1 DEF AnswerInv
      <3>3. /\ work[w].read \in {"INFORMATION_REQUIRED", "REJECTED"} /\ work[w].last
            /\ work[w].read = "REJECTED" => status = "REJECTED"
        BY <2>1, <3>1 DEF AnswerInv
      <3>4. status' # "INFORMATION_REQUIRED"
        BY <1>8, <3>3 DEF Respond, Transition, application
      <3> QED  BY <3>2, <3>4
    <2>6. ASSUME ~overtaken', NEW v \in Worker, work'[v].op \in {"respond", "answer"}
          PROVE  request'[work'[v].request] # "OPEN" /\ work'[v].op # "answer"
      BY <2>3, <2>4, <2>5, <2>6 DEF Open
    <2> QED  BY <2>4, <2>5, <2>6 DEF AnswerInv
  <1> QED  BY <1>3, <1>4, <1>5, <1>6, <1>7, <1>8 DEF HandlerStep

(* An application nobody overtook waits for information exactly when there *)
(* is a request the supplier can answer, or is refused with one open.      *)
THEOREM WaitingIsAnswerable == Spec => []AnswerableWhileWaiting
  <1>1. Init => AnswerInv
    BY DEF Init, AnswerInv, Open, Idle
  <1>2. TypeOK /\ AnswerInv /\ [Next]_vars => AnswerInv'
    <2> SUFFICES ASSUME TypeOK, AnswerInv, [Next]_vars PROVE AnswerInv'
      OBVIOUS
    <2>1. CASE Tick \/ UNCHANGED vars
      <3>1. UNCHANGED <<status, work, request, overtaken>>
        BY <2>1 DEF Tick, vars, application
      <3> QED  BY <3>1 DEF AnswerInv, Open
    <2>2. CASE \E w \in Worker : HandlerStep(w)
      BY <2>2, AnswerKeptByHandler
    <2> QED  BY <2>1, <2>2 DEF Next, HandlerStep
  <1>3. AnswerInv => AnswerableWhileWaiting
    BY DEF AnswerInv, AnswerableWhileWaiting
  <1> QED  BY <1>1, <1>2, <1>3, TypeCorrect, PTL DEF Spec

(***************************************************************************)
(* The SLA clock.  First, a number reached by counting: an induction whose *)
(* base and step are in the lemmas' hypotheses.                            *)
(***************************************************************************)
(* A set of numbers has a least one.                                       *)
LEMMA LeastExists ==
  ASSUME NEW S, S \subseteq Nat, S # {}
  PROVE  \E m \in S : \A s \in S : m <= s
  <1>1. PICK m \in S : \A s \in S : <<s, m>> \notin OpToRel(<, Nat)
    BY NatLessThanWellFounded, WFMin
  <1>2. ASSUME NEW s \in S, s < m
        PROVE  FALSE
    <2>1. <<s, m>> \in {p \in Nat \X Nat : p[1] < p[2]}
      BY <1>2
    <2>2. OpToRel(<, Nat) = {p \in Nat \X Nat : p[1] < p[2]}
      BY ZenonT(20) DEF OpToRel
    <2> QED  BY <1>1, <2>1, <2>2
  <1> QED  BY <1>2

(* Induction up to N, for a set.                                           *)
LEMMA Reaches ==
  ASSUME NEW N \in Nat, NEW S, 0 \in S, \A n \in 0..N : n < N /\ n \in S => n + 1 \in S
  PROVE  0..N \subseteq S
  <1> DEFINE bad == {n \in 0..N : n \notin S}
  <1>1. ASSUME bad # {}
        PROVE  FALSE
    <2>1. PICK m \in bad : \A n \in bad : m <= n
      <3>1. bad \subseteq Nat
        OBVIOUS
      <3> HIDE DEF bad
      <3> QED  BY <1>1, <3>1, LeastExists
    <2>2. m # 0 /\ m \in 0..N /\ m - 1 \in 0..N /\ m - 1 \notin bad
      BY <2>1
    <2>3. m - 1 \in S
      BY <2>2
    <2>4. (m - 1) + 1 \in S
      BY <2>2, <2>3
    <2> QED  BY <2>1, <2>2, <2>4
  <1> QED  BY <1>1

(***************************************************************************)
(* Days and hours of a wall clock.                                         *)
(***************************************************************************)
(* A reading comes before hour k of day d if it is of an earlier day, or   *)
(* of that day and an earlier hour.                                        *)
LEMMA DayQuotient ==
  ASSUME NEW w \in Int
  PROVE  /\ w \div DayTicks \in Int /\ w % DayTicks \in 0..(DayTicks - 1)
         /\ \A d \in Int, k \in 0..(DayTicks - 1) :
              w < d * DayTicks + k <=>
                w \div DayTicks < d \/ (w \div DayTicks = d /\ w % DayTicks < k)
  <1> DEFINE q == w \div DayTicks
             r == w % DayTicks
  <1>0. DayTicks \in Nat /\ DayTicks > 0
    BY DayAssumption
  <1>1. q \in Int /\ r \in 0..(DayTicks - 1) /\ w = DayTicks * q + r
    BY <1>0
  <1> HIDE DEF q, r
  <1>2. ASSUME NEW d \in Int, NEW k \in 0..(DayTicks - 1)
        PROVE  w < d * DayTicks + k <=> q < d \/ (q = d /\ r < k)
    <2>1. d * DayTicks = DayTicks * d /\ DayTicks * d \in Int /\ DayTicks * q \in Int
      BY <1>0, <1>1
    <2>2. CASE q = d
      BY <1>0, <1>1, <2>1, <2>2
    <2>3. CASE q < d
      <3>1. DayTicks * (q + 1) <= DayTicks * d
        BY <1>0, <1>1, <2>3
      <3>2. DayTicks * (q + 1) = DayTicks * q + DayTicks
        BY <1>0, <1>1
      <3> QED  BY <1>0, <1>1, <2>1, <2>3, <3>1, <3>2
    <2>4. CASE d < q
      <3>1. DayTicks * (d + 1) <= DayTicks * q
        BY <1>0, <1>1, <2>4
      <3>2. DayTicks * (d + 1) = DayTicks * d + DayTicks
        BY <1>0
      <3> QED  BY <1>0, <1>1, <2>1, <2>4, <3>1, <3>2
    <2> QED  BY <1>1, <2>2, <2>3, <2>4
  <1> QED  BY <1>1, <1>2 DEF q, r

(* The time of day that an instant reads.                                  *)
Hour(c, t) == Wall(c, t) % DayTicks

(* What CalendarAssumption says of each calendar.                          *)
LEMMA CalendarIs ==
  ASSUME NEW c \in Calendar
  PROVE  /\ c.change \in Int /\ c.before \in Int /\ c.after \in Int
         /\ Regular(c)
         /\ \A t \in Int : Wall(c, t) \in Int
  <1>1. Regular(c)
    BY CalendarAssumption
  <1>2. c.change \in Int /\ c.before \in Int /\ c.after \in Int
    BY <1>1 DEF Regular
  <1> QED  BY <1>1, <1>2 DEF Wall, Offset

(* A clock that neither skips nor repeats a reading: an instant comes      *)
(* before the one that is computed from the reading exactly if it reads    *)
(* less.                                                                   *)
LEMMA Threshold ==
  ASSUME NEW c \in Calendar, NEW w \in Int, w % DayTicks \in {Opening, Closing}
  PROVE  /\ Instant(c, w) \in Int
         /\ \A t \in Int : t < Instant(c, w) <=> Wall(c, t) < w
  <1>1. c.change \in Int /\ c.before \in Int /\ c.after \in Int /\ Regular(c)
    BY CalendarIs
  <1> DEFINE old == c.change + c.before
             new == c.change + c.after
  <1>2. \/ w < old /\ w < new
        \/ w >= old /\ w >= new
    <2>1. w \notin Earlier(old, new) .. Later(old, new) - 1
      BY <1>1 DEF Regular
    <2> QED  BY <1>1, <2>1 DEF Earlier, Later
  <1>3. CASE w < old /\ w < new
    <2>1. Instant(c, w) = w - c.before /\ w - c.before < c.change
      BY <1>1, <1>3 DEF Instant, Offset
    <2> QED  BY <1>1, <1>3, <2>1 DEF Wall, Offset
  <1>4. CASE w >= old /\ w >= new
    <2>1. Instant(c, w) = w - c.after /\ w - c.after >= c.change
      BY <1>1, <1>4 DEF Instant, Offset
    <2> QED  BY <1>1, <1>4, <2>1 DEF Wall, Offset
  <1> QED  BY <1>2, <1>3, <1>4

(* Later instants are of later days, or of the same.                       *)
LEMMA Days ==
  ASSUME NEW c \in Calendar
  PROVE  /\ \A t \in Int : LocalDay(c, t) \in Int /\ Hour(c, t) \in 0..(DayTicks - 1)
         /\ \A s, t \in Int : s <= t => LocalDay(c, s) <= LocalDay(c, t)
  <1>0. c.change \in Int /\ c.before \in Int /\ c.after \in Int /\ Regular(c) /\ 0 \in 0..(DayTicks - 1)
    BY CalendarIs, DayAssumption
  <1>1. \A t \in Int : Wall(c, t) \in Int
    BY CalendarIs
  <1>2. \A w \in Int : w \div DayTicks \in Int /\ w % DayTicks \in 0..(DayTicks - 1)
    BY DayQuotient
  <1>3. \A v, w \in Int : v <= w => v \div DayTicks <= w \div DayTicks
    <2> SUFFICES ASSUME NEW v \in Int, NEW w \in Int, v <= w PROVE v \div DayTicks <= w \div DayTicks
      OBVIOUS
    <2> DEFINE d == v \div DayTicks
    <2>1. d \in Int
      BY <1>2
    <2>2. v < d * DayTicks + 0 <=> v \div DayTicks < d \/ (v \div DayTicks = d /\ v % DayTicks < 0)
      BY <1>0, <2>1, DayQuotient
    <2>3. w < d * DayTicks + 0 <=> w \div DayTicks < d \/ (w \div DayTicks = d /\ w % DayTicks < 0)
      BY <1>0, <2>1, DayQuotient
    <2>4. d * DayTicks \in Int
      BY <2>1, DayAssumption
    <2>5. ~(v < d * DayTicks + 0)
      BY <1>2, <2>1, <2>2
    <2> HIDE DEF d
    <2>6. ~(w \div DayTicks < d)
      BY <2>1, <2>3, <2>4, <2>5
    <2> QED  BY <2>6, <2>1, <1>2 DEF d
  <1>4. ASSUME NEW s \in Int, NEW t \in Int, s <= t
        PROVE  LocalDay(c, s) <= LocalDay(c, t)
    <2>1. ASSUME NEW x \in Int, NEW y \in Int, Wall(c, x) <= Wall(c, y)
          PROVE  LocalDay(c, x) <= LocalDay(c, y)
      BY <1>1, <1>3, <2>1 DEF LocalDay
    <2>2. CASE t < c.change \/ s >= c.change
      <3>1. Wall(c, s) <= Wall(c, t)
        BY <1>0, <1>4, <2>2 DEF Wall, Offset
      <3> QED  BY <2>1, <3>1
    <2>3. CASE s < c.change /\ c.change <= t
      <3>1. Wall(c, s) <= Wall(c, c.change - 1) /\ Wall(c, c.change) <= Wall(c, t) /\ c.change - 1 \in Int
        BY <1>0, <2>3 DEF Wall, Offset
      <3>2. LocalDay(c, s) <= LocalDay(c, c.change - 1) /\ LocalDay(c, c.change) <= LocalDay(c, t)
        BY <1>0, <2>1, <3>1
      <3>3. LocalDay(c, c.change - 1) <= LocalDay(c, c.change)
        BY <1>0 DEF Regular
      <3>4. \A x \in Int : LocalDay(c, x) \in Int
        BY <1>1, <1>2 DEF LocalDay
      <3> QED  BY <1>0, <3>1, <3>2, <3>3, <3>4
    <2> QED  BY <1>0, <2>2, <2>3
  <1> QED  BY <1>1, <1>2, <1>4 DEF LocalDay, Hour

(* When a day's window opens and closes.                                   *)
LEMMA Window ==
  ASSUME NEW c \in Calendar, NEW d \in Int
  PROVE  /\ Start(c, d) \in Int /\ End(c, d) \in Int
         /\ \A t \in Int :
              /\ t < Start(c, d) <=> \/ LocalDay(c, t) < d
                                     \/ LocalDay(c, t) = d /\ Hour(c, t) < Opening
              /\ t < End(c, d) <=> \/ LocalDay(c, t) < d
                                   \/ LocalDay(c, t) = d /\ Hour(c, t) < Closing
  <1>1. Opening \in 0..(DayTicks - 1) /\ Closing \in 0..(DayTicks - 1) /\ DayTicks \in Nat
    BY DayAssumption
  <1>2. ASSUME NEW k \in 0..(DayTicks - 1)
        PROVE  (d * DayTicks + k) % DayTicks = k /\ d * DayTicks + k \in Int
    <2> DEFINE w == d * DayTicks + k
    <2>1. w \in Int
      BY <1>1
    <2>2. \A e \in Int, j \in 0..(DayTicks - 1) :
            w < e * DayTicks + j <=>
              w \div DayTicks < e \/ (w \div DayTicks = e /\ w % DayTicks < j)
      BY <2>1, DayQuotient
    <2>3. w \div DayTicks \in Int /\ w % DayTicks \in 0..(DayTicks - 1)
      BY <2>1, DayQuotient
    <2>4. w < (d + 1) * DayTicks + 0 /\ ~(w < d * DayTicks + 0)
      <3>1. (d + 1) * DayTicks = d * DayTicks + DayTicks /\ d * DayTicks \in Int
        BY <1>1
      <3> QED  BY <1>1, <3>1
    <2>5. w \div DayTicks = d
      <3> HIDE DEF w
      <3>1. 0 \in 0..(DayTicks - 1) /\ d + 1 \in Int
        BY <1>1
      <3>2. w \div DayTicks < d + 1 \/ (w \div DayTicks = d + 1 /\ w % DayTicks < 0)
        BY <2>2, <2>4, <3>1
      <3>3. ~(w \div DayTicks < d)
        BY <2>2, <2>4, <3>1
      <3> QED  BY <2>3, <3>2, <3>3
    <2>6. w = DayTicks * (w \div DayTicks) + (w % DayTicks)
      BY <1>1, <2>1
    <2>7. DayTicks * d = d * DayTicks /\ d * DayTicks \in Int
      BY <1>1
    <2>8. d * DayTicks + k = d * DayTicks + (w % DayTicks)
      BY <2>5, <2>6, <2>7
    <2> HIDE DEF w
    <2>9. w % DayTicks = k
      BY <2>3, <2>7, <2>8
    <2> QED  BY <2>1, <2>9 DEF w
  <1>3. ASSUME NEW k \in {Opening, Closing}
        PROVE  /\ Instant(c, d * DayTicks + k) \in Int
               /\ \A t \in Int : t < Instant(c, d * DayTicks + k) <=>
                    \/ LocalDay(c, t) < d
                    \/ LocalDay(c, t) = d /\ Hour(c, t) < k
    <2>1. k \in 0..(DayTicks - 1)
      BY <1>1
    <2>2. (d * DayTicks + k) % DayTicks \in {Opening, Closing} /\ d * DayTicks + k \in Int
      BY <1>2, <2>1
    <2>3. /\ Instant(c, d * DayTicks + k) \in Int
          /\ \A t \in Int : t < Instant(c, d * DayTicks + k) <=> Wall(c, t) < d * DayTicks + k
      BY <2>2, Threshold
    <2>4. ASSUME NEW t \in Int
          PROVE  Wall(c, t) < d * DayTicks + k <=>
                    \/ LocalDay(c, t) < d
                    \/ LocalDay(c, t) = d /\ Hour(c, t) < k
      <3>1. Wall(c, t) \in Int
        BY CalendarIs
      <3> QED  BY <2>1, <3>1, DayQuotient DEF LocalDay, Hour
    <2> QED  BY <2>3, <2>4
  <1> QED  BY <1>3 DEF Start, End

(* A window does not end before it begins, and is over before a later      *)
(* day's.                                                                  *)
LEMMA WindowsInOrder ==
  ASSUME NEW c \in Calendar, NEW d \in Int
  PROVE  /\ Start(c, d) <= End(c, d)
         /\ \A e \in Int : d < e => End(c, d) <= Start(c, e)
         /\ \A e \in Int : d <= e => End(c, d) <= End(c, e)
  <1>0. Opening \in Nat /\ Closing \in Nat /\ Opening < Closing
    BY DayAssumption
  <1>1. \A t \in Int : LocalDay(c, t) \in Int /\ Hour(c, t) \in Int
    BY Days
  <1>2. \A e \in Int : Start(c, e) \in Int /\ End(c, e) \in Int
    BY Window
  <1>3. \A e, t \in Int :
          /\ t < Start(c, e) <=> \/ LocalDay(c, t) < e
                                 \/ LocalDay(c, t) = e /\ Hour(c, t) < Opening
          /\ t < End(c, e) <=> \/ LocalDay(c, t) < e
                               \/ LocalDay(c, t) = e /\ Hour(c, t) < Closing
    BY Window
  <1>4. Start(c, d) <= End(c, d)
    <2> DEFINE x == End(c, d)
    <2>1. x \in Int /\ ~(x < x)
      BY <1>2
    <2>2. ~(x < End(c, d))
      BY <2>1
    <2> HIDE DEF x
    <2>3. ~(x < Start(c, d))
      BY <1>0, <1>1, <1>3, <2>1, <2>2
    <2> QED  BY <1>2, <2>1, <2>3 DEF x
  <1>5. ASSUME NEW e \in Int, d < e
        PROVE  End(c, d) <= Start(c, e)
    <2> DEFINE x == Start(c, e)
    <2>1. x \in Int /\ ~(x < x)
      BY <1>2
    <2>2. ~(x < Start(c, e))
      BY <2>1
    <2> HIDE DEF x
    <2>3. /\ ~(LocalDay(c, x) < e)
          /\ x < End(c, d) => LocalDay(c, x) <= d
      <3>1. LocalDay(c, x) \in Int
        BY <1>1, <2>1
      <3> QED  BY <1>3, <2>1, <2>2, <3>1
    <2>4. ~(x < End(c, d))
      BY <1>1, <1>5, <2>1, <2>3
    <2> QED  BY <1>2, <2>1, <2>4 DEF x
  <1>6. ASSUME NEW e \in Int, d <= e
        PROVE  End(c, d) <= End(c, e)
    <2> DEFINE x == End(c, e)
    <2>1. x \in Int /\ ~(x < x)
      BY <1>2
    <2>2. ~(x < End(c, e))
      BY <2>1
    <2> HIDE DEF x
    <2>3. /\ ~(LocalDay(c, x) < e)
          /\ LocalDay(c, x) = e => ~(Hour(c, x) < Closing)
          /\ x < End(c, d) => LocalDay(c, x) < d \/ (LocalDay(c, x) = d /\ Hour(c, x) < Closing)
      BY <1>3, <2>1, <2>2
    <2>4. LocalDay(c, x) \in Int
      BY <1>1, <2>1
    <2> DEFINE y == LocalDay(c, x)
    <2> HIDE DEF y
    <2>5. ~(x < End(c, d))
      BY <1>6, <2>3, <2>4 DEF y
    <2> QED  BY <1>2, <2>1, <2>5 DEF x
  <1> QED  BY <1>4, <1>5, <1>6

(***************************************************************************)
(* A walk adds up what its days give.                                      *)
(***************************************************************************)
(* f totals the first days, up to m, of what each gives.                   *)
IsWalk(f, m, g) == f = [n \in 0..m |-> g[n] + (IF n = 0 THEN 0 ELSE f[n - 1])]

LEMMA WalkExists ==
  ASSUME NEW N \in Nat, NEW g
  PROVE  \E f : IsWalk(f, N, g)
  <1> DEFINE good == {m \in 0..N : \E f : IsWalk(f, m, g)}
  <1>1. 0 \in good
    <2> DEFINE f == [n \in 0..0 |-> g[n] + 0]
    <2>1. DOMAIN f = 0..0 /\ \A n \in 0..0 : f[n] = g[n] + (IF n = 0 THEN 0 ELSE f[n - 1])
      OBVIOUS
    <2>2. f = [n \in 0..0 |-> f[n]]
      OBVIOUS
    <2> HIDE DEF f
    <2>3. IsWalk(f, 0, g)
      BY <2>1, <2>2 DEF IsWalk
    <2> QED  BY <2>3
  <1>2. ASSUME NEW m \in 0..N, m < N, m \in good
        PROVE  m + 1 \in good
    <2>1. PICK f : IsWalk(f, m, g)
      BY <1>2
    <2>2. DOMAIN f = 0..m /\ \A n \in 0..m : f[n] = g[n] + (IF n = 0 THEN 0 ELSE f[n - 1])
      <3>1. f = [n \in 0..m |-> g[n] + (IF n = 0 THEN 0 ELSE f[n - 1])]
        BY <2>1 DEF IsWalk
      <3> DEFINE h == [n \in 0..m |-> g[n] + (IF n = 0 THEN 0 ELSE f[n - 1])]
      <3>2. DOMAIN h = 0..m /\ \A n \in 0..m : h[n] = g[n] + (IF n = 0 THEN 0 ELSE f[n - 1])
        OBVIOUS
      <3>3. f = h
        BY <3>1, Zenon
      <3> HIDE DEF h
      <3> QED  BY <3>2, <3>3
    <2> DEFINE h == [n \in 0..(m + 1) |-> IF n = m + 1 THEN g[n] + f[m] ELSE f[n]]
    <2>3. DOMAIN h = 0..(m + 1) /\ h[m + 1] = g[m + 1] + f[m] /\ \A n \in 0..m : h[n] = f[n]
      OBVIOUS
    <2>4. \A n \in 0..(m + 1) : h[n] = g[n] + (IF n = 0 THEN 0 ELSE h[n - 1])
      <3> HIDE DEF h
      <3> SUFFICES ASSUME NEW n \in 0..(m + 1)
                   PROVE  h[n] = g[n] + (IF n = 0 THEN 0 ELSE h[n - 1])
        OBVIOUS
      <3>1. CASE n = m + 1
        <4>1. n # 0 /\ n - 1 = m /\ m \in 0..m
          BY <3>1
        <4> QED  BY <2>3, <3>1, <4>1
      <3>2. CASE n = 0
        <4>1. n \in 0..m
          BY <3>2
        <4> QED  BY <2>2, <2>3, <3>2, <4>1
      <3>3. CASE n # 0 /\ n # m + 1
        <4>1. n \in 0..m /\ n - 1 \in 0..m
          BY <3>3
        <4> QED  BY <2>2, <2>3, <3>3, <4>1
      <3> QED  BY <3>1, <3>2, <3>3
    <2>5. h = [n \in 0..(m + 1) |-> h[n]]
      BY <2>3
    <2> HIDE DEF h
    <2>7. IsWalk(h, m + 1, g)
      BY <2>4, <2>5 DEF IsWalk
    <2> QED  BY <1>2, <2>7
  <1> HIDE DEF good
  <1>3. 0..N \subseteq good
    BY <1>1, <1>2, Reaches
  <1>4. N \in good
    BY <1>3
  <1> QED  BY <1>4 DEF good

(* The walk that Walked chooses.                                           *)
WalkOf(f, g) == f = [n \in DOMAIN g |-> g[n] + (IF n = 0 THEN 0 ELSE f[n - 1])]
TheWalk(g) == CHOOSE f : WalkOf(f, g)

(* There is one for every finite number of days, so Walked is what its     *)
(* definition says.                                                        *)
LEMMA WalkIs ==
  ASSUME NEW N \in Nat, NEW g, DOMAIN g = 0..N
  PROVE  \A n \in 0..N : Walked(g)[n] = g[n] + (IF n = 0 THEN 0 ELSE Walked(g)[n - 1])
  <1>1. \E f : WalkOf(f, g)
    <2>1. PICK f : IsWalk(f, N, g)
      BY WalkExists
    <2>2. WalkOf(f, g)
      BY <2>1 DEF IsWalk, WalkOf
    <2> QED  BY <2>2
  <1> DEFINE w == TheWalk(g)
  <1>2. WalkOf(w, g)
    BY <1>1 DEF TheWalk
  <1>3. Walked(g) = w
    BY DEF Walked, TheWalk, WalkOf
  <1> HIDE DEF w
  <1> DEFINE h == [n \in DOMAIN g |-> g[n] + (IF n = 0 THEN 0 ELSE w[n - 1])]
  <1>4. \A n \in 0..N : h[n] = g[n] + (IF n = 0 THEN 0 ELSE w[n - 1])
    OBVIOUS
  <1>5. w = h
    BY <1>2, Zenon DEF WalkOf
  <1> HIDE DEF h
  <1> QED  BY <1>3, <1>4, <1>5

(***************************************************************************)
(* The working time of an interval is the number of its working instants.  *)
(***************************************************************************)
(* A working instant.                                                      *)
Works(c, t) == LocalDay(c, t) \notin c.off /\ Hour(c, t) \in Opening .. Closing - 1

(* The working instants from a up to b, those of one day, and those of the *)
(* days up to one.                                                         *)
Working(c, a, b) == {t \in a .. b - 1 : Works(c, t)}
WorkingOn(c, a, b, d) == {t \in Working(c, a, b) : LocalDay(c, t) = d}
WorkingTo(c, a, b, d) == {t \in Working(c, a, b) : LocalDay(c, t) <= d}
Counted(c, a, b) == Cardinality(Working(c, a, b))

(* There are finitely many in an interval.                                 *)
LEMMA WorkingFinite ==
  ASSUME NEW c, NEW a \in Int, NEW b \in Int
  PROVE  /\ IsFiniteSet(Working(c, a, b)) /\ Counted(c, a, b) \in Nat
         /\ \A d : /\ IsFiniteSet(WorkingOn(c, a, b, d)) /\ IsFiniteSet(WorkingTo(c, a, b, d))
                  /\ Cardinality(WorkingTo(c, a, b, d)) \in Nat
  <1>1. IsFiniteSet(a .. b - 1)
    BY FS_Interval
  <1>2. \A S : S \subseteq a .. b - 1 => IsFiniteSet(S) /\ Cardinality(S) \in Nat
    BY <1>1, FS_Subset, FS_CardinalityType
  <1>3. /\ Working(c, a, b) \subseteq a .. b - 1
        /\ \A d : WorkingOn(c, a, b, d) \subseteq a .. b - 1 /\ WorkingTo(c, a, b, d) \subseteq a .. b - 1
    BY DEF Working, WorkingOn, WorkingTo
  <1> QED  BY <1>2, <1>3 DEF Counted

(* The length of an interval.                                              *)
LEMMA Length ==
  ASSUME NEW a \in Int, NEW b \in Int
  PROVE  Cardinality(a .. b - 1) = Later(0, b - a)
  <1>1. Cardinality(a .. b - 1) = IF a > b - 1 THEN 0 ELSE (b - 1) - a + 1
    BY FS_Interval
  <1> QED  BY <1>1 DEF Later

(* What one day gives.                                                     *)
LEMMA OverlapCounts ==
  ASSUME NEW c \in Calendar, NEW a \in Int, NEW b \in Int, NEW d \in Int
  PROVE  Overlap(c, a, b, d) = Cardinality(WorkingOn(c, a, b, d))
  <1>1. CASE d \in c.off
    <2>1. WorkingOn(c, a, b, d) = {}
      BY <1>1 DEF WorkingOn, Working, Works
    <2> QED  BY <1>1, <2>1, FS_EmptySet DEF Overlap, IsBusinessDay
  <1>2. CASE d \notin c.off
    <2> DEFINE s == Later(a, Start(c, d))  e == Earlier(b, End(c, d))
    <2>1. Start(c, d) \in Int /\ End(c, d) \in Int
      BY Window
    <2>2. s \in Int /\ e \in Int
      BY <2>1 DEF Later, Earlier
    <2>3. \A t \in Int : t \in s .. e - 1 <=> t \in a .. b - 1 /\ ~(t < Start(c, d)) /\ t < End(c, d)
      BY <2>1 DEF Later, Earlier
    <2>4. ASSUME NEW t \in Int
          PROVE  ~(t < Start(c, d)) /\ t < End(c, d) <=> Works(c, t) /\ LocalDay(c, t) = d
      <3>1. LocalDay(c, t) \in Int /\ Hour(c, t) \in Int
        BY Days
      <3>2. /\ t < Start(c, d) <=> \/ LocalDay(c, t) < d
                                   \/ LocalDay(c, t) = d /\ Hour(c, t) < Opening
            /\ t < End(c, d) <=> \/ LocalDay(c, t) < d
                                 \/ LocalDay(c, t) = d /\ Hour(c, t) < Closing
        BY Window
      <3> DEFINE y == LocalDay(c, t)  h == Hour(c, t)
      <3>3. Opening \in Nat /\ Closing \in Nat
        BY DayAssumption
      <3>4. Works(c, t) <=> y \notin c.off /\ h \in Opening .. Closing - 1
        BY DEF Works
      <3> HIDE DEF y, h
      <3>5. h \in Opening .. Closing - 1 <=> ~(h < Opening) /\ h < Closing
        BY <3>1, <3>3 DEF h
      <3>6. y = d => y \notin c.off
        BY <1>2
      <3>7. ~(y < d \/ (y = d /\ h < Opening)) /\ (y < d \/ (y = d /\ h < Closing))
              <=> y = d /\ ~(h < Opening) /\ h < Closing
        BY <3>1 DEF y, h
      <3> QED  BY <3>2, <3>4, <3>5, <3>6, <3>7 DEF y, h
    <2> HIDE DEF s, e
    <2>5. WorkingOn(c, a, b, d) = s .. e - 1
      <3>1. \A t : t \in WorkingOn(c, a, b, d) <=> t \in a .. b - 1 /\ Works(c, t) /\ LocalDay(c, t) = d
        BY DEF WorkingOn, Working
      <3>2. s .. e - 1 \subseteq Int /\ a .. b - 1 \subseteq Int
        BY <2>2
      <3> QED  BY <2>3, <2>4, <3>1, <3>2
    <2>6. Cardinality(s .. e - 1) = Later(0, e - s)
      BY <2>2, Length
    <2> QED  BY <1>2, <2>5, <2>6 DEF Overlap, IsBusinessDay, s, e
  <1> QED  BY <1>1, <1>2

(* What the days up to one give: a day adds its own.                       *)
LEMMA DayAdds ==
  ASSUME NEW c \in Calendar, NEW a \in Int, NEW b \in Int, NEW d \in Int
  PROVE  Cardinality(WorkingTo(c, a, b, d)) =
           Cardinality(WorkingOn(c, a, b, d)) + Cardinality(WorkingTo(c, a, b, d - 1))
  <1> DEFINE S == WorkingOn(c, a, b, d)  T == WorkingTo(c, a, b, d - 1)
  <1>1. \A t \in Working(c, a, b) : LocalDay(c, t) \in Int
    BY Days DEF Working
  <1>2. WorkingTo(c, a, b, d) = S \cup T /\ S \cap T = {}
    BY <1>1 DEF WorkingOn, WorkingTo
  <1>3. IsFiniteSet(S) /\ IsFiniteSet(T)
    BY WorkingFinite
  <1> HIDE DEF S, T
  <1>4. Cardinality(S \cup T) = Cardinality(S) + Cardinality(T) - Cardinality(S \cap T)
    BY <1>3, FS_Union
  <1>5. Cardinality(S) \in Nat /\ Cardinality(T) \in Nat
    BY <1>3, FS_CardinalityType
  <1>6. Cardinality(S \cap T) = 0
    BY <1>2, FS_EmptySet
  <1>7. Cardinality(S \cup T) = Cardinality(S) + Cardinality(T)
    BY <1>4, <1>5, <1>6
  <1> QED  BY <1>2, <1>7 DEF S, T

(* There is none before the day of the first.                              *)
LEMMA NoneBefore ==
  ASSUME NEW c \in Calendar, NEW a \in Int, NEW b \in Int, NEW d \in Int, d < LocalDay(c, a)
  PROVE  WorkingTo(c, a, b, d) = {}
  <1>1. \A t \in Int : LocalDay(c, t) \in Int
    BY Days
  <1>2. ASSUME NEW t \in Working(c, a, b), LocalDay(c, t) <= d
        PROVE  FALSE
    <2>1. t \in Int /\ a <= t
      BY <1>2 DEF Working
    <2>2. LocalDay(c, a) <= LocalDay(c, t)
      BY <2>1, Days
    <2> QED  BY <1>1, <1>2, <2>1, <2>2
  <1> QED  BY <1>2 DEF WorkingTo

(* A walk over days that give their working instants totals them.          *)
LEMMA WalkCounts ==
  ASSUME NEW c \in Calendar, NEW a \in Int, NEW b \in Int, NEW N \in Nat, NEW g, DOMAIN g = 0..N,
         \A n \in 0..N : g[n] = Cardinality(WorkingOn(c, a, b, LocalDay(c, a) + n))
  PROVE  Walked(g)[N] = Cardinality(WorkingTo(c, a, b, LocalDay(c, a) + N))
  <1> DEFINE first == LocalDay(c, a)
             w == Walked(g)
             good == {n \in 0..N : w[n] = Cardinality(WorkingTo(c, a, b, first + n))}
  <1>0. first \in Int
    BY Days
  <1>1. \A n \in 0..N : w[n] = g[n] + (IF n = 0 THEN 0 ELSE w[n - 1])
    BY WalkIs
  <1>2. \A d \in Int : Cardinality(WorkingTo(c, a, b, d)) =
           Cardinality(WorkingOn(c, a, b, d)) + Cardinality(WorkingTo(c, a, b, d - 1))
    BY DayAdds
  <1>3. \A n \in 0..N : g[n] = Cardinality(WorkingOn(c, a, b, first + n))
    OBVIOUS
  <1>4. Cardinality(WorkingTo(c, a, b, first - 1)) = 0
    <2>1. WorkingTo(c, a, b, first - 1) = {}
      BY <1>0, NoneBefore
    <2> QED  BY <2>1, FS_EmptySet
  <1> HIDE DEF w, first
  <1>5. 0 \in good
    <2>1. w[0] = g[0] + 0 /\ g[0] = Cardinality(WorkingOn(c, a, b, first + 0)) /\ first + 0 = first
      BY <1>0, <1>1, <1>3
    <2>2. Cardinality(WorkingOn(c, a, b, first)) \in Nat
      BY WorkingFinite, FS_CardinalityType
    <2>3. Cardinality(WorkingTo(c, a, b, first)) =
            Cardinality(WorkingOn(c, a, b, first)) + Cardinality(WorkingTo(c, a, b, first - 1))
      BY <1>0, <1>2
    <2>4. w[0] = Cardinality(WorkingTo(c, a, b, first))
      BY <1>4, <2>1, <2>2, <2>3
    <2> QED  BY <2>1, <2>4
  <1>6. ASSUME NEW n \in 0..N, n < N, n \in good
        PROVE  n + 1 \in good
    <2>1. n + 1 \in 0..N /\ n + 1 # 0 /\ (n + 1) - 1 = n /\ first + (n + 1) \in Int /\ (first + (n + 1)) - 1 = first + n
      BY <1>0, <1>6
    <2>2. w[n + 1] = g[n + 1] + w[n]
      BY <1>1, <2>1
    <2>3. w[n] = Cardinality(WorkingTo(c, a, b, first + n))
      BY <1>6
    <2>4. g[n + 1] = Cardinality(WorkingOn(c, a, b, first + (n + 1)))
      BY <1>3, <2>1
    <2>5. Cardinality(WorkingTo(c, a, b, first + (n + 1))) =
            Cardinality(WorkingOn(c, a, b, first + (n + 1))) + Cardinality(WorkingTo(c, a, b, first + n))
      BY <1>2, <2>1
    <2>6. w[n + 1] = Cardinality(WorkingTo(c, a, b, first + (n + 1)))
      BY <2>2, <2>3, <2>4, <2>5
    <2> QED  BY <2>1, <2>6
  <1> HIDE DEF good
  <1>7. 0..N \subseteq good
    BY <1>5, <1>6, Reaches
  <1>8. N \in good
    BY <1>7
  <1> QED  BY <1>8 DEF good, w, first

(* businessSecondsBetween counts the working time of its interval.         *)
THEOREM BusinessTimeCounts ==
  ASSUME NEW c \in Calendar, NEW a \in Int, NEW b \in Int
  PROVE  Between(c, a, b) = Counted(c, a, b)
  <1>1. CASE b <= a
    <2>1. a .. b - 1 = {}
      BY <1>1
    <2>2. Working(c, a, b) = {}
      BY <2>1 DEF Working
    <2> QED  BY <1>1, <2>2, FS_EmptySet DEF Between, Counted
  <1>2. CASE ~(b <= a)
    <2> DEFINE first == LocalDay(c, a)
               N == LocalDay(c, b) - first
               g == [n \in 0..N |-> Overlap(c, a, b, first + n)]
    <2>1. first \in Int /\ LocalDay(c, b) \in Int /\ N \in Nat
      BY <1>2, Days
    <2>2. Between(c, a, b) = Walked(g)[N]
      BY <1>2 DEF Between
    <2>3. DOMAIN g = 0..N /\ \A n \in 0..N : g[n] = Overlap(c, a, b, first + n)
      OBVIOUS
    <2> HIDE DEF g
    <2>4. \A n \in 0..N : g[n] = Cardinality(WorkingOn(c, a, b, first + n))
      <3>1. \A n \in 0..N : first + n \in Int
        BY <2>1
      <3> HIDE DEF N, first
      <3> QED  BY <2>3, <3>1, OverlapCounts
    <2> HIDE DEF N
    <2>5. Walked(g)[N] = Cardinality(WorkingTo(c, a, b, first + N))
      BY <2>1, <2>3, <2>4, WalkCounts
    <2>6. first + N = LocalDay(c, b)
      BY <2>1 DEF N
    <2>7. WorkingTo(c, a, b, LocalDay(c, b)) = Working(c, a, b)
      <3>1. \A t \in Int : t <= b => LocalDay(c, t) <= LocalDay(c, b)
        BY Days
      <3>2. \A t \in Working(c, a, b) : t \in Int /\ t <= b
        BY DEF Working
      <3> QED  BY <3>1, <3>2 DEF WorkingTo
    <2> QED  BY <2>2, <2>5, <2>6, <2>7 DEF Counted
  <1> QED  BY <1>1, <1>2

(* What the walk of addBusinessSeconds has left behind after a day is the  *)
(* working time up to any instant past that day's window.                  *)
LEMMA CapacityCounts ==
  ASSUME NEW c \in Calendar, NEW a \in Int, NEW b \in Int, NEW d \in Int, End(c, d) <= b
  PROVE  Capacity(c, a, d) = Cardinality(WorkingTo(c, a, b, d))
  <1> DEFINE first == LocalDay(c, a)
             N == d - first
             g == [n \in 0..N |-> Room(c, a, first + n)]
  <1>1. first \in Int
    BY Days
  <1>2. CASE d < first
    <2>1. WorkingTo(c, a, b, d) = {}
      BY <1>2, NoneBefore
    <2> QED  BY <1>2, <2>1, FS_EmptySet DEF Capacity
  <1>3. CASE ~(d < first)
    <2>1. N \in Nat /\ first + N = d
      BY <1>1, <1>3
    <2>2. Capacity(c, a, d) = Walked(g)[N]
      BY <1>3 DEF Capacity
    <2>3. DOMAIN g = 0..N /\ \A n \in 0..N : g[n] = Room(c, a, first + n)
      OBVIOUS
    <2> HIDE DEF g
    <2>4. \A n \in 0..N : first + n \in Int /\ first + n <= d
      BY <1>1, <2>1
    <2> HIDE DEF first, N
    <2>5. ASSUME NEW e \in Int, e <= d
          PROVE  Room(c, a, e) = Cardinality(WorkingOn(c, a, b, e))
      <3>1. End(c, e) <= End(c, d) /\ End(c, e) \in Int /\ End(c, d) \in Int
        BY <2>5, WindowsInOrder, Window
      <3>2. Earlier(b, End(c, e)) = End(c, e)
        BY <3>1 DEF Earlier
      <3>3. Room(c, a, e) = Overlap(c, a, b, e)
        BY <3>2 DEF Room, Overlap
      <3> QED  BY <3>3, OverlapCounts
    <2>6. \A n \in 0..N : g[n] = Cardinality(WorkingOn(c, a, b, first + n))
      BY <2>3, <2>4, <2>5
    <2>7. Walked(g)[N] = Cardinality(WorkingTo(c, a, b, first + N))
      BY <2>1, <2>3, <2>6, WalkCounts DEF first
    <2> QED  BY <2>1, <2>2, <2>7
  <1> QED  BY <1>2, <1>3

(* So it is nothing before the first day, and grows by each day's room.    *)
LEMMA CapacityGrows ==
  ASSUME NEW c \in Calendar, NEW a \in Int, NEW d \in Int
  PROVE  /\ Capacity(c, a, d) \in Nat /\ Room(c, a, d) \in Nat
         /\ d < LocalDay(c, a) => Capacity(c, a, d) = 0
         /\ d >= LocalDay(c, a) => Capacity(c, a, d) = Room(c, a, d) + Capacity(c, a, d - 1)
  <1> DEFINE b == End(c, d)
  <1>1. b \in Int /\ d - 1 \in Int /\ End(c, d - 1) <= b /\ b <= b
    <2>1. d - 1 \in Int /\ d - 1 <= d
      OBVIOUS
    <2> QED  BY <2>1, Window, WindowsInOrder
  <1>2. /\ Capacity(c, a, d) = Cardinality(WorkingTo(c, a, b, d))
        /\ Capacity(c, a, d - 1) = Cardinality(WorkingTo(c, a, b, d - 1))
    BY <1>1, CapacityCounts
  <1>3. Room(c, a, d) = Overlap(c, a, b, d)
    BY <1>1 DEF Room, Overlap, Earlier
  <1> HIDE DEF b
  <1>4. Room(c, a, d) = Cardinality(WorkingOn(c, a, b, d))
    BY <1>1, <1>3, OverlapCounts
  <1>5. Room(c, a, d) \in Nat /\ Capacity(c, a, d) \in Nat
    BY <1>1, <1>2, <1>4, WorkingFinite, FS_CardinalityType
  <1> QED  BY <1>1, <1>2, <1>4, <1>5, DayAdds DEF Capacity

(* The counts of adjacent intervals add up.                                *)
LEMMA CountsAdd ==
  ASSUME NEW c, NEW a \in Int, NEW b \in Int, NEW e \in Int, a <= b, b <= e
  PROVE  Counted(c, a, e) = Counted(c, a, b) + Counted(c, b, e)
  <1> DEFINE S == Working(c, a, b)  T == Working(c, b, e)
  <1>1. Working(c, a, e) = S \cup T /\ S \cap T = {}
    BY DEF Working
  <1>2. IsFiniteSet(S) /\ IsFiniteSet(T)
    BY WorkingFinite
  <1> HIDE DEF S, T
  <1>3. Cardinality(S \cup T) = Cardinality(S) + Cardinality(T) - Cardinality(S \cap T)
    BY <1>2, FS_Union
  <1>4. Cardinality(S) \in Nat /\ Cardinality(T) \in Nat /\ Cardinality(S \cap T) = 0
    BY <1>1, <1>2, FS_CardinalityType, FS_EmptySet
  <1> QED  BY <1>1, <1>3, <1>4 DEF S, T, Counted

(* A working instant in an interval counts.                                *)
LEMMA WorkCounts ==
  ASSUME NEW c, NEW a \in Int, NEW b \in Int, NEW t \in Int, a <= t, t < b, Works(c, t)
  PROVE  Counted(c, a, b) > 0
  <1>1. t \in Working(c, a, b)
    BY DEF Working
  <1>2. IsFiniteSet(Working(c, a, b)) /\ Cardinality(Working(c, a, b)) \in Nat
    BY WorkingFinite DEF Counted
  <1>3. Cardinality(Working(c, a, b)) # 0
    BY <1>1, <1>2, FS_EmptySet
  <1> QED  BY <1>2, <1>3 DEF Counted

(***************************************************************************)
(* The deadline: the first instant by which the budget has been worked.    *)
(***************************************************************************)
(* RunsOut is the instant at which as much has been worked as the budget,  *)
(* right after a working one.                                              *)
THEOREM RunsOutAtBudget ==
  ASSUME NEW c \in Calendar, NEW t \in 0..LastTick, NEW r \in 0..Budget
  PROVE  /\ RunsOut(c, t, r) \in Int /\ t <= RunsOut(c, t, r)
         /\ Counted(c, t, RunsOut(c, t, r)) = r
         /\ r > 0 => t <= RunsOut(c, t, r) - 1 /\ Works(c, RunsOut(c, t, r) - 1)
  <1> DEFINE first == LocalDay(c, t)
             fits == {n \in 0..MaxDaysWalked : Covers(c, t, r, first + n)}
  <1>0. /\ LastTick \in Nat /\ Budget \in Nat /\ MaxDaysWalked \in Nat /\ first \in Int /\ t \in Int
        /\ r \in Nat
    BY CalendarAssumption, DayAssumption, Days
  <1>1. PICK m \in fits : \A n \in fits : m <= n
    <2>1. PICK days \in 0..MaxDaysWalked : Covers(c, t, Budget, first + days)
      BY CalendarAssumption
    <2>2. first + days \in Int
      BY <1>0
    <2> HIDE DEF first
    <2>3. Capacity(c, t, first + days) \in Nat
      BY <1>0, <2>2, CapacityGrows
    <2>4. Covers(c, t, r, first + days)
      BY <1>0, <2>1, <2>3 DEF Covers
    <2>5. fits # {} /\ fits \subseteq Nat
      BY <2>4
    <2> HIDE DEF fits
    <2> QED  BY <2>5, LeastExists
  <1> DEFINE last == first + m
             s == Later(t, Start(c, last))
             past == Capacity(c, t, last - 1)
             D == s + r - past
  <1>2. last \in Int /\ last - 1 \in Int /\ m \in 0..MaxDaysWalked /\ first <= last /\ Covers(c, t, r, last)
    BY <1>0, <1>1
  <1>3. RunsOut(c, t, r) = D
    <2> DEFINE S == {day \in first .. first + MaxDaysWalked : Covers(c, t, r, day)}
    <2>1. last \in S
      BY <1>0, <1>2
    <2>2. \A day \in S : last <= day
      <3> SUFFICES ASSUME NEW day \in S PROVE last <= day
        OBVIOUS
      <3>1. day - first \in 0..MaxDaysWalked /\ first + (day - first) = day
        BY <1>0
      <3>2. day - first \in fits
        BY <3>1
      <3>3. m <= day - first
        BY <1>1, <3>2
      <3> QED  BY <1>0, <1>1, <3>1, <3>3
    <2>3. S \subseteq Int
      BY <1>0
    <2> HIDE DEF S, last
    <2>4. Min(S) = last
      <3>1. \A x \in S : (\A y \in S : x <= y) => x = last
        BY <1>2, <2>1, <2>2, <2>3
      <3> QED  BY <2>1, <2>2, <3>1 DEF Min
    <2>5. RunsOut(c, t, r) = Later(t, Start(c, Min(S))) + r - Capacity(c, t, Min(S) - 1)
      BY DEF RunsOut, S
    <2> QED  BY <2>4, <2>5
  <1>4. past \in Nat /\ (past = 0 \/ past < r)
    <2> DEFINE good == {n \in 0..m : Capacity(c, t, (first + n) - 1) = 0 \/ Capacity(c, t, (first + n) - 1) < r}
    <2>0. m \in Nat
      BY <1>0, <1>2
    <2>1. 0 \in good
      <3>1. (first + 0) - 1 < first /\ (first + 0) - 1 \in Int
        BY <1>0
      <3>2. Capacity(c, t, (first + 0) - 1) = 0
        BY <1>0, <3>1, CapacityGrows
      <3> QED  BY <2>0, <3>2
    <2>2. ASSUME NEW n \in 0..m, n < m, n \in good
          PROVE  n + 1 \in good
      <3> DEFINE d == first + n
      <3>1. d \in Int /\ (first + (n + 1)) - 1 = d /\ d >= first /\ d - 1 \in Int /\ n \in 0..MaxDaysWalked
        BY <1>0, <1>2
      <3>2. ~Covers(c, t, r, d)
        <4>1. n \notin fits
          BY <1>0, <1>1, <1>2, <2>2
        <4> QED  BY <3>1, <4>1
      <3>3. Capacity(c, t, d - 1) = 0 \/ Capacity(c, t, d - 1) < r
        BY <2>2
      <3>0. d >= LocalDay(c, t)
        BY <3>1
      <3> HIDE DEF d, first
      <3>4. /\ Capacity(c, t, d) = Room(c, t, d) + Capacity(c, t, d - 1)
            /\ Capacity(c, t, d) \in Nat /\ Room(c, t, d) \in Nat
        BY <1>0, <3>0, <3>1, CapacityGrows
      <3>5. Capacity(c, t, d - 1) \in Nat
        BY <1>0, <3>1, CapacityGrows
      <3>6. Capacity(c, t, d) = 0 \/ Capacity(c, t, d) < r
        BY <1>0, <3>2, <3>3, <3>4, <3>5 DEF Covers
      <3> QED  BY <2>0, <2>2, <3>1, <3>6
    <2> HIDE DEF good
    <2>3. 0..m \subseteq good
      BY <2>0, <2>1, <2>2, Reaches
    <2>4. m \in good
      BY <2>0, <2>3
    <2>5. past = 0 \/ past < r
      <3>1. past = Capacity(c, t, (first + m) - 1)
        OBVIOUS
      <3> HIDE DEF past, first
      <3> QED  BY <2>4, <3>1 DEF good
    <2>6. past \in Nat
      BY <1>0, <1>2, CapacityGrows
    <2> QED  BY <2>5, <2>6
  <1>5. /\ last \notin c.off /\ s \in Int /\ t <= s /\ Start(c, last) <= s /\ s < End(c, last)
        /\ Start(c, last) \in Int /\ End(c, last) \in Int
        /\ Room(c, t, last) = End(c, last) - s
    <2>1. Start(c, last) \in Int /\ End(c, last) \in Int
      BY <1>2, Window
    <2>2. Room(c, t, last) > 0
      BY <1>2 DEF Covers
    <2>3. s \in Int /\ t <= s /\ Start(c, last) <= s
      BY <1>0, <2>1 DEF Later
    <2> HIDE DEF last
    <2>4. last \notin c.off /\ Room(c, t, last) = Later(0, End(c, last) - s)
      BY <2>2 DEF Room, IsBusinessDay
    <2> HIDE DEF s
    <2> QED  BY <2>1, <2>2, <2>3, <2>4 DEF Later
  <1>6. D \in Int /\ s <= D /\ D <= End(c, last) /\ D = s + r - past
    <2>1. r <= Capacity(c, t, last)
      BY <1>2 DEF Covers
    <2>2. Capacity(c, t, last) = Room(c, t, last) + past
      BY <1>0, <1>2, CapacityGrows
    <2> HIDE DEF s, last, past
    <2> QED  BY <1>0, <1>4, <1>5, <2>1, <2>2
  <1> HIDE DEF D, s, last, past, first, fits
  <1>7. past = Cardinality(WorkingTo(c, t, D, last - 1))
    <2>1. End(c, last - 1) <= Start(c, last) /\ End(c, last - 1) \in Int
      BY <1>2, WindowsInOrder, Window
    <2>2. End(c, last - 1) <= D
      BY <1>5, <1>6, <2>1
    <2> QED  BY <1>0, <1>2, <1>6, <2>2, CapacityCounts DEF past
  <1>8. D - s = Cardinality(WorkingOn(c, t, D, last))
    <2>1. Overlap(c, t, D, last) = Later(0, Earlier(D, End(c, last)) - s)
      BY <1>5 DEF Overlap, IsBusinessDay, s
    <2>2. Overlap(c, t, D, last) = D - s
      BY <1>5, <1>6, <2>1 DEF Later, Earlier
    <2> QED  BY <1>0, <1>2, <1>6, <2>2, OverlapCounts
  <1>9. \A x \in Int : x < End(c, last) => LocalDay(c, x) <= last
    <2>1. \A x \in Int : LocalDay(c, x) \in Int
      BY Days
    <2>2. \A x \in Int : x < End(c, last) <=> \/ LocalDay(c, x) < last
                                              \/ LocalDay(c, x) = last /\ Hour(c, x) < Closing
      BY <1>2, Window
    <2> QED  BY <1>2, <2>1, <2>2
  <1>10. WorkingTo(c, t, D, last) = Working(c, t, D)
    <2>1. \A x \in Working(c, t, D) : x \in Int /\ x < End(c, last)
      BY <1>0, <1>5, <1>6 DEF Working
    <2> QED  BY <1>9, <2>1 DEF WorkingTo
  <1>11. Counted(c, t, D) = r
    <2>1. Cardinality(WorkingTo(c, t, D, last)) = (D - s) + past
      BY <1>0, <1>2, <1>6, <1>7, <1>8, DayAdds
    <2> QED  BY <1>0, <1>4, <1>5, <1>6, <1>10, <2>1 DEF Counted
  <1>12. ASSUME r > 0
         PROVE  t <= D - 1 /\ Works(c, D - 1)
    <2>1. D - 1 \in Int /\ s <= D - 1 /\ ~(D - 1 < Start(c, last)) /\ D - 1 < End(c, last)
      BY <1>0, <1>4, <1>5, <1>6, <1>12
    <2> DEFINE x == D - 1
    <2>2. /\ x < Start(c, last) <=> \/ LocalDay(c, x) < last
                                    \/ LocalDay(c, x) = last /\ Hour(c, x) < Opening
          /\ x < End(c, last) <=> \/ LocalDay(c, x) < last
                                  \/ LocalDay(c, x) = last /\ Hour(c, x) < Closing
      BY <1>2, <2>1, Window
    <2>3. LocalDay(c, x) \in Int /\ Hour(c, x) \in Int /\ Opening \in Nat /\ Closing \in Nat
      BY <2>1, Days, DayAssumption
    <2>4. LocalDay(c, x) = last /\ ~(Hour(c, x) < Opening) /\ Hour(c, x) < Closing
      BY <2>1, <2>2
    <2>5. Works(c, x)
      <3>1. Hour(c, x) \in Opening .. Closing - 1
        BY <2>3, <2>4
      <3> QED  BY <1>5, <2>4, <3>1 DEF Works
    <2> QED  BY <1>0, <1>5, <2>1, <2>5
  <1> QED  BY <1>0, <1>3, <1>5, <1>6, <1>11, <1>12

(* Two instants by which as much has been worked, each right after a       *)
(* working one, are the same.                                              *)
LEMMA OneInstant ==
  ASSUME NEW c, NEW a \in Int, NEW D \in Int, NEW E \in Int,
         a <= D - 1, Works(c, D - 1), a <= E - 1, Works(c, E - 1), Counted(c, a, D) = Counted(c, a, E)
  PROVE  D = E
  <1>1. ASSUME NEW x \in Int, NEW y \in Int, a <= x, x < y, Works(c, y - 1)
        PROVE  Counted(c, a, x) # Counted(c, a, y)
    <2>1. Counted(c, a, y) = Counted(c, a, x) + Counted(c, x, y)
      BY <1>1, CountsAdd
    <2>2. y - 1 \in Int /\ x <= y - 1 /\ y - 1 < y
      BY <1>1
    <2>3. Counted(c, x, y) > 0
      BY <1>1, <2>2, WorkCounts
    <2>4. Counted(c, a, x) \in Nat /\ Counted(c, x, y) \in Nat
      BY WorkingFinite
    <2> QED  BY <2>1, <2>3, <2>4
  <1>2. ~(D < E)
    BY <1>1
  <1>3. ~(E < D)
    BY <1>1
  <1> QED  BY <1>2, <1>3

(* A deadline computed at one instant is the one computed at any later     *)
(* instant before it, from what remains then; and nothing remains from it  *)
(* on.                                                                     *)
LEMMA DeadlineStays ==
  ASSUME NEW c \in Calendar, NEW s \in 0..LastTick, NEW t \in 0..LastTick, s <= t, NEW r \in 1..Budget
  PROVE  /\ t < RunsOut(c, s, r) =>
              /\ Counted(c, s, t) < r
              /\ RunsOut(c, t, r - Counted(c, s, t)) = RunsOut(c, s, r)
         /\ ~(t < RunsOut(c, s, r)) => Counted(c, s, t) >= r
  <1> DEFINE D == RunsOut(c, s, r)
             k == Counted(c, s, t)
  <1>0. s \in Int /\ t \in Int /\ r \in Int /\ Budget \in Nat /\ k \in Nat /\ r \in 0..Budget
    BY CalendarAssumption, WorkingFinite
  <1>1. D \in Int /\ s <= D /\ Counted(c, s, D) = r /\ s <= D - 1 /\ Works(c, D - 1)
    BY <1>0, RunsOutAtBudget
  <1> HIDE DEF D, k
  <1>2. ASSUME ~(t < D)
        PROVE  k >= r
    <2>1. k = Counted(c, s, D) + Counted(c, D, t)
      BY <1>0, <1>1, <1>2, CountsAdd DEF k
    <2>2. Counted(c, D, t) \in Nat
      BY <1>0, <1>1, WorkingFinite
    <2> QED  BY <1>0, <1>1, <2>1, <2>2
  <1>3. ASSUME t < D
        PROVE  k < r /\ RunsOut(c, t, r - k) = D
    <2>1. r = k + Counted(c, t, D)
      BY <1>0, <1>1, <1>3, CountsAdd DEF k
    <2>2. D - 1 \in Int /\ t <= D - 1 /\ D - 1 < D
      BY <1>0, <1>1, <1>3
    <2>3. Counted(c, t, D) > 0 /\ Counted(c, t, D) \in Nat
      BY <1>0, <1>1, <2>2, WorkCounts, WorkingFinite
    <2> DEFINE q == r - k
               E == RunsOut(c, t, q)
    <2>4. q \in 0..Budget /\ q > 0 /\ Counted(c, t, D) = q
      BY <1>0, <2>1, <2>3
    <2> HIDE DEF q
    <2>5. E \in Int /\ Counted(c, t, E) = q /\ t <= E - 1 /\ Works(c, E - 1)
      BY <2>4, RunsOutAtBudget
    <2> HIDE DEF E
    <2>6. E = D
      BY <1>0, <1>1, <2>2, <2>4, <2>5, OneInstant
    <2> QED  BY <1>0, <2>1, <2>3, <2>6 DEF q, E
  <1> QED  BY <1>2, <1>3 DEF D, k

(***************************************************************************)
(* What a log is read as: event after event.                               *)
(***************************************************************************)
(* f reads a log of N events, and the reading Reconstructed chooses.       *)
IsReading(f, N, k, log) ==
  f = [n \in 0..N |-> IF n = 0 THEN Clock!NotStarted ELSE Clock!Applied(k, f[n - 1], log[n])]
ReadingOf(k, log) == CHOOSE f : IsReading(f, Len(log), k, log)

LEMMA ReadingExists ==
  ASSUME NEW N \in Nat, NEW k, NEW log
  PROVE  \E f : IsReading(f, N, k, log)
  <1> DEFINE good == {m \in 0..N : \E f : IsReading(f, m, k, log)}
  <1>1. 0 \in good
    <2> DEFINE f == [n \in 0..0 |-> Clock!NotStarted]
    <2>1. DOMAIN f = 0..0 /\ \A n \in 0..0 : n = 0 /\ f[n] = Clock!NotStarted
      OBVIOUS
    <2>2. f = [n \in 0..0 |-> f[n]]
      OBVIOUS
    <2> HIDE DEF f
    <2>3. IsReading(f, 0, k, log)
      BY <2>1, <2>2 DEF IsReading
    <2> QED  BY <2>3
  <1>2. ASSUME NEW m \in 0..N, m < N, m \in good
        PROVE  m + 1 \in good
    <2>1. PICK f : IsReading(f, m, k, log)
      BY <1>2
    <2>2. DOMAIN f = 0..m
          /\ \A n \in 0..m : f[n] = IF n = 0 THEN Clock!NotStarted ELSE Clock!Applied(k, f[n - 1], log[n])
      <3> DEFINE h == [n \in 0..m |-> IF n = 0 THEN Clock!NotStarted ELSE Clock!Applied(k, f[n - 1], log[n])]
      <3>1. DOMAIN h = 0..m
            /\ \A n \in 0..m : h[n] = IF n = 0 THEN Clock!NotStarted ELSE Clock!Applied(k, f[n - 1], log[n])
        OBVIOUS
      <3>2. f = h
        BY <2>1, Zenon DEF IsReading
      <3> HIDE DEF h
      <3> QED  BY <3>1, <3>2
    <2> DEFINE h == [n \in 0..(m + 1) |->
                       IF n = m + 1 THEN Clock!Applied(k, f[m], log[n]) ELSE f[n]]
    <2>3. /\ DOMAIN h = 0..(m + 1) /\ h[m + 1] = Clock!Applied(k, f[m], log[m + 1])
          /\ \A n \in 0..m : h[n] = f[n]
      OBVIOUS
    <2>4. h = [n \in 0..(m + 1) |-> h[n]]
      BY <2>3
    <2> HIDE DEF h
    <2>5. ASSUME NEW n \in 0..(m + 1)
          PROVE  h[n] = IF n = 0 THEN Clock!NotStarted ELSE Clock!Applied(k, h[n - 1], log[n])
      <3>1. CASE n = m + 1
        <4>1. n # 0 /\ n - 1 = m /\ m \in 0..m
          BY <3>1
        <4> QED  BY <2>3, <3>1, <4>1
      <3>2. CASE n = 0
        <4>1. n \in 0..m
          BY <3>2
        <4> QED  BY <2>2, <2>3, <3>2, <4>1
      <3>3. CASE n # 0 /\ n # m + 1
        <4>1. n \in 0..m /\ n - 1 \in 0..m
          BY <3>3
        <4> QED  BY <2>2, <2>3, <3>3, <4>1
      <3> QED  BY <3>1, <3>2, <3>3
    <2>6. IsReading(h, m + 1, k, log)
      BY <2>4, <2>5 DEF IsReading
    <2> QED  BY <1>2, <2>6
  <1> HIDE DEF good
  <1>3. 0..N \subseteq good
    BY <1>1, <1>2, Reaches
  <1>4. N \in good
    BY <1>3
  <1> QED  BY <1>4 DEF good

(* There is one for every log, so Reconstructed is what its definition     *)
(* says.                                                                   *)
LEMMA ReadingIs ==
  ASSUME NEW k, NEW log, Len(log) \in Nat
  PROVE  /\ Clock!Reconstructed(k, log) = ReadingOf(k, log)[Len(log)]
         /\ \A n \in 0..Len(log) : ReadingOf(k, log)[n] =
              IF n = 0 THEN Clock!NotStarted ELSE Clock!Applied(k, ReadingOf(k, log)[n - 1], log[n])
  <1> DEFINE f == ReadingOf(k, log)
  <1>1. IsReading(f, Len(log), k, log)
    BY ReadingExists DEF ReadingOf
  <1>2. Clock!Reconstructed(k, log) = f[Len(log)]
    BY DEF Clock!Reconstructed, ReadingOf, IsReading
  <1> HIDE DEF f
  <1> DEFINE h == [n \in 0..Len(log) |->
                     IF n = 0 THEN Clock!NotStarted ELSE Clock!Applied(k, f[n - 1], log[n])]
  <1>3. \A n \in 0..Len(log) : h[n] = IF n = 0 THEN Clock!NotStarted ELSE Clock!Applied(k, f[n - 1], log[n])
    OBVIOUS
  <1>4. f = h
    BY <1>1, Zenon DEF IsReading
  <1> HIDE DEF h
  <1>5. \A n \in 0..Len(log) : f[n] = IF n = 0 THEN Clock!NotStarted ELSE Clock!Applied(k, f[n - 1], log[n])
    BY <1>3, <1>4
  <1> QED  BY <1>2, <1>5 DEF f

(* An event more is applied to what was read before it.                    *)
LEMMA LogStep ==
  ASSUME NEW k, NEW S, NEW log \in Seq(S), NEW e \in S
  PROVE  Clock!Reconstructed(k, Append(log, e)) = Clock!Applied(k, Clock!Reconstructed(k, log), e)
  <1> DEFINE N == Len(log)
             more == Append(log, e)
             p == ReadingOf(k, log)
             q == ReadingOf(k, more)
             good == {n \in 0..N : q[n] = p[n]}
  <1>0. N \in Nat /\ Len(more) = N + 1 /\ more[N + 1] = e /\ \A n \in 1..N : more[n] = log[n]
    OBVIOUS
  <1>1. /\ Clock!Reconstructed(k, log) = p[N]
        /\ \A n \in 0..N : p[n] = IF n = 0 THEN Clock!NotStarted ELSE Clock!Applied(k, p[n - 1], log[n])
    BY <1>0, ReadingIs
  <1>2. /\ Clock!Reconstructed(k, more) = q[N + 1]
        /\ \A n \in 0..(N + 1) : q[n] = IF n = 0 THEN Clock!NotStarted ELSE Clock!Applied(k, q[n - 1], more[n])
    <2>1. Len(more) \in Nat
      BY <1>0
    <2> HIDE DEF more, N
    <2> QED  BY <1>0, <2>1, ReadingIs
  <1> HIDE DEF N, more, p, q
  <1>3. 0 \in good
    BY <1>0, <1>1, <1>2
  <1>4. ASSUME NEW n \in 0..N, n < N, n \in good
        PROVE  n + 1 \in good
    <2>1. n + 1 \in 0..N /\ n + 1 \in 0..(N + 1) /\ n + 1 \in 1..N /\ n + 1 # 0 /\ (n + 1) - 1 = n
      BY <1>0, <1>4
    <2>2. p[n + 1] = Clock!Applied(k, p[n], log[n + 1]) /\ q[n + 1] = Clock!Applied(k, q[n], more[n + 1])
      BY <1>1, <1>2, <2>1
    <2>3. q[n] = p[n] /\ more[n + 1] = log[n + 1]
      BY <1>0, <1>4, <2>1
    <2> QED  BY <2>1, <2>2, <2>3
  <1> HIDE DEF good
  <1>5. 0..N \subseteq good
    BY <1>0, <1>3, <1>4, Reaches
  <1>6. q[N] = p[N]
    BY <1>0, <1>5 DEF good
  <1>7. N + 1 \in 0..(N + 1) /\ N + 1 # 0 /\ (N + 1) - 1 = N
    BY <1>0
  <1>8. q[N + 1] = Clock!Applied(k, q[N], e)
    BY <1>0, <1>2, <1>7
  <1> QED  BY <1>1, <1>2, <1>6, <1>8 DEF more

(* Nothing is read in an empty log.                                        *)
LEMMA NothingRead == ASSUME NEW k PROVE Clock!Reconstructed(k, <<>>) = Clock!NotStarted
  <1>1. Len(<<>>) = 0
    OBVIOUS
  <1> QED  BY <1>1, ReadingIs

(***************************************************************************)
(* The log, its reading, and the columns beside it.                        *)
(***************************************************************************)
Event == [event : {"START", "PAUSE", "RESUME", "STOP"}, at : 0..LastTick]
Reading == [started : BOOLEAN, running : BOOLEAN, stopped : BOOLEAN, since : 0..LastTick, elapsed : Nat]

(* What a read makes of the log.                                           *)
Read == Clock!Reconstructed(cal, events)

(* Types.                                                                  *)
SlaTyped ==
  /\ cal \in Calendar /\ instant \in 0..LastTick
  /\ events \in Seq(Event)
  /\ Read \in Reading
  /\ holder \in {"SUPPLIER", "PLATFORM", "NOBODY"}

(* The log says who holds the case.                                        *)
Followed ==
  /\ Read.started <=> events # <<>>
  /\ Read.running <=> holder = "PLATFORM"
  /\ Read.stopped <=> holder = "NOBODY"
  /\ Read.running => Read.started /\ Read.since <= instant

(* What it says was spent is what the platform worked.                     *)
Accounted == worked = Read.elapsed + (IF Read.running THEN Counted(cal, Read.since, instant) ELSE 0)

(* While the clock runs, the columns are those of some instant since it    *)
(* started to: none is older than the last event.                          *)
DeadlineKept ==
  Read.running =>
    \E t \in Read.since .. instant :
      /\ column.elapsed = Read.elapsed + Counted(cal, Read.since, t)
      /\ column.deadlineAt = RunsOut(cal, t, Later(0, Budget - column.elapsed))

SlaInv == SlaTyped /\ Followed /\ Accounted /\ DeadlineKept

(* The clock reckons business time as BusinessTime does.                   *)
LEMMA SameTime ==
  ASSUME NEW c, NEW from, NEW to, NEW budget
  PROVE  /\ Clock!Between(c, from, to) = Between(c, from, to)
         /\ Clock!RunsOut(c, from, budget) = RunsOut(c, from, budget)
  BY Zenon DEF Clock!Between, Between, Clock!RunsOut, RunsOut, Clock!Overlap, Overlap, Clock!LocalDay,
     LocalDay, Clock!Wall, Wall, Clock!Offset, Offset, Clock!Walked, Walked, Clock!Room, Room,
     Clock!Start, Start, Clock!End, End, Clock!Instant, Instant, Clock!IsBusinessDay, IsBusinessDay,
     Clock!Capacity, Capacity, Clock!Covers, Covers, Clock!Later, Later, Clock!Earlier, Earlier,
     Clock!Min, Min

(* The time read so far, and what an event makes of a reading.             *)
SpentBy(k, c, t) == c.elapsed + (IF c.running THEN Counted(k, c.since, t) ELSE 0)

(* The time spent counts working instants.                                 *)
LEMMA SpentIs ==
  ASSUME NEW k \in Calendar, NEW c \in Reading, NEW t \in 0..LastTick
  PROVE  Clock!Spent(k, c, t) = SpentBy(k, c, t)
  <1>1. c.since \in Int /\ t \in Int
    BY CalendarAssumption DEF Reading
  <1>2. Clock!Between(k, c.since, t) = Counted(k, c.since, t)
    BY <1>1, SameTime, BusinessTimeCounts
  <1> QED  BY <1>2 DEF Clock!Spent, SpentBy

(* What runs has begun and not ended.                                      *)
Going(c, t) == c.running => c.started /\ ~c.stopped /\ c.since <= t

(* What an event does to a reading c, which becomes d: it changes who      *)
(* holds the case, and not the time spent.                                 *)
Effect(k, c, t, event, d) ==
  /\ d \in Reading
  /\ d.started <=> c.started \/ (event = "START" /\ ~c.stopped)
  /\ d.stopped <=> c.stopped \/ event = "STOP"
  /\ d.running <=> /\ ~c.stopped
                   /\ \/ event \in {"START", "RESUME"} /\ c.running
                      \/ event = "START" /\ ~c.started
                      \/ event = "RESUME" /\ c.started
  /\ d.running => d.started /\ d.since <= t
  /\ SpentBy(k, d, t) = SpentBy(k, c, t)

(* Each event has this effect.                                             *)
LEMMA EventRead ==
  ASSUME NEW k \in Calendar, NEW c \in Reading, NEW t \in 0..LastTick, Going(c, t),
         NEW event \in {"START", "PAUSE", "RESUME", "STOP"}
  PROVE  Effect(k, c, t, event, Clock!Applied(k, c, [event |-> event, at |-> t]))
  <1> DEFINE d == Clock!Applied(k, c, [event |-> event, at |-> t])
  <1> SUFFICES Effect(k, c, t, event, d)
    OBVIOUS
  <1> DEFINE more == IF c.running THEN Counted(k, c.since, t) ELSE 0
  <1>0. /\ c.started \in BOOLEAN /\ c.running \in BOOLEAN /\ c.stopped \in BOOLEAN
        /\ c.since \in 0..LastTick /\ c.elapsed \in Nat /\ t \in Int /\ c.since \in Int
        /\ c.running => c.started /\ ~c.stopped /\ c.since <= t
    BY CalendarAssumption DEF Reading, Going
  <1>1. Counted(k, c.since, t) \in Nat /\ Counted(k, t, t) = 0 /\ Clock!Between(k, c.since, t) = Counted(k, c.since, t)
    <2>1. Working(k, t, t) = {}
      BY <1>0 DEF Working
    <2>2. Counted(k, t, t) = 0
      BY <2>1, FS_EmptySet DEF Counted
    <2>3. Clock!Between(k, c.since, t) = Between(k, c.since, t)
      BY SameTime
    <2>4. Between(k, c.since, t) = Counted(k, c.since, t)
      BY <1>0, BusinessTimeCounts
    <2>5. Counted(k, c.since, t) \in Nat
      BY <1>0, WorkingFinite
    <2> QED  BY <2>2, <2>3, <2>4, <2>5
  <1>2. more \in Nat /\ SpentBy(k, c, t) = c.elapsed + more
    BY <1>1 DEF SpentBy
  <1>3. CASE c.stopped
    <2>1. d = c
      BY <1>3 DEF Clock!Applied
    <2> HIDE DEF d
    <2> QED  BY <1>0, <1>3, <2>1 DEF Effect
  <1>4. CASE ~c.stopped /\ ((event = "START" /\ ~c.started) \/ (event = "RESUME" /\ c.started /\ ~c.running))
    <2>1. d = [c EXCEPT !.started = TRUE, !.running = TRUE, !.since = t]
      BY <1>4 DEF Clock!Applied
    <2> HIDE DEF d
    <2>2. d \in Reading /\ d.started /\ d.running /\ ~d.stopped /\ d.since = t /\ d.elapsed = c.elapsed
      BY <1>0, <1>4, <2>1 DEF Reading
    <2>3. ~c.running
      BY <1>0, <1>4
    <2>4. SpentBy(k, d, t) = SpentBy(k, c, t)
      BY <1>1, <2>2, <2>3 DEF SpentBy
    <2> QED  BY <1>0, <1>4, <2>2, <2>3, <2>4 DEF Effect
  <1>5. CASE ~c.stopped /\ event \in {"PAUSE", "STOP"}
    <2>1. PICK x \in Nat : x = c.elapsed + more
      BY <1>0, <1>2
    <2> HIDE DEF more
    <2>2. /\ d \in Reading /\ d.started = c.started /\ ~d.running /\ (d.stopped <=> event = "STOP")
          /\ d.elapsed = c.elapsed + more
      <3>1. CASE event = "STOP"
        <4>1. d = [c EXCEPT !.running = FALSE, !.stopped = TRUE, !.elapsed = x]
          BY <1>1, <1>5, <2>1, <3>1 DEF Clock!Applied, more
        <4> HIDE DEF d
        <4>2. d \in Reading /\ d.started = c.started /\ d.running = FALSE /\ d.stopped = TRUE /\ d.elapsed = x
          BY <4>1 DEF Reading
        <4> QED  BY <2>1, <3>1, <4>2
      <3>2. CASE event = "PAUSE"
        <4>1. d = [c EXCEPT !.running = FALSE, !.stopped = FALSE, !.elapsed = x]
          BY <1>1, <1>5, <2>1, <3>2 DEF Clock!Applied, more
        <4> HIDE DEF d
        <4>2. d \in Reading /\ d.started = c.started /\ d.running = FALSE /\ d.stopped = FALSE /\ d.elapsed = x
          BY <4>1 DEF Reading
        <4> QED  BY <2>1, <3>2, <4>2
      <3> QED  BY <1>5, <3>1, <3>2
    <2> HIDE DEF d
    <2>3. SpentBy(k, d, t) = d.elapsed + 0
      BY <2>2 DEF SpentBy
    <2>4. SpentBy(k, d, t) = SpentBy(k, c, t)
      BY <1>0, <1>2, <2>2, <2>3
    <2> QED  BY <1>0, <1>5, <2>2, <2>4 DEF Effect
  <1>6. CASE /\ ~c.stopped /\ event \in {"START", "RESUME"}
             /\ ~((event = "START" /\ ~c.started) \/ (event = "RESUME" /\ c.started /\ ~c.running))
    <2>1. d = c
      BY <1>6 DEF Clock!Applied
    <2> HIDE DEF d
    <2> QED  BY <1>0, <1>6, <2>1 DEF Effect
  <1> QED  BY <1>3, <1>4, <1>5, <1>6

(* An event is appended and read, and the columns are written.             *)
LEMMA RecordIs ==
  ASSUME SlaInv, NEW event \in {"START", "PAUSE", "RESUME", "STOP"}, Clock!Record(event)
  PROVE  /\ UNCHANGED <<cal, instant, worked>>
         /\ events' \in Seq(Event) /\ events' # <<>>
         /\ Read' \in Reading
         /\ Read'.started <=> Read.started \/ (event = "START" /\ ~Read.stopped)
         /\ Read'.stopped <=> Read.stopped \/ event = "STOP"
         /\ Read'.running <=> /\ ~Read.stopped
                              /\ \/ event \in {"START", "RESUME"} /\ Read.running
                                 \/ event = "START" /\ ~Read.started
                                 \/ event = "RESUME" /\ Read.started
         /\ Read'.running => Read'.started /\ Read'.since <= instant
         /\ Accounted' /\ DeadlineKept'
  <1> DEFINE e == [event |-> event, at |-> instant]
             c == Read
             d == Clock!Applied(cal, c, e)
             spent == SpentBy(cal, d, instant)
  <1>0. /\ cal \in Calendar /\ instant \in 0..LastTick /\ events \in Seq(Event) /\ c \in Reading
        /\ c.running => c.started /\ ~c.stopped /\ c.since <= instant
        /\ worked = SpentBy(cal, c, instant)
    <2>1. c.running => ~c.stopped
      BY DEF SlaInv, Followed
    <2> QED  BY <2>1 DEF SlaInv, SlaTyped, Followed, Accounted, SpentBy
  <1>1. /\ events' = Append(events, e) /\ cal' = cal /\ instant' = instant /\ worked' = worked
        /\ column' = [elapsed |-> Clock!StateOf(cal, events', instant).elapsed,
                      deadlineAt |-> Clock!StateOf(cal, events', instant).deadlineAt]
    BY DEF Clock!Record
  <1>2. e \in Event
    BY <1>0 DEF Event
  <1>3. events' \in Seq(Event) /\ events' # <<>>
    <2> HIDE DEF e
    <2> QED  BY <1>0, <1>1, <1>2
  <1>4. Clock!Reconstructed(cal, events') = d
    <2>1. Clock!Reconstructed(cal, Append(events, e)) = Clock!Applied(cal, Clock!Reconstructed(cal, events), e)
      <3> HIDE DEF e
      <3> QED  BY <1>0, <1>2, LogStep
    <2> QED  BY <1>1, <2>1 DEF Read
  <1>5. Read' = d
    <2>1. Read' = Clock!Reconstructed(cal', events')
      BY DEF Read
    <2> HIDE DEF d
    <2> QED  BY <1>1, <1>4, <2>1
  <1>6. /\ d \in Reading
        /\ d.started <=> c.started \/ (event = "START" /\ ~c.stopped)
        /\ d.stopped <=> c.stopped \/ event = "STOP"
        /\ d.running <=> /\ ~c.stopped
                         /\ \/ event \in {"START", "RESUME"} /\ c.running
                            \/ event = "START" /\ ~c.started
                            \/ event = "RESUME" /\ c.started
        /\ d.running => d.started /\ d.since <= instant
        /\ spent = SpentBy(cal, c, instant)
    <2>1. Going(c, instant)
      BY <1>0 DEF Going
    <2> HIDE DEF c
    <2>2. Effect(cal, c, instant, event, Clock!Applied(cal, c, [event |-> event, at |-> instant]))
      BY <1>0, <2>1, EventRead
    <2>3. Effect(cal, c, instant, event, d)
      BY <2>2
    <2> HIDE DEF d
    <2> QED  BY <2>3 DEF Effect
  <1> HIDE DEF d, e, c
  <1>7. Clock!Spent(cal, d, instant) = spent
    BY <1>0, <1>6, SpentIs
  <1>8. /\ column'.elapsed = spent
        /\ d.running => column'.deadlineAt = RunsOut(cal, instant, Later(0, Budget - spent))
    <2>1. Clock!Later(0, Budget - spent) = Later(0, Budget - spent)
      BY DEF Clock!Later, Later
    <2>2. \A t, r : Clock!RunsOut(cal, t, r) = RunsOut(cal, t, r)
      BY SameTime
    <2> HIDE DEF spent
    <2>3. /\ Clock!StateOf(cal, events', instant).elapsed = spent
          /\ d.running => Clock!StateOf(cal, events', instant).deadlineAt
                            = RunsOut(cal, instant, Later(0, Budget - spent))
      BY <1>4, <1>7, <2>1, <2>2 DEF Clock!StateOf
    <2> QED  BY <1>1, <2>3
  <1>9. Accounted'
    <2>1. worked = spent
      BY <1>0, <1>6
    <2>2. Accounted' <=> worked' = Read'.elapsed + (IF Read'.running THEN Counted(cal', Read'.since, instant') ELSE 0)
      BY DEF Accounted
    <2> QED  BY <1>1, <1>5, <2>1, <2>2 DEF SpentBy
  <1>10. DeadlineKept'
    <2> SUFFICES ASSUME d.running
                 PROVE  \E t \in d.since .. instant :
                          /\ column'.elapsed = d.elapsed + Counted(cal, d.since, t)
                          /\ column'.deadlineAt = RunsOut(cal, t, Later(0, Budget - column'.elapsed))
      BY <1>1, <1>5 DEF DeadlineKept
    <2>1. instant \in d.since .. instant
      BY <1>0, <1>6, CalendarAssumption DEF Reading
    <2>2. spent = d.elapsed + Counted(cal, d.since, instant)
      BY DEF SpentBy
    <2> QED  BY <1>8, <2>1, <2>2
  <1> QED  BY <1>1, <1>3, <1>5, <1>6, <1>9, <1>10 DEF c

(* Time passes for who holds the case.                                     *)
LEMMA PassKeeps ==
  ASSUME SlaInv, NEW ticks \in Nat, Clock!Pass(ticks)
  PROVE  SlaInv'
  <1> DEFINE c == Read
  <1>0. /\ cal \in Calendar /\ instant \in 0..LastTick /\ events \in Seq(Event) /\ c \in Reading
        /\ holder \in {"SUPPLIER", "PLATFORM", "NOBODY"}
        /\ c.running <=> holder = "PLATFORM"
        /\ c.running => c.since <= instant
        /\ worked = SpentBy(cal, c, instant)
    BY DEF SlaInv, SlaTyped, Followed, Accounted, SpentBy
  <1>1. /\ cal' = cal /\ events' = events /\ column' = column /\ holder' = holder
        /\ instant' = instant + ticks /\ instant' <= LastTick
        /\ worked' = IF holder = "PLATFORM"
                       THEN worked + Cardinality({t \in instant .. instant' - 1 : Clock!Working(t)})
                       ELSE worked
    <2>1. /\ cal' = cal /\ events' = events /\ column' = column /\ holder' = holder
          /\ instant' = instant + ticks
      BY DEF Clock!Pass
    <2>2. instant + ticks <= LastTick
      BY DEF Clock!Pass
    <2>3. worked' = IF holder = "PLATFORM"
                       THEN worked + Cardinality({t \in instant .. instant' - 1 : Clock!Working(t)})
                       ELSE worked
      BY Zenon DEF Clock!Pass, Clock!Cardinality, Cardinality
    <2> QED  BY <2>1, <2>2, <2>3
  <1>2. instant' \in 0..LastTick /\ instant <= instant' /\ instant \in Int /\ instant' \in Int
    <2>1. instant' = instant + ticks /\ instant' <= LastTick /\ instant \in Nat /\ LastTick \in Nat
      <3>1. LastTick \in Nat
        BY CalendarAssumption
      <3> QED  BY <1>0, <1>1, <3>1
    <2> QED  BY <2>1
  <1>3. Read' = Read
    <2>1. Read' = Clock!Reconstructed(cal', events')
      BY DEF Read
    <2> QED  BY <1>1, <2>1 DEF Read
  <1>4. Cardinality({t \in instant .. instant' - 1 : Clock!Working(t)}) = Counted(cal, instant, instant')
    <2>1. \A t : Clock!Working(t) <=> Works(cal, t)
      BY Zenon DEF Clock!Working, Works, Clock!LocalDay, LocalDay, Clock!Wall, Hour, Wall, Clock!Offset, Offset
    <2>2. {t \in instant .. instant' - 1 : Clock!Working(t)} = {t \in instant .. instant' - 1 : Works(cal, t)}
      BY <2>1
    <2> QED  BY <2>2 DEF Counted, Working
  <1> HIDE DEF c
  <1>5. SlaTyped' /\ Followed'
    <2>1. /\ cal' \in Calendar /\ events' \in Seq(Event) /\ Read' \in Reading
          /\ holder' \in {"SUPPLIER", "PLATFORM", "NOBODY"}
      BY <1>0, <1>1, <1>3 DEF c
    <2>2. Followed
      BY DEF SlaInv
    <2>3. Read.since \in Int
      BY <1>0, CalendarAssumption DEF Reading, c
    <2>4. Followed'
      BY <1>1, <1>2, <1>3, <2>2, <2>3 DEF Followed
    <2> QED  BY <1>2, <2>1, <2>4 DEF SlaTyped
  <1>6. Accounted'
    <2>1. Accounted' <=> worked' = SpentBy(cal, Read, instant')
      BY <1>1, <1>3 DEF Accounted, SpentBy
    <2>2. CASE ~c.running
      BY <1>0, <1>1, <2>1, <2>2 DEF SpentBy, c
    <2>3. CASE c.running
      <3>1. c.since \in Int /\ c.since <= instant /\ c.elapsed \in Nat
        BY <1>0, <2>3, CalendarAssumption DEF Reading
      <3>2. Counted(cal, c.since, instant') = Counted(cal, c.since, instant) + Counted(cal, instant, instant')
        BY <1>2, <3>1, CountsAdd
      <3>3. Counted(cal, c.since, instant) \in Nat /\ Counted(cal, instant, instant') \in Nat
        BY <1>2, <3>1, WorkingFinite
      <3>4. worked = c.elapsed + Counted(cal, c.since, instant)
        BY <1>0, <2>3 DEF SpentBy
      <3>5. worked' = worked + Counted(cal, instant, instant')
        BY <1>0, <1>1, <1>4, <2>3
      <3>6. worked' = c.elapsed + Counted(cal, c.since, instant')
        BY <3>1, <3>2, <3>3, <3>4, <3>5
      <3> QED  BY <2>1, <2>3, <3>6 DEF SpentBy, c
    <2> QED  BY <2>2, <2>3
  <1>7. DeadlineKept'
    <2> SUFFICES ASSUME c.running
                 PROVE  \E t \in c.since .. instant' :
                          /\ column.elapsed = c.elapsed + Counted(cal, c.since, t)
                          /\ column.deadlineAt = RunsOut(cal, t, Later(0, Budget - column.elapsed))
      BY <1>1, <1>3 DEF DeadlineKept, c
    <2>1. PICK t \in c.since .. instant :
                          /\ column.elapsed = c.elapsed + Counted(cal, c.since, t)
                          /\ column.deadlineAt = RunsOut(cal, t, Later(0, Budget - column.elapsed))
      BY DEF SlaInv, DeadlineKept, c
    <2>2. t \in c.since .. instant'
      <3>1. c.since \in Int
        BY <1>0, CalendarAssumption DEF Reading
      <3> QED  BY <1>2, <2>1, <3>1
    <2> QED  BY <2>1, <2>2
  <1> QED  BY <1>5, <1>6, <1>7 DEF SlaInv

(* The clock begins so.                                                    *)
LEMMA SlaBegins == Clock!Init => SlaInv
  <1> SUFFICES ASSUME Clock!Init PROVE SlaInv
    OBVIOUS
  <1>1. /\ cal \in Calendar /\ instant = 0 /\ events = <<>> /\ holder = "SUPPLIER" /\ worked = 0
    BY DEF Clock!Init
  <1>2. Read = Clock!NotStarted
    BY <1>1, NothingRead DEF Read
  <1>3. /\ Read \in Reading /\ ~Read.started /\ ~Read.running /\ ~Read.stopped /\ Read.elapsed = 0
        /\ 0 \in 0..LastTick
    BY <1>2, CalendarAssumption DEF Clock!NotStarted, Reading
  <1>4. events \in Seq(Event)
    BY <1>1
  <1> QED  BY <1>1, <1>3, <1>4 DEF SlaInv, SlaTyped, Followed, Accounted, DeadlineKept

(* Every step of the clock keeps it.                                       *)
LEMMA SlaKept ==
  ASSUME SlaInv, Clock!Next
  PROVE  SlaInv'
  <1>0. /\ SlaTyped /\ Followed
    BY DEF SlaInv
  <1>1. ASSUME NEW event \in {"START", "PAUSE", "RESUME", "STOP"}, Clock!Record(event),
               holder' \in {"SUPPLIER", "PLATFORM", "NOBODY"},
               Read'.running <=> holder' = "PLATFORM",
               Read'.stopped <=> holder' = "NOBODY",
               Read'.started
        PROVE  SlaInv'
    <2>1. /\ cal' = cal /\ instant' = instant
          /\ events' \in Seq(Event) /\ events' # <<>>
          /\ Read' \in Reading
          /\ Read'.running => Read'.started /\ Read'.since <= instant
          /\ Accounted' /\ DeadlineKept'
      BY <1>1, RecordIs
    <2>2. SlaTyped'
      BY <1>0, <1>1, <2>1 DEF SlaTyped
    <2>3. Followed'
      BY <1>1, <2>1 DEF Followed
    <2> QED  BY <2>1, <2>2, <2>3 DEF SlaInv
  <1>2. /\ Read.started <=> events # <<>>
        /\ Read.running <=> holder = "PLATFORM"
        /\ Read.stopped <=> holder = "NOBODY"
        /\ holder \in {"SUPPLIER", "PLATFORM", "NOBODY"}
        /\ Read.running => Read.started
    BY <1>0 DEF Followed, SlaTyped
  <1>3. ASSUME NEW event \in {"START", "PAUSE", "RESUME", "STOP"}, Clock!Record(event)
        PROVE  /\ Read'.started <=> Read.started \/ (event = "START" /\ ~Read.stopped)
               /\ Read'.stopped <=> Read.stopped \/ event = "STOP"
               /\ Read'.running <=> /\ ~Read.stopped
                                    /\ \/ event \in {"START", "RESUME"} /\ Read.running
                                       \/ event = "START" /\ ~Read.started
                                       \/ event = "RESUME" /\ Read.started
    BY <1>3, RecordIs
  <1>4. CASE Clock!Submit
    <2>1. Clock!Record("START") /\ events = <<>> /\ holder = "SUPPLIER" /\ holder' = "PLATFORM"
      BY <1>4 DEF Clock!Submit
    <2>2. "START" \in {"START", "PAUSE", "RESUME", "STOP"}
      OBVIOUS
    <2> QED  BY <1>1, <1>2, <1>3, <2>1, <2>2
  <1>5. CASE Clock!Ask
    <2>1. Clock!Record("PAUSE") /\ holder = "PLATFORM" /\ holder' = "SUPPLIER"
      BY <1>5 DEF Clock!Ask
    <2>2. "PAUSE" \in {"START", "PAUSE", "RESUME", "STOP"}
      OBVIOUS
    <2> QED  BY <1>1, <1>2, <1>3, <2>1, <2>2
  <1>6. CASE Clock!Answer
    <2>1. Clock!Record("RESUME") /\ events # <<>> /\ holder = "SUPPLIER" /\ holder' = "PLATFORM"
      BY <1>6 DEF Clock!Answer
    <2>2. "RESUME" \in {"START", "PAUSE", "RESUME", "STOP"}
      OBVIOUS
    <2> QED  BY <1>1, <1>2, <1>3, <2>1, <2>2
  <1>7. CASE Clock!Decide
    <2>1. /\ Clock!Record("STOP") /\ events # <<>> /\ holder \in {"PLATFORM", "SUPPLIER"}
          /\ holder' = "NOBODY"
      BY <1>7 DEF Clock!Decide
    <2>2. "STOP" \in {"START", "PAUSE", "RESUME", "STOP"}
      OBVIOUS
    <2> QED  BY <1>1, <1>2, <1>3, <2>1, <2>2
  <1>8. CASE Clock!Repeat
    <2>1. /\ events # <<>> /\ holder' = holder
          /\ \/ Clock!Record("START")
             \/ holder \in {"SUPPLIER", "NOBODY"} /\ Clock!Record("PAUSE")
             \/ holder \in {"PLATFORM", "NOBODY"} /\ Clock!Record("RESUME")
      BY <1>8 DEF Clock!Repeat
    <2>2. CASE Clock!Record("START")
      BY <1>1, <1>2, <1>3, <2>1, <2>2
    <2>3. CASE holder \in {"SUPPLIER", "NOBODY"} /\ Clock!Record("PAUSE")
      BY <1>1, <1>2, <1>3, <2>1, <2>3
    <2>4. CASE holder \in {"PLATFORM", "NOBODY"} /\ Clock!Record("RESUME")
      BY <1>1, <1>2, <1>3, <2>1, <2>4
    <2> QED  BY <2>1, <2>2, <2>3, <2>4
  <1>9. CASE Clock!Tick
    BY <1>9, PassKeeps DEF Clock!Tick
  <1>10. CASE Clock!Travel
    <2>1. DayTicks \in Nat
      BY DayAssumption
    <2> QED  BY <1>10, <2>1, PassKeeps DEF Clock!Travel
  <1> QED  BY <1>4, <1>5, <1>6, <1>7, <1>8, <1>9, <1>10 DEF Clock!Next

(* ZM-SON-008: what is reconstructed from the log follows who holds the    *)
(* case, counts the working time the platform held it, and has the columns *)
(* that some instant since the last event gave.                            *)
THEOREM SlaHolds == MCSpec => []SlaInv
  <1>1. MCInit => SlaInv
    BY SlaBegins DEF MCInit
  <1>2. SlaInv /\ [MCNext]_<<part, vars, clockVars>> => SlaInv'
    <2> SUFFICES ASSUME SlaInv, [MCNext]_<<part, vars, clockVars>> PROVE SlaInv'
      OBVIOUS
    <2>1. CASE UNCHANGED clockVars
      <3>1. /\ cal' = cal /\ instant' = instant /\ events' = events /\ column' = column
            /\ holder' = holder /\ worked' = worked
        BY <2>1 DEF clockVars
      <3>2. Read' = Read
        <4>1. Read' = Clock!Reconstructed(cal', events')
          BY DEF Read
        <4> QED  BY <3>1, <4>1 DEF Read
      <3> QED  BY <3>1, <3>2 DEF SlaInv, SlaTyped, Followed, Accounted, DeadlineKept
    <2>2. CASE Clock!Next
      BY <2>2, SlaKept
    <2> QED  BY <2>1, <2>2 DEF MCNext, OfApplication, OfClock
  <1> QED  BY <1>1, <1>2, PTL DEF MCSpec

(* The time reconstructed from the log is the working time the platform    *)
(* held the case: no pause, resubmission, repeated event or change of the  *)
(* clocks adds to it or takes from it.                                     *)
THEOREM ElapsedIsWorkedHolds == MCSpec => []ElapsedIsWorked
  <1>1. SlaInv => ElapsedIsWorked
    <2> SUFFICES ASSUME SlaInv PROVE ElapsedIsWorked
      OBVIOUS
    <2>1. cal \in Calendar /\ instant \in 0..LastTick /\ Read \in Reading /\ worked = SpentBy(cal, Read, instant)
      BY DEF SlaInv, SlaTyped, Accounted, SpentBy
    <2>2. Clock!Spent(cal, Read, instant) = SpentBy(cal, Read, instant)
      BY <2>1, SpentIs
    <2> QED  BY <2>1, <2>2 DEF ElapsedIsWorked, Clock!ElapsedIsWorked, Read
  <1> QED  BY <1>1, SlaHolds, PTL

(* The deadline written beside the last event is still the one computed at *)
(* any instant before it, and the clock is in breach from it on.           *)
THEOREM DeadlineIsKeptHolds == MCSpec => []DeadlineIsKept
  <1>1. SlaInv => DeadlineIsKept
    <2> SUFFICES ASSUME SlaInv PROVE DeadlineIsKept
      OBVIOUS
    <2> DEFINE c == Read
               spent == SpentBy(cal, c, instant)
               remaining == Later(0, Budget - spent)
    <2>1. /\ cal \in Calendar /\ instant \in 0..LastTick /\ c \in Reading
          /\ c.running => c.since <= instant
          /\ instant \in Int /\ c.since \in Int /\ c.elapsed \in Nat /\ Budget \in Nat
          /\ c.since \in 0..LastTick
      <3>1. cal \in Calendar /\ instant \in 0..LastTick /\ c \in Reading /\ (c.running => c.since <= instant)
        BY DEF SlaInv, SlaTyped, Followed
      <3> HIDE DEF c
      <3> QED  BY <3>1, CalendarAssumption DEF Reading
    <2>2. /\ Clock!StateOf(cal, events, instant).running = c.running
          /\ Clock!StateOf(cal, events, instant).breached <=> c.running /\ remaining = 0
          /\ c.running => Clock!StateOf(cal, events, instant).deadlineAt = RunsOut(cal, instant, remaining)
      <3>1. Clock!Spent(cal, c, instant) = spent
        BY <2>1, SpentIs
      <3>2. Clock!Reconstructed(cal, events) = c
        BY DEF Read
      <3>3. Clock!Later(0, Budget - spent) = remaining
        BY DEF Clock!Later, Later
      <3>4. \A t, r : Clock!RunsOut(cal, t, r) = RunsOut(cal, t, r)
        BY SameTime
      <3> HIDE DEF c, spent, remaining
      <3> QED  BY <3>1, <3>2, <3>3, <3>4 DEF Clock!StateOf
    <2>3. ASSUME c.running, column.elapsed < Budget
          PROVE  IF instant < column.deadlineAt
                   THEN remaining # 0 /\ RunsOut(cal, instant, remaining) = column.deadlineAt
                   ELSE remaining = 0
      <3>1. PICK t \in c.since .. instant :
              /\ column.elapsed = c.elapsed + Counted(cal, c.since, t)
              /\ column.deadlineAt = RunsOut(cal, t, Later(0, Budget - column.elapsed))
        BY <2>3 DEF SlaInv, DeadlineKept
      <3> HIDE DEF c
      <3>2. t \in Int /\ c.since <= t /\ t <= instant /\ t \in 0..LastTick
        <4>1. c.since \in 0..LastTick /\ instant \in 0..LastTick /\ LastTick \in Nat
          BY <2>1, CalendarAssumption
        <4>2. t \in c.since .. instant
          BY <3>1
        <4> QED  BY <4>1, <4>2
      <3> DEFINE r == Budget - column.elapsed
                 k == Counted(cal, t, instant)
      <3>3. /\ Counted(cal, c.since, instant) = Counted(cal, c.since, t) + k
            /\ Counted(cal, c.since, t) \in Nat /\ k \in Nat
        BY <2>1, <3>2, CountsAdd, WorkingFinite
      <3>4. r \in 1..Budget /\ Later(0, r) = r
        BY <2>1, <2>3, <3>1, <3>3 DEF Later
      <3>5. spent = column.elapsed + k /\ column.elapsed \in Nat
        BY <2>1, <2>3, <3>1, <3>3 DEF SpentBy
      <3>6. Budget - spent = r - k /\ r \in Int /\ k \in Nat
        BY <2>1, <3>3, <3>4, <3>5
      <3>7. column.deadlineAt = RunsOut(cal, t, r)
        BY <3>1, <3>4
      <3> HIDE DEF r, k, spent
      <3>8. /\ instant < RunsOut(cal, t, r) => k < r /\ RunsOut(cal, instant, r - k) = RunsOut(cal, t, r)
            /\ ~(instant < RunsOut(cal, t, r)) => k >= r
        BY <2>1, <3>2, <3>4, DeadlineStays DEF k
      <3> QED  BY <3>6, <3>7, <3>8 DEF Later
    <2> HIDE DEF c, remaining
    <2> QED  BY <2>2, <2>3 DEF DeadlineIsKept, Clock!DeadlineIsKept
  <1> QED  BY <1>1, SlaHolds, PTL
=============================================================================
