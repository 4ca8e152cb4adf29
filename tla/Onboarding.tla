------------------------------ MODULE Onboarding ------------------------------
(***************************************************************************)
(* One supplier's application: submission, the registries' answers,        *)
(* requests for information, decisions, and the SLA clock that counts only *)
(* the time the platform holds the case.                                   *)
(*                                                                         *)
(* Every handler reads the application in a statement of its own and later *)
(* writes the status it decided on by id, with the clock event and the     *)
(* organization's status in the same transaction.  work[w].read is what    *)
(* it decided on.  Time is counted in the clock's business hours.          *)
(***************************************************************************)
EXTENDS Integers

CONSTANTS
  Worker,    \* bound: requests under way at once
  Request,   \* bound: information requests there can be
  Source,    \* the registries asked: CCD, ISTD, GAM
  LastHour   \* bound: the clock

ASSUME HourAssumption == LastHour \in Nat

VARIABLES
  status,     \* supplier_applications.status
  org,        \* organizations.status
  clock,      \* sla_clock_events, as reconstructSlaClock reads them
  request,    \* information_requests
  adverse,    \* the registries whose answer disqualifies this applicant
  work,       \* what each request's handler does next
  now,
  held,       \* history: the hours the platform held the case
  overtaken,  \* history: a status was written over one that nobody had read
  dropped     \* history: a handler died between its submission and its answer

application == <<status, org, clock, overtaken>>
vars == <<application, request, adverse, work, now, held, dropped>>

Decided == {"APPROVED", "APPROVED_CONDITIONAL", "REJECTED"}
Waiting == {"INFORMATION_REQUIRED", "GOVERNMENT_SERVICE_UNAVAILABLE"}
Held == {"SUBMITTED", "AUTOMATED_VERIFICATION", "UNDER_REVIEW", "INFORMATION_RESUBMITTED",
         "FINAL_REVIEW"}
Status == {"DRAFT"} \cup Held \cup Waiting \cup Decided

(* Mutant of Moves.                                                        *)
MovesWithoutHardRejection(s) ==
  CASE s = "DRAFT" -> {"SUBMITTED"}
    [] s = "AUTOMATED_VERIFICATION" -> {"UNDER_REVIEW", "GOVERNMENT_SERVICE_UNAVAILABLE"}
    [] s = "GOVERNMENT_SERVICE_UNAVAILABLE" -> {"AUTOMATED_VERIFICATION"}
    [] s \in {"UNDER_REVIEW", "INFORMATION_RESUBMITTED"} -> Decided \cup {"INFORMATION_REQUIRED"}
    [] s = "INFORMATION_REQUIRED" -> {"INFORMATION_RESUBMITTED", "REJECTED"}
    [] OTHER -> {}

(* TRANSITIONS                                                             *)
Moves(s) ==
  CASE s = "DRAFT" -> {"SUBMITTED"}
    [] s = "SUBMITTED" -> {"AUTOMATED_VERIFICATION"}
    [] s = "AUTOMATED_VERIFICATION" ->
         {"UNDER_REVIEW", "GOVERNMENT_SERVICE_UNAVAILABLE", "REJECTED"}
    [] s = "GOVERNMENT_SERVICE_UNAVAILABLE" -> {"AUTOMATED_VERIFICATION", "UNDER_REVIEW"}
    [] s = "UNDER_REVIEW" -> Decided \cup Waiting \cup {"FINAL_REVIEW"}
    [] s = "INFORMATION_REQUIRED" -> {"INFORMATION_RESUBMITTED", "REJECTED"}
    [] s = "INFORMATION_RESUBMITTED" ->
         Decided \cup {"UNDER_REVIEW", "FINAL_REVIEW", "INFORMATION_REQUIRED"}
    [] s = "FINAL_REVIEW" -> Decided \cup {"INFORMATION_REQUIRED"}
    [] OTHER -> {}

(* Mutant of ClockEvent.                                                   *)
ClockEventNoResume(from, to) ==
  IF to = "SUBMITTED" THEN "START"
  ELSE IF to \in Waiting THEN "PAUSE"
  ELSE IF to \in Decided THEN "STOP"
  ELSE IF to = "INFORMATION_RESUBMITTED" THEN "RESUME" ELSE "NONE"

(* The clock event each of the transitions implies.                        *)
ClockEvent(from, to) ==
  IF to = "SUBMITTED" THEN "START"
  ELSE IF to \in Waiting THEN "PAUSE"
  ELSE IF to \in Decided THEN "STOP"
  ELSE IF from \in Waiting THEN "RESUME" ELSE "NONE"

(* What one more event makes of the clock; redundant ones change nothing.  *)
Elapsed(c, at) == c.elapsed + (IF c.running THEN at - c.since ELSE 0)

Applied(c, event, at) ==
  CASE event = "START" /\ ~c.started /\ ~c.stopped ->
         [started |-> TRUE, running |-> TRUE, stopped |-> FALSE, since |-> at, elapsed |-> c.elapsed]
    [] event = "RESUME" /\ c.started /\ ~c.running /\ ~c.stopped ->
         [started |-> TRUE, running |-> TRUE, stopped |-> FALSE, since |-> at, elapsed |-> c.elapsed]
    [] event \in {"PAUSE", "STOP"} ->
         [started |-> c.started, running |-> FALSE, stopped |-> c.stopped \/ event = "STOP",
          since |-> 0, elapsed |-> Elapsed(c, at)]
    [] OTHER -> c

(* organizationStatusFor                                                   *)
OrganizationStatusFor(s, before) ==
  CASE s = "APPROVED" -> "ACTIVE"
    [] s \in {"APPROVED_CONDITIONAL", "REJECTED"} -> s
    [] OTHER -> before

Idle == [op |-> "idle"]
Goto(w, step) == work' = [work EXCEPT ![w] = step]

Init ==
  /\ status = "DRAFT"
  /\ org = "ONBOARDING"
  /\ clock = [started |-> FALSE, running |-> FALSE, stopped |-> FALSE, since |-> 0, elapsed |-> 0]
  /\ request = [r \in Request |-> "NONE"]
  /\ adverse \in SUBSET Source
  /\ work = [w \in Worker |-> Idle]
  /\ now = 0
  /\ held = 0
  /\ overtaken = FALSE
  /\ dropped = FALSE

(* transition: the whitelist judges the status that was read.              *)
Transition(read, to) ==
  /\ to \in Moves(read)
  /\ status' = to
  /\ clock' = Applied(clock, ClockEvent(read, to), now)
  /\ org' = OrganizationStatusFor(to, org)
  /\ overtaken' = (overtaken \/ status # read)
-----------------------------------------------------------------------------
(* submit and retryGovernment put the application into verification and    *)
(* then verify it.                                                         *)
EnterRead(w) ==
  /\ work[w] = Idle
  /\ status \in {"DRAFT", "GOVERNMENT_SERVICE_UNAVAILABLE"}
  /\ Goto(w, [op |-> "enter", read |-> status])
  /\ UNCHANGED <<application, request, adverse, now, held, dropped>>

(* Both transitions of a submission are one transaction.                   *)
Submit(w) ==
  /\ work[w].op = "enter" /\ work[w].read = "DRAFT"
  /\ status' = "AUTOMATED_VERIFICATION"
  /\ clock' = Applied(clock, ClockEvent("DRAFT", "SUBMITTED"), now)
  /\ overtaken' = (overtaken \/ status # "DRAFT")
  /\ Goto(w, [op |-> "verify"])
  /\ UNCHANGED <<org, request, adverse, now, held, dropped>>

Retry(w) ==
  /\ work[w].op = "enter" /\ work[w].read = "GOVERNMENT_SERVICE_UNAVAILABLE"
  /\ Transition(work[w].read, "AUTOMATED_VERIFICATION")
  /\ Goto(w, [op |-> "verify"])
  /\ UNCHANGED <<request, adverse, now, held, dropped>>

VerifyRead(w) ==
  /\ work[w].op = "verify"
  /\ Goto(w, [op |-> "ask", read |-> status, left |-> Source, answered |-> {}])
  /\ UNCHANGED <<application, request, adverse, now, held, dropped>>

(* A registry answers, or does not: a timeout, an error, an open circuit.  *)
Ask(w) ==
  /\ work[w].op = "ask"
  /\ \E s \in work[w].left :
       \E answered \in {work[w].answered, work[w].answered \cup {s}} :
         Goto(w, [op |-> "ask", read |-> work[w].read, left |-> work[w].left \ {s},
                  answered |-> answered])
  /\ UNCHANGED <<application, request, adverse, now, held, dropped>>

(* Availability is asked before eligibility (assessHardRejection).         *)
RouteOf(answered) ==
  IF answered # Source THEN "GOVERNMENT_SERVICE_UNAVAILABLE"
  ELSE IF adverse # {} THEN "REJECTED" ELSE "UNDER_REVIEW"

Route(w) ==
  /\ work[w].op = "ask" /\ work[w].left = {}
  /\ Transition(work[w].read, RouteOf(work[w].answered))
  /\ Goto(w, Idle)
  /\ UNCHANGED <<request, adverse, now, held, dropped>>

(* The status it read does not allow the route.                            *)
RouteRefused(w) ==
  /\ work[w].op = "ask" /\ work[w].left = {}
  /\ RouteOf(work[w].answered) \notin Moves(work[w].read)
  /\ Goto(w, Idle)
  /\ UNCHANGED <<application, request, adverse, now, held, dropped>>

DecideRead(w) ==
  /\ work[w] = Idle
  /\ Moves(status) \cap (Decided \cup {"INFORMATION_REQUIRED"}) # {}
  /\ Goto(w, [op |-> "decide", read |-> status])
  /\ UNCHANGED <<application, request, adverse, now, held, dropped>>

Decide(w) ==
  /\ work[w].op = "decide"
  /\ \/ /\ \E to \in Decided : Transition(work[w].read, to)
        /\ UNCHANGED request
     \/ /\ Transition(work[w].read, "INFORMATION_REQUIRED")
        /\ \E r \in Request : request[r] = "NONE" /\ request' = [request EXCEPT ![r] = "OPEN"]
  /\ Goto(w, Idle)
  /\ UNCHANGED <<adverse, now, held, dropped>>

RespondRead(w) ==
  /\ work[w] = Idle
  /\ \E r \in Request :
       request[r] = "OPEN" /\ Goto(w, [op |-> "respond", read |-> status, request |-> r])
  /\ UNCHANGED <<application, request, adverse, now, held, dropped>>

Open == {r \in Request : request[r] = "OPEN"}

(* Mutant of Last.                                                         *)
LastCountingItself(r) == Open = {}

(* Nothing else is outstanding.                                            *)
Last(r) == Open \subseteq {r}

(* The open transaction holds the request's row and has counted the others *)
(* that are committed as open.                                             *)
RespondCount(w) ==
  /\ work[w].op = "respond"
  /\ request[work[w].request] = "OPEN"
  /\ \A v \in Worker : work[v].op = "answer" => work[v].request # work[w].request
  /\ Goto(w, [op |-> "answer", read |-> work[w].read, request |-> work[w].request,
              last |-> Last(work[w].request)])
  /\ UNCHANGED <<application, request, adverse, now, held, dropped>>

Respond(w) ==
  /\ work[w].op = "answer"
  /\ request' = [request EXCEPT ![work[w].request] = "FULFILLED"]
  /\ IF work[w].last /\ work[w].read = "INFORMATION_REQUIRED"
       THEN Transition(work[w].read, "INFORMATION_RESUBMITTED")
       ELSE UNCHANGED application
  /\ Goto(w, Idle)
  /\ UNCHANGED <<adverse, now, held, dropped>>

(* Refused, or dead: what was committed stays.                             *)
Die(w) ==
  /\ work[w] # Idle
  /\ Goto(w, Idle)
  /\ dropped' = (dropped \/ work[w].op \in {"verify", "ask"})
  /\ UNCHANGED <<application, request, adverse, now, held>>

Tick ==
  /\ now < LastHour
  /\ now' = now + 1
  /\ held' = IF status \in Held THEN held + 1 ELSE held
  /\ UNCHANGED <<application, request, adverse, work, dropped>>

Next ==
  \/ \E w \in Worker :
       \/ EnterRead(w) \/ Submit(w) \/ Retry(w)
       \/ VerifyRead(w) \/ Ask(w) \/ Route(w) \/ RouteRefused(w)
       \/ DecideRead(w) \/ Decide(w)
       \/ RespondRead(w) \/ RespondCount(w) \/ Respond(w)
       \/ Die(w)
  \/ Tick

Spec == Init /\ [][Next]_vars
-----------------------------------------------------------------------------
Step ==
  {Idle} \cup [op : {"enter", "decide"}, read : Status] \cup [op : {"verify"}]
  \cup [op : {"ask"}, read : Status, left : SUBSET Source, answered : SUBSET Source]
  \cup [op : {"respond"}, read : Status, request : Request]
  \cup [op : {"answer"}, read : Status, request : Request, last : BOOLEAN]

TypeOK ==
  /\ status \in Status
  /\ org \in {"ONBOARDING", "ACTIVE", "APPROVED_CONDITIONAL", "REJECTED"}
  /\ clock \in [started : BOOLEAN, running : BOOLEAN, stopped : BOOLEAN, since : 0..LastHour,
                elapsed : Int]
  /\ request \in [Request -> {"NONE", "OPEN", "FULFILLED"}]
  /\ adverse \in SUBSET Source
  /\ work \in [Worker -> Step]
  /\ now \in 0..LastHour
  /\ held \in Nat
  /\ overtaken \in BOOLEAN
  /\ dropped \in BOOLEAN

(* ZM-SON-008: the clock never charges the platform for an hour in which   *)
(* it did not hold the case, whatever handlers overtake each other; and it *)
(* counts every hour it did unless one was.                                *)
ClockIsHonest ==
  /\ Elapsed(clock, now) <= held
  /\ ~overtaken => Elapsed(clock, now) = held

(* An application in automated verification is being verified, unless the  *)
(* request that did so died: no concurrent retry, decision or submission   *)
(* leaves it there.                                                        *)
VerificationIsInHand ==
  status = "AUTOMATED_VERIFICATION" =>
    \/ dropped
    \/ \E w \in Worker :
         \/ work[w].op = "verify"
         \/ work[w].op = "ask" /\ work[w].read = "AUTOMATED_VERIFICATION"

(* An application that waits for information has a request that the        *)
(* supplier can answer, and only then or once it is refused has one open.  *)
AnswerableWhileWaiting ==
  ~overtaken =>
    /\ status = "INFORMATION_REQUIRED" => Open # {}
    /\ Open # {} => status \in {"INFORMATION_REQUIRED", "REJECTED"}
=============================================================================
