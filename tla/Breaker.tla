-------------------------------- MODULE Breaker --------------------------------
(***************************************************************************)
(* The circuit breaker in front of one government registry, shared by all  *)
(* lookups of the process.  A lookup tries a few times, each try bounded   *)
(* by a timeout, and reports every result to the breaker; lookups overlap. *)
(***************************************************************************)
EXTENDS Naturals

CONSTANTS
  Lookup,       \* bound: lookups under way at once
  Threshold,    \* circuitThreshold
  MaxAttempts,  \* maxAttempts
  Reset,        \* circuitResetMs
  LastInstant   \* bound: the clock

VARIABLES
  circuit,      \* CLOSED, OPEN or HALF_OPEN
  failures,     \* consecutive unanswered results, as the breaker counts them
  openedAt,
  call,         \* what each lookup does
  instant,      \* nowMs
  silent,       \* history: unanswered results since the last answer
  silentAt      \* history: when the last of them came

breaker == <<circuit, failures, openedAt>>
vars == <<breaker, call, instant, silent, silentAt>>

Idle == [step |-> "idle"]

Fresh == circuit' = "CLOSED" /\ failures' = 0 /\ openedAt' = 0

Init ==
  /\ circuit = "CLOSED" /\ failures = 0 /\ openedAt = 0
  /\ call = [l \in Lookup |-> Idle]
  /\ instant = 0
  /\ silent = 0 /\ silentAt = 0

Begins(l) == call[l].step # "ask"
Goto(l, c) == call' = [call EXCEPT ![l] = c]

(* allowsRequest: an open circuit lets a call through when the reset is    *)
(* due, and a half-open one lets every call through.                       *)
Allows == circuit = "OPEN" => instant - openedAt >= Reset

Ask(l) ==
  /\ Begins(l) /\ Allows
  /\ circuit' = IF circuit = "OPEN" THEN "HALF_OPEN" ELSE circuit
  /\ Goto(l, [step |-> "ask", attempt |-> 1])
  /\ UNCHANGED <<failures, openedAt, instant, silent, silentAt>>

(* CIRCUIT_OPEN, and history: how long the registry had been silent.       *)
Refuse(l) ==
  /\ Begins(l) /\ ~Allows
  /\ Goto(l, [step |-> "refused", after |-> instant - silentAt])
  /\ UNCHANGED <<breaker, instant, silent, silentAt>>

(* Mutant of RecordSuccess: the count goes on where it was.                *)
RecordSuccessUncounted == circuit' = "CLOSED" /\ failures' = failures

RecordSuccess == circuit' = "CLOSED" /\ failures' = 0

(* An answer, NOT_FOUND included, ends the lookup.                         *)
Answer(l) ==
  /\ call[l].step = "ask"
  /\ RecordSuccess
  /\ Goto(l, Idle)
  /\ silent' = 0
  /\ UNCHANGED <<openedAt, instant, silentAt>>

RecordFailure ==
  /\ failures' = failures + 1
  /\ IF circuit = "HALF_OPEN" \/ failures' >= Threshold
       THEN circuit' = "OPEN" /\ openedAt' = instant
       ELSE UNCHANGED <<circuit, openedAt>>

(* A timeout, an exception or an outage: the lookup tries again, although  *)
(* the circuit may have opened meanwhile.                                  *)
Silence(l) ==
  /\ call[l].step = "ask"
  /\ RecordFailure
  /\ Goto(l, IF call[l].attempt < MaxAttempts
               THEN [step |-> "ask", attempt |-> call[l].attempt + 1] ELSE Idle)
  /\ silent' = silent + 1 /\ silentAt' = instant
  /\ UNCHANGED instant

(* The breaker lives in the process and its lookups die with it.           *)
Restart ==
  /\ Fresh
  /\ call' = [l \in Lookup |-> Idle]
  /\ silent' = 0
  /\ UNCHANGED <<instant, silentAt>>

Tick ==
  /\ instant < LastInstant
  /\ instant' = instant + 1
  /\ UNCHANGED <<breaker, call, silent, silentAt>>

Next ==
  \/ \E l \in Lookup : Ask(l) \/ Refuse(l) \/ Answer(l) \/ Silence(l)
  \/ Restart \/ Tick

Spec == Init /\ [][Next]_vars
-----------------------------------------------------------------------------
(* ZM-GOV-008: the breaker's word is about the registry, however lookups,  *)
(* their retries and late results overlap.  It calls the registry freely   *)
(* exactly as long as fewer than the threshold of results in a row went    *)
(* unanswered; what it refuses comes within the reset of the latest of     *)
(* them; and a half-open circuit is being tried, so it always decides.     *)
OutageIsKnown ==
  /\ circuit = "CLOSED" <=> silent < Threshold
  /\ circuit = "HALF_OPEN" => \E l \in Lookup : call[l].step = "ask"
  /\ \A l \in Lookup : call[l].step = "refused" => call[l].after < Reset
=============================================================================
