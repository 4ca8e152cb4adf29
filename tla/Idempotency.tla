----------------------------- MODULE Idempotency -----------------------------
(***************************************************************************)
(* The Idempotency-Key header: requests of one organization that carry the *)
(* same key, which differ only when the client reuses it for another body. *)
(*                                                                         *)
(* Whoever inserts the key's row executes; the others look at the row.     *)
(* Each statement is a step, and a request may die between two of them.    *)
(* The writes that store a response or release a claim are attempted once  *)
(* and their errors swallowed.                                             *)
(***************************************************************************)
CONSTANTS
  Attempt,   \* requests, each sent once
  Body,      \* what hashRequest tells apart: method, url and body
  None       \* no row, no response

VARIABLES
  row,       \* idempotency_keys: the key's row
  step,      \* what each request does next
  body,      \* what each request asks
  owner,     \* requests whose insert won
  executed,  \* requests whose handler succeeded
  answer,    \* the response each was given: that of the request named
  released,  \* history: a claim was given back
  late       \* history: requests that came when a response was stored

request == <<step, body, owner, answer>>
vars == <<row, request, executed, released, late>>

Step == {"unsent", "claim", "look", "execute", "complete", "release", "answered", "refused", "dead"}
Row == [hash : Body, in_progress : BOOLEAN, response : Attempt \cup {None}]

ASSUME NoneAssumption == None \notin Attempt /\ None \notin Row

Init ==
  /\ row = None
  /\ step = [a \in Attempt |-> "unsent"]
  /\ body \in [Attempt -> Body]
  /\ owner = {}
  /\ executed = {}
  /\ answer = [a \in Attempt |-> None]
  /\ released = FALSE
  /\ late = {}

Goto(a, s) == step' = [step EXCEPT ![a] = s]

Stored == row # None /\ ~row.in_progress

Send(a) ==
  /\ step[a] = "unsent"
  /\ Goto(a, "claim")
  /\ late' = IF Stored THEN late \cup {a} ELSE late
  /\ UNCHANGED <<row, body, owner, answer, executed, released>>

Claimed(a) == [hash |-> body[a], in_progress |-> TRUE, response |-> None]

(* Mutant of Free.                                                         *)
FreeUnlessStored == row = None \/ row.in_progress

Free == row = None

(* INSERT ... ON CONFLICT DO NOTHING                                       *)
Claim(a) ==
  /\ step[a] = "claim"
  /\ IF Free THEN row' = Claimed(a) /\ owner' = owner \cup {a} /\ Goto(a, "execute")
             ELSE UNCHANGED <<row, owner>> /\ Goto(a, "look")
  /\ UNCHANGED <<body, answer, executed, released, late>>

(* A row that is gone means the key is taken to be free again.             *)
Look(a) ==
  /\ step[a] = "look"
  /\ IF row = None THEN Goto(a, "execute") /\ UNCHANGED answer
     ELSE IF row.hash # body[a] \/ row.in_progress THEN Goto(a, "refused") /\ UNCHANGED answer
     ELSE Goto(a, "answered") /\ answer' = [answer EXCEPT ![a] = row.response]
  /\ UNCHANGED <<row, body, owner, executed, released, late>>

(* next.handle(): the handler's own transaction commits, or fails.         *)
Execute(a) ==
  /\ step[a] = "execute"
  /\ \/ executed' = executed \cup {a} /\ Goto(a, "complete")
     \/ executed' = executed /\ Goto(a, IF a \in owner THEN "release" ELSE "refused")
  /\ UNCHANGED <<row, body, owner, answer, released, late>>

Completed(a) == [hash |-> row.hash, in_progress |-> FALSE, response |-> a]

(* UPDATE by key, which may find no row or fail; the response is given.    *)
Complete(a) ==
  /\ step[a] = "complete"
  /\ row' \in (IF row = None THEN {row} ELSE {row, Completed(a)})
  /\ answer' = [answer EXCEPT ![a] = a]
  /\ Goto(a, "answered")
  /\ UNCHANGED <<body, owner, executed, released, late>>

(* Mutant of Given.                                                        *)
GivenBack == None

(* What the DELETE of a claim in progress leaves.                          *)
Given == IF Stored THEN row ELSE None

Release(a) ==
  /\ step[a] = "release"
  /\ row' \in {row, Given}
  /\ released' = (released \/ row' # row)
  /\ Goto(a, "refused")
  /\ UNCHANGED <<body, owner, answer, executed, late>>

Die(a) ==
  /\ step[a] \notin {"unsent", "answered", "refused", "dead"}
  /\ Goto(a, "dead")
  /\ UNCHANGED <<row, body, owner, answer, executed, released, late>>

Next ==
  \E a \in Attempt :
    Send(a) \/ Claim(a) \/ Look(a) \/ Execute(a) \/ Complete(a) \/ Release(a) \/ Die(a)

Spec == Init /\ [][Next]_vars
-----------------------------------------------------------------------------
TypeOK ==
  /\ row \in Row \cup {None}
  /\ step \in [Attempt -> Step]
  /\ body \in [Attempt -> Body]
  /\ owner \subseteq Attempt
  /\ executed \subseteq Attempt
  /\ answer \in [Attempt -> Attempt \cup {None}]
  /\ released \in BOOLEAN
  /\ late \subseteq Attempt

(* As long as no claim is released, requests with one key have one         *)
(* outcome: one of them executes, for one body, and whoever is answered is *)
(* given its response, however they interleave, die, or fail to store it.  *)
OneOutcome ==
  ~released =>
    \A a, b \in Attempt :
      a \in executed /\ (b \in executed \/ answer[b] # None) =>
        body[a] = body[b] /\ (b \in executed => a = b) /\ answer[b] \in {None, a}

(* A request that comes after a response was stored never executes, even   *)
(* when claims were released and other requests ran without one meanwhile. *)
LateIsReplayed == late \cap executed = {}
=============================================================================
