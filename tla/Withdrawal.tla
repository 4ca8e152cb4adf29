------------------------------ MODULE Withdrawal ------------------------------
(***************************************************************************)
(* After a deal: the cases in which its bank withdraws an offer, their     *)
(* decision, and the requests to list the receivable again, which an       *)
(* eligible decision and the supplier both raise and the platform approves.*)
(*                                                                         *)
(* Opening a case and asking for a relisting look for an open row and then *)
(* insert; only the requests have an index that refuses a second one.  A   *)
(* decision and an approval lock their row and commit at once.             *)
(***************************************************************************)
CONSTANTS
  Case,      \* bound: withdrawal_cases of the offer
  Request,   \* bound: relisting_requests of the transaction
  Caller,    \* bound: requests under way at once
  Supplier   \* who asked for a relisting when no decision did

VARIABLES
  status,    \* withdrawal_cases.status
  eligible,  \* withdrawal_cases.relisting_eligible
  asked,     \* relisting_requests: status, and what raised each
  caller     \* what each request's handler does next

vars == <<status, eligible, asked, caller>>

NoRow == [status |-> "NONE", by |-> Supplier]
Verdict == {"PENALTY_ASSESSED", "NO_PENALTY"}

Init ==
  /\ status = [c \in Case |-> "NONE"]
  /\ eligible = [c \in Case |-> FALSE]
  /\ asked = [r \in Request |-> NoRow]
  /\ caller = [k \in Caller |-> "idle"]

Goto(k, step) == caller' = [caller EXCEPT ![k] = step]

OpenCase == {c \in Case : status[c] # "NONE"}
OpenRequest == {r \in Request : asked[r].status = "REQUESTED"}
-----------------------------------------------------------------------------
(* open: no transition reaches CLOSED, so every case of the offer counts.  *)
OpenCheck(k) ==
  /\ caller[k] = "idle" /\ OpenCase = {}
  /\ Goto(k, "open")
  /\ UNCHANGED <<status, eligible, asked>>

OpenInsert(k) ==
  /\ caller[k] = "open"
  /\ \E c \in Case : status[c] = "NONE" /\ status' = [status EXCEPT ![c] = "WITHDRAWAL_REQUESTED"]
  /\ Goto(k, "idle")
  /\ UNCHANGED <<eligible, asked>>

(* relistRequest                                                           *)
RelistCheck(k) ==
  /\ caller[k] = "idle" /\ OpenRequest = {}
  /\ Goto(k, "relist")
  /\ UNCHANGED <<status, eligible, asked>>

(* uq_open_relisting_request                                               *)
Insertable == OpenRequest = {}

Raise(by) ==
  /\ Insertable
  /\ \E r \in Request :
       asked[r] = NoRow /\ asked' = [asked EXCEPT ![r] = [status |-> "REQUESTED", by |-> by]]

RelistInsert(k) ==
  /\ caller[k] = "relist"
  /\ Raise(Supplier) \/ (~Insertable /\ UNCHANGED asked)
  /\ Goto(k, "idle")
  /\ UNCHANGED <<status, eligible>>

(* Mutant of Raised: the decision stands although its request is refused.  *)
RaisedIfFree(c) == Raise(c) \/ (~Insertable /\ UNCHANGED asked)

(* What an eligible decision inserts, or it is rolled back whole.          *)
Raised(c) == Raise(c)

(* canProgressWithdrawal: a decided case may be decided the same way again.*)
Decidable(c, next) == status[c] \in {"WITHDRAWAL_REQUESTED", next}

Decide(c) ==
  /\ \E next \in Verdict : Decidable(c, next) /\ status' = [status EXCEPT ![c] = next]
  /\ \/ eligible' = [eligible EXCEPT ![c] = TRUE] /\ Raised(c)
     \/ eligible' = [eligible EXCEPT ![c] = FALSE] /\ UNCHANGED asked
  /\ UNCHANGED caller

(* approveRelisting: nothing else comes of it.                             *)
Approve(r) ==
  /\ asked[r].status = "REQUESTED"
  /\ asked' = [asked EXCEPT ![r].status = "APPROVED"]
  /\ UNCHANGED <<status, eligible, caller>>

Die(k) ==
  /\ caller[k] # "idle"
  /\ Goto(k, "idle")
  /\ UNCHANGED <<status, eligible, asked>>

Next ==
  \/ \E k \in Caller :
       OpenCheck(k) \/ OpenInsert(k) \/ RelistCheck(k) \/ RelistInsert(k) \/ Die(k)
  \/ \E c \in Case : Decide(c)
  \/ \E r \in Request : Approve(r)

Spec == Init /\ [][Next]_vars
-----------------------------------------------------------------------------
(* ZM-MKT-016, ZM-REC-018: however decisions, repeated decisions and the   *)
(* supplier's own requests overlap, the receivable has one open relisting  *)
(* request, and every case found eligible has raised one of its own.       *)
RelistedOnRequest ==
  /\ \A r, s \in OpenRequest : r = s
  /\ \A c \in Case : eligible[c] => \E r \in Request : asked[r] # NoRow /\ asked[r].by = c
=============================================================================
