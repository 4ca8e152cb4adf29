------------------------------ MODULE MCRequests ------------------------------
(***************************************************************************)
(* Five protocols of concurrent requests that share no state, checked in   *)
(* one run: a behaviour is of one of them, and the others stay as they     *)
(* begin.                                                                  *)
(***************************************************************************)
EXTENDS Idempotency, Naturals

CONSTANTS a1, a2, a3, a4, x, y
CONSTANTS Reader, MaxRow, r1, r2
CONSTANTS Case, Request, Caller, Supplier, c1, c2, q1, q2, q3, k1, k2
CONSTANTS Lookup, Threshold, MaxAttempts, Reset, LastInstant, l1, l2
CONSTANTS Handler, Value, MaxEntry, LastMoment, h1, h2

(* Nothing is told apart from every content and every reading.             *)
ASSUME FilesAssumption ==
  MaxRow \in Nat /\ None \notin {"INVOICE", "MISLABELLED", "OTHER", "READ", "FAILED"}

(* A breaker opens after some silence, and for a time.                     *)
ASSUME BreakerAssumption == Threshold \in Nat \ {0} /\ Reset \in Nat

VARIABLES
  protocol,                                          \* whose behaviour it is
  docs, object, reading, reader, altered, broken,    \* Documents
  status, eligible, asked, caller,                   \* Withdrawal
  circuit, failures, openedAt, call, instant, silent, silentAt,   \* Breaker
  entry, registry, handler, moment, collided                      \* Registry

Files == INSTANCE Documents
Cases == INSTANCE Withdrawal
Circuit == INSTANCE Breaker
Field == INSTANCE Registry

files == <<docs, object, reading, reader, altered, broken>>
cases == <<status, eligible, asked, caller>>
lookups == <<circuit, failures, openedAt, call, instant, silent, silentAt>>
field == <<entry, registry, handler, moment, collided>>

MCInit ==
  /\ Init /\ Files!Init /\ Cases!Init /\ Circuit!Init /\ Field!Init
  /\ protocol \in {"KEY", "FILES", "CASES", "LOOKUPS", "FIELD"}
  /\ protocol # "KEY" => body = [a \in Attempt |-> x]
  /\ protocol # "FIELD" => entry = <<>> /\ registry = "ACTIVE"

OfKey == protocol = "KEY" /\ Next /\ UNCHANGED <<files, cases, lookups, field>>
OfFiles == protocol = "FILES" /\ Files!Next /\ UNCHANGED <<vars, cases, lookups, field>>
OfCases == protocol = "CASES" /\ Cases!Next /\ UNCHANGED <<vars, files, lookups, field>>
OfLookups == protocol = "LOOKUPS" /\ Circuit!Next /\ UNCHANGED <<vars, files, cases, field>>
OfField == protocol = "FIELD" /\ Field!Next /\ UNCHANGED <<vars, files, cases, lookups>>

MCNext == (OfKey \/ OfFiles \/ OfCases \/ OfLookups \/ OfField) /\ UNCHANGED protocol

MCSpec == MCInit /\ [][MCNext]_<<protocol, vars, files, cases, lookups, field>>

(* A failed integrity check accuses an altered file, one that arrived      *)
(* while it was checked, or one scored before it was hashed.               *)
OnlyChangeAccuses == Files!OnlyChangeAccuses

(* A file whose hash is recorded is read, unless a handler died.           *)
HashedIsRead == Files!HashedIsRead

(* One open relisting request, and one raised by every eligible case.      *)
RelistedOnRequest == Cases!RelistedOnRequest

(* ZM-GOV-008: the breaker refuses the registry only while it is silent.   *)
OutageIsKnown == Circuit!OutageIsKnown

(* What the registry supplied stays in force, outages or not.              *)
RegistryPrevails == Field!RegistryPrevails
=============================================================================
