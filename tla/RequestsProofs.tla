----------------------------- MODULE RequestsProofs -----------------------------
(***************************************************************************)
(* Proofs about the protocols of concurrent requests, for any number of    *)
(* requests, bodies, documents, cases, lookups and rows: Idempotency, and  *)
(* Documents, Withdrawal, Breaker and Registry as MCRequests runs them.    *)
(***************************************************************************)
EXTENDS MCRequests, Integers, Sequences, FiniteSets, FiniteSetTheorems,
        SequenceTheorems, WellFoundedInduction, TLAPS

USE DEF request, Goto

(* Every variable keeps its type.                                          *)
THEOREM TypeCorrect == Spec => []TypeOK
  <1>1. Init => TypeOK
    BY DEF Init, TypeOK, Step
  <1>2. TypeOK /\ [Next]_vars => TypeOK'
    <2> SUFFICES ASSUME TypeOK, [Next]_vars PROVE TypeOK'
      OBVIOUS
    <2>1. ASSUME NEW a \in Attempt, Send(a) \/ Look(a) \/ Die(a) PROVE TypeOK'
      <3>1. answer'[a] \in Attempt \cup {None} /\ answer' \in [Attempt -> Attempt \cup {None}]
        BY <2>1 DEF Send, Look, Die, TypeOK, Row
      <3> QED  BY <2>1, <3>1 DEF Send, Look, Die, TypeOK, Step
    <2>2. ASSUME NEW a \in Attempt, Claim(a) PROVE TypeOK'
      <3>1. Claimed(a) \in Row
        BY DEF Claimed, Row, TypeOK
      <3> QED  BY <2>2, <3>1 DEF Claim, TypeOK, Step
    <2>3. ASSUME NEW a \in Attempt, Execute(a) PROVE TypeOK'
      BY <2>3 DEF Execute, TypeOK, Step
    <2>4. ASSUME NEW a \in Attempt, Complete(a) PROVE TypeOK'
      <3>1. row # None => Completed(a) \in Row
        BY DEF Completed, Row, TypeOK
      <3> QED  BY <2>4, <3>1 DEF Complete, TypeOK, Step
    <2>5. ASSUME NEW a \in Attempt, Release(a) PROVE TypeOK'
      <3>1. Given \in Row \cup {None}
        BY DEF Given, TypeOK
      <3> QED  BY <2>5, <3>1 DEF Release, TypeOK, Step
    <2>6. CASE UNCHANGED vars
      BY <2>6 DEF vars, TypeOK
    <2> QED  BY <2>1, <2>2, <2>3, <2>4, <2>5, <2>6 DEF Next
  <1> QED  BY <1>1, <1>2, PTL DEF Spec

(***************************************************************************)
(* A stored response stays, so a late request only ever looks at it.       *)
(***************************************************************************)
LateInv ==
  /\ \A a \in executed : step[a] # "unsent"
  /\ late # {} => Stored
  /\ \A a \in late : step[a] \in {"claim", "look", "answered", "refused", "dead"} /\ a \notin executed

LEMMA StoredStays ==
  ASSUME TypeOK, Next, Stored
  PROVE  Stored'
  <1>1. PICK a \in Attempt :
          Send(a) \/ Claim(a) \/ Look(a) \/ Execute(a) \/ Complete(a) \/ Release(a) \/ Die(a)
    BY DEF Next
  <1>2. CASE Complete(a)
    <2>1. Completed(a) \in Row
      BY DEF Completed, Row, TypeOK, Stored
    <2>2. row' \in {row, Completed(a)}
      BY <1>2 DEF Complete, Stored
    <2>3. Completed(a) # None /\ ~Completed(a).in_progress
      <3>1. Completed(a).in_progress = FALSE
        BY DEF Completed
      <3> QED  BY <2>1, <3>1, NoneAssumption
    <2>4. CASE row' = row
      BY <2>4 DEF Stored
    <2>5. CASE row' = Completed(a)
      BY <2>3, <2>5 DEF Stored
    <2> QED  BY <2>2, <2>4, <2>5
  <1>3. CASE ~Complete(a)
    BY <1>1, <1>3 DEF Stored, Send, Claim, Free, Look, Execute, Release, Given, Die
  <1> QED  BY <1>2, <1>3

LEMMA LateKept ==
  ASSUME TypeOK, LateInv, Next
  PROVE  LateInv'
  <1>1. late' # {} => Stored'
    <2>1. CASE Stored
      BY <2>1, StoredStays
    <2>2. CASE ~Stored
      BY <2>2 DEF Next, LateInv, Send, Claim, Look, Execute, Complete, Release, Die
    <2> QED  BY <2>1, <2>2
  <1>2. ASSUME NEW b \in late'
        PROVE  step'[b] \in {"claim", "look", "answered", "refused", "dead"} /\ b \notin executed'
    <2>1. PICK a \in Attempt :
            Send(a) \/ Claim(a) \/ Look(a) \/ Execute(a) \/ Complete(a) \/ Release(a) \/ Die(a)
      BY DEF Next
    <2>2. b \in Attempt /\ executed \subseteq Attempt /\ step \in [Attempt -> Step]
      BY <2>1 DEF TypeOK, Send, Claim, Look, Execute, Complete, Release, Die
    <2>3. CASE b \in late
      <3>1. /\ Stored /\ row # None
            /\ step[b] \in {"claim", "look", "answered", "refused", "dead"} /\ b \notin executed
        BY <2>3 DEF LateInv, Stored
      <3>2. CASE a = b
        BY <2>1, <2>2, <3>1, <3>2
           DEF Send, Claim, Free, Look, Execute, Complete, Release, Die
      <3>3. CASE a # b
        BY <2>1, <2>2, <3>1, <3>3 DEF Send, Claim, Look, Execute, Complete, Release, Die
      <3> QED  BY <3>2, <3>3
    <2>4. CASE b \notin late
      <3>1. Send(a) /\ b = a
        BY <2>1, <2>4 DEF Send, Claim, Look, Execute, Complete, Release, Die
      <3>2. a \notin executed
        BY <3>1 DEF Send, LateInv
      <3> QED  BY <2>2, <3>1, <3>2 DEF Send
    <2> QED  BY <2>3, <2>4
  <1>3. \A a \in executed' : step'[a] # "unsent"
    BY DEF Next, LateInv, TypeOK, Send, Claim, Look, Execute, Complete, Release, Die
  <1> QED  BY <1>1, <1>2, <1>3 DEF LateInv

(* A request that comes after a response was stored never executes,        *)
(* whatever claims were released before or after.                          *)
THEOREM LateNeverExecutes == Spec => []LateIsReplayed
  <1>1. Init => LateInv
    BY DEF Init, LateInv
  <1>2. TypeOK /\ LateInv /\ [Next]_vars => LateInv'
    BY LateKept DEF vars, LateInv, Stored
  <1>3. LateInv => LateIsReplayed
    BY DEF LateInv, LateIsReplayed
  <1> QED  BY <1>1, <1>2, <1>3, TypeCorrect, PTL DEF Spec

(***************************************************************************)
(* Without a release one request owns the key: it alone executes, the row  *)
(* is its own, and every answer is its response.                           *)
(***************************************************************************)
Owns ==
  /\ \A a \in Attempt : step[a] \in {"execute", "complete", "release"} => a \in owner
  /\ \A a \in Attempt : step[a] = "complete" => a \in executed
  /\ \A a \in Attempt : step[a] = "look" => row # None
  /\ executed \subseteq owner
  /\ \A a, b \in owner : a = b

OwnedRow ==
  IF row = None THEN owner = {}
  ELSE \E a \in owner : row.hash = body[a]
                     /\ (~row.in_progress => row.response = a /\ a \in executed)

OwnedAnswers ==
  \A b \in Attempt : answer[b] # None =>
    answer[b] \in executed /\ body[b] = body[answer[b]]

Owned == ~released => Owns /\ OwnedRow /\ OwnedAnswers

LEMMA OwnedKept ==
  ASSUME TypeOK, Owned, Next, ~released'
  PROVE  (Owns /\ OwnedRow /\ OwnedAnswers)'
  <1>1. PICK a \in Attempt :
          Send(a) \/ Claim(a) \/ Look(a) \/ Execute(a) \/ Complete(a) \/ Release(a) \/ Die(a)
    BY DEF Next
  <1>2. ~released /\ Owns /\ OwnedRow /\ OwnedAnswers /\ body' = body
    <2>1. ~released
      <3>1. CASE Release(a)
        BY <3>1 DEF Release
      <3>2. CASE ~Release(a)
        BY <1>1, <3>2 DEF Send, Claim, Look, Execute, Complete, Die
      <3> QED  BY <3>1, <3>2
    <2>2. body' = body
      BY <1>1 DEF Send, Claim, Look, Execute, Complete, Release, Die
    <2> QED  BY <2>1, <2>2 DEF Owned
  <1>3. CASE Send(a) \/ Die(a) \/ Release(a)
    <2>1. UNCHANGED <<row, body, owner, executed, answer>>
      BY <1>2, <1>3 DEF Send, Die, Release
    <2>2. step'[a] \in {"claim", "dead", "refused"}
          /\ \A b \in Attempt : b # a => step'[b] = step[b]
      BY <1>3 DEF Send, Die, Release, TypeOK
    <2>3. Owns'
      <3>1. \A b \in Attempt : step'[b] \in {"execute", "complete", "release", "look"} => step'[b] = step[b]
        BY <2>2
      <3> QED  BY <1>2, <2>1, <3>1 DEF Owns
    <2>4. OwnedRow'
      BY <1>2, <2>1 DEF OwnedRow
    <2>5. OwnedAnswers'
      BY <1>2, <2>1 DEF OwnedAnswers
    <2> QED  BY <2>3, <2>4, <2>5
  <1>4. CASE Claim(a)
    <2>1. UNCHANGED <<body, executed, answer>>
          /\ \A b \in Attempt : b # a => step'[b] = step[b]
      BY <1>4 DEF Claim, TypeOK
    <2>2. CASE row = None
      <3>1. row' = Claimed(a) /\ owner' = {a} /\ step'[a] = "execute"
        BY <1>2, <1>4, <2>2 DEF Claim, Free, OwnedRow, TypeOK
      <3>2. Claimed(a) \in Row /\ Claimed(a).hash = body[a] /\ Claimed(a).in_progress
        BY DEF Claimed, Row, TypeOK
      <3>3. row' # None
        BY <3>1, <3>2, NoneAssumption
      <3>4. executed = {}
        BY <1>2, <2>2 DEF Owns, OwnedRow
      <3>5. Owns'
        BY <1>2, <2>1, <2>2, <3>1, <3>3, <3>4 DEF Owns, OwnedRow
      <3>6. OwnedRow'
        BY <2>1, <3>1, <3>2, <3>3 DEF OwnedRow
      <3> QED  BY <1>2, <2>1, <3>5, <3>6 DEF OwnedAnswers
    <2>3. CASE row # None
      <3>1. UNCHANGED <<row, owner>> /\ step'[a] = "look"
        BY <1>4, <2>3 DEF Claim, Free, TypeOK
      <3> QED  BY <1>2, <2>1, <2>3, <3>1 DEF Owns, OwnedRow, OwnedAnswers
    <2> QED  BY <2>2, <2>3
  <1>5. CASE Look(a)
    <2>1. row # None /\ UNCHANGED <<row, body, owner, executed>>
          /\ \A b \in Attempt : b # a => step'[b] = step[b]
      BY <1>2, <1>5 DEF Look, Owns, TypeOK
    <2>2. step'[a] \in {"refused", "answered"}
      BY <1>5, <2>1 DEF Look, TypeOK
    <2>3. OwnedAnswers'
      <3>1. CASE UNCHANGED answer
        BY <1>2, <2>1, <3>1 DEF OwnedAnswers
      <3>2. CASE answer' = [answer EXCEPT ![a] = row.response] /\ row.hash = body[a]
                 /\ ~row.in_progress
        <4>1. row.response \in executed /\ body[row.response] = body[a]
          BY <1>2, <2>1, <3>2 DEF OwnedRow
        <4> QED  BY <1>2, <2>1, <3>2, <4>1 DEF OwnedAnswers, TypeOK
      <3> QED  BY <1>5, <2>1, <3>1, <3>2 DEF Look
    <2> QED  BY <1>2, <2>1, <2>2, <2>3 DEF Owns, OwnedRow
  <1>6. CASE Execute(a)
    <2>1. a \in owner /\ UNCHANGED <<row, body, owner, answer>>
          /\ \A b \in Attempt : b # a => step'[b] = step[b]
      BY <1>2, <1>6 DEF Execute, Owns, TypeOK
    <2>2. \/ executed' = executed \cup {a} /\ step'[a] = "complete"
          \/ executed' = executed /\ step'[a] = "release"
      BY <1>6, <2>1 DEF Execute, TypeOK
    <2> QED  BY <1>2, <2>1, <2>2 DEF Owns, OwnedRow, OwnedAnswers
  <1>7. CASE Complete(a)
    <2>1. a \in owner /\ a \in executed /\ row # None
      BY <1>2, <1>7 DEF Complete, Owns, OwnedRow
    <2>2. UNCHANGED <<body, owner, executed>> /\ step'[a] = "answered"
          /\ (\A b \in Attempt : b # a => step'[b] = step[b])
          /\ answer' = [answer EXCEPT ![a] = a]
      BY <1>7 DEF Complete, TypeOK
    <2>3. CASE row' = row
      BY <1>2, <2>1, <2>2, <2>3 DEF Owns, OwnedRow, OwnedAnswers, TypeOK
    <2>4. CASE row' = Completed(a)
      <3>1. Completed(a) \in Row /\ Completed(a).hash = row.hash /\ ~Completed(a).in_progress
            /\ Completed(a).response = a
        <4>1. row \in Row
          BY <2>1 DEF TypeOK
        <4> QED  BY <4>1 DEF Completed, Row
      <3>2. row' # None
        BY <2>4, <3>1, NoneAssumption
      <3>3. row.hash = body[a]
        BY <1>2, <2>1 DEF OwnedRow, Owns
      <3>4. OwnedRow'
        BY <2>1, <2>2, <2>4, <3>1, <3>2, <3>3 DEF OwnedRow
      <3>5. Owns'
        BY <1>2, <2>1, <2>2, <3>2 DEF Owns
      <3>6. OwnedAnswers'
        BY <1>2, <2>1, <2>2 DEF OwnedAnswers, TypeOK
      <3> QED  BY <3>4, <3>5, <3>6
    <2> QED  BY <1>7, <2>1, <2>3, <2>4 DEF Complete
  <1> QED  BY <1>1, <1>3, <1>4, <1>5, <1>6, <1>7

(* As long as no claim is released, one request executes and everybody     *)
(* who is answered gets its response.                                      *)
THEOREM OneOutcomeHolds == Spec => []OneOutcome
  <1>1. Init => Owned
    BY DEF Init, Owned, Owns, OwnedRow, OwnedAnswers
  <1>2. TypeOK /\ Owned /\ [Next]_vars => Owned'
    <2>1. TypeOK /\ Owned /\ Next => Owned'
      BY OwnedKept DEF Owned
    <2>2. Owned /\ UNCHANGED vars => Owned'
      BY DEF vars, Owned, Owns, OwnedRow, OwnedAnswers
    <2> QED  BY <2>1, <2>2
  <1>3. Owned => OneOutcome
    BY DEF Owned, Owns, OwnedAnswers, OneOutcome
  <1> QED  BY <1>1, <1>2, <1>3, TypeCorrect, PTL DEF Spec
-----------------------------------------------------------------------------
(* A set of naturals has a least element, and one with a bound a greatest. *)
LEMMA LeastExists ==
  ASSUME NEW S, S \subseteq Nat, S # {}
  PROVE  \E m \in S : \A s \in S : m <= s
  <1>1. PICK m \in S : \A s \in S : <<s, m>> \notin OpToRel(<, Nat)
    BY NatLessThanWellFounded, WFMin
  <1>2. ASSUME NEW s \in S, s < m
        PROVE  FALSE
    <2>1. <<s, m>> \in {p \in Nat \X Nat : p[1] < p[2]}
      BY <1>2
    <2>2. OpToRel(<, Nat) = {p \in Nat \X Nat : p[1] < p[2]}
      BY ZenonT(20) DEF OpToRel
    <2> QED  BY <1>1, <2>1, <2>2
  <1> QED  BY <1>2

LEMMA GreatestExists ==
  ASSUME NEW S, S \subseteq Nat, S # {}, NEW b \in Nat, \A s \in S : s <= b
  PROVE  \E m \in S : \A s \in S : s <= m
  <1> DEFINE T == {b - s : s \in S}
  <1>1. T \subseteq Nat /\ T # {}
    <2>1. \A s \in S : b - s \in Nat
      OBVIOUS
    <2> QED  BY <2>1
  <1> HIDE DEF T
  <1>2. PICK l \in T : \A t \in T : l <= t
    BY <1>1, LeastExists
  <1>3. PICK m \in S : l = b - m
    BY <1>2 DEF T
  <1>4. \A s \in S : b - m <= b - s
    BY <1>2, <1>3 DEF T
  <1> QED  BY <1>4

(***************************************************************************)
(* Documents: as long as nothing is altered, a stored object stays, every  *)
(* hash is its object's, and a reader knows what it began with.            *)
(***************************************************************************)
Purpose == {"view", "check", "score"}
Invoice == [path : BOOLEAN, hash : {"INVOICE", "OTHER", None}]
Busy == [step : {"finalize", "hash", "extract", "verify"}, for : Purpose, doc : Files!Row,
         row : Invoice, there : BOOLEAN]
Informed == [step : {"told"}, for : Purpose, there : BOOLEAN, hashed : BOOLEAN,
             integrity : {"PASS", "FAIL", "REVIEW"}]

FilesTyped ==
  /\ docs \in Seq(Invoice) /\ Len(docs) <= MaxRow
  /\ object \in [Files!Row -> {"INVOICE", "MISLABELLED", "OTHER", None}]
  /\ reading \in [Files!Row -> {"READ", "FAILED", None}]
  /\ reader \in [Reader -> {Files!Idle} \cup Busy \cup Informed]
  /\ altered \in BOOLEAN /\ broken \in BOOLEAN

StoredSound ==
  /\ \A d \in Files!Row : object[d] # None => d \in DOMAIN docs /\ docs[d].path
  /\ \A d \in DOMAIN docs : ~altered /\ docs[d].hash # None => docs[d].hash = object[d]

(* What a handler at work knows of the row and of the object.              *)
Knows(c) ==
  /\ c.doc \in DOMAIN docs
  /\ c.there => c.row.path
  /\ c.step \in {"hash", "extract"} => c.row.hash # None
  /\ c.step = "verify" => c.for \in {"check", "score"}
  /\ ~altered =>
       /\ c.there => object[c.doc] # None
       /\ c.row.hash # None => c.row.hash = object[c.doc]
       /\ c.step = "verify" /\ c.for = "check" /\ c.there => c.row.hash # None

ReadersSound == \A r \in Reader : reader[r] \in Busy => Knows(reader[r])

FilesInv == FilesTyped /\ StoredSound /\ ReadersSound /\ OnlyChangeAccuses /\ HashedIsRead

LEMMA BusyIsNot ==
  /\ Files!Idle \notin Busy /\ Files!Idle \notin Informed
  /\ \A c \in Busy : c \notin Informed
  /\ \A c \in {Files!Idle} \cup Busy \cup Informed :
       /\ c \in Busy <=> c.step \in {"finalize", "hash", "extract", "verify"}
       /\ c \in Informed <=> c.step = "told"
  <1>1. Files!Idle.step = "idle"
    BY DEF Files!Idle
  <1>2. \A c \in Busy : c.step \in {"finalize", "hash", "extract", "verify"}
    BY DEF Busy
  <1>3. \A c \in Informed : c.step = "told"
    BY DEF Informed
  <1> QED  BY <1>1, <1>2, <1>3

LEMMA RowsAreDocs == FilesInv => DOMAIN docs \subseteq Files!Row
  BY FilesAssumption DEF FilesInv, FilesTyped, Files!Row

LEMMA FilesAtFirst == Files!Init => FilesInv
  <1> SUFFICES ASSUME Files!Init PROVE FilesInv
    OBVIOUS
  <1>1. FilesTyped
    <2>1. docs \in Seq(Invoice) /\ Len(docs) = 0
      BY DEF Files!Init
    <2>2. Len(docs) <= MaxRow
      BY <2>1, FilesAssumption
    <2>3. /\ object \in [Files!Row -> {"INVOICE", "MISLABELLED", "OTHER", None}]
          /\ reading \in [Files!Row -> {"READ", "FAILED", None}]
          /\ reader \in [Reader -> {Files!Idle} \cup Busy \cup Informed]
      BY DEF Files!Init
    <2>4. altered \in BOOLEAN /\ broken \in BOOLEAN
      BY DEF Files!Init
    <2> QED  BY <2>1, <2>2, <2>3, <2>4 DEF FilesTyped
  <1>2. \A r \in Reader : reader[r] \notin Busy /\ reader[r].step # "told"
    BY BusyIsNot DEF Files!Init, Files!Idle
  <1> QED
    BY <1>1, <1>2, FilesAssumption
       DEF Files!Init, FilesInv, StoredSound, ReadersSound, OnlyChangeAccuses,
           Files!OnlyChangeAccuses, HashedIsRead, Files!HashedIsRead, Files!Told

(* The store: rows are added and completed, objects stay unless altered.   *)
LEMMA StoreStep ==
  ASSUME FilesInv, Files!Reserve \/ Files!Sign \/ Files!Put \/ Files!Alter
  PROVE  FilesInv'
  <1> USE FilesAssumption
  <1>1. reader' = reader /\ reading' = reading /\ broken' = broken
    BY DEF Files!Reserve, Files!Sign, Files!Put, Files!Alter
  <1>2. /\ FilesTyped' /\ StoredSound'
        /\ DOMAIN docs \subseteq DOMAIN docs'
        /\ \A d \in DOMAIN docs' :
             docs'[d].hash # None => d \in DOMAIN docs /\ docs'[d].hash = docs[d].hash
        /\ altered => altered'
        /\ ~altered' => \A d \in Files!Row : object[d] # None => object'[d] = object[d]
    <2>1. CASE Files!Reserve
      <3>1. /\ docs' = Append(docs, [path |-> FALSE, hash |-> None])
            /\ Len(docs) < MaxRow /\ object' = object /\ altered' = altered
        BY <2>1 DEF Files!Reserve
      <3>2. docs' \in Seq(Invoice) /\ Len(docs') = Len(docs) + 1
        BY <3>1 DEF FilesInv, FilesTyped, Invoice
      <3>3. /\ \A d \in DOMAIN docs : d \in DOMAIN docs' /\ docs'[d] = docs[d]
            /\ docs'[Len(docs) + 1].hash = None
            /\ \A d \in DOMAIN docs' : d \in DOMAIN docs \/ d = Len(docs) + 1
        BY <3>1, <3>2 DEF FilesInv, FilesTyped
      <3> QED  BY <1>1, <3>1, <3>2, <3>3 DEF FilesInv, FilesTyped, StoredSound
    <2>2. CASE Files!Sign
      <3>1. PICK d \in DOMAIN docs : docs' = [docs EXCEPT ![d].path = TRUE]
        BY <2>2 DEF Files!Sign
      <3>2. object' = object /\ altered' = altered
        BY <2>2 DEF Files!Sign
      <3>3. docs' \in Seq(Invoice) /\ Len(docs') = Len(docs) /\ DOMAIN docs' = DOMAIN docs
        <4>1. docs \in Seq(Invoice) /\ docs[d] \in Invoice
          BY DEF FilesInv, FilesTyped
        <4>2. [docs[d] EXCEPT !.path = TRUE] \in Invoice
          BY <4>1 DEF Invoice
        <4> QED  BY <3>1, <4>1, <4>2, ExceptSeq
      <3>4. \A e \in DOMAIN docs : docs'[e].hash = docs[e].hash /\ (docs[e].path => docs'[e].path)
        BY <3>1 DEF FilesInv, FilesTyped, Invoice
      <3> QED  BY <1>1, <3>2, <3>3, <3>4 DEF FilesInv, FilesTyped, StoredSound
    <2>3. CASE Files!Put
      <3>1. PICK d \in DOMAIN docs, b \in {"INVOICE", "MISLABELLED"} :
              docs[d].path /\ object[d] = None /\ object' = [object EXCEPT ![d] = b]
        BY <2>3 DEF Files!Put
      <3>2. docs' = docs /\ altered' = altered
        BY <2>3 DEF Files!Put
      <3>3. object'[d] = b /\ \A e \in Files!Row : e # d => object'[e] = object[e]
        BY <3>1, RowsAreDocs DEF FilesInv, FilesTyped
      <3>4. FilesTyped'
        BY <1>1, <3>1, <3>2, RowsAreDocs DEF FilesInv, FilesTyped
      <3>5. StoredSound'
        BY <3>1, <3>2, <3>3, RowsAreDocs DEF FilesInv, StoredSound
      <3> QED  BY <3>1, <3>2, <3>3, <3>4, <3>5
    <2>4. CASE Files!Alter
      <3>1. PICK d \in Files!Row, b \in {None, "OTHER"} :
              object[d] = "INVOICE" /\ object' = [object EXCEPT ![d] = b]
        BY <2>4 DEF Files!Alter
      <3>2. docs' = docs /\ altered'
        BY <2>4 DEF Files!Alter
      <3>3. FilesTyped'
        BY <1>1, <2>4, <3>1, <3>2 DEF FilesInv, FilesTyped, Files!Alter
      <3>4. \A e \in Files!Row : object'[e] # None => object[e] # None
        BY <3>1 DEF FilesInv, FilesTyped
      <3> QED  BY <3>2, <3>3, <3>4 DEF FilesInv, StoredSound
    <2> QED  BY <2>1, <2>2, <2>3, <2>4
  <1>3. ReadersSound'
    BY <1>1, <1>2 DEF FilesInv, FilesTyped, ReadersSound, Knows, Busy
  <1>4. OnlyChangeAccuses'
    BY <1>1, <1>2 DEF FilesInv, OnlyChangeAccuses, Files!OnlyChangeAccuses, Files!Told
  <1>5. HashedIsRead'
    BY <1>1, <1>2 DEF FilesInv, HashedIsRead, Files!HashedIsRead
  <1> QED  BY <1>2, <1>3, <1>4, <1>5 DEF FilesInv

(* A handler that touches no table keeps the invariant when what it goes   *)
(* on with is sound, and when it had no reading to store.                  *)
LEMMA GoesOn ==
  ASSUME FilesInv, NEW r \in Reader, NEW c,
         UNCHANGED <<docs, object, reading, altered>>,
         reader' = [reader EXCEPT ![r] = c],
         c \in {Files!Idle} \cup Busy \cup Informed,
         c \in Busy => Knows(c),
         c \in Informed /\ c.integrity = "FAIL" =>
           altered \/ ~c.there \/ (c.for = "score" /\ ~c.hashed),
         broken' \in BOOLEAN, broken => broken',
         reader[r].step = "extract" => broken'
  PROVE  FilesInv'
  <1>1. reader'[r] = c /\ \A s \in Reader : s # r => reader'[s] = reader[s]
    BY DEF FilesInv, FilesTyped
  <1>2. FilesTyped'
    BY DEF FilesInv, FilesTyped
  <1>3. StoredSound'
    BY DEF FilesInv, StoredSound
  <1>4. ReadersSound'
    BY <1>1 DEF FilesInv, ReadersSound, Knows
  <1>5. OnlyChangeAccuses'
    <2>1. ASSUME NEW s \in Reader, reader'[s].step = "told", reader'[s].integrity = "FAIL"
          PROVE  altered' \/ ~reader'[s].there \/ (reader'[s].for = "score" /\ ~reader'[s].hashed)
      <3>1. CASE s = r
        BY <1>1, <2>1, <3>1, BusyIsNot
      <3>2. CASE s # r
        BY <1>1, <2>1, <3>2
           DEF FilesInv, OnlyChangeAccuses, Files!OnlyChangeAccuses, Files!Told
      <3> QED  BY <3>1, <3>2
    <2> QED  BY <2>1 DEF OnlyChangeAccuses, Files!OnlyChangeAccuses, Files!Told
  <1>6. HashedIsRead'
    BY <1>1 DEF FilesInv, HashedIsRead, Files!HashedIsRead
  <1> QED  BY <1>2, <1>3, <1>4, <1>5, <1>6 DEF FilesInv

LEMMA BeginKept ==
  ASSUME FilesInv, NEW r \in Reader, Files!View(r) \/ Files!Check(r) \/ Files!Score(r)
  PROVE  FilesInv'
  <1>1. PICK w \in {"finalize", "verify"}, p \in Purpose, d \in DOMAIN docs :
          (w = "verify" => p = "score") /\ Files!Begin(r, w, p, d)
    <2>1. docs # <<>> => 1 \in DOMAIN docs
      BY DEF FilesInv, FilesTyped
    <2> QED  BY <2>1 DEF Files!View, Files!Check, Files!Score, Files!Attached, Purpose
  <1> DEFINE c == [step |-> w, for |-> p, doc |-> d, row |-> docs[d], there |-> object[d] # None]
  <1>2. /\ reader[r] = Files!Idle /\ reader' = [reader EXCEPT ![r] = c]
        /\ UNCHANGED <<docs, object, reading, altered, broken>>
    BY <1>1 DEF Files!Begin, Files!Goto, Files!stored
  <1>3. d \in Files!Row /\ docs[d] \in Invoice
    BY RowsAreDocs DEF FilesInv, FilesTyped
  <1>4. c \in Busy
    BY <1>3 DEF Busy
  <1>5. Knows(c)
    BY <1>1, <1>3 DEF Knows, FilesInv, StoredSound
  <1>6. reader[r].step # "extract" /\ broken \in BOOLEAN
    BY <1>2 DEF Files!Idle, FilesInv, FilesTyped
  <1> HIDE DEF c
  <1>7. c \notin Informed
    BY <1>4, BusyIsNot
  <1> QED  BY <1>2, <1>4, <1>5, <1>6, <1>7, GoesOn

(* What a handler at work holds.                                           *)
LEMMA AtWork ==
  ASSUME FilesInv, NEW r \in Reader,
         reader[r].step \in {"finalize", "hash", "extract", "verify"}
  PROVE  reader[r] \in Busy /\ Knows(reader[r])
  BY BusyIsNot DEF FilesInv, FilesTyped, ReadersSound

LEMMA DownloadKept ==
  ASSUME FilesInv, NEW r \in Reader, Files!Download(r)
  PROVE  FilesInv'
  <1> DEFINE c == reader[r]
             bytes == object[c.doc]
  <1>1. c.step = "finalize" /\ c \in Busy /\ Knows(c)
    BY AtWork DEF Files!Download
  <1>2. UNCHANGED <<docs, object, reading, altered, broken>> /\ broken \in BOOLEAN
    BY DEF Files!Download, Files!stored, FilesInv, FilesTyped
  <1>3. bytes \in {"INVOICE", "MISLABELLED", "OTHER", None}
    BY <1>1 DEF FilesInv, FilesTyped, Busy
  <1>4. CASE c.row.hash # None \/ ~c.row.path \/ bytes = None
    <2>1. reader' = [reader EXCEPT ![r] = Files!Return(r, c.row)]
      BY <1>4 DEF Files!Download, Files!Goto
    <2>2. CASE c.for = "view"
      BY <1>1, <1>2, <2>1, <2>2, BusyIsNot, GoesOn DEF Files!Return
    <2>3. CASE c.for # "view"
      <3> DEFINE e == [step |-> "verify", for |-> c.for, doc |-> c.doc, row |-> c.row,
                       there |-> c.there]
      <3>1. reader' = [reader EXCEPT ![r] = e]
        BY <2>1, <2>3 DEF Files!Return
      <3>2. e \in Busy
        BY <1>1 DEF Busy
      <3>3. Knows(e)
        BY <1>1, <1>4, <2>3 DEF Knows, Busy, Purpose
      <3> HIDE DEF e
      <3> QED  BY <1>1, <1>2, <3>1, <3>2, <3>3, BusyIsNot, GoesOn
    <2> QED  BY <2>2, <2>3
  <1>5. CASE ~(c.row.hash # None \/ ~c.row.path \/ bytes = None)
    <2>1. CASE ~Files!Matches(bytes)
      <3>1. reader' = [reader EXCEPT ![r] = Files!Idle]
        BY <1>5, <2>1 DEF Files!Download, Files!Goto
      <3> QED  BY <1>1, <1>2, <3>1, BusyIsNot, GoesOn
    <2>2. CASE Files!Matches(bytes)
      <3> DEFINE e == [step |-> "hash", for |-> c.for, doc |-> c.doc,
                       row |-> [c.row EXCEPT !.hash = bytes], there |-> c.there]
      <3>1. reader' = [reader EXCEPT ![r] = e]
        BY <1>5, <2>2 DEF Files!Download, Files!Goto
      <3>2. bytes \in {"INVOICE", "OTHER"}
        BY <1>3, <1>5, <2>2 DEF Files!Matches
      <3>3. [c.row EXCEPT !.hash = bytes] \in Invoice /\ [c.row EXCEPT !.hash = bytes].hash = bytes
            /\ [c.row EXCEPT !.hash = bytes].path = c.row.path
        BY <1>1, <3>2 DEF Busy, Invoice
      <3>4. e \in Busy
        BY <1>1, <3>3 DEF Busy
      <3>5. Knows(e)
        BY <1>1, <1>5, <3>3 DEF Knows
      <3> HIDE DEF e
      <3> QED  BY <1>1, <1>2, <3>1, <3>4, <3>5, BusyIsNot, GoesOn
    <2> QED  BY <2>1, <2>2
  <1> QED  BY <1>4, <1>5
LEMMA StoreHashKept ==
  ASSUME FilesInv, NEW r \in Reader, Files!StoreHash(r)
  PROVE  FilesInv'
  <1> DEFINE c == reader[r]
             e == [c EXCEPT !.step = "extract"]
  <1>1. c.step = "hash" /\ c \in Busy /\ Knows(c) /\ c.row.hash # None
    BY AtWork DEF Files!StoreHash, Knows
  <1>2. /\ docs' = [docs EXCEPT ![c.doc].hash = c.row.hash]
        /\ reader' = [reader EXCEPT ![r] = e]
        /\ UNCHANGED <<object, reading, altered, broken>>
    BY DEF Files!StoreHash, Files!Goto
  <1>3. c.doc \in DOMAIN docs /\ c.doc \in Files!Row /\ c.row.hash \in {"INVOICE", "OTHER"}
    BY <1>1 DEF Knows, Busy, Invoice
  <1>4. docs' \in Seq(Invoice) /\ Len(docs') = Len(docs) /\ DOMAIN docs' = DOMAIN docs
    <2>1. docs \in Seq(Invoice) /\ docs[c.doc] \in Invoice
      BY <1>3 DEF FilesInv, FilesTyped
    <2>2. [docs[c.doc] EXCEPT !.hash = c.row.hash] \in Invoice
      BY <1>3, <2>1 DEF Invoice
    <2> QED  BY <1>2, <1>3, <2>1, <2>2, ExceptSeq
  <1>5. /\ docs'[c.doc].hash = c.row.hash
        /\ \A d \in DOMAIN docs : docs'[d].path = docs[d].path /\ (d # c.doc => docs'[d] = docs[d])
    <2>1. docs[c.doc] \in Invoice
      BY <1>3 DEF FilesInv, FilesTyped
    <2>2. \A d \in DOMAIN docs :
            docs'[d] = IF d = c.doc THEN [docs[c.doc] EXCEPT !.hash = c.row.hash] ELSE docs[d]
      BY <1>2, <1>3
    <2> QED  BY <1>3, <2>1, <2>2 DEF Invoice
  <1>6. e \in Busy /\ Knows(e) /\ e.doc = c.doc /\ e.step = "extract"
    BY <1>1 DEF Busy, Knows
  <1> HIDE DEF e
  <1>7. reader'[r] = e /\ \A s \in Reader : s # r => reader'[s] = reader[s]
    BY <1>2 DEF FilesInv, FilesTyped
  <1>8. FilesTyped'
    BY <1>2, <1>4, <1>6 DEF FilesInv, FilesTyped
  <1>9. StoredSound'
    BY <1>1, <1>2, <1>4, <1>5 DEF FilesInv, StoredSound, Knows
  <1>10. ReadersSound'
    <2>1. ASSUME NEW s \in Reader, reader'[s] \in Busy
          PROVE  reader'[s] \in Busy /\ Knows(reader'[s])
      BY <1>6, <1>7, <2>1 DEF FilesInv, ReadersSound
    <2> QED  BY <1>2, <1>4, <2>1 DEF ReadersSound, Knows
  <1>11. OnlyChangeAccuses'
    BY <1>2, <1>6, <1>7 DEF FilesInv, OnlyChangeAccuses, Files!OnlyChangeAccuses, Files!Told
  <1>12. HashedIsRead'
    <2>1. ASSUME NEW d \in DOMAIN docs, docs'[d].hash # None, reading[d] = None, ~broken
          PROVE  \E s \in Reader : reader'[s].step = "extract" /\ reader'[s].doc = d
      <3>1. CASE d = c.doc
        BY <1>6, <1>7, <3>1
      <3>2. CASE d # c.doc
        <4>1. PICK s \in Reader : reader[s].step = "extract" /\ reader[s].doc = d
          BY <1>5, <2>1, <3>2 DEF FilesInv, HashedIsRead, Files!HashedIsRead
        <4>2. s # r
          BY <1>1, <4>1
        <4> QED  BY <1>7, <4>1, <4>2
      <3> QED  BY <3>1, <3>2
    <2> QED  BY <1>2, <1>4, <2>1 DEF HashedIsRead, Files!HashedIsRead
  <1> QED  BY <1>8, <1>9, <1>10, <1>11, <1>12 DEF FilesInv

LEMMA ExtractKept ==
  ASSUME FilesInv, NEW r \in Reader, Files!Extract(r)
  PROVE  FilesInv'
  <1> USE FilesAssumption
  <1> DEFINE c == reader[r]
             e == Files!Return(r, c.row)
  <1>1. c.step = "extract" /\ c \in Busy /\ Knows(c) /\ c.row.hash # None
    BY AtWork DEF Files!Extract, Knows
  <1>2. /\ reader' = [reader EXCEPT ![r] = e]
        /\ UNCHANGED <<docs, object, altered, broken>>
    BY DEF Files!Extract, Files!Goto, Files!Finalized
  <1>3. PICK ocr \in {"READ", "FAILED"} : reading' = [reading EXCEPT ![c.doc] = ocr]
    BY DEF Files!Extract, Files!Recorded
  <1>4. e = Files!Idle \/ (e \in Busy /\ Knows(e))
    <2>1. CASE c.for = "view"
      BY <2>1 DEF Files!Return
    <2>2. CASE c.for # "view"
      <3>1. e = [step |-> "verify", for |-> c.for, doc |-> c.doc, row |-> c.row, there |-> c.there]
        BY <2>2 DEF Files!Return
      <3> HIDE DEF e
      <3> QED  BY <1>1, <2>2, <3>1 DEF Busy, Knows, Purpose
    <2> QED  BY <2>1, <2>2
  <1> HIDE DEF e
  <1>5. reader'[r] = e /\ \A s \in Reader : s # r => reader'[s] = reader[s]
    BY <1>2 DEF FilesInv, FilesTyped
  <1>6. FilesTyped'
    BY <1>1, <1>2, <1>3, <1>4 DEF FilesInv, FilesTyped, Busy
  <1>7. StoredSound'
    BY <1>2 DEF FilesInv, StoredSound
  <1>8. ReadersSound'
    BY <1>2, <1>4, <1>5, BusyIsNot DEF FilesInv, ReadersSound, Knows
  <1>9. OnlyChangeAccuses'
    <2>1. e.step # "told"
      BY <1>4, BusyIsNot DEF Files!Idle
    <2> QED
      BY <1>2, <1>5, <2>1 DEF FilesInv, OnlyChangeAccuses, Files!OnlyChangeAccuses, Files!Told
  <1>10. HashedIsRead'
    <2>1. ASSUME NEW d \in DOMAIN docs, docs[d].hash # None, reading'[d] = None, ~broken
          PROVE  \E s \in Reader : reader'[s].step = "extract" /\ reader'[s].doc = d
      <3>1. d \in Files!Row /\ d # c.doc /\ reading[d] = None
        BY <1>1, <1>3, <2>1, RowsAreDocs DEF FilesInv, FilesTyped, Busy
      <3>2. PICK s \in Reader : reader[s].step = "extract" /\ reader[s].doc = d
        BY <2>1, <3>1 DEF FilesInv, HashedIsRead, Files!HashedIsRead
      <3> QED  BY <1>5, <3>1, <3>2
    <2> QED  BY <1>2, <2>1 DEF HashedIsRead, Files!HashedIsRead
  <1> QED  BY <1>6, <1>7, <1>8, <1>9, <1>10 DEF FilesInv

(* A failed check of an object that stayed is of a row without a hash,     *)
(* which only a scoring that came before it has.                           *)
LEMMA VerifyKept ==
  ASSUME FilesInv, NEW r \in Reader, Files!Verify(r)
  PROVE  FilesInv'
  <1> DEFINE c == reader[r]
             e == [step |-> "told", for |-> c.for, there |-> c.there,
                   hashed |-> c.row.hash # None,
                   integrity |-> Files!Integrity(c.row, object[c.doc])]
  <1>1. c.step = "verify" /\ c \in Busy /\ Knows(c)
    BY AtWork DEF Files!Verify
  <1>2. /\ reader' = [reader EXCEPT ![r] = e]
        /\ UNCHANGED <<docs, object, reading, altered, broken>>
        /\ broken \in BOOLEAN
    BY DEF Files!Verify, Files!Goto, Files!stored, FilesInv, FilesTyped
  <1>3. e \in Informed
    BY <1>1 DEF Busy, Informed, Files!Integrity
  <1>4. e.integrity = "FAIL" => altered \/ ~e.there \/ (e.for = "score" /\ ~e.hashed)
    <2> SUFFICES ASSUME e.integrity = "FAIL", ~altered, c.there
                 PROVE  c.for = "score" /\ c.row.hash = None
      OBVIOUS
    <2>1. object[c.doc] # None /\ object[c.doc] # c.row.hash
      BY DEF Files!Integrity
    <2>2. c.row.hash = None
      BY <1>1, <2>1 DEF Knows
    <2> QED  BY <1>1, <2>2 DEF Knows
  <1> HIDE DEF e
  <1> QED  BY <1>1, <1>2, <1>3, <1>4, BusyIsNot, GoesOn

LEMMA DieKept ==
  ASSUME FilesInv, NEW r \in Reader, Files!Die(r)
  PROVE  FilesInv'
  <1>1. /\ reader' = [reader EXCEPT ![r] = Files!Idle]
        /\ UNCHANGED <<docs, object, reading, altered>>
        /\ broken' = (broken \/ reader[r].step = "extract")
    BY DEF Files!Die, Files!Goto, Files!stored
  <1>2. broken' \in BOOLEAN /\ (broken => broken') /\ (reader[r].step = "extract" => broken')
    BY <1>1
  <1> QED  BY <1>1, <1>2, BusyIsNot, GoesOn

LEMMA FilesKept ==
  ASSUME FilesInv, [Files!Next]_files
  PROVE  FilesInv'
  <1>1. CASE Files!Reserve \/ Files!Sign \/ Files!Put \/ Files!Alter
    BY <1>1, StoreStep
  <1>2. ASSUME NEW r \in Reader,
               \/ Files!View(r) \/ Files!Check(r) \/ Files!Score(r)
               \/ Files!Download(r) \/ Files!StoreHash(r) \/ Files!Extract(r)
               \/ Files!Verify(r) \/ Files!Die(r)
        PROVE  FilesInv'
    BY <1>2, BeginKept, DownloadKept, StoreHashKept, ExtractKept, VerifyKept, DieKept
  <1>3. CASE UNCHANGED files
    BY <1>3 DEF files, FilesInv, FilesTyped, StoredSound, ReadersSound, Knows, OnlyChangeAccuses,
                Files!OnlyChangeAccuses, Files!Told, HashedIsRead, Files!HashedIsRead
  <1> QED  BY <1>1, <1>2, <1>3 DEF Files!Next

LEMMA FilesRun == MCSpec => Files!Init /\ [][Files!Next]_files
  <1>1. MCInit => Files!Init
    BY DEF MCInit
  <1>2. [MCNext]_<<protocol, vars, files, cases, lookups, field>> => [Files!Next]_files
    BY DEF MCNext, OfKey, OfFiles, OfCases, OfLookups, OfField
  <1> QED  BY <1>1, <1>2, PTL DEF MCSpec

(* A failed integrity check accuses a file that was altered, that arrived  *)
(* while it was checked, or that was scored before anyone hashed it.       *)
THEOREM OnlyChangeAccusesHolds == MCSpec => []OnlyChangeAccuses
  <1>1. FilesInv /\ [Files!Next]_files => FilesInv'
    BY FilesKept
  <1>2. FilesInv => OnlyChangeAccuses
    BY DEF FilesInv
  <1> QED  BY <1>1, <1>2, FilesAtFirst, FilesRun, PTL

(* A file whose hash is recorded is read, or about to be, unless the       *)
(* handler died in between.                                                *)
THEOREM HashedIsReadHolds == MCSpec => []HashedIsRead
  <1>1. FilesInv /\ [Files!Next]_files => FilesInv'
    BY FilesKept
  <1>2. FilesInv => HashedIsRead
    BY DEF FilesInv
  <1> QED  BY <1>1, <1>2, FilesAtFirst, FilesRun, PTL
-----------------------------------------------------------------------------
(***************************************************************************)
(* Withdrawal: its requests to list again, one open and one per eligible   *)
(* case.  Of the variables' types only the requests' is needed.            *)
(***************************************************************************)
CasesTyped ==
  /\ status \in [Case -> {"NONE", "WITHDRAWAL_REQUESTED"} \cup Cases!Verdict]
  /\ eligible \in [Case -> BOOLEAN]
  /\ asked \in [Request -> [status : {"NONE", "REQUESTED", "APPROVED"}, by : Case \cup {Supplier}]]
  /\ caller \in [Caller -> {"idle", "open", "relist"}]

LEMMA CasesTypedAtFirst == Cases!Init => CasesTyped
  BY DEF Cases!Init, CasesTyped, Cases!NoRow

LEMMA CasesTypedKept ==
  ASSUME CasesTyped, [Cases!Next]_cases
  PROVE  CasesTyped'
  <1>1. ASSUME NEW k \in Caller, Cases!OpenInsert(k)
        PROVE  CasesTyped'
    BY <1>1 DEF CasesTyped, Cases!OpenInsert, Cases!Goto
  <1>2. ASSUME NEW by \in Case \cup {Supplier}, Cases!Raise(by)
        PROVE  asked' \in [Request -> [status : {"NONE", "REQUESTED", "APPROVED"},
                                       by : Case \cup {Supplier}]]
    BY <1>2 DEF CasesTyped, Cases!Raise
  <1>3. ASSUME NEW k \in Caller,
               Cases!OpenCheck(k) \/ Cases!RelistCheck(k) \/ Cases!RelistInsert(k) \/ Cases!Die(k)
        PROVE  CasesTyped'
    <2>1. UNCHANGED <<status, eligible>>
          /\ caller' \in [Caller -> {"idle", "open", "relist"}]
      BY <1>3 DEF CasesTyped, Cases!OpenCheck, Cases!RelistCheck, Cases!RelistInsert, Cases!Die,
                  Cases!Goto
    <2>2. asked' = asked \/ Cases!Raise(Supplier)
      BY <1>3 DEF Cases!OpenCheck, Cases!RelistCheck, Cases!RelistInsert, Cases!Die
    <2> QED  BY <1>2, <2>1, <2>2 DEF CasesTyped
  <1>4. ASSUME NEW c \in Case, Cases!Decide(c)
        PROVE  CasesTyped'
    <2>1. asked' = asked \/ Cases!Raise(c)
      BY <1>4 DEF Cases!Decide, Cases!Raised
    <2>2. asked' \in [Request -> [status : {"NONE", "REQUESTED", "APPROVED"},
                                  by : Case \cup {Supplier}]]
      BY <1>2, <2>1 DEF CasesTyped
    <2> QED  BY <1>4, <2>2 DEF CasesTyped, Cases!Decide
  <1>5. ASSUME NEW r \in Request, Cases!Approve(r)
        PROVE  CasesTyped'
    BY <1>5 DEF CasesTyped, Cases!Approve
  <1>6. CASE UNCHANGED cases
    BY <1>6 DEF cases, CasesTyped
  <1> QED  BY <1>1, <1>3, <1>4, <1>5, <1>6 DEF Cases!Next

(* A row that stands keeps what raised it, and an open request lets no     *)
(* other in.                                                               *)
LEMMA RelistedKept ==
  ASSUME CasesTyped, RelistedOnRequest, [Cases!Next]_cases
  PROVE  RelistedOnRequest'
  <1> USE DEF RelistedOnRequest, Cases!RelistedOnRequest, Cases!OpenRequest, Cases!NoRow
  <1>1. ASSUME NEW by \in Case \cup {Supplier}, Cases!Raise(by)
        PROVE  /\ \A r, s \in Cases!OpenRequest' : r = s
               /\ \E r \in Request : asked'[r] # Cases!NoRow /\ asked'[r].by = by
               /\ \A r \in Request : asked[r] # Cases!NoRow => asked'[r] = asked[r]
    <2>1. PICK r \in Request :
            /\ asked[r] = Cases!NoRow
            /\ asked' = [asked EXCEPT ![r] = [status |-> "REQUESTED", by |-> by]]
      BY <1>1 DEF Cases!Raise
    <2>2. asked'[r] = [status |-> "REQUESTED", by |-> by]
          /\ \A s \in Request : s # r => asked'[s] = asked[s] /\ asked[s].status # "REQUESTED"
      BY <1>1, <2>1 DEF CasesTyped, Cases!Raise, Cases!Insertable
    <2>3. asked'[r].status = "REQUESTED" /\ asked'[r].by = by
      BY <2>2
    <2>4. asked'[r] # Cases!NoRow
      <3>1. Cases!NoRow.status = "NONE"
        OBVIOUS
      <3> QED  BY <2>3, <3>1
    <2> QED  BY <2>1, <2>2, <2>3, <2>4
  <1>2. ASSUME NEW k \in Caller,
               \/ Cases!OpenCheck(k) \/ Cases!OpenInsert(k) \/ Cases!RelistCheck(k)
               \/ Cases!RelistInsert(k) \/ Cases!Die(k)
        PROVE  RelistedOnRequest'
    <2>1. eligible' = eligible /\ (asked' = asked \/ Cases!Raise(Supplier))
      BY <1>2 DEF Cases!OpenCheck, Cases!OpenInsert, Cases!RelistCheck, Cases!RelistInsert, Cases!Die
    <2>2. CASE asked' = asked
      BY <2>1, <2>2
    <2>3. CASE Cases!Raise(Supplier)
      BY <1>1, <2>1, <2>3
    <2> QED  BY <2>1, <2>2, <2>3
  <1>3. ASSUME NEW c \in Case, Cases!Decide(c)
        PROVE  RelistedOnRequest'
    <2>1. CASE eligible' = [eligible EXCEPT ![c] = TRUE] /\ Cases!Raise(c)
      <3>1. \A d \in Case : d # c => eligible'[d] = eligible[d]
        BY <2>1 DEF CasesTyped
      <3> QED  BY <1>1, <2>1, <3>1
    <2>2. CASE eligible' = [eligible EXCEPT ![c] = FALSE] /\ asked' = asked
      BY <2>2 DEF CasesTyped
    <2> QED  BY <1>3, <2>1, <2>2 DEF Cases!Decide, Cases!Raised
  <1>4. ASSUME NEW r \in Request, Cases!Approve(r)
        PROVE  RelistedOnRequest'
    <2>1. eligible' = eligible /\ asked[r].status = "REQUESTED"
          /\ asked' = [asked EXCEPT ![r].status = "APPROVED"]
      BY <1>4 DEF Cases!Approve
    <2>2. asked'[r].status = "APPROVED" /\ asked'[r].by = asked[r].by
          /\ \A s \in Request : s # r => asked'[s] = asked[s]
      BY <2>1 DEF CasesTyped
    <2>3. asked'[r] # Cases!NoRow
      <3>1. Cases!NoRow.status = "NONE"
        OBVIOUS
      <3> QED  BY <2>2, <3>1
    <2> QED  BY <2>1, <2>2, <2>3
  <1>5. CASE UNCHANGED cases
    BY <1>5 DEF cases
  <1> QED  BY <1>2, <1>3, <1>4, <1>5 DEF Cases!Next

LEMMA CasesRun == MCSpec => Cases!Init /\ [][Cases!Next]_cases
  <1>1. MCInit => Cases!Init
    BY DEF MCInit
  <1>2. [MCNext]_<<protocol, vars, files, cases, lookups, field>> => [Cases!Next]_cases
    BY DEF MCNext, OfKey, OfFiles, OfCases, OfLookups, OfField
  <1> QED  BY <1>1, <1>2, PTL DEF MCSpec

(* One open request to list again, and one raised by each eligible case.   *)
THEOREM RelistedOnRequestHolds == MCSpec => []RelistedOnRequest
  <1>1. Cases!Init => RelistedOnRequest
    BY DEF Cases!Init, Cases!NoRow, RelistedOnRequest, Cases!RelistedOnRequest, Cases!OpenRequest
  <1>2. CasesTyped /\ RelistedOnRequest /\ [Cases!Next]_cases => (CasesTyped /\ RelistedOnRequest)'
    BY CasesTypedKept, RelistedKept
  <1> QED  BY <1>1, <1>2, CasesTypedAtFirst, CasesRun, PTL
-----------------------------------------------------------------------------
(***************************************************************************)
(* Breaker: what it counts is the registry's silence, and it opens at the  *)
(* latest unanswered result.                                               *)
(***************************************************************************)
BreakerTyped ==
  /\ circuit \in {"CLOSED", "OPEN", "HALF_OPEN"}
  /\ {failures, openedAt, instant, silent, silentAt} \subseteq Nat
  /\ call \in [Lookup -> UNION {{Circuit!Idle}, [step : {"ask"}, attempt : Nat],
                                [step : {"refused"}, after : Int]}]

Counted ==
  /\ failures = silent
  /\ circuit = "OPEN" => openedAt = silentAt

BreakerInv == BreakerTyped /\ Counted /\ OutageIsKnown

LEMMA BreakerAtFirst == Circuit!Init => BreakerInv
  BY BreakerAssumption
     DEF Circuit!Init, BreakerInv, BreakerTyped, Counted, OutageIsKnown, Circuit!OutageIsKnown,
         Circuit!Idle

LEMMA BreakerKept ==
  ASSUME BreakerInv, [Circuit!Next]_lookups
  PROVE  BreakerInv'
  <1> USE BreakerAssumption
      DEF BreakerInv, Counted, OutageIsKnown, Circuit!OutageIsKnown, Circuit!Goto
  <1>0. BreakerTyped
    OBVIOUS
  <1>1. ASSUME NEW l \in Lookup, Circuit!Ask(l)
        PROVE  BreakerInv'
    <2>1. /\ call' = [call EXCEPT ![l] = [step |-> "ask", attempt |-> 1]]
          /\ circuit' = IF circuit = "OPEN" THEN "HALF_OPEN" ELSE circuit
          /\ UNCHANGED <<failures, openedAt, instant, silent, silentAt>>
      BY <1>1 DEF Circuit!Ask
    <2>2. call'[l].step = "ask" /\ \A m \in Lookup : m # l => call'[m] = call[m]
      BY <2>1 DEF BreakerTyped
    <2>3. BreakerTyped'
      BY <2>1 DEF BreakerTyped
    <2> QED  BY <2>1, <2>2, <2>3 DEF BreakerTyped
  <1>2. ASSUME NEW l \in Lookup, Circuit!Refuse(l)
        PROVE  BreakerInv'
    <2>1. /\ call' = [call EXCEPT ![l] = [step |-> "refused", after |-> instant - silentAt]]
          /\ UNCHANGED <<circuit, failures, openedAt, instant, silent, silentAt>>
          /\ circuit = "OPEN" /\ instant - openedAt < Reset
      BY <1>2 DEF Circuit!Refuse, Circuit!breaker, Circuit!Allows, BreakerTyped
    <2>2. call'[l] = [step |-> "refused", after |-> instant - silentAt]
          /\ \A m \in Lookup : m # l => call'[m] = call[m]
      BY <2>1 DEF BreakerTyped
    <2>3. BreakerTyped'
      BY <2>1 DEF BreakerTyped
    <2> QED  BY <2>1, <2>2, <2>3 DEF BreakerTyped
  <1>3. ASSUME NEW l \in Lookup, Circuit!Answer(l)
        PROVE  BreakerInv'
    <2>1. /\ call' = [call EXCEPT ![l] = Circuit!Idle]
          /\ circuit' = "CLOSED" /\ failures' = 0 /\ silent' = 0
          /\ UNCHANGED <<openedAt, instant, silentAt>>
      BY <1>3 DEF Circuit!Answer, Circuit!RecordSuccess
    <2>2. call'[l].step = "idle" /\ \A m \in Lookup : m # l => call'[m] = call[m]
      BY <2>1 DEF BreakerTyped, Circuit!Idle
    <2>3. BreakerTyped'
      BY <2>1 DEF BreakerTyped
    <2> QED  BY <2>1, <2>2, <2>3
  <1>4. ASSUME NEW l \in Lookup, Circuit!Silence(l)
        PROVE  BreakerInv'
    <2>1. /\ failures' = failures + 1 /\ silent' = silent + 1
          /\ silentAt' = instant /\ instant' = instant
          /\ call[l].step = "ask"
          /\ call' = [call EXCEPT ![l] =
                        IF call[l].attempt < MaxAttempts
                          THEN [step |-> "ask", attempt |-> call[l].attempt + 1]
                          ELSE Circuit!Idle]
          /\ IF circuit = "HALF_OPEN" \/ failures' >= Threshold
               THEN circuit' = "OPEN" /\ openedAt' = instant
               ELSE UNCHANGED <<circuit, openedAt>>
      BY <1>4 DEF Circuit!Silence, Circuit!RecordFailure
    <2>2. call'[l].step # "refused" /\ \A m \in Lookup : m # l => call'[m] = call[m]
      BY <2>1 DEF BreakerTyped, Circuit!Idle
    <2>3. BreakerTyped'
      <3>1. call[l].attempt \in Nat
        BY <2>1 DEF BreakerTyped, Circuit!Idle
      <3>2. call' \in [Lookup -> UNION {{Circuit!Idle}, [step : {"ask"}, attempt : Nat],
                                        [step : {"refused"}, after : Int]}]
        BY <2>1, <3>1 DEF BreakerTyped
      <3> QED  BY <2>1, <3>2 DEF BreakerTyped
    <2>4. CASE circuit = "HALF_OPEN" \/ failures' >= Threshold
      BY <2>1, <2>2, <2>3, <2>4 DEF BreakerTyped
    <2>5. CASE ~(circuit = "HALF_OPEN" \/ failures' >= Threshold)
      <3>1. circuit = "CLOSED" /\ circuit' = "CLOSED" /\ silent' < Threshold
        BY <2>1, <2>5 DEF BreakerTyped
      <3> QED  BY <2>1, <2>2, <2>3, <3>1
    <2> QED  BY <2>4, <2>5
  <1>5. CASE Circuit!Restart
    BY <1>5 DEF Circuit!Restart, Circuit!Fresh, Circuit!Idle, BreakerTyped
  <1>6. CASE Circuit!Tick
    BY <1>6 DEF Circuit!Tick, Circuit!breaker, BreakerTyped
  <1>7. CASE UNCHANGED lookups
    BY <1>7 DEF lookups, BreakerTyped
  <1> QED  BY <1>1, <1>2, <1>3, <1>4, <1>5, <1>6, <1>7 DEF Circuit!Next

LEMMA LookupsRun == MCSpec => Circuit!Init /\ [][Circuit!Next]_lookups
  <1>1. MCInit => Circuit!Init
    BY DEF MCInit
  <1>2. [MCNext]_<<protocol, vars, files, cases, lookups, field>> => [Circuit!Next]_lookups
    BY DEF MCNext, OfKey, OfFiles, OfCases, OfLookups, OfField
  <1> QED  BY <1>1, <1>2, PTL DEF MCSpec

(* The breaker's word is about the registry.                               *)
THEOREM OutageIsKnownHolds == MCSpec => []OutageIsKnown
  <1>1. BreakerInv => OutageIsKnown
    BY DEF BreakerInv
  <1>2. BreakerInv /\ [Circuit!Next]_lookups => BreakerInv'
    BY BreakerKept
  <1> QED  BY <1>1, <1>2, BreakerAtFirst, LookupsRun, PTL
-----------------------------------------------------------------------------
(***************************************************************************)
(* Registry: rows are recorded in the order of their stamps' moments, and  *)
(* whatever supersedes an answer comes after it.                           *)
(***************************************************************************)
Entry == [kind : {"SELF_DECLARED", "GOVERNMENT"}, value : Value, at : Nat, live : BOOLEAN,
          recorded : Nat]
Answered == [step : {"supersede"}, value : Value, at : Nat]
Writing == [step : {"insert"}, value : Value, at : Nat, seen : SUBSET Nat]

FieldTyped ==
  /\ entry \in Seq(Entry)
  /\ registry \in Value /\ moment \in Nat /\ collided \in BOOLEAN
  /\ handler \in [Handler -> {Field!Idle} \cup Answered \cup Writing]

Supply == {i \in DOMAIN entry : entry[i].kind = "GOVERNMENT"}

Ordered ==
  /\ \A i \in DOMAIN entry : entry[i].at <= entry[i].recorded /\ entry[i].recorded <= moment
  /\ \A i, j \in DOMAIN entry : i <= j => entry[i].recorded <= entry[j].recorded
  /\ \A i, j \in Supply : entry[i].at = entry[j].at => i = j

Prevailing ==
  /\ Supply # {} /\ ~collided => \E i \in Supply : entry[i].live
  /\ \A i, j \in Supply : ~entry[i].live /\ entry[j].live => i < j

(* What a lookup that is to write has seen, and that nothing it left in    *)
(* force came before.                                                      *)
Stamped(c) ==
  /\ c \in Answered \cup Writing => c.at <= moment
  /\ c \in Writing =>
       /\ c.seen \subseteq Supply
       /\ \A i \in c.seen, j \in Supply \ c.seen : entry[j].live => i < j

HandlersStamped == \A h \in Handler : Stamped(handler[h])

FieldInv == FieldTyped /\ Ordered /\ Prevailing /\ HandlersStamped

LEMMA StampedSteps ==
  /\ Field!Idle \notin Answered \cup Writing
  /\ \A c \in {Field!Idle} \cup Answered \cup Writing :
       /\ c.step = "supersede" => c \in Answered
       /\ c.step = "insert" => c \in Writing
  /\ \A c \in Answered : c \notin Writing
  BY DEF Answered, Writing, Field!Idle

LEMMA FieldAtFirst == Field!Init => FieldInv
  <1> SUFFICES ASSUME Field!Init PROVE FieldInv
    OBVIOUS
  <1>1. entry \in Seq(Entry) /\ \A i \in DOMAIN entry :
          entry[i].kind = "SELF_DECLARED" /\ entry[i].at = 0 /\ entry[i].recorded = 0
    <2>1. CASE entry = <<>>
      BY <2>1
    <2>2. CASE entry # <<>>
      <3>1. PICK e \in Entry : /\ e.kind = "SELF_DECLARED" /\ e.at = 0 /\ e.recorded = 0
                               /\ entry = <<e>>
        BY <2>2 DEF Field!Init, Field!Row, Entry
      <3> QED  BY <3>1
    <2> QED  BY <2>1, <2>2
  <1>3. moment = 0 /\ registry \in Value /\ collided \in BOOLEAN
        /\ handler = [h \in Handler |-> Field!Idle]
    BY DEF Field!Init
  <1>4. FieldTyped
    BY <1>1, <1>3 DEF FieldTyped
  <1>5. Ordered /\ Prevailing
    BY <1>1, <1>3 DEF Ordered, Prevailing, Supply
  <1>6. HandlersStamped
    BY <1>3, StampedSteps DEF HandlersStamped, Stamped
  <1> QED  BY <1>4, <1>5, <1>6 DEF FieldInv

LEMMA FieldTicks ==
  ASSUME FieldInv, Field!Change \/ Field!Tick \/ UNCHANGED field
  PROVE  FieldInv'
  <1>1. UNCHANGED <<entry, handler, collided>> /\ registry' \in Value
        /\ moment' \in Nat /\ moment <= moment'
    BY DEF Field!Change, Field!Tick, field, FieldInv, FieldTyped
  <1>2. FieldTyped'
    BY <1>1 DEF FieldInv, FieldTyped
  <1>3. Ordered' /\ Prevailing'
    <2>1. \A i \in DOMAIN entry : entry[i].recorded \in Nat /\ moment \in Nat
      <3>1. moment \in Nat /\ \A i \in DOMAIN entry : entry[i] \in Entry
        BY DEF FieldInv, FieldTyped
      <3> QED  BY <3>1 DEF Entry
    <2>2. \A i \in DOMAIN entry : entry[i].recorded <= moment => entry[i].recorded <= moment'
      BY <1>1, <2>1
    <2> QED  BY <1>1, <2>2 DEF FieldInv, Ordered, Prevailing, Supply
  <1>4. HandlersStamped'
    BY <1>1 DEF FieldInv, FieldTyped, HandlersStamped, Stamped, Supply, Answered, Writing
  <1> QED  BY <1>1, <1>2, <1>3, <1>4 DEF FieldInv

LEMMA LookupKept ==
  ASSUME FieldInv, NEW h \in Handler, Field!Look(h) \/ Field!Supersede(h) \/ Field!Fail(h)
  PROVE  FieldInv'
  <1>1. UNCHANGED <<entry, registry, moment, collided>>
    BY DEF Field!Look, Field!Supersede, Field!Fail
  <1>2. PICK c \in {Field!Idle} \cup Answered \cup Writing :
          handler' = [handler EXCEPT ![h] = c] /\ Stamped(c)
    <2>1. CASE Field!Look(h)
      <3>1. PICK v \in Value :
              handler' = [handler EXCEPT ![h] = [step |-> "supersede", value |-> v, at |-> moment]]
        BY <2>1 DEF Field!Look, Field!Goto, Field!Supplied
      <3> DEFINE c == [step |-> "supersede", value |-> v, at |-> moment]
      <3>2. c \in Answered /\ c.at = moment
        BY DEF Answered, FieldInv, FieldTyped
      <3> HIDE DEF c
      <3>3. Stamped(c)
        BY <3>2, StampedSteps DEF Stamped, FieldInv, FieldTyped
      <3> QED  BY <3>1, <3>2, <3>3 DEF c
    <2>2. CASE Field!Supersede(h)
      <3> DEFINE c == [step |-> "insert", value |-> handler[h].value, at |-> handler[h].at,
                       seen |-> Field!Live("GOVERNMENT")]
      <3>1. handler[h] \in Answered /\ handler[h].at <= moment
        BY <2>2, StampedSteps DEF Field!Supersede, FieldInv, FieldTyped, HandlersStamped, Stamped
      <3>2. Field!Live("GOVERNMENT") \subseteq Supply
            /\ \A j \in Supply : entry[j].live => j \in Field!Live("GOVERNMENT")
        BY DEF Field!Live, Supply
      <3>3. Supply \subseteq Nat
        BY DEF Supply, FieldInv, FieldTyped
      <3>4. c \in Writing
        BY <3>1, <3>2, <3>3 DEF Writing, Answered
      <3>5. Stamped(c)
        BY <3>1, <3>2 DEF Stamped
      <3> QED  BY <2>2, <3>4, <3>5 DEF Field!Supersede, Field!Goto
    <2>3. CASE Field!Fail(h)
      BY <2>3, StampedSteps DEF Field!Fail, Field!Goto, Stamped
    <2> QED  BY <2>1, <2>2, <2>3
  <1>3. FieldTyped'
    BY <1>1, <1>2 DEF FieldInv, FieldTyped
  <1>4. Ordered' /\ Prevailing'
    BY <1>1 DEF FieldInv, Ordered, Prevailing, Supply
  <1>5. HandlersStamped'
    BY <1>1, <1>2 DEF FieldInv, FieldTyped, HandlersStamped, Stamped, Supply
  <1> QED  BY <1>3, <1>4, <1>5 DEF FieldInv

(* The rows in force once a transaction commits: its own, and those it did *)
(* not see, all of them inserted after what it superseded.                 *)
LEMMA InsertKept ==
  ASSUME FieldInv, NEW h \in Handler, Field!Insert(h)
  PROVE  FieldInv'
  <1> DEFINE c == handler[h]
             n == Len(entry)
             left == Field!Superseded(c.seen)
             new == [kind |-> "GOVERNMENT", value |-> c.value, at |-> c.at, live |-> TRUE,
                     recorded |-> moment]
  <1>1. c \in Writing /\ c.at <= moment /\ c.seen \subseteq Supply
        /\ \A i \in c.seen, j \in Supply \ c.seen : entry[j].live => i < j
    BY StampedSteps DEF Field!Insert, FieldInv, FieldTyped, HandlersStamped, Stamped
  <1>2. /\ entry' = IF Field!Conflicts(c.at) THEN left ELSE Append(left, new)
        /\ collided' = (collided \/ Field!Conflicts(c.at))
        /\ handler' = [handler EXCEPT ![h] = Field!Idle]
        /\ UNCHANGED <<registry, moment>>
    BY DEF Field!Insert, Field!Goto, Field!Row
  <1>3. entry \in Seq(Entry) /\ n \in Nat /\ DOMAIN entry = 1 .. n
        /\ \A i \in 1 .. n : entry[i] \in Entry
    BY DEF FieldInv, FieldTyped
  <1>4. left = [i \in 1 .. n |-> [entry[i] EXCEPT !.live = @ /\ i \notin c.seen]]
    BY <1>3 DEF Field!Superseded
  <1>5. \A i \in 1 .. n :
          /\ left[i] \in Entry
          /\ left[i].kind = entry[i].kind /\ left[i].at = entry[i].at
          /\ left[i].recorded = entry[i].recorded
          /\ left[i].live <=> entry[i].live /\ i \notin c.seen
    <2> SUFFICES ASSUME NEW i \in 1 .. n
                 PROVE  /\ left[i] \in Entry
                        /\ left[i].kind = entry[i].kind /\ left[i].at = entry[i].at
                        /\ left[i].recorded = entry[i].recorded
                        /\ left[i].live <=> entry[i].live /\ i \notin c.seen
      OBVIOUS
    <2>1. left[i] = [entry[i] EXCEPT !.live = @ /\ i \notin c.seen]
      BY <1>4
    <2> QED  BY <1>3, <2>1 DEF Entry
  <1>6. left \in Seq(Entry) /\ Len(left) = n
    <2>1. left \in [1 .. n -> Entry]
      BY <1>4, <1>5
    <2> QED  BY <1>3, <2>1, SeqDef
  <1> HIDE DEF left, n
  <1>7. new \in Entry /\ new.kind = "GOVERNMENT" /\ new.at = c.at /\ new.recorded = moment
        /\ new.live = TRUE
    BY <1>1 DEF Entry, Writing, FieldInv, FieldTyped
  <1> HIDE DEF new
  <1>8. entry' \in Seq(Entry)
        /\ \A i \in 1 .. n : i \in DOMAIN entry' /\ entry'[i] = left[i]
    BY <1>2, <1>3, <1>6, <1>7
  <1>9. \A i \in DOMAIN entry' : i \in 1 .. n \/ (i = n + 1 /\ entry'[i] = new /\ ~Field!Conflicts(c.at))
    BY <1>2, <1>3, <1>6, <1>7
  <1>10. ~Field!Conflicts(c.at) => n + 1 \in DOMAIN entry' /\ entry'[n + 1] = new
    BY <1>2, <1>3, <1>6, <1>7
  <1>11. Supply' \cap 1 .. n = Supply
    BY <1>3, <1>5, <1>8 DEF Supply
  <1>12. collided' \in BOOLEAN
    BY <1>2 DEF FieldInv, FieldTyped
  <1>13. FieldTyped'
    BY <1>2, <1>8, <1>12 DEF FieldInv, FieldTyped
  <1>14. Ordered'
    <2>1. \A i \in DOMAIN entry' :
            entry'[i].at <= entry'[i].recorded /\ entry'[i].recorded <= moment'
      BY <1>1, <1>2, <1>3, <1>5, <1>7, <1>8, <1>9 DEF FieldInv, Ordered, FieldTyped
    <2>2. \A i, j \in DOMAIN entry' : i <= j => entry'[i].recorded <= entry'[j].recorded
      BY <1>3, <1>5, <1>7, <1>8, <1>9 DEF FieldInv, Ordered, FieldTyped
    <2>3. \A i \in Supply : entry[i].at = c.at => Field!Conflicts(c.at)
      BY DEF Supply, Field!Conflicts
    <2>4. \A i, j \in Supply' : entry'[i].at = entry'[j].at => i = j
      BY <2>3, <1>3, <1>5, <1>7, <1>8, <1>9, <1>11 DEF FieldInv, Ordered, Supply
    <2> QED  BY <2>1, <2>2, <2>4 DEF Ordered
  <1>15. Prevailing'
    <2>1. ~collided' => \E i \in Supply' : entry'[i].live
      BY <1>2, <1>7, <1>10 DEF Supply
    <2>2. ASSUME NEW i \in Supply', NEW j \in Supply', ~entry'[i].live, entry'[j].live
          PROVE  i < j
      <3>1. i \in 1 .. n /\ i \in Supply
        BY <1>7, <1>9, <1>11, <2>2 DEF Supply
      <3>2. CASE j \in 1 .. n
        <4>1. j \in Supply /\ j \notin c.seen /\ entry[j].live
          BY <1>5, <1>8, <1>11, <2>2, <3>2
        <4>2. i \in c.seen \/ ~entry[i].live
          BY <1>5, <1>8, <2>2, <3>1
        <4> QED  BY <1>1, <3>1, <4>1, <4>2 DEF FieldInv, Prevailing
      <3>3. CASE j = n + 1
        BY <1>3, <3>1, <3>3
      <3> QED  BY <1>9, <3>2, <3>3 DEF Supply
    <2> QED  BY <2>1, <2>2 DEF Prevailing
  <1>16. HandlersStamped'
    <2>1. \A g \in Handler : g # h => handler'[g] = handler[g]
      BY <1>2 DEF FieldInv, FieldTyped
    <2>2. handler'[h] = Field!Idle
      BY <1>2 DEF FieldInv, FieldTyped
    <2>3. ASSUME NEW g \in Handler, g # h, handler[g] \in Writing
          PROVE  /\ handler[g].seen \subseteq Supply'
                 /\ \A i \in handler[g].seen, j \in Supply' \ handler[g].seen :
                      entry'[j].live => i < j
      <3>1. handler[g].seen \subseteq Supply
            /\ \A i \in handler[g].seen, j \in Supply \ handler[g].seen : entry[j].live => i < j
        BY <2>3 DEF FieldInv, HandlersStamped, Stamped
      <3>2. ASSUME NEW i \in handler[g].seen, NEW j \in Supply' \ handler[g].seen, entry'[j].live
            PROVE  i < j
        <4>1. i \in 1 .. n
          BY <1>3, <3>1 DEF Supply
        <4>2. CASE j \in 1 .. n
          BY <1>5, <1>8, <1>11, <3>1, <3>2, <4>2
        <4>3. CASE j = n + 1
          BY <1>3, <4>1, <4>3
        <4> QED  BY <1>9, <4>2, <4>3 DEF Supply
      <3> QED  BY <1>11, <3>1, <3>2
    <2>4. \A g \in Handler : handler[g] \in Answered \cup Writing => handler[g].at <= moment'
      BY <1>2 DEF FieldInv, HandlersStamped, Stamped
    <2> QED  BY <2>1, <2>2, <2>3, <2>4, StampedSteps DEF HandlersStamped, Stamped
  <1> QED  BY <1>13, <1>14, <1>15, <1>16 DEF FieldInv

LEMMA FieldKept ==
  ASSUME FieldInv, [Field!Next]_field
  PROVE  FieldInv'
  BY FieldTicks, LookupKept, InsertKept DEF Field!Next

(* The instance's cardinality is the library's.                            *)
LEMMA SameCardinality == \A S : Field!Cardinality(S) = Cardinality(S)
  BY DEF Cardinality, Field!Cardinality

LEMMA Prevails == FieldInv => RegistryPrevails
  <1> SUFFICES ASSUME FieldInv, Supply # {}, ~collided
               PROVE  /\ Cardinality(Field!Effective) = 1
                      /\ \A i \in Field!Effective :
                           /\ entry[i].kind = "GOVERNMENT" /\ entry[i].value \in Value
                           /\ \A j \in Supply : entry[j].at <= entry[i].recorded
    BY SameCardinality DEF RegistryPrevails, Field!RegistryPrevails, Supply
  <1> DEFINE live == {i \in Supply : entry[i].live}
             times == {entry[i].at : i \in live}
  <1>1. moment \in Nat /\ \A i \in DOMAIN entry : entry[i] \in Entry
    BY DEF FieldInv, FieldTyped
  <1>2. \A i \in Supply :
          /\ i \in Nat /\ i \in DOMAIN entry /\ entry[i] \in Entry
          /\ entry[i].at \in Nat /\ entry[i].recorded \in Nat
          /\ entry[i].at <= entry[i].recorded /\ entry[i].at <= moment
    BY <1>1 DEF Supply, Entry, FieldInv, FieldTyped, Ordered
  <1>3. Field!Live("GOVERNMENT") = live /\ live # {}
    BY DEF Field!Live, Supply, FieldInv, Prevailing
  <1>4. Field!Effective = {i \in live : \A j \in live : entry[j].at <= entry[i].at}
    BY <1>3 DEF Field!Effective, Field!Newest
  <1>5. PICK i \in live : \A j \in live : entry[j].at <= entry[i].at
    <2>1. times \subseteq Nat /\ times # {} /\ \A t \in times : t <= moment
      BY <1>2, <1>3
    <2> HIDE DEF times
    <2>2. PICK t \in times : \A s \in times : s <= t
      BY <1>1, <2>1, GreatestExists
    <2> QED  BY <2>2 DEF times
  <1>6. ASSUME NEW k \in live, \A j \in live : entry[j].at <= entry[k].at
        PROVE  k = i
    <2>1. entry[k].at = entry[i].at
      BY <1>2, <1>5, <1>6
    <2> QED  BY <2>1 DEF FieldInv, Ordered
  <1>7. Field!Effective = {i}
    BY <1>4, <1>5, <1>6
  <1>8. ASSUME NEW j \in Supply
        PROVE  entry[j].at <= entry[i].recorded
    <2>1. CASE entry[j].live
      BY <1>2, <1>5, <2>1
    <2>2. CASE ~entry[j].live
      <3>1. j < i
        BY <2>2 DEF FieldInv, Prevailing
      <3>2. entry[j].recorded <= entry[i].recorded
        BY <1>2, <3>1 DEF FieldInv, Ordered
      <3> QED  BY <1>2, <3>2
    <2> QED  BY <2>1, <2>2
  <1>9. entry[i].kind = "GOVERNMENT" /\ entry[i].value \in Value
    BY <1>2 DEF Supply, Entry
  <1> QED  BY <1>7, <1>8, <1>9, FS_Singleton

LEMMA FieldRun == MCSpec => Field!Init /\ [][Field!Next]_field
  <1>1. MCInit => Field!Init
    BY DEF MCInit
  <1>2. [MCNext]_<<protocol, vars, files, cases, lookups, field>> => [Field!Next]_field
    BY DEF MCNext, OfKey, OfFiles, OfCases, OfLookups, OfField
  <1> QED  BY <1>1, <1>2, PTL DEF MCSpec

(* Unless two answers bear one stamp, what is in force of a field the      *)
(* registry supplied is one value of the registry's, recorded no earlier   *)
(* than any lookup was answered.                                           *)
THEOREM RegistryPrevailsHolds == MCSpec => []RegistryPrevails
  <1>1. FieldInv /\ [Field!Next]_field => FieldInv'
    BY FieldKept
  <1> QED  BY <1>1, FieldAtFirst, Prevails, FieldRun, PTL
=============================================================================
