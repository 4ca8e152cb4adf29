------------------------------ MODULE Documents ------------------------------
(***************************************************************************)
(* The electronic invoices of one transaction: a row is reserved and a     *)
(* signed URL returned, the browser puts the file into the object store,   *)
(* and whoever first needs its content hashes it and has it read.          *)
(*                                                                         *)
(* The database, the object store and the extraction service share no      *)
(* transaction: every statement and every call is a step, a handler works  *)
(* on the row it read at first, and may fail or die between two steps.     *)
(***************************************************************************)
EXTENDS Naturals, Sequences

CONSTANTS
  Reader,   \* bound: requests under way at once
  MaxRow,   \* bound: documents reserved
  None      \* no bytes, no hash, no reading

VARIABLES
  docs,     \* the transaction's electronic invoices, by uploaded_at
  object,   \* the object store, by row
  reading,  \* document_extractions: the newest pair of each row
  reader,   \* what each request's handler does next
  altered,  \* history: a stored object was changed behind the platform's back
  broken    \* history: a handler died between the hash and the reading

stored == <<docs, object, reading>>
vars == <<stored, reader, altered, broken>>

Row == 1 .. MaxRow
Idle == [step |-> "idle"]

Goto(r, s) == reader' = [reader EXCEPT ![r] = s]

Init ==
  /\ docs = <<>>
  /\ object = [d \in Row |-> None]
  /\ reading = [d \in Row |-> None]
  /\ reader = [r \in Reader |-> Idle]
  /\ altered = FALSE
  /\ broken = FALSE

(* INSERT INTO documents, before there is an object or a path to it.       *)
Reserve ==
  /\ Len(docs) < MaxRow
  /\ docs' = Append(docs, [path |-> FALSE, hash |-> None])
  /\ UNCHANGED <<object, reading, reader, altered, broken>>

(* The URL is issued and the path stored; either may fail and leave the    *)
(* row as it is.                                                           *)
Sign ==
  /\ \E d \in DOMAIN docs : ~docs[d].path /\ docs' = [docs EXCEPT ![d].path = TRUE]
  /\ UNCHANGED <<object, reading, reader, altered, broken>>

(* The browser's PUT to the signed URL, which does not overwrite.          *)
Put ==
  /\ \E d \in DOMAIN docs, b \in {"INVOICE", "MISLABELLED"} :
       docs[d].path /\ object[d] = None /\ object' = [object EXCEPT ![d] = b]
  /\ UNCHANGED <<docs, reading, reader, altered, broken>>

(* A stored object is lost or changed by other means.                      *)
Alter ==
  /\ ~altered
  /\ \E d \in Row, b \in {None, "OTHER"} :
       object[d] = "INVOICE" /\ object' = [object EXCEPT ![d] = b]
  /\ altered' = TRUE
  /\ UNCHANGED <<docs, reading, reader, broken>>

(* A handler and the row it read; there is history: an object was stored.  *)
Begin(r, step, purpose, d) ==
  /\ reader[r] = Idle
  /\ Goto(r, [step |-> step, for |-> purpose, doc |-> d, row |-> docs[d],
              there |-> object[d] # None])
  /\ UNCHANGED <<stored, altered, broken>>

(* GET extraction, of a document named by its id.                          *)
View(r) == \E d \in DOMAIN docs : Begin(r, "finalize", "view", d)

(* The transaction's electronic invoice is the first of them.  Verification*)
(* hashes it if nobody has; scoring takes the row as it is.                *)
Attached == 1

Check(r) == docs # <<>> /\ Begin(r, "finalize", "check", Attached)
Score(r) == docs # <<>> /\ Begin(r, "verify", "score", Attached)

(* contentMatchesDeclared                                                  *)
Matches(bytes) == bytes # "MISLABELLED"

(* ensureFinalized returns a row, the one it was given or a finalized one. *)
Return(r, row) ==
  IF reader[r].for = "view" THEN Idle
  ELSE [step |-> "verify", for |-> reader[r].for, doc |-> reader[r].doc, row |-> row,
        there |-> reader[r].there]

(* What ensureFinalized makes of the row and of the stored bytes: nothing  *)
(* to do, nothing there yet, a refusal by exception, or a hash to store.   *)
Download(r) ==
  /\ reader[r].step = "finalize"
  /\ LET row == reader[r].row
         bytes == object[reader[r].doc]
     IN  Goto(r, IF row.hash # None \/ ~row.path \/ bytes = None THEN Return(r, row)
                 ELSE IF ~Matches(bytes) THEN Idle
                 ELSE [step |-> "hash", for |-> reader[r].for, doc |-> reader[r].doc,
                       row |-> [row EXCEPT !.hash = bytes], there |-> reader[r].there])
  /\ UNCHANGED <<stored, altered, broken>>

StoreHash(r) ==
  /\ reader[r].step = "hash"
  /\ docs' = [docs EXCEPT ![reader[r].doc].hash = reader[r].row.hash]
  /\ Goto(r, [reader[r] EXCEPT !.step = "extract"])
  /\ UNCHANGED <<object, reading, altered, broken>>

(* Mutant of Finalized: the row as it was given, without the hash.         *)
FinalizedStale(row) == [row EXCEPT !.hash = None]

(* { ...document, file_hash }                                              *)
Finalized(row) == row

(* Mutant of Recorded: an unreachable service leaves no reading.           *)
RecordedIfRead(ocr, before) == IF ocr = "READ" THEN ocr ELSE before

(* runExtraction: the service's answer, or its absence, is stored.         *)
Recorded(ocr, before) == ocr

Extract(r) ==
  /\ reader[r].step = "extract"
  /\ \E ocr \in {"READ", "FAILED"} :
       reading' = [reading EXCEPT ![reader[r].doc] = Recorded(ocr, @)]
  /\ Goto(r, Return(r, Finalized(reader[r].row)))
  /\ UNCHANGED <<docs, object, altered, broken>>

(* verifyStoredHash downloads from the path of the row it was given; there *)
(* is nothing to be had without one.                                       *)
Integrity(row, bytes) ==
  IF ~row.path \/ bytes = None THEN "REVIEW" ELSE IF bytes = row.hash THEN "PASS" ELSE "FAIL"

Verify(r) ==
  /\ reader[r].step = "verify"
  /\ Goto(r, [step |-> "told", for |-> reader[r].for, there |-> reader[r].there,
              hashed |-> reader[r].row.hash # None,
              integrity |-> Integrity(reader[r].row, object[reader[r].doc])])
  /\ UNCHANGED <<stored, altered, broken>>

Die(r) ==
  /\ reader[r] # Idle
  /\ broken' = (broken \/ reader[r].step = "extract")
  /\ Goto(r, Idle)
  /\ UNCHANGED <<stored, altered>>

Next ==
  \/ Reserve \/ Sign \/ Put \/ Alter
  \/ \E r \in Reader :
       \/ View(r) \/ Check(r) \/ Score(r)
       \/ Download(r) \/ StoreHash(r) \/ Extract(r) \/ Verify(r) \/ Die(r)

Spec == Init /\ [][Next]_vars
-----------------------------------------------------------------------------
Told == {reader[r] : r \in {q \in Reader : reader[q].step = "told"}}

(* ZM-VER: a failed integrity check, which freezes the transaction for     *)
(* fraud, accuses a file that was altered, or else one of two innocents:   *)
(* a file that arrived while it was being checked, or was scored before    *)
(* anyone hashed it.  No other interleaving accuses a sound file.          *)
OnlyChangeAccuses ==
  \A v \in Told :
    v.integrity = "FAIL" => altered \/ ~v.there \/ (v.for = "score" /\ ~v.hashed)

(* A recorded hash is a promise never to read the file again, so a file    *)
(* with one has been read, or is about to be, unless the handler died.     *)
HashedIsRead ==
  \A d \in DOMAIN docs :
    docs[d].hash # None /\ reading[d] = None =>
      broken \/ \E r \in Reader : reader[r].step = "extract" /\ reader[r].doc = d

(* verification.ts:337: a hash mismatch means the stored bytes changed     *)
(* after upload.                                                           *)
FailMeansChanged == \A v \in Told : v.for = "check" /\ v.integrity = "FAIL" => altered
=============================================================================
