------------------------------- MODULE Contracts -------------------------------
(***************************************************************************)
(* An accepted offer becomes a signed contract: its mandatory conditions   *)
(* are fulfilled or waived, the contract is generated and stored, and one  *)
(* authorized signatory of each party signs it.                            *)
(*                                                                         *)
(* No row is locked before it is written.  Every handler decides on what   *)
(* an earlier statement read, and the last statements of a fulfilment or a *)
(* signature count the other rows inside an open READ COMMITTED            *)
(* transaction: they see their own update and what has committed, not what *)
(* another open transaction has written.  An open transaction is a         *)
(* worker's record, and its commit is one action.                          *)
(*                                                                         *)
(* A refused signature leaves nothing: sign throws inside the transaction  *)
(* that wrote FAILED.  What generation checks beside the conditions        *)
(* (declarations, bank account, due date, amount) is a precondition that   *)
(* no step of this part of the system changes, and is left out.            *)
(***************************************************************************)
EXTENDS Naturals, FiniteSets

CONSTANTS
  Worker,      \* request handlers in flight at once
  Supplier,    \* the supplier's authorized signatories
  Bank,        \* the bank's
  Mandatory,   \* mandatory conditions of the accepted offer
  Optional,    \* its other conditions
  Document,    \* bound: documents rows generation can insert
  NoDocument

Signatory == Supplier \cup Bank
Condition == Mandatory \cup Optional

ASSUME PartiesAssumption == Supplier # {} /\ Bank # {}
ASSUME SignatoryAssumption == Supplier \cap Bank = {}
ASSUME DocumentAssumption == NoDocument \notin Document

VARIABLES
  state,       \* receivable_transactions.state
  fulfilment,  \* offer_conditions.fulfilment
  contract,    \* the contracts row: status, document_id
  signature,   \* contract_signatures.status
  documents,   \* documents rows of generated contracts
  orphaned,    \* history: documents left by handlers that died or could not delete them
  marked,      \* settlements.bank_marked_sent_at IS NOT NULL
  worker       \* what each request handler is doing

rows == <<fulfilment, contract, signature, marked>>
files == <<documents, orphaned>>
vars == <<state, rows, files, worker>>

ConditionState == {"OFFER_ACCEPTED", "CONDITIONS_PENDING"}
SignedState == {"CONTRACTED", "FUNDING_CONFIRMATION_PENDING", "FUNDED"}
ContractState == ConditionState \cup SignedState

Resolution == {"FULFILLED", "WAIVED"}

Idle == [op |-> "idle"]
Request ==
       {Idle}
  \cup [op : {"fulfil"}, condition : Condition, as : Resolution]
  \cup [op : {"counted"}, condition : Condition, as : Resolution, pending : BOOLEAN]
  \cup [op : {"refresh"}, condition : Condition, as : Resolution, pending : BOOLEAN,
        from : ContractState]
  \cup [op : {"generate"}]
  \cup [op : {"insert"}, document : Document]
  \cup [op : {"sign"}, signer : Signatory]
  \cup [op : {"settle"}, signer : Signatory, complete : BOOLEAN]

Become(w, request) == worker' = [worker EXCEPT ![w] = request]

(* markConditionsPendingIfAny: acceptance leaves the transaction here.     *)
Init ==
  /\ state = IF Mandatory = {} THEN "OFFER_ACCEPTED" ELSE "CONDITIONS_PENDING"
  /\ fulfilment = [c \in Condition |-> "PENDING"]
  /\ contract = [status |-> "NONE", document |-> NoDocument]
  /\ signature = [s \in Signatory |-> "NONE"]
  /\ documents = {}
  /\ orphaned = {}
  /\ marked = FALSE
  /\ worker = [w \in Worker |-> Idle]

(***************************************************************************)
(* A condition is fulfilled, or waived by the bank.                        *)
(***************************************************************************)
FulfilRead(w) ==
  /\ worker[w] = Idle
  /\ \E c \in Condition, as \in Resolution :
       /\ fulfilment[c] = "PENDING"
       /\ Become(w, [op |-> "fulfil", condition |-> c, as |-> as])
  /\ UNCHANGED <<state, rows, files>>

(* The update holds the condition's row until it commits.                  *)
UpdatesCondition(v, c) == worker[v].op \in {"counted", "refresh"} /\ worker[v].condition = c

Outstanding(c) == {d \in Mandatory \ {c} : fulfilment[d] \notin Resolution}

FulfilCount(w) ==
  /\ worker[w].op = "fulfil"
  /\ \A v \in Worker : ~UpdatesCondition(v, worker[w].condition)
  /\ Become(w, [op |-> "counted", condition |-> worker[w].condition, as |-> worker[w].as,
                pending |-> Outstanding(worker[w].condition) # {}])
  /\ UNCHANGED <<state, rows, files>>

FulfilRefresh(w) ==
  /\ worker[w].op = "counted"
  /\ Become(w, [op |-> "refresh", condition |-> worker[w].condition, as |-> worker[w].as,
                pending |-> worker[w].pending, from |-> state])
  /\ UNCHANGED <<state, rows, files>>

(* refreshConditionState: the transaction is written by id.                *)
Refreshed(from, pending) ==
  LET target == IF pending THEN "CONDITIONS_PENDING" ELSE "OFFER_ACCEPTED"
  IN  IF from \in ConditionState /\ target # from THEN target ELSE state

Fulfil(w) ==
  /\ worker[w].op = "refresh"
  /\ fulfilment' = [fulfilment EXCEPT ![worker[w].condition] = worker[w].as]
  /\ state' = Refreshed(worker[w].from, worker[w].pending)
  /\ Become(w, Idle)
  /\ UNCHANGED <<contract, signature, marked, files>>

(***************************************************************************)
(* The contract is generated: the facts are read and the document stored   *)
(* before the transaction that inserts the contract and its slots.         *)
(***************************************************************************)
GenerateRead(w) ==
  /\ worker[w] = Idle
  /\ contract.status = "NONE"
  /\ Become(w, [op |-> "generate"])
  /\ UNCHANGED <<state, rows, files>>

(* Mutant of ConditionsMet.                                                *)
ConditionsMetUncommitted ==
  \A c \in Mandatory :
    fulfilment[c] \in Resolution \/ \E w \in Worker : UpdatesCondition(w, c)

(* preContractFindings is empty.                                           *)
ConditionsMet == \A c \in Mandatory : fulfilment[c] \in Resolution

Storing == {worker[w].document : w \in {v \in Worker : worker[v].op = "insert"}}

StoreDocument(w) ==
  /\ worker[w].op = "generate"
  /\ ConditionsMet
  /\ \E d \in Document \ (documents \cup Storing \cup {contract.document}) :
       /\ documents' = documents \cup {d}
       /\ Become(w, [op |-> "insert", document |-> d])
  /\ UNCHANGED <<state, rows, orphaned>>

GenerateRefused(w) ==
  /\ worker[w].op = "generate"
  /\ ~ConditionsMet
  /\ Become(w, Idle)
  /\ UNCHANGED <<state, rows, files>>

InsertContract(w) ==
  /\ worker[w].op = "insert"
  /\ contract.status = "NONE"
  /\ contract' = [status |-> "PENDING_SIGNATURES", document |-> worker[w].document]
  /\ signature' = [s \in Signatory |-> "PENDING"]
  /\ Become(w, Idle)
  /\ UNCHANGED <<state, fulfilment, marked, files>>

(* Mutant of Discarded.                                                    *)
DiscardedOfTransaction(d) == {}

Discarded(d) == documents \ {d}

(* contracts.transaction_id is unique, and any other error of the insert   *)
(* ends here too: the handler deletes the row it stored, if it can.        *)
InsertFails(w) ==
  /\ worker[w].op = "insert"
  /\ \/ documents' = Discarded(worker[w].document) /\ UNCHANGED orphaned
     \/ orphaned' = orphaned \cup {worker[w].document} /\ UNCHANGED documents
  /\ Become(w, Idle)
  /\ UNCHANGED <<state, rows>>

(***************************************************************************)
(* A signatory signs.                                                      *)
(***************************************************************************)
SignRead(w) ==
  /\ worker[w] = Idle
  /\ contract.status = "PENDING_SIGNATURES"
  /\ \E s \in Signatory :
       /\ signature[s] = "PENDING"
       /\ Become(w, [op |-> "sign", signer |-> s])
  /\ UNCHANGED <<state, rows, files>>

UpdatesSlot(v, s) == worker[v].op = "settle" /\ worker[v].signer = s

Signed(party, s) == \E p \in party : p = s \/ signature[p] = "VERIFIED"

(* Mutant of Complete.                                                     *)
CompleteByCount(s) ==
  Cardinality({p \in Signatory : p = s \/ signature[p] = "VERIFIED"}) >= 2

(* settleContractStatus: one verified signature of each capacity.          *)
Complete(s) == Signed(Supplier, s) /\ Signed(Bank, s)

SignCount(w) ==
  /\ worker[w].op = "sign"
  /\ \A v \in Worker : ~UpdatesSlot(v, worker[w].signer)
  /\ Become(w, [op |-> "settle", signer |-> worker[w].signer,
                complete |-> Complete(worker[w].signer)])
  /\ UNCHANGED <<state, rows, files>>

Sign(w) ==
  /\ worker[w].op = "settle"
  /\ signature' = [signature EXCEPT ![worker[w].signer] = "VERIFIED"]
  /\ IF worker[w].complete
     THEN /\ contract' = [contract EXCEPT !.status = "FULLY_SIGNED"]
          /\ state' = "CONTRACTED"
     ELSE UNCHANGED <<contract, state>>
  /\ Become(w, Idle)
  /\ UNCHANGED <<fulfilment, marked, files>>

(***************************************************************************)
(* A handler fails or its process dies: what it had not committed is gone. *)
(***************************************************************************)
Stored(w) == IF worker[w].op = "insert" THEN {worker[w].document} ELSE {}

Abort(w) ==
  /\ worker[w] # Idle
  /\ orphaned' = orphaned \cup Stored(w)
  /\ Become(w, Idle)
  /\ UNCHANGED <<state, rows, documents>>

(***************************************************************************)
(* Funding takes a contracted transaction on: markSent, then confirm, on   *)
(* the locked row.  A bank that has marked its transfer sent is answered   *)
(* with the settlement.                                                    *)
(***************************************************************************)
MarkSent ==
  /\ state = "CONTRACTED"
  /\ ~marked
  /\ marked' = TRUE
  /\ state' = "FUNDING_CONFIRMATION_PENDING"
  /\ UNCHANGED <<fulfilment, contract, signature, files, worker>>

Confirm ==
  /\ state = "FUNDING_CONFIRMATION_PENDING"
  /\ state' = "FUNDED"
  /\ UNCHANGED <<rows, files, worker>>

Fulfilment(w) == FulfilRead(w) \/ FulfilCount(w) \/ FulfilRefresh(w) \/ Fulfil(w)
Generation(w) ==
  \/ GenerateRead(w) \/ GenerateRefused(w) \/ StoreDocument(w)
  \/ InsertContract(w) \/ InsertFails(w)
Signing(w) == SignRead(w) \/ SignCount(w) \/ Sign(w)
Funding == MarkSent \/ Confirm

Next ==
  \/ \E w \in Worker : Fulfilment(w) \/ Generation(w) \/ Signing(w) \/ Abort(w)
  \/ Funding

Spec == Init /\ [][Next]_vars

-----------------------------------------------------------------------------
(***************************************************************************)
(* What must hold                                                          *)
(***************************************************************************)

(* Every column holds one of the values the code writes to it.             *)
TypeOK ==
  /\ state \in ContractState
  /\ fulfilment \in [Condition -> {"PENDING"} \cup Resolution]
  /\ contract \in [status : {"NONE", "PENDING_SIGNATURES", "FULLY_SIGNED"},
                   document : Document \cup {NoDocument}]
  /\ signature \in [Signatory -> {"NONE", "PENDING", "VERIFIED"}]
  /\ documents \subseteq Document /\ orphaned \subseteq Document
  /\ marked \in BOOLEAN
  /\ worker \in [Worker -> Request]

BothSigned ==
  \A party \in {Supplier, Bank} : \E s \in party : signature[s] = "VERIFIED"

(* ZM-CON-010, ZM-CON-012: whatever was counted when, the transaction is   *)
(* contracted or further only on a fully signed contract, which carries a  *)
(* verified signature of each party.                                       *)
ContractedIsSigned ==
  /\ marked \/ state \in SignedState => contract.status = "FULLY_SIGNED"
  /\ contract.status = "FULLY_SIGNED" => BothSigned

(* ZM-CON-006: the facts are read long before the insert; no contract      *)
(* exists over a mandatory condition that is open when it is signed.       *)
TermsAreResolved ==
  contract.status # "NONE" => \A c \in Mandatory : fulfilment[c] \in Resolution

(* A document is stored before the contract it belongs to, and the loser   *)
(* of two generations deletes its own: the contract's document can always  *)
(* be read, and only a handler that died or could not delete leaves one.   *)
DocumentsAccounted ==
  documents = orphaned \cup Storing
                \cup (IF contract.status = "NONE" THEN {} ELSE {contract.document})

=============================================================================
