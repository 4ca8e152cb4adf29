---------------------------- MODULE ContractsProofs ----------------------------
(***************************************************************************)
(* Contracts for any number of handlers, signatories, conditions and       *)
(* documents.                                                              *)
(***************************************************************************)
EXTENDS Contracts, TLAPS

USE DEF rows, files

(***************************************************************************)
(* What a handler carries, by the operation it is in.                      *)
(***************************************************************************)
LEMMA RequestShape ==
  ASSUME TypeOK, NEW w \in Worker
  PROVE  /\ worker[w].op \in {"fulfil", "counted", "refresh"} =>
              worker[w].condition \in Condition /\ worker[w].as \in Resolution
         /\ worker[w].op \in {"counted", "refresh"} => worker[w].pending \in BOOLEAN
         /\ worker[w].op = "refresh" => worker[w].from \in ContractState
         /\ worker[w].op = "insert" => worker[w].document \in Document
         /\ worker[w].op \in {"sign", "settle"} => worker[w].signer \in Signatory
         /\ worker[w].op = "settle" => worker[w].complete \in BOOLEAN
  <1>1. worker[w] \in Request
    BY DEF TypeOK
  <1> QED  BY <1>1 DEF Request, Idle

LEMMA BecomeType ==
  ASSUME TypeOK, NEW w \in Worker, NEW request \in Request, Become(w, request)
  PROVE  worker' \in [Worker -> Request]
  BY DEF TypeOK, Become

LEMMA IdleRequest == Idle \in Request
  BY DEF Request

(***************************************************************************)
(* Types.                                                                  *)
(***************************************************************************)
LEMMA FulfilmentType ==
  ASSUME TypeOK, NEW w \in Worker, Fulfilment(w)
  PROVE  TypeOK'
  <1>1. CASE FulfilRead(w)
    <2>1. PICK c \in Condition, as \in Resolution :
            Become(w, [op |-> "fulfil", condition |-> c, as |-> as])
      BY <1>1 DEF FulfilRead
    <2>2. [op |-> "fulfil", condition |-> c, as |-> as] \in Request
      BY DEF Request
    <2>3. worker' \in [Worker -> Request]
      BY <2>1, <2>2, BecomeType
    <2> QED  BY <1>1, <2>3 DEF TypeOK, FulfilRead
  <1>2. CASE FulfilCount(w)
    <2> DEFINE pending == Outstanding(worker[w].condition) # {}
               request == [op |-> "counted", condition |-> worker[w].condition,
                           as |-> worker[w].as, pending |-> pending]
    <2>1. pending \in BOOLEAN
      OBVIOUS
    <2> HIDE DEF pending
    <2>2. request \in Request
      BY <1>2, <2>1, RequestShape DEF FulfilCount, Request
    <2>3. Become(w, request)
      BY <1>2 DEF FulfilCount, pending
    <2>4. worker' \in [Worker -> Request]
      BY <2>2, <2>3, BecomeType
    <2> QED  BY <1>2, <2>4 DEF TypeOK, FulfilCount
  <1>3. CASE FulfilRefresh(w)
    <2> DEFINE request == [op |-> "refresh", condition |-> worker[w].condition,
                           as |-> worker[w].as, pending |-> worker[w].pending, from |-> state]
    <2>1. request \in Request
      BY <1>3, RequestShape DEF FulfilRefresh, Request, TypeOK
    <2>2. worker' \in [Worker -> Request]
      BY <1>3, <2>1, BecomeType DEF FulfilRefresh
    <2> QED  BY <1>3, <2>2 DEF TypeOK, FulfilRefresh
  <1>4. CASE Fulfil(w)
    <2>1. fulfilment' \in [Condition -> {"PENDING"} \cup Resolution]
      BY <1>4, RequestShape DEF Fulfil, TypeOK
    <2>2. state' \in ContractState
      BY <1>4 DEF Fulfil, TypeOK, Refreshed, ContractState, ConditionState
    <2>3. worker' \in [Worker -> Request]
      BY <1>4, IdleRequest, BecomeType DEF Fulfil
    <2> QED  BY <1>4, <2>1, <2>2, <2>3 DEF TypeOK, Fulfil
  <1> QED  BY <1>1, <1>2, <1>3, <1>4 DEF Fulfilment

LEMMA GenerationType ==
  ASSUME TypeOK, NEW w \in Worker, Generation(w)
  PROVE  TypeOK'
  <1>1. CASE GenerateRead(w)
    <2>1. [op |-> "generate"] \in Request
      BY DEF Request
    <2>2. worker' \in [Worker -> Request]
      BY <1>1, <2>1, BecomeType DEF GenerateRead
    <2> QED  BY <1>1, <2>2 DEF TypeOK, GenerateRead
  <1>2. CASE GenerateRefused(w)
    <2>1. worker' \in [Worker -> Request]
      BY <1>2, IdleRequest, BecomeType DEF GenerateRefused
    <2> QED  BY <1>2, <2>1 DEF TypeOK, GenerateRefused
  <1>3. CASE StoreDocument(w)
    <2>1. PICK d \in Document : /\ documents' = documents \cup {d}
                                /\ Become(w, [op |-> "insert", document |-> d])
      BY <1>3 DEF StoreDocument
    <2>2. [op |-> "insert", document |-> d] \in Request
      BY DEF Request
    <2>3. worker' \in [Worker -> Request]
      BY <2>1, <2>2, BecomeType
    <2> QED  BY <1>3, <2>1, <2>3 DEF TypeOK, StoreDocument
  <1>4. CASE InsertContract(w)
    <2>1. contract' \in [status : {"NONE", "PENDING_SIGNATURES", "FULLY_SIGNED"},
                         document : Document \cup {NoDocument}]
      BY <1>4, RequestShape DEF InsertContract
    <2>2. signature' \in [Signatory -> {"NONE", "PENDING", "VERIFIED"}]
      BY <1>4 DEF InsertContract
    <2>3. worker' \in [Worker -> Request]
      BY <1>4, IdleRequest, BecomeType DEF InsertContract
    <2> QED  BY <1>4, <2>1, <2>2, <2>3 DEF TypeOK, InsertContract
  <1>5. CASE InsertFails(w)
    <2>1. documents' \subseteq Document /\ orphaned' \subseteq Document
      BY <1>5, RequestShape DEF InsertFails, Discarded, TypeOK
    <2>2. worker' \in [Worker -> Request]
      BY <1>5, IdleRequest, BecomeType DEF InsertFails
    <2> QED  BY <1>5, <2>1, <2>2 DEF TypeOK, InsertFails
  <1> QED  BY <1>1, <1>2, <1>3, <1>4, <1>5 DEF Generation

LEMMA SigningType ==
  ASSUME TypeOK, NEW w \in Worker, Signing(w)
  PROVE  TypeOK'
  <1>1. CASE SignRead(w)
    <2>1. PICK s \in Signatory : Become(w, [op |-> "sign", signer |-> s])
      BY <1>1 DEF SignRead
    <2>2. [op |-> "sign", signer |-> s] \in Request
      BY DEF Request
    <2>3. worker' \in [Worker -> Request]
      BY <2>1, <2>2, BecomeType
    <2> QED  BY <1>1, <2>3 DEF TypeOK, SignRead
  <1>2. CASE SignCount(w)
    <2> DEFINE complete == Complete(worker[w].signer)
               request == [op |-> "settle", signer |-> worker[w].signer, complete |-> complete]
    <2>1. complete \in BOOLEAN
      BY DEF Complete, Signed
    <2> HIDE DEF complete
    <2>2. request \in Request
      BY <1>2, <2>1, RequestShape DEF SignCount, Request
    <2>3. Become(w, request)
      BY <1>2 DEF SignCount, complete
    <2>4. worker' \in [Worker -> Request]
      BY <2>2, <2>3, BecomeType
    <2> QED  BY <1>2, <2>4 DEF TypeOK, SignCount
  <1>3. CASE Sign(w)
    <2>1. signature' \in [Signatory -> {"NONE", "PENDING", "VERIFIED"}]
      BY <1>3 DEF Sign, TypeOK
    <2>2. /\ contract' \in [status : {"NONE", "PENDING_SIGNATURES", "FULLY_SIGNED"},
                            document : Document \cup {NoDocument}]
          /\ state' \in ContractState
      BY <1>3 DEF Sign, TypeOK, ContractState, SignedState
    <2>3. worker' \in [Worker -> Request]
      BY <1>3, IdleRequest, BecomeType DEF Sign
    <2> QED  BY <1>3, <2>1, <2>2, <2>3 DEF TypeOK, Sign
  <1> QED  BY <1>1, <1>2, <1>3 DEF Signing

LEMMA AbortType ==
  ASSUME TypeOK, NEW w \in Worker, Abort(w)
  PROVE  TypeOK'
  <1>1. orphaned' \subseteq Document
    BY RequestShape DEF Abort, Stored, TypeOK
  <1>2. worker' \in [Worker -> Request]
    BY IdleRequest, BecomeType DEF Abort
  <1> QED  BY <1>1, <1>2 DEF TypeOK, Abort

(* The columns keep their types, whatever stale values the handlers write. *)
THEOREM TypeCorrect == Spec => []TypeOK
  <1>1. ASSUME Init
        PROVE  TypeOK
    <2>1. state \in ContractState
      BY <1>1 DEF Init, ContractState, ConditionState
    <2>2. /\ fulfilment \in [Condition -> {"PENDING"} \cup Resolution]
          /\ signature \in [Signatory -> {"NONE", "PENDING", "VERIFIED"}]
      BY <1>1 DEF Init
    <2>3. contract \in [status : {"NONE", "PENDING_SIGNATURES", "FULLY_SIGNED"},
                       document : Document \cup {NoDocument}]
      BY <1>1 DEF Init
    <2>4. worker \in [Worker -> Request]
      BY <1>1, IdleRequest DEF Init
    <2> QED  BY <1>1, <2>1, <2>2, <2>3, <2>4 DEF Init, TypeOK
  <1>2. TypeOK /\ [Next]_vars => TypeOK'
    <2> SUFFICES ASSUME TypeOK, [Next]_vars
                 PROVE  TypeOK'
      OBVIOUS
    <2>1. CASE \E w \in Worker : Fulfilment(w) \/ Generation(w) \/ Signing(w) \/ Abort(w)
      BY <2>1, FulfilmentType, GenerationType, SigningType, AbortType
    <2>2. CASE Funding
      BY <2>2 DEF Funding, MarkSent, Confirm, TypeOK, ContractState, SignedState
    <2>3. CASE UNCHANGED vars
      BY <2>3 DEF vars, TypeOK
    <2> QED  BY <2>1, <2>2, <2>3 DEF Next
  <1> QED  BY <1>1, <1>2, PTL DEF Spec

(***************************************************************************)
(* The signatures.  What a signature counted stays true: no verified slot  *)
(* is ever reset, because the one insert that resets them all comes before *)
(* any handler can have read a slot.                                       *)
(***************************************************************************)
SignersHaveContract ==
  \A w \in Worker : worker[w].op \in {"sign", "settle"} => contract.status # "NONE"

CountsAreTrue ==
  \A w \in Worker :
    worker[w].op = "settle" /\ worker[w].complete =>
      Signed(Supplier, worker[w].signer) /\ Signed(Bank, worker[w].signer)

SigningInv == SignersHaveContract /\ CountsAreTrue /\ ContractedIsSigned

(* A step that leaves contract, slots and state alone and lets one handler *)
(* go on to something other than signing keeps all three.                  *)
LEMMA SigningUntouched ==
  ASSUME TypeOK, SigningInv, NEW w \in Worker, NEW request, Become(w, request),
         request.op \notin {"sign", "settle"},
         UNCHANGED <<contract, signature, marked>>,
         state' \in SignedState => state \in SignedState
  PROVE  SigningInv'
  <1>1. \A v \in Worker : worker'[v] = IF v = w THEN request ELSE worker[v]
    BY DEF Become, TypeOK
  <1>2. SignersHaveContract'
    BY <1>1 DEF SigningInv, SignersHaveContract
  <1>3. CountsAreTrue'
    BY <1>1 DEF SigningInv, CountsAreTrue, Signed
  <1>4. ContractedIsSigned'
    BY DEF SigningInv, ContractedIsSigned, BothSigned
  <1> QED  BY <1>2, <1>3, <1>4 DEF SigningInv

LEMMA SignCountKeepsSigning ==
  ASSUME TypeOK, SigningInv, NEW w \in Worker, SignCount(w)
  PROVE  SigningInv'
  <1> DEFINE s == worker[w].signer
  <1>1. /\ worker'[w].op = "settle" /\ worker'[w].signer = s
        /\ worker'[w].complete <=> Complete(s)
        /\ \A v \in Worker \ {w} : worker'[v] = worker[v]
    BY DEF SignCount, Become, TypeOK, Complete, Signed
  <1>2. UNCHANGED <<state, contract, signature, marked>>
    BY DEF SignCount
  <1>3. SignersHaveContract'
    BY <1>1, <1>2 DEF SigningInv, SignersHaveContract, SignCount
  <1>4. CountsAreTrue'
    <2> SUFFICES ASSUME NEW v \in Worker, worker'[v].op = "settle", worker'[v].complete
                 PROVE  (Signed(Supplier, worker[v].signer) /\ Signed(Bank, worker[v].signer))'
      BY DEF CountsAreTrue
    <2>1. CASE v = w
      BY <2>1, <1>1, <1>2 DEF Complete, Signed
    <2>2. CASE v # w
      BY <2>2, <1>1, <1>2 DEF SigningInv, CountsAreTrue, Signed
    <2> QED  BY <2>1, <2>2
  <1>5. ContractedIsSigned'
    BY <1>2 DEF SigningInv, ContractedIsSigned, BothSigned
  <1> QED  BY <1>3, <1>4, <1>5 DEF SigningInv

LEMMA SignKeepsSigning ==
  ASSUME TypeOK, SigningInv, NEW w \in Worker, Sign(w)
  PROVE  SigningInv'
  <1> DEFINE s == worker[w].signer
  <1>1. s \in Signatory
    BY RequestShape DEF Sign
  <1>2. signature'[s] = "VERIFIED" /\ \A p \in Signatory \ {s} : signature'[p] = signature[p]
    BY <1>1 DEF Sign, TypeOK
  <1>3. worker'[w] = Idle /\ \A v \in Worker \ {w} : worker'[v] = worker[v]
    BY DEF Sign, Become, TypeOK
  <1>4. contract.status # "NONE" => contract'.status # "NONE"
    BY DEF Sign, TypeOK
  <1>5. SignersHaveContract'
    BY <1>3, <1>4 DEF SigningInv, SignersHaveContract, Idle
  <1>6. \A p \in Supplier \cup Bank : signature[p] = "VERIFIED" => signature'[p] = "VERIFIED"
    BY <1>2 DEF Signatory
  <1>7. CountsAreTrue'
    <2> SUFFICES ASSUME NEW v \in Worker, worker'[v].op = "settle", worker'[v].complete
                 PROVE  (Signed(Supplier, worker[v].signer) /\ Signed(Bank, worker[v].signer))'
      BY DEF CountsAreTrue
    <2>1. worker'[v] = worker[v]
      BY <1>3 DEF Idle
    <2>2. Signed(Supplier, worker[v].signer) /\ Signed(Bank, worker[v].signer)
      BY <2>1 DEF SigningInv, CountsAreTrue
    <2> QED  BY <1>6, <2>1, <2>2 DEF Signed
  <1>8. BothSigned => BothSigned'
    <2>1. ASSUME NEW party \in {Supplier, Bank}, \E p \in party : signature[p] = "VERIFIED"
          PROVE  \E p \in party : signature'[p] = "VERIFIED"
      BY <1>6, <2>1
    <2> QED  BY <2>1 DEF BothSigned
  <1>9. worker[w].complete => BothSigned'
    <2> SUFFICES ASSUME worker[w].complete, NEW party \in {Supplier, Bank}
                 PROVE  \E p \in party : signature'[p] = "VERIFIED"
      BY DEF BothSigned
    <2>1. Signed(party, s)
      BY DEF SigningInv, CountsAreTrue, Sign
    <2> QED  BY <2>1, <1>2 DEF Signed, Signatory
  <1>10. ContractedIsSigned'
    <2>1. CASE worker[w].complete
      <3>1. contract'.status = "FULLY_SIGNED"
        BY <2>1 DEF Sign, TypeOK
      <3> QED  BY <2>1, <3>1, <1>9 DEF ContractedIsSigned
    <2>2. CASE ~worker[w].complete
      <3>1. UNCHANGED <<state, contract, marked>>
        BY <2>2 DEF Sign
      <3> QED  BY <3>1, <1>8 DEF SigningInv, ContractedIsSigned
    <2> QED  BY <2>1, <2>2
  <1> QED  BY <1>5, <1>7, <1>10 DEF SigningInv

LEMMA InsertKeepsSigning ==
  ASSUME TypeOK, SigningInv, NEW w \in Worker, InsertContract(w)
  PROVE  SigningInv'
  <1>1. worker'[w] = Idle /\ \A v \in Worker \ {w} : worker'[v] = worker[v]
    BY DEF InsertContract, Become, TypeOK
  <1>2. \A v \in Worker : worker'[v].op \notin {"sign", "settle"}
    BY <1>1 DEF SigningInv, SignersHaveContract, InsertContract, Idle
  <1>3. ~marked' /\ state' \notin SignedState
    BY DEF SigningInv, ContractedIsSigned, InsertContract
  <1>4. contract'.status = "PENDING_SIGNATURES"
    BY DEF InsertContract
  <1>5. SignersHaveContract' /\ CountsAreTrue'
    BY <1>2 DEF SignersHaveContract, CountsAreTrue
  <1>6. ContractedIsSigned'
    BY <1>3, <1>4 DEF ContractedIsSigned
  <1> QED  BY <1>5, <1>6 DEF SigningInv

LEMMA SigningInvariant == Spec => []SigningInv
  <1>1. Init => SigningInv
    <2> SUFFICES ASSUME Init PROVE SigningInv
      OBVIOUS
    <2>1. \A w \in Worker : worker[w] = Idle
      BY DEF Init
    <2>2. SignersHaveContract /\ CountsAreTrue
      BY <2>1 DEF SignersHaveContract, CountsAreTrue, Idle
    <2>3. ~marked /\ state \notin SignedState /\ contract.status = "NONE"
      BY DEF Init, SignedState
    <2> QED  BY <2>2, <2>3 DEF SigningInv, ContractedIsSigned
  <1>2. TypeOK /\ SigningInv /\ [Next]_vars => SigningInv'
    <2> SUFFICES ASSUME TypeOK, SigningInv, [Next]_vars
                 PROVE  SigningInv'
      OBVIOUS
    <2>1. ASSUME NEW w \in Worker, Fulfilment(w)
          PROVE  SigningInv'
      <3>1. UNCHANGED <<contract, signature, marked>>
        BY <2>1 DEF Fulfilment, FulfilRead, FulfilCount, FulfilRefresh, Fulfil
      <3>2. state' \in SignedState => state \in SignedState
        BY <2>1 DEF Fulfilment, FulfilRead, FulfilCount, FulfilRefresh, Fulfil, Refreshed,
                    SignedState, ConditionState
      <3>3. \E request : Become(w, request) /\ request.op \notin {"sign", "settle"}
        <4>1. CASE FulfilRead(w)
          BY <4>1 DEF FulfilRead
        <4>2. CASE FulfilCount(w)
          BY <4>2 DEF FulfilCount
        <4>3. CASE FulfilRefresh(w)
          BY <4>3 DEF FulfilRefresh
        <4>4. CASE Fulfil(w)
          BY <4>4 DEF Fulfil, Idle
        <4> QED  BY <2>1, <4>1, <4>2, <4>3, <4>4 DEF Fulfilment
      <3> QED  BY <3>1, <3>2, <3>3, SigningUntouched
    <2>2. ASSUME NEW w \in Worker, Generation(w)
          PROVE  SigningInv'
      <3>1. CASE InsertContract(w)
        BY <3>1, InsertKeepsSigning
      <3>2. CASE ~InsertContract(w)
        <4>1. UNCHANGED <<state, contract, signature, marked>>
          BY <2>2, <3>2 DEF Generation, GenerateRead, GenerateRefused, StoreDocument, InsertFails
        <4>2. \E request : Become(w, request) /\ request.op \notin {"sign", "settle"}
          <5>1. CASE GenerateRead(w)
            BY <5>1 DEF GenerateRead
          <5>2. CASE GenerateRefused(w)
            BY <5>2 DEF GenerateRefused, Idle
          <5>3. CASE StoreDocument(w)
            BY <5>3 DEF StoreDocument
          <5>4. CASE InsertFails(w)
            BY <5>4 DEF InsertFails, Idle
          <5> QED  BY <2>2, <3>2, <5>1, <5>2, <5>3, <5>4 DEF Generation
        <4> QED  BY <4>1, <4>2, SigningUntouched
      <3> QED  BY <3>1, <3>2
    <2>3. ASSUME NEW w \in Worker, SignRead(w)
          PROVE  SigningInv'
      <3>1. /\ worker'[w].op = "sign"
            /\ \A v \in Worker \ {w} : worker'[v] = worker[v]
            /\ contract.status # "NONE"
            /\ UNCHANGED <<state, contract, signature, marked>>
        BY <2>3 DEF SignRead, Become, TypeOK
      <3>2. SignersHaveContract'
        BY <3>1 DEF SigningInv, SignersHaveContract
      <3>3. CountsAreTrue'
        BY <3>1 DEF SigningInv, CountsAreTrue, Signed
      <3>4. ContractedIsSigned'
        BY <3>1 DEF SigningInv, ContractedIsSigned, BothSigned
      <3> QED  BY <3>2, <3>3, <3>4 DEF SigningInv
    <2>4. ASSUME NEW w \in Worker, Abort(w)
          PROVE  SigningInv'
      BY <2>4, SigningUntouched DEF Abort, Idle
    <2>5. CASE Funding
      <3>1. UNCHANGED <<contract, signature, worker>>
        BY <2>5 DEF Funding, MarkSent, Confirm
      <3>2. state \in SignedState
        BY <2>5 DEF Funding, MarkSent, Confirm, SignedState
      <3>3. SignersHaveContract'
        BY <3>1 DEF SigningInv, SignersHaveContract
      <3>4. CountsAreTrue'
        BY <3>1 DEF SigningInv, CountsAreTrue, Signed
      <3>5. ContractedIsSigned'
        BY <3>1, <3>2 DEF SigningInv, ContractedIsSigned, BothSigned
      <3> QED  BY <3>3, <3>4, <3>5 DEF SigningInv
    <2>6. CASE UNCHANGED vars
      <3>1. UNCHANGED <<state, contract, signature, marked, worker>>
        BY <2>6 DEF vars
      <3>2. SignersHaveContract' /\ CountsAreTrue'
        BY <3>1 DEF SigningInv, SignersHaveContract, CountsAreTrue, Signed
      <3>3. ContractedIsSigned'
        BY <3>1 DEF SigningInv, ContractedIsSigned, BothSigned
      <3> QED  BY <3>2, <3>3 DEF SigningInv
    <2> QED
      BY <2>1, <2>2, <2>3, <2>4, <2>5, <2>6, SignCountKeepsSigning, SignKeepsSigning
         DEF Next, Signing
  <1> QED  BY <1>1, <1>2, TypeCorrect, PTL DEF Spec

(* ZM-CON-012: a transaction is contracted, marked as sent or funded only  *)
(* on a contract with a verified signature of each party.                  *)
THEOREM ContractedOnSignatures == Spec => []ContractedIsSigned
  <1>1. SigningInv => ContractedIsSigned
    BY DEF SigningInv
  <1> QED  BY <1>1, SigningInvariant, PTL

(***************************************************************************)
(* The terms.  A handler that stored a document found every mandatory      *)
(* condition resolved, and a resolved condition stays resolved.            *)
(***************************************************************************)
MandatoryResolved == \A c \in Mandatory : fulfilment[c] \in Resolution

StoredOnResolvedTerms == \A w \in Worker : worker[w].op = "insert" => MandatoryResolved

TermsInv == StoredOnResolvedTerms /\ TermsAreResolved

(* What neither inserts nor un-resolves keeps both.                        *)
LEMMA TermsUntouched ==
  ASSUME TypeOK, TermsInv, NEW w \in Worker, NEW request, Become(w, request),
         request.op # "insert", MandatoryResolved => MandatoryResolved',
         contract.status = "NONE" => contract'.status = "NONE"
  PROVE  TermsInv'
  <1>1. \A v \in Worker : worker'[v] = IF v = w THEN request ELSE worker[v]
    BY DEF Become, TypeOK
  <1>2. StoredOnResolvedTerms'
    BY <1>1 DEF TermsInv, StoredOnResolvedTerms
  <1>3. TermsAreResolved'
    BY DEF TermsInv, TermsAreResolved, MandatoryResolved
  <1> QED  BY <1>2, <1>3 DEF TermsInv

LEMMA ResolvedStays ==
  ASSUME TypeOK, NEW w \in Worker, Fulfil(w), MandatoryResolved
  PROVE  MandatoryResolved'
  <1>1. worker[w].as \in Resolution
    BY RequestShape DEF Fulfil
  <1> QED  BY <1>1 DEF Fulfil, TypeOK, MandatoryResolved, Condition

(* ZM-CON-006: no contract exists over an open mandatory condition, though *)
(* generation checks them in a transaction it does not write in.           *)
THEOREM TermsResolved == Spec => []TermsAreResolved
  <1>1. Init => TermsInv
    <2> SUFFICES ASSUME Init PROVE TermsInv
      OBVIOUS
    <2>1. \A w \in Worker : worker[w].op # "insert"
      BY DEF Init, Idle
    <2> QED  BY <2>1 DEF Init, TermsInv, StoredOnResolvedTerms, TermsAreResolved
  <1>2. TypeOK /\ SigningInv /\ TermsInv /\ [Next]_vars => TermsInv'
    <2> SUFFICES ASSUME TypeOK, SigningInv, TermsInv, [Next]_vars
                 PROVE  TermsInv'
      OBVIOUS
    <2>1. ASSUME NEW w \in Worker, Fulfilment(w)
          PROVE  TermsInv'
      <3>1. CASE Fulfil(w)
        BY <3>1, ResolvedStays, TermsUntouched DEF Fulfil, Idle
      <3>2. CASE FulfilRead(w)
        BY <3>2, TermsUntouched DEF FulfilRead, MandatoryResolved
      <3>3. CASE FulfilCount(w)
        BY <3>3, TermsUntouched DEF FulfilCount, MandatoryResolved
      <3>4. CASE FulfilRefresh(w)
        BY <3>4, TermsUntouched DEF FulfilRefresh, MandatoryResolved
      <3> QED  BY <2>1, <3>1, <3>2, <3>3, <3>4 DEF Fulfilment
    <2>2. ASSUME NEW w \in Worker, Generation(w)
          PROVE  TermsInv'
      <3>1. CASE GenerateRead(w)
        BY <3>1, TermsUntouched DEF GenerateRead, MandatoryResolved
      <3>2. CASE GenerateRefused(w)
        BY <3>2, TermsUntouched DEF GenerateRefused, MandatoryResolved, Idle
      <3>3. CASE StoreDocument(w)
        <4>1. MandatoryResolved' /\ UNCHANGED contract
          BY <3>3 DEF StoreDocument, ConditionsMet, MandatoryResolved
        <4> QED  BY <4>1 DEF TermsInv, StoredOnResolvedTerms, TermsAreResolved, MandatoryResolved
      <3>4. CASE InsertContract(w)
        <4>1. MandatoryResolved'
          BY <3>4 DEF InsertContract, TermsInv, StoredOnResolvedTerms, MandatoryResolved
        <4> QED  BY <4>1 DEF TermsInv, StoredOnResolvedTerms, TermsAreResolved, MandatoryResolved
      <3>5. CASE InsertFails(w)
        BY <3>5, TermsUntouched DEF InsertFails, MandatoryResolved, Idle
      <3> QED  BY <2>2, <3>1, <3>2, <3>3, <3>4, <3>5 DEF Generation
    <2>3. ASSUME NEW w \in Worker, Signing(w)
          PROVE  TermsInv'
      <3>1. CASE SignRead(w)
        BY <3>1, TermsUntouched DEF SignRead, MandatoryResolved
      <3>2. CASE SignCount(w)
        BY <3>2, TermsUntouched DEF SignCount, MandatoryResolved
      <3>3. CASE Sign(w)
        <4>1. UNCHANGED fulfilment /\ Become(w, Idle)
          BY <3>3 DEF Sign
        <4>2. contract.status # "NONE"
          BY <3>3 DEF Sign, SigningInv, SignersHaveContract
        <4> QED  BY <4>1, <4>2, TermsUntouched DEF MandatoryResolved, Idle
      <3> QED  BY <2>3, <3>1, <3>2, <3>3 DEF Signing
    <2>4. ASSUME NEW w \in Worker, Abort(w)
          PROVE  TermsInv'
      BY <2>4, TermsUntouched DEF Abort, MandatoryResolved, Idle
    <2>5. CASE Funding \/ UNCHANGED vars
      <3>1. UNCHANGED <<fulfilment, contract, worker>>
        BY <2>5 DEF Funding, MarkSent, Confirm, vars
      <3> QED  BY <3>1 DEF TermsInv, StoredOnResolvedTerms, TermsAreResolved, MandatoryResolved
    <2> QED  BY <2>1, <2>2, <2>3, <2>4, <2>5 DEF Next
  <1>3. TermsInv => TermsAreResolved
    BY DEF TermsInv
  <1> QED  BY <1>1, <1>2, <1>3, TypeCorrect, SigningInvariant, PTL DEF Spec

(***************************************************************************)
(* The documents.  Every stored document has one owner: the contract, the  *)
(* handler about to insert it, or nobody any more.                         *)
(***************************************************************************)
Attached == IF contract.status = "NONE" THEN {} ELSE {contract.document}

OneOwner ==
  \A w \in Worker : worker[w].op = "insert" =>
    /\ worker[w].document \notin orphaned \cup Attached
    /\ \A v \in Worker \ {w} :
         worker[v].op = "insert" => worker[v].document # worker[w].document

DocumentsInv == DocumentsAccounted /\ OneOwner

LEMMA StoringIs ==
  ASSUME NEW d
  PROVE  d \in Storing <=> \E w \in Worker : worker[w].op = "insert" /\ worker[w].document = d
  BY DEF Storing

(* What neither stores, inserts nor deletes keeps the accounts.            *)
LEMMA DocumentsUntouched ==
  ASSUME TypeOK, DocumentsInv, NEW w \in Worker, NEW request, Become(w, request),
         worker[w].op # "insert", request.op # "insert",
         UNCHANGED <<documents, orphaned>>, Attached' = Attached
  PROVE  DocumentsInv'
  <1>1. \A v \in Worker : worker'[v] = IF v = w THEN request ELSE worker[v]
    BY DEF Become, TypeOK
  <1>2. Storing' = Storing
    BY <1>1 DEF Storing
  <1>3. DocumentsAccounted'
    BY <1>2 DEF DocumentsInv, DocumentsAccounted, Attached
  <1>4. OneOwner'
    BY <1>1 DEF DocumentsInv, OneOwner
  <1> QED  BY <1>3, <1>4 DEF DocumentsInv

(* A handler leaves "insert": its document goes to the contract, to        *)
(* nobody, or away.                                                        *)
LEMMA DocumentHandedOn ==
  ASSUME TypeOK, DocumentsInv, NEW w \in Worker, worker[w].op = "insert", Become(w, Idle),
         LET d == worker[w].document
         IN  \/ documents' = documents \ {d} /\ UNCHANGED orphaned /\ Attached' = Attached
             \/ documents' = documents /\ orphaned' = orphaned \cup {d} /\ Attached' = Attached
             \/ documents' = documents /\ UNCHANGED orphaned /\ Attached = {} /\ Attached' = {d}
  PROVE  DocumentsInv'
  <1> DEFINE d == worker[w].document
  <1>1. worker'[w].op # "insert" /\ \A v \in Worker \ {w} : worker'[v] = worker[v]
    BY DEF Become, TypeOK, Idle
  <1>2. Storing' = Storing \ {d}
    BY <1>1 DEF Storing, DocumentsInv, OneOwner
  <1>3. d \in Storing /\ d \notin orphaned \cup Attached
    BY DEF Storing, DocumentsInv, OneOwner
  <1>4. documents = orphaned \cup Storing \cup Attached
    BY DEF DocumentsInv, DocumentsAccounted, Attached
  <1>5. documents' = orphaned' \cup Storing' \cup Attached'
    BY <1>2, <1>3, <1>4
  <1>6. orphaned' \cup Attached' \subseteq orphaned \cup Attached \cup {d}
    OBVIOUS
  <1>7. OneOwner'
    BY <1>1, <1>6 DEF DocumentsInv, OneOwner
  <1> QED  BY <1>5, <1>7 DEF DocumentsInv, DocumentsAccounted, Attached

LEMMA StoreKeepsAccounts ==
  ASSUME TypeOK, DocumentsInv, NEW w \in Worker, StoreDocument(w)
  PROVE  DocumentsInv'
  <1>1. PICK d \in Document :
          /\ d \notin documents
          /\ documents' = documents \cup {d}
          /\ Become(w, [op |-> "insert", document |-> d])
    BY DEF StoreDocument
  <1>2. worker[w].op # "insert" /\ UNCHANGED <<orphaned, contract>>
    BY DEF StoreDocument
  <1>3. /\ worker'[w].op = "insert" /\ worker'[w].document = d
        /\ \A v \in Worker \ {w} : worker'[v] = worker[v]
    BY <1>1 DEF Become, TypeOK
  <1>4. Storing' = Storing \cup {d}
    BY <1>2, <1>3 DEF Storing
  <1>5. Attached' = Attached
    BY <1>2 DEF Attached
  <1>6. documents = orphaned \cup Storing \cup Attached
    BY DEF DocumentsInv, DocumentsAccounted, Attached
  <1>7. d \notin orphaned \cup Attached
        /\ \A v \in Worker : worker[v].op = "insert" => worker[v].document # d
    BY <1>1, <1>6, StoringIs
  <1>8. OneOwner'
    BY <1>2, <1>3, <1>5, <1>7 DEF DocumentsInv, OneOwner
  <1> QED  BY <1>1, <1>2, <1>4, <1>5, <1>6, <1>8 DEF DocumentsInv, DocumentsAccounted, Attached

(* The contract's document is never deleted, and no other is left behind   *)
(* but by a handler that died or could not delete it.                      *)
THEOREM DocumentsAreAccounted == Spec => []DocumentsAccounted
  <1>1. Init => DocumentsInv
    <2> SUFFICES ASSUME Init PROVE DocumentsInv
      OBVIOUS
    <2>1. \A w \in Worker : worker[w].op # "insert"
      BY DEF Init, Idle
    <2>2. Storing = {}
      BY <2>1 DEF Storing
    <2> QED  BY <2>1, <2>2 DEF Init, DocumentsInv, DocumentsAccounted, OneOwner
  <1>2. TypeOK /\ SigningInv /\ DocumentsInv /\ [Next]_vars => DocumentsInv'
    <2> SUFFICES ASSUME TypeOK, SigningInv, DocumentsInv, [Next]_vars
                 PROVE  DocumentsInv'
      OBVIOUS
    <2>1. ASSUME NEW w \in Worker, Fulfilment(w)
          PROVE  DocumentsInv'
      <3>1. UNCHANGED <<documents, orphaned>> /\ Attached' = Attached
        BY <2>1 DEF Fulfilment, FulfilRead, FulfilCount, FulfilRefresh, Fulfil, Attached
      <3>2. CASE FulfilRead(w)
        BY <3>1, <3>2, DocumentsUntouched DEF FulfilRead, Idle
      <3>3. CASE FulfilCount(w)
        BY <3>1, <3>3, DocumentsUntouched DEF FulfilCount
      <3>4. CASE FulfilRefresh(w)
        BY <3>1, <3>4, DocumentsUntouched DEF FulfilRefresh
      <3>5. CASE Fulfil(w)
        BY <3>1, <3>5, DocumentsUntouched DEF Fulfil, Idle
      <3> QED  BY <2>1, <3>2, <3>3, <3>4, <3>5 DEF Fulfilment
    <2>2. ASSUME NEW w \in Worker, Generation(w)
          PROVE  DocumentsInv'
      <3>1. CASE GenerateRead(w)
        BY <3>1, DocumentsUntouched DEF GenerateRead, Attached, Idle
      <3>2. CASE GenerateRefused(w)
        BY <3>2, DocumentsUntouched DEF GenerateRefused, Attached, Idle
      <3>3. CASE StoreDocument(w)
        BY <3>3, StoreKeepsAccounts
      <3>4. CASE InsertContract(w)
        <4>1. Attached = {} /\ Attached' = {worker[w].document}
          BY <3>4 DEF InsertContract, Attached
        <4> QED  BY <3>4, <4>1, DocumentHandedOn DEF InsertContract
      <3>5. CASE InsertFails(w)
        BY <3>5, DocumentHandedOn DEF InsertFails, Discarded, Attached
      <3> QED  BY <2>2, <3>1, <3>2, <3>3, <3>4, <3>5 DEF Generation
    <2>3. ASSUME NEW w \in Worker, Signing(w)
          PROVE  DocumentsInv'
      <3>1. CASE SignRead(w)
        BY <3>1, DocumentsUntouched DEF SignRead, Attached, Idle
      <3>2. CASE SignCount(w)
        BY <3>2, DocumentsUntouched DEF SignCount, Attached
      <3>3. CASE Sign(w)
        <4>1. contract.status # "NONE"
          BY <3>3 DEF Sign, SigningInv, SignersHaveContract
        <4>2. contract'.status # "NONE" /\ contract'.document = contract.document
          BY <3>3, <4>1 DEF Sign, TypeOK
        <4>3. Attached' = Attached
          BY <4>1, <4>2 DEF Attached
        <4> QED  BY <3>3, <4>3, DocumentsUntouched DEF Sign, Idle
      <3> QED  BY <2>3, <3>1, <3>2, <3>3 DEF Signing
    <2>4. ASSUME NEW w \in Worker, Abort(w)
          PROVE  DocumentsInv'
      <3>1. Attached' = Attached /\ UNCHANGED documents /\ Become(w, Idle)
        BY <2>4 DEF Abort, Attached
      <3>2. CASE worker[w].op = "insert"
        BY <2>4, <3>1, <3>2, DocumentHandedOn DEF Abort, Stored
      <3>3. CASE worker[w].op # "insert"
        <4>1. UNCHANGED orphaned
          BY <2>4, <3>3 DEF Abort, Stored
        <4> QED  BY <3>1, <3>3, <4>1, DocumentsUntouched DEF Idle
      <3> QED  BY <3>2, <3>3
    <2>5. CASE Funding \/ UNCHANGED vars
      <3>1. UNCHANGED <<documents, orphaned, contract, worker>>
        BY <2>5 DEF Funding, MarkSent, Confirm, vars
      <3>2. UNCHANGED <<Storing, Attached>>
        BY <3>1 DEF Storing, Attached
      <3> QED  BY <3>1, <3>2 DEF DocumentsInv, DocumentsAccounted, OneOwner, Attached
    <2> QED  BY <2>1, <2>2, <2>3, <2>4, <2>5 DEF Next
  <1>3. DocumentsInv => DocumentsAccounted
    BY DEF DocumentsInv
  <1> QED  BY <1>1, <1>2, <1>3, TypeCorrect, SigningInvariant, PTL DEF Spec
=============================================================================
