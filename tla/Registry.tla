-------------------------------- MODULE Registry --------------------------------
(***************************************************************************)
(* What the platform holds of one field of an organization: what its       *)
(* supplier declared, what the government registry answered to each        *)
(* lookup, which of it is superseded, and who reads it how.                *)
(*                                                                         *)
(* A lookup is asked outside any transaction and recorded in one, which    *)
(* supersedes the rows its UPDATE sees and inserts its own.  Overlapping   *)
(* transactions do not see one another's rows, and the second of two that  *)
(* supersede the same row finds it superseded.                             *)
(***************************************************************************)
EXTENDS Naturals, Sequences, FiniteSets

CONSTANTS
  Handler,     \* bound: lookups under way at once
  Value,       \* what the field may hold
  MaxEntry,    \* bound: rows
  LastMoment   \* bound: the clock

VARIABLES
  entry,       \* entity_field_values of the field, as inserted
  registry,    \* what the registry holds
  handler,     \* what each lookup does next
  moment,      \* the TimeProvider's now
  collided     \* history: two answers were stamped with one instant

vars == <<entry, registry, handler, moment, collided>>

Idle == [step |-> "idle"]
Goto(h, s) == handler' = [handler EXCEPT ![h] = s]

Row(kind, value, at) ==
  [kind |-> kind, value |-> value, at |-> at, live |-> TRUE, recorded |-> moment]

(* A field the supplier was asked for at registration, or one that only    *)
(* the registry supplies.                                                  *)
Init ==
  /\ moment = 0
  /\ entry \in {<<>>} \cup {<<Row("SELF_DECLARED", v, 0)>> : v \in Value}
  /\ registry \in Value
  /\ handler = [h \in Handler |-> Idle]
  /\ collided = FALSE

Change ==
  /\ \E v \in Value \ {registry} : registry' = v
  /\ UNCHANGED <<entry, handler, moment, collided>>

Tick ==
  /\ moment < LastMoment
  /\ moment' = moment + 1
  /\ UNCHANGED <<entry, registry, handler, collided>>

(* Mutant of Supplied: what has no value is recorded as an empty one.      *)
SuppliedAlways(result) == TRUE

(* Only an answer that has the field is recorded under it: an outage, a    *)
(* NOT_FOUND and a partial answer without it leave everything as it was.   *)
Supplied(result) == result \in Value

Look(h) ==
  /\ handler[h] = Idle
  /\ \E result \in {registry, "NOTHING"} :
       Supplied(result) /\ Goto(h, [step |-> "supersede", value |-> result, at |-> moment])
  /\ UNCHANGED <<entry, registry, moment, collided>>

Live(kind) == {i \in DOMAIN entry : entry[i].live /\ entry[i].kind = kind}

(* The UPDATE's snapshot of the rows in force.                             *)
Supersede(h) ==
  /\ handler[h].step = "supersede"
  /\ Goto(h, [step |-> "insert", value |-> handler[h].value, at |-> handler[h].at,
              seen |-> Live("GOVERNMENT")])
  /\ UNCHANGED <<entry, registry, moment, collided>>

Superseded(seen) ==
  [i \in DOMAIN entry |-> [entry[i] EXCEPT !.live = @ /\ i \notin seen]]

(* UNIQUE (..., source_kind, retrieved_at), ON CONFLICT DO NOTHING         *)
Conflicts(at) == \E i \in DOMAIN entry : entry[i].kind = "GOVERNMENT" /\ entry[i].at = at

(* The INSERT and the commit.                                              *)
Insert(h) ==
  /\ handler[h].step = "insert"
  /\ Len(entry) < MaxEntry
  /\ LET left == Superseded(handler[h].seen) IN
       entry' = IF Conflicts(handler[h].at) THEN left
                ELSE Append(left, Row("GOVERNMENT", handler[h].value, handler[h].at))
  /\ collided' = (collided \/ Conflicts(handler[h].at))
  /\ Goto(h, Idle)
  /\ UNCHANGED <<registry, moment>>

(* A lookup dies or its transaction fails, and leaves nothing.             *)
Fail(h) ==
  /\ handler[h] # Idle
  /\ Goto(h, Idle)
  /\ UNCHANGED <<entry, registry, moment, collided>>

Next ==
  \/ Change \/ Tick
  \/ \E h \in Handler : Look(h) \/ Supersede(h) \/ Insert(h) \/ Fail(h)

Spec == Init /\ [][Next]_vars
-----------------------------------------------------------------------------
(* effectiveFields: the government's before the supplier's, then the       *)
(* newest retrieved.                                                       *)
Newest(rows) == {i \in rows : \A j \in rows : entry[j].at <= entry[i].at}

Effective ==
  IF Live("GOVERNMENT") # {} THEN Newest(Live("GOVERNMENT")) ELSE Newest(Live("SELF_DECLARED"))

(* gatherFacts of the risk service: a map over every row of the field, in  *)
(* no order, of which the last stays.                                      *)
Scored == DOMAIN entry

(* ZM-SON-004, ZM-GOV-008: once the registry supplied the field, what is   *)
(* in force is one value of the registry's, and no lookup answered after   *)
(* it had been recorded says otherwise.  Outages, blanks, overlapping      *)
(* lookups and failed ones never blank the field or hand it back to the    *)
(* supplier; only two answers stamped with the same instant do.            *)
RegistryPrevails ==
  LET answers == {i \in DOMAIN entry : entry[i].kind = "GOVERNMENT"} IN
  answers # {} /\ ~collided =>
    /\ Cardinality(Effective) = 1
    /\ \A i \in Effective :
         /\ entry[i].kind = "GOVERNMENT" /\ entry[i].value \in Value
         /\ \A j \in answers : entry[j].at <= entry[i].recorded

(* government.service.ts:224-225: the government answer in force is the    *)
(* one the platform acts on, in the risk score too.                        *)
GovernmentIsActedOn ==
  Live("GOVERNMENT") # {} /\ ~collided =>
    \A i \in Scored, j \in Effective :
      entry[1].kind = "GOVERNMENT" => entry[i].value = entry[j].value
=============================================================================
