--------------------------- MODULE CallAccounting ---------------------------
(***************************************************************************)
(* The retry registry and the accounting ledger of agent_probe/llm/calls.py*)
(* with the prices of pricing.py.  The application declares retries and    *)
(* logical names whenever it likes, before or after the requests they are  *)
(* about are recorded; finished calls are delivered to the ledger at least *)
(* once, possibly again with more or less of the response captured; a      *)
(* retry relation that forms a cycle makes the delivery raise.             *)
(*                                                                         *)
(* Data abstraction.  Physical request ids are 1..Calls, their order being *)
(* the order of the names; a call's response is what its bodies report     *)
(* (see UsagePricing) or no response at all; retry reasons and evidence,   *)
(* which link_retry only requires to be given, are left out, and so are    *)
(* the ids it refuses (empty, or a retry of itself).                       *)
(***************************************************************************)
EXTENDS Integers, Sequences, FiniteSets, SequencesExt

CONSTANTS
  Calls,        (* number of physical requests                             *)
  Name,         (* logical names declare_logical_call may give             *)
  Answers,      (* what call c may be delivered with: [response, containers,*)
                (* truncated, unparseable, model]                          *)
  Batches,      (* sequences of call ids the caller passes to extend       *)
  Null, Prices,
  MaxDeclared,  (* bound: declarations and links                           *)
  MaxDelivered  (* bound: deliveries begun                                 *)

Call == 1..Calls

ASSUME CallsAssumption ==
  /\ Calls \in Nat \ {0}
  /\ Batches \subseteq Seq(Call)
  /\ MaxDeclared \in Nat /\ MaxDelivered \in Nat
  /\ Null \notin Call \cup Name

VARIABLES
  links,       (* _links: the call each call retries, or Null              *)
  logical,     (* _logical: declared name of each call, or Null            *)
  records,     (* _records: [call, identity, answer, cost]                 *)
  seen,        (* _seen                                                    *)
  duplicates,  (* _duplicates                                              *)
  todo,        (* the rest of the batch extend is recording                *)
  raised,      (* history: calls whose delivery raised RetryCycleError     *)
  delivered,   (* history: deliveries begun                                *)
  declared,    (* history: declarations and links                          *)
  settled      (* history: records made before the registry last changed   *)

vars == <<links, logical, records, seen, duplicates, todo, raised, delivered,
          declared, settled>>

registry == <<links, logical, declared, settled>>
ledger == <<records, seen, duplicates, todo, raised, delivered>>

U == INSTANCE UsagePricing

(* What providers report and charge: no token count and no price is        *)
(* negative, and a price table prices input and output of its models.      *)
ASSUME AnswersAssumption ==
  \A c \in Call : \A a \in Answers[c] :
    /\ a.response \in BOOLEAN
    /\ a.containers \in Seq({a.containers[i] : i \in DOMAIN a.containers})
    /\ \A i \in DOMAIN a.containers : U!IsContainer(a.containers[i])

ASSUME PricesAssumption ==
  /\ Null \notin DOMAIN Prices \cup Nat \cup {"cached_tokens", "cache_creation_tokens"}
  /\ \A m \in DOMAIN Prices :
       /\ Prices[m].input \in Nat /\ Prices[m].output \in Nat
       /\ U!IsCount(Prices[m].cache_read) /\ U!IsCount(Prices[m].cache_write)

-----------------------------------------------------------------------------
(* RetryRegistry                                                           *)

(* The k-th ancestor of p, Null past the root: chain(p) walked upwards.    *)
Ancestor(p) ==
  LET up[k \in 0..Calls] ==
        IF k = 0 THEN p
        ELSE LET q == up[k-1] IN IF q = Null THEN Null ELSE links[q]
  IN  up

(* A walk of Calls steps that has not met the root has met a call twice.   *)
InCycle(p) == Ancestor(p)[Calls] # Null

Depth(p) == Max({k \in 0..Calls : Ancestor(p)[k] # Null})
Root(p) == Ancestor(p)[Depth(p)]

(* The calls that retry q, in the order of their names.                    *)
Children(q) ==
  CHOOSE s \in SetToSeqs({c \in Call : links[c] = q}) :
    \A i, j \in DOMAIN s : i < j => s[i] < s[j]

ComponentOfRoot(p) ==                        \* broken: retries of a retry left out
  <<Root(p)>> \o Children(Root(p))

(* component(p): breadth first from the root, one level after the other.   *)
Component(p) ==
  LET level[k \in 0..Calls] ==
        IF k = 0 THEN <<Root(p)>>
        ELSE LET above == level[k-1]
             IN  FlattenSeq([i \in DOMAIN above |-> Children(above[i])])
  IN  FlattenSeq([k \in 1..(Calls + 1) |-> level[k-1]])

LogicalIdOnChain(p) ==                       \* broken: names of other branches ignored
  LET named == {k \in 0..Depth(p) : logical[Ancestor(p)[k]] # Null}
  IN  IF named = {} THEN Root(p) ELSE logical[Ancestor(p)[Max(named)]]

LogicalId(p) ==
  LET family == Component(p)
      named == {i \in DOMAIN family : logical[family[i]] # Null}
  IN  IF named = {} THEN Root(p) ELSE logical[family[Min(named)]]

Resolve(p) ==
  [logicalCall |-> LogicalId(p), attempt |-> Depth(p) + 1, retryOf |-> links[p]]

-----------------------------------------------------------------------------
(* AccountingLedger                                                        *)

(* analyze_payload and estimate_cost as _build_record runs them: a call    *)
(* without a response has neither usage nor cost.                          *)
Status(a) ==
  IF a.response THEN U!UsageStatus(a.containers, a.truncated, a.unparseable) ELSE Null

Usage(a) == U!BuildUsage(U!Merged(a.containers))

CostOrFree(a) ==                             \* broken: no response costs nothing
  IF a.response THEN U!EstimateCost(Usage(a), Status(a), a.model)
  ELSE [total |-> 0, complete |-> TRUE, components |-> <<>>, reasons |-> {}]

Cost(a) == IF a.response THEN U!EstimateCost(Usage(a), Status(a), a.model) ELSE Null

Priced(r) == r.cost # Null /\ r.cost.complete

PricedSum(S) == SumFunctionOnSet([i \in S |-> records[i].cost.total], S)

Summary ==
  LET priced == {i \in DOMAIN records : Priced(records[i])}
      models == {records[i].answer.model : i \in DOMAIN records} \ {Null}
      of(m) == {i \in DOMAIN records : records[i].answer.model = m}
  IN  [physicalRequests |-> Len(records),
       logicalCalls |-> Cardinality({records[i].identity.logicalCall : i \in DOMAIN records}),
       retried |-> Cardinality({i \in DOMAIN records : records[i].identity.retryOf # Null}),
       estimatedCost |-> IF priced = {} THEN Null ELSE PricedSum(priced),
       unpriced |-> Len(records) - Cardinality(priced),
       costComplete |-> records # <<>> /\ priced = DOMAIN records,
       byModel |-> [m \in models |->
                      [requests |-> Cardinality(of(m)),
                       cost |-> IF of(m) \cap priced = {} THEN Null
                                ELSE PricedSum(of(m) \cap priced)]]]

-----------------------------------------------------------------------------
(* Actions.  Registry and ledger belong to one thread: no declaration      *)
(* falls between two calls of one batch.                                   *)
Declare(p, n) ==
  /\ todo = <<>> /\ declared < MaxDeclared
  /\ logical' = [logical EXCEPT ![p] = n]
  /\ declared' = declared + 1
  /\ settled' = Len(records)
  /\ UNCHANGED <<links, ledger>>

LinkRetry(p, q) ==
  /\ todo = <<>> /\ declared < MaxDeclared
  /\ p # q
  /\ links' = [links EXCEPT ![p] = q]
  /\ declared' = declared + 1
  /\ settled' = Len(records)
  /\ UNCHANGED <<logical, ledger>>

Extend(batch) ==
  /\ todo = <<>> /\ delivered + Len(batch) <= MaxDelivered
  /\ todo' = batch
  /\ delivered' = delivered + Len(batch)
  /\ UNCHANGED <<registry, records, seen, duplicates, raised>>

(* record(call), the head of the batch, in its three outcomes.             *)
RecordLatest ==                              \* broken: a redelivery replaces the record
  /\ todo # <<>> /\ Head(todo) \in seen
  /\ duplicates' = duplicates + 1
  /\ \E a \in Answers[Head(todo)] :
       records' = [i \in DOMAIN records |->
                     IF records[i].call = Head(todo)
                     THEN [records[i] EXCEPT !.answer = a, !.cost = Cost(a)]
                     ELSE records[i]]
  /\ todo' = Tail(todo)
  /\ UNCHANGED <<registry, seen, raised, delivered>>

RecordDuplicate ==
  /\ todo # <<>> /\ Head(todo) \in seen
  /\ duplicates' = duplicates + 1
  /\ todo' = Tail(todo)
  /\ UNCHANGED <<registry, records, seen, raised, delivered>>

RecordNewForgetting ==                       \* broken: not marked as seen
  /\ todo # <<>> /\ Head(todo) \notin seen /\ ~InCycle(Head(todo))
  /\ \E a \in Answers[Head(todo)] :
       records' = Append(records, [call |-> Head(todo), identity |-> Resolve(Head(todo)),
                                   answer |-> a, cost |-> Cost(a)])
  /\ todo' = Tail(todo)
  /\ UNCHANGED <<registry, seen, duplicates, raised, delivered>>

RecordNew ==
  /\ todo # <<>> /\ Head(todo) \notin seen /\ ~InCycle(Head(todo))
  /\ seen' = seen \cup {Head(todo)}
  /\ \E a \in Answers[Head(todo)] :
       records' = Append(records, [call |-> Head(todo), identity |-> Resolve(Head(todo)),
                                   answer |-> a, cost |-> Cost(a)])
  /\ todo' = Tail(todo)
  /\ UNCHANGED <<registry, duplicates, raised, delivered>>

(* resolve raises after _seen.add, and takes the rest of the batch along.  *)
RecordRaises ==
  /\ todo # <<>> /\ Head(todo) \notin seen /\ InCycle(Head(todo))
  /\ seen' = seen \cup {Head(todo)}
  /\ raised' = raised \cup {Head(todo)}
  /\ todo' = <<>>
  /\ UNCHANGED <<registry, records, duplicates, delivered>>

Init ==
  /\ links = [p \in Call |-> Null]
  /\ logical = [p \in Call |-> Null]
  /\ records = <<>>
  /\ seen = {} /\ duplicates = 0
  /\ todo = <<>>
  /\ raised = {} /\ delivered = 0
  /\ declared = 0 /\ settled = 0

Next ==
  \/ \E p \in Call, n \in Name : Declare(p, n)
  \/ \E p, q \in Call : LinkRetry(p, q)
  \/ \E batch \in Batches : Extend(batch)
  \/ RecordDuplicate
  \/ RecordNew
  \/ RecordRaises

Spec == Init /\ [][Next]_vars

-----------------------------------------------------------------------------
(* Properties                                                              *)

(* The types of the state.                                                 *)
TypeOK ==
  /\ links \in [Call -> Call \cup {Null}]
  /\ logical \in [Call -> Name \cup {Null}]
  /\ seen \subseteq Call /\ raised \subseteq Call
  /\ duplicates \in Nat /\ declared \in Nat /\ delivered \in Nat
  /\ settled \in 0..Len(records)
  /\ todo \in Seq(Call)
  /\ \A i \in DOMAIN records : records[i].call \in Call

(* At least once in, exactly once in the books: each physical request has  *)
(* at most one record, however often and however incompletely it is        *)
(* delivered, and a request the ledger has seen lacks one only if its      *)
(* delivery raised.  record answers a redelivery as a duplicate from then  *)
(* on, so what raised is not recorded later either.                        *)
OneRecordPerCall ==
  /\ \A i, j \in DOMAIN records : records[i].call = records[j].call => i = j
  /\ {records[i].call : i \in DOMAIN records} = seen \ raised

(* The family a retry belongs to, by definition: the classes of the links  *)
(* read as an undirected relation.                                         *)
Linked(p, q) == links[p] = q \/ links[q] = p

Family(p) ==
  LET reach[k \in 0..Calls] ==
        IF k = 0 THEN {p}
        ELSE LET S == reach[k-1] IN S \cup {q \in Call : \E r \in S : Linked(q, r)}
  IN  reach[Calls]

(* A family is circular if some part of it retries only itself.            *)
Circular(p) ==
  \E S \in SUBSET Family(p) : S # {} /\ \A q \in S : links[q] \in S

(* chain raises for a call exactly when its family is circular, for every  *)
(* call of the family alike, and otherwise component visits each call of   *)
(* the family exactly once, the root first: no retry, on whichever branch, *)
(* escapes the family's name or is met twice.                              *)
ComponentIsFamily ==
  \A p \in Call :
    /\ InCycle(p) <=> Circular(p)
    /\ ~InCycle(p) =>
         /\ ToSet(Component(p)) = Family(p)
         /\ Len(Component(p)) = Cardinality(Family(p))
         /\ links[Component(p)[1]] = Null

(* Records made since the registry last changed agree on the logical call: *)
(* two retries of one family are one call, two families two calls unless   *)
(* the application gave them one name.  The identity is frozen when the    *)
(* record is made, so a later declaration does split a call.               *)
FamiliesAreCalls ==
  \A i, j \in (settled + 1)..Len(records) :
    LET p == records[i].call
        q == records[j].call
        nameOf(r) == records[r].identity.logicalCall
    IN  IF q \in Family(p) THEN nameOf(i) = nameOf(j)
        ELSE nameOf(i) = nameOf(j) =>
               \E r \in Family(p) \cup Family(q) : logical[r] # Null

(* A call and its retries are one logical call, found whole from any of    *)
(* them (component) and named alike in every record (logical_call_id).     *)
RetriesAreOneCall == ComponentIsFamily /\ FamiliesAreCalls

(* No token is billed twice: the tokens of a complete estimate are those   *)
(* the call consumed, cached ones the provider counts in the input once.   *)
(* (A count of written cache that is part of the input is billed with the  *)
(* input and again on its own; the antecedent leaves that form out.)       *)
Count(n) == IF n = Null THEN 0 ELSE n

Consumed(usage) ==
  LET read == Count(usage.read.tokens)
      write == Count(usage.write.tokens)
      input == Count(usage.input)
  IN  Count(usage.output) + write
        + (IF usage.read.included # TRUE THEN input + read
           ELSE IF read > input THEN read ELSE input)

TokensBilledOnce ==
  \A i \in DOMAIN records :
    Priced(records[i]) /\ Usage(records[i].answer).write.included # TRUE =>
      LET billed == records[i].cost.components
      IN  SumFunction(billed) = Consumed(Usage(records[i].answer))

(* The totals add up: every priced record is in exactly one model's        *)
(* subtotal, unknown cost is never zero, and a total called complete       *)
(* leaves no record of the run out.                                        *)
ModelsAddUp ==
  LET s == Summary
      priced == {m \in DOMAIN s.byModel : s.byModel[m].cost # Null}
  IN  /\ s.estimatedCost = Null <=> priced = {}
      /\ priced # {} =>
           s.estimatedCost = SumFunctionOnSet([m \in priced |-> s.byModel[m].cost], priced)
      /\ s.costComplete =>
           \A i \in DOMAIN records : records[i].answer.response /\ Status(records[i].answer) = "present"

(* The bill is honest about every call and about their sum: nothing billed *)
(* twice, nothing unknown taken for nothing, no total complete that is not.*)
BillIsHonest == TokensBilledOnce /\ ModelsAddUp

(* A reported total is a lower bound that later deliveries only raise, and *)
(* once some request is unpriced no redelivery makes the total complete.   *)
TotalsOnlyGrow ==
  [][/\ Summary.estimatedCost # Null =>
          Summary'.estimatedCost # Null /\ Summary'.estimatedCost >= Summary.estimatedCost
     /\ Summary.unpriced > 0 => ~Summary'.costComplete]_vars
=============================================================================
