------------------------ MODULE CallAccountingProofs ------------------------
(***************************************************************************)
(* Proofs about CallAccounting, for any number of requests and any names,  *)
(* answers, batches and prices: every physical request has at most one     *)
(* record, a complete estimate bills what the call consumed, the models'   *)
(* subtotals are the total, totals only grow, and a call and its retries   *)
(* are one logical call.                                                   *)
(***************************************************************************)
EXTENDS CallAccounting, FiniteSetTheorems, SequenceTheorems, WellFoundedInduction,
        NaturalsInduction, TLAPS

(* records is a sequence, of whatever was recorded.                        *)
IsLog == \E S : records \in Seq(S)

Inv == IsLog /\ TypeOK /\ raised \subseteq seen /\ OneRecordPerCall

-----------------------------------------------------------------------------
(* A record appended to the books: the old ones stay where they are.       *)
LEMMA Appended ==
  ASSUME NEW S, NEW s \in Seq(S), NEW e
  PROVE  /\ Append(s, e) \in Seq(S \cup {e})
         /\ Len(Append(s, e)) = Len(s) + 1
         /\ DOMAIN s = 1..Len(s)
         /\ DOMAIN Append(s, e) = 1..(Len(s) + 1)
         /\ \A i \in 1..Len(s) : Append(s, e)[i] = s[i]
         /\ Append(s, e)[Len(s) + 1] = e
         /\ Len(s) \in Nat
<1>1. s \in Seq(S \cup {e})
  OBVIOUS
<1>2. QED
  BY <1>1

LEMMA InitInv == Init => Inv
<1> SUFFICES ASSUME Init PROVE Inv
  OBVIOUS
<1>1. records = <<>> /\ records \in Seq({})
  BY DEF Init
<1>2. DOMAIN records = {} /\ Len(records) = 0
  BY <1>1
<1>3. QED
  BY <1>1, <1>2, CallsAssumption DEF Init, Inv, IsLog, TypeOK, OneRecordPerCall

-----------------------------------------------------------------------------
(* One lemma per action.                                                   *)
LEMMA DeclareInv ==
  ASSUME Inv, NEW p \in Call, NEW n \in Name, Declare(p, n)
  PROVE  Inv'
<1>1. IsLog' /\ Len(records) \in Nat
  BY DEF Inv, IsLog, Declare, ledger
<1>2. TypeOK'
  BY <1>1 DEF Inv, TypeOK, Declare, ledger
<1>3. QED
  BY <1>1, <1>2 DEF Inv, OneRecordPerCall, Declare, ledger

LEMMA LinkRetryInv ==
  ASSUME Inv, NEW p \in Call, NEW q \in Call, LinkRetry(p, q)
  PROVE  Inv'
<1>1. IsLog' /\ Len(records) \in Nat
  BY DEF Inv, IsLog, LinkRetry, ledger
<1>2. TypeOK'
  BY <1>1 DEF Inv, TypeOK, LinkRetry, ledger
<1>3. QED
  BY <1>1, <1>2 DEF Inv, OneRecordPerCall, LinkRetry, ledger

LEMMA ExtendInv ==
  ASSUME Inv, NEW batch \in Batches, Extend(batch)
  PROVE  Inv'
<1>1. batch \in Seq(Call) /\ Len(batch) \in Nat
  BY CallsAssumption
<1>2. TypeOK'
  BY <1>1 DEF Inv, TypeOK, Extend, registry
<1>3. QED
  BY <1>2 DEF Inv, IsLog, OneRecordPerCall, Extend, registry

LEMMA RecordDuplicateInv ==
  ASSUME Inv, RecordDuplicate
  PROVE  Inv'
<1>1. Tail(todo) \in Seq(Call)
  BY DEF Inv, TypeOK, RecordDuplicate
<1>2. TypeOK'
  BY <1>1 DEF Inv, TypeOK, RecordDuplicate, registry
<1>3. QED
  BY <1>2 DEF Inv, IsLog, OneRecordPerCall, RecordDuplicate, registry

(* The call is new, so no record has it yet.                               *)
LEMMA RecordNewInv ==
  ASSUME Inv, RecordNew
  PROVE  Inv'
<1> DEFINE c == Head(todo)
<1>1. PICK a \in Answers[c] :
        records' = Append(records, [call |-> c, identity |-> Resolve(c),
                                    answer |-> a, cost |-> Cost(a)])
  BY DEF RecordNew
<1> DEFINE e == [call |-> c, identity |-> Resolve(c), answer |-> a, cost |-> Cost(a)]
<1>2. c \in Call /\ Tail(todo) \in Seq(Call) /\ e.call = c
  BY DEF Inv, TypeOK, RecordNew
<1>3. PICK S : records \in Seq(S)
  BY DEF Inv, IsLog
<1> HIDE DEF e, c
<1>4. /\ records' \in Seq(S \cup {e})
      /\ Len(records') = Len(records) + 1
      /\ DOMAIN records = 1..Len(records)
      /\ DOMAIN records' = 1..(Len(records) + 1)
      /\ \A i \in 1..Len(records) : records'[i] = records[i]
      /\ records'[Len(records) + 1] = e
      /\ Len(records) \in Nat
  BY <1>1, <1>3, Appended DEF e
<1>5. IsLog'
  BY <1>4 DEF IsLog
<1>6. TypeOK'
  <2>1. /\ seen' \subseteq Call /\ raised' \subseteq Call
        /\ todo' \in Seq(Call) /\ settled' \in 0..Len(records')
    BY <1>2, <1>4 DEF Inv, TypeOK, RecordNew, registry, c
  <2>2. \A i \in DOMAIN records' : records'[i].call \in Call
    BY <1>2, <1>4 DEF Inv, TypeOK
  <2>3. QED
    BY <2>1, <2>2 DEF Inv, TypeOK, RecordNew, registry
<1>7. OneRecordPerCall'
  <2>1. \A i \in 1..Len(records) : records[i].call # c
    <3>1. c \notin seen
      BY DEF RecordNew, c
    <3>2. QED
      BY <1>4, <3>1 DEF Inv, OneRecordPerCall
  <2>2. ASSUME NEW i \in DOMAIN records', NEW j \in DOMAIN records',
               records'[i].call = records'[j].call
        PROVE  i = j
    BY <1>2, <1>4, <2>1, <2>2 DEF Inv, OneRecordPerCall
  <2>3. {records'[i].call : i \in DOMAIN records'} = seen' \ raised'
    <3>1. seen' = seen \cup {c} /\ raised' = raised /\ c \notin raised
      BY DEF RecordNew, c, Inv, TypeOK, OneRecordPerCall
    <3>2. {records'[i].call : i \in DOMAIN records'}
            = {records[i].call : i \in DOMAIN records} \cup {c}
      BY <1>2, <1>4
    <3>3. QED
      BY <3>1, <3>2 DEF Inv, OneRecordPerCall
  <2>4. QED
    BY <2>2, <2>3 DEF OneRecordPerCall
<1>8. raised' \subseteq seen'
  BY DEF Inv, RecordNew
<1>9. QED
  BY <1>5, <1>6, <1>7, <1>8 DEF Inv

(* The call is marked as seen and as raised at once: the books still lack  *)
(* exactly what raised.                                                    *)
LEMMA RecordRaisesInv ==
  ASSUME Inv, RecordRaises
  PROVE  Inv'
<1>1. Head(todo) \in Call /\ <<>> \in Seq(Call)
  BY DEF Inv, TypeOK, RecordRaises
<1>2. TypeOK' /\ IsLog' /\ raised' \subseteq seen'
  BY <1>1 DEF Inv, TypeOK, IsLog, RecordRaises, registry
<1>3. seen' \ raised' = seen \ raised
  BY DEF RecordRaises, Inv
<1>4. OneRecordPerCall'
  BY <1>3 DEF Inv, OneRecordPerCall, RecordRaises
<1>5. QED
  BY <1>2, <1>4 DEF Inv

LEMMA NextInv == Inv /\ [Next]_vars => Inv'
<1> SUFFICES ASSUME Inv, [Next]_vars PROVE Inv'
  OBVIOUS
<1>1. CASE \E p \in Call, n \in Name : Declare(p, n)
  BY <1>1, DeclareInv
<1>2. CASE \E p, q \in Call : LinkRetry(p, q)
  BY <1>2, LinkRetryInv
<1>3. CASE \E batch \in Batches : Extend(batch)
  BY <1>3, ExtendInv
<1>4. CASE RecordDuplicate
  BY <1>4, RecordDuplicateInv
<1>5. CASE RecordNew
  BY <1>5, RecordNewInv
<1>6. CASE RecordRaises
  BY <1>6, RecordRaisesInv
<1>7. CASE UNCHANGED vars
  BY <1>7 DEF vars, Inv, IsLog, TypeOK, OneRecordPerCall
<1>8. QED
  BY <1>1, <1>2, <1>3, <1>4, <1>5, <1>6, <1>7 DEF Next

LEMMA Invariance == Spec => []Inv
  BY InitInv, NextInv, PTL DEF Spec

-----------------------------------------------------------------------------
(* The state of the registry and of the ledger keeps its types             *)
(* (calls.py:101-106 and 409-416), for every constant.                     *)
THEOREM AccountingTypeCorrect == Spec => []TypeOK
<1>1. Inv => TypeOK
  BY DEF Inv
<1>2. QED
  BY Invariance, <1>1, PTL

(* AccountingLedger.record (calls.py:430-438) counts each physical request *)
(* at most once, whatever is redelivered in whatever batches, and misses   *)
(* only those whose resolve raised.                                        *)
THEOREM CountedOnce == Spec => []OneRecordPerCall
<1>1. Inv => OneRecordPerCall
  BY DEF Inv
<1>2. QED
  BY Invariance, <1>1, PTL

-----------------------------------------------------------------------------
(* Natural numbers and sums.                                                *)
LEMMA Least ==
  ASSUME NEW S \in SUBSET Nat, S # {}
  PROVE  \E x \in S : \A y \in S : x <= y
<1> DEFINE R == OpToRel(<, Nat)
<1>1. IsWellFoundedOn(R, Nat)
  BY NatLessThanWellFounded
<1> HIDE DEF R
<1>2. PICK x \in S : \A y \in S : <<y, x>> \notin R
  BY <1>1, WFMin
<1>3. \A y \in S : ~(y < x)
  BY <1>2 DEF R, OpToRel
<1> QED
  BY <1>3

LEMMA Induction ==
  ASSUME NEW T, 0 \in T, \A n \in Nat : n \in T => n + 1 \in T
  PROVE  \A n \in Nat : n \in T
<1> SUFFICES ASSUME Nat \ T # {} PROVE FALSE
  OBVIOUS
<1>1. PICK m \in Nat \ T : \A y \in Nat \ T : m <= y
  BY Least
<1>2. m # 0 /\ m - 1 \in Nat
  OBVIOUS
<1>3. m - 1 \in T
  BY <1>1, <1>2
<1> QED
  BY <1>2, <1>3

(* The sum of f over a set, as the fold of the community modules defines it:*)
(* the function g gives the sum for every subset.                           *)
Chosen(T) == CHOOSE x \in T : TRUE
Unfolds(g, f, S) ==
    g = [T \in SUBSET S |-> IF T = {} THEN 0
                            ELSE f[Chosen(T)] + g[T \ {Chosen(T)}]]

LEMMA SumIsChosen ==
  ASSUME NEW f, NEW S
  PROVE  SumFunctionOnSet(f, S) = (CHOOSE g : Unfolds(g, f, S))[S]
BY DEF SumFunctionOnSet, FoldFunctionOnSet, MapThenFoldSet, Unfolds, Chosen

LEMMA UnfoldsAt ==
  ASSUME NEW f, NEW S, NEW g, Unfolds(g, f, S), NEW T \in SUBSET S
  PROVE  g[T] = IF T = {} THEN 0 ELSE f[Chosen(T)] + g[T \ {Chosen(T)}]
BY DEF Unfolds

LEMMA UnfoldsOnce ==
  ASSUME NEW f, NEW S, NEW R, IsFiniteSet(S), NEW g, NEW h,
         Unfolds(g, f, S), Unfolds(h, f, R), S \subseteq R
  PROVE  g[S] = h[S]
<1> DEFINE T == {n \in Nat : \A D \in SUBSET S : Cardinality(D) = n => g[D] = h[D]}
<1>1. \A D \in SUBSET S : IsFiniteSet(D) /\ Cardinality(D) \in Nat
  BY FS_Subset, FS_CardinalityType
<1>2. 0 \in T
  <2>1. \A D \in SUBSET S : Cardinality(D) = 0 => D = {}
    BY <1>1, FS_EmptySet
  <2>2. g[{}] = 0 /\ h[{}] = 0
    BY UnfoldsAt
  <2> QED
    BY <2>1, <2>2
<1>3. ASSUME NEW n \in Nat, n \in T PROVE n + 1 \in T
  <2> SUFFICES ASSUME NEW D \in SUBSET S, Cardinality(D) = n + 1
               PROVE  g[D] = h[D]
    OBVIOUS
  <2>1. D # {} /\ Chosen(D) \in D
    BY FS_EmptySet DEF Chosen
  <2>2. Cardinality(D \ {Chosen(D)}) = n
    BY <1>1, <2>1, FS_RemoveElement
  <2>3. g[D \ {Chosen(D)}] = h[D \ {Chosen(D)}]
    BY <1>3, <2>2
  <2>4. g[D] = IF D = {} THEN 0 ELSE f[Chosen(D)] + g[D \ {Chosen(D)}]
    BY DEF Unfolds
  <2>5. D \in SUBSET R
    OBVIOUS
  <2>6. h[D] = IF D = {} THEN 0 ELSE f[Chosen(D)] + h[D \ {Chosen(D)}]
    BY <2>5 DEF Unfolds
  <2> QED
    BY <2>1, <2>3, <2>4, <2>6
<1> HIDE DEF T
<1>4. Cardinality(S) \in T
  BY <1>1, <1>2, <1>3, Induction
<1> QED
  BY <1>4 DEF T

LEMMA SumExists ==
  ASSUME NEW f, NEW S, IsFiniteSet(S)
  PROVE  \E g : Unfolds(g, f, S)
<1> DEFINE T == {n \in Nat : \A D \in SUBSET S : Cardinality(D) <= n =>
                                 \E g : Unfolds(g, f, D)}
<1>1. \A D \in SUBSET S : IsFiniteSet(D) /\ Cardinality(D) \in Nat
  BY FS_Subset, FS_CardinalityType
<1>2. 0 \in T
  <2>1. \A D \in SUBSET S : Cardinality(D) <= 0 => D = {}
    BY <1>1, FS_EmptySet
  <2>2. Unfolds([D \in SUBSET {} |-> 0], f, {})
    BY DEF Unfolds
  <2> QED
    BY <2>1, <2>2
<1>3. ASSUME NEW n \in Nat, n \in T PROVE n + 1 \in T
  <2> SUFFICES ASSUME NEW D \in SUBSET S, Cardinality(D) <= n + 1
               PROVE  \E g : Unfolds(g, f, D)
    OBVIOUS
  <2> DEFINE rest(V) == V \ {Chosen(V)}
             part(V) == CHOOSE g : Unfolds(g, f, V)
             whole == [V \in SUBSET D |-> IF V = {} THEN 0
                                          ELSE f[Chosen(V)] + part(rest(V))[rest(V)]]
  <2>1. ASSUME NEW V \in SUBSET D, V # {}
        PROVE  /\ rest(V) \in SUBSET D
               /\ Unfolds(part(rest(V)), f, rest(V))
    <3>1. Chosen(V) \in V
      BY <2>1 DEF Chosen
    <3>2. Cardinality(rest(V)) = Cardinality(V) - 1
      BY <1>1, <3>1, FS_RemoveElement
    <3>3. Cardinality(V) <= Cardinality(D) /\ Cardinality(V) \in Nat
          /\ Cardinality(D) \in Nat
      BY <1>1, FS_Subset
    <3>4. Cardinality(rest(V)) <= n
      BY <3>2, <3>3
    <3>5. \E g : Unfolds(g, f, rest(V))
      BY <1>3, <3>4
    <3> QED
      BY <3>5
  <2>2. ASSUME NEW V \in SUBSET D, V # {}
        PROVE  whole[rest(V)] = part(rest(V))[rest(V)]
    <3> DEFINE W == rest(V)
    <3>1. W \in SUBSET D /\ Unfolds(part(W), f, W) /\ IsFiniteSet(W)
      BY <1>1, <2>1, <2>2
    <3> HIDE DEF W, part
    <3>2. CASE W = {}
      <4>1. part(W)[W] = 0
        BY <3>1, <3>2, UnfoldsAt
      <4> QED
        BY <3>1, <3>2, <4>1 DEF W
    <3>3. CASE W # {}
      <4>1. part(W)[W] = f[Chosen(W)] + part(W)[rest(W)]
        BY <3>1, <3>3, UnfoldsAt
      <4>2. whole[W] = f[Chosen(W)] + part(rest(W))[rest(W)]
        BY <3>1, <3>3
      <4>3. Unfolds(part(rest(W)), f, rest(W))
        BY <2>1, <3>1, <3>3
      <4>4. part(rest(W))[rest(W)] = part(W)[rest(W)]
        <5>1. rest(W) \subseteq W /\ IsFiniteSet(rest(W))
          BY <1>1, <2>1, <3>1, <3>3
        <5> HIDE DEF rest
        <5> QED
          BY <3>1, <4>3, <5>1, UnfoldsOnce
      <4> QED
        BY <4>1, <4>2, <4>4 DEF W
    <3> QED
      BY <3>2, <3>3
  <2>3. whole = [V \in SUBSET D |-> IF V = {} THEN 0
                                    ELSE f[Chosen(V)] + whole[rest(V)]]
    <3> DEFINE again == [V \in SUBSET D |-> IF V = {} THEN 0
                                            ELSE f[Chosen(V)] + whole[rest(V)]]
    <3>1. ASSUME NEW V \in SUBSET D, V # {} PROVE whole[V] = again[V]
      <4>1. whole[rest(V)] = part(rest(V))[rest(V)]
        BY <2>2, <3>1
      <4> HIDE DEF rest, part
      <4> QED
        BY <3>1, <4>1
    <3>2. \A V \in SUBSET D : whole[V] = again[V]
      <4> SUFFICES ASSUME NEW V \in SUBSET D PROVE whole[V] = again[V]
        OBVIOUS
      <4>1. CASE V = {}
        BY <4>1
      <4> QED
        BY <3>1, <4>1
    <3> HIDE DEF rest, part
    <3> QED
      BY <3>2
  <2>4. Unfolds(whole, f, D)
    BY <2>3 DEF Unfolds
  <2> QED
    BY <2>4
<1> HIDE DEF T
<1>4. Cardinality(S) \in T
  BY <1>1, <1>2, <1>3, Induction
<1> QED
  BY <1>1, <1>4 DEF T

(* A sum is one chosen value and the sum of the rest.                       *)
LEMMA SumStep ==
  ASSUME NEW f, NEW S, IsFiniteSet(S)
  PROVE  SumFunctionOnSet(f, S) =
           IF S = {} THEN 0
           ELSE f[Chosen(S)] + SumFunctionOnSet(f, S \ {Chosen(S)})
<1> DEFINE part(V) == CHOOSE g : Unfolds(g, f, V)
           rest == S \ {Chosen(S)}
<1>1. Unfolds(part(S), f, S) /\ Unfolds(part(rest), f, rest) /\ IsFiniteSet(rest)
  BY SumExists, FS_Subset
<1> HIDE DEF part
<1>2. part(S)[S] = IF S = {} THEN 0 ELSE f[Chosen(S)] + part(S)[rest]
  BY <1>1, UnfoldsAt
<1>3. part(rest)[rest] = part(S)[rest]
  BY <1>1, UnfoldsOnce
<1> QED
  BY <1>2, <1>3, SumIsChosen DEF part

(* In whatever order the fold takes them: any one value, and the rest.      *)
LEMMA SumSplits ==
  ASSUME NEW f, NEW S, IsFiniteSet(S), \A x \in S : f[x] \in Nat
  PROVE  /\ SumFunctionOnSet(f, S) \in Nat
         /\ \A x \in S : SumFunctionOnSet(f, S) = f[x] + SumFunctionOnSet(f, S \ {x})
<1> DEFINE Sum(D) == SumFunctionOnSet(f, D)
           Good(D) == Sum(D) \in Nat /\ \A x \in D : Sum(D) = f[x] + Sum(D \ {x})
           T == {n \in Nat : \A D \in SUBSET S : Cardinality(D) <= n => Good(D)}
<1>1. \A D \in SUBSET S : IsFiniteSet(D) /\ Cardinality(D) \in Nat
  BY FS_Subset, FS_CardinalityType
<1>2. 0 \in T
  <2>1. \A D \in SUBSET S : Cardinality(D) <= 0 => D = {}
    BY <1>1, FS_EmptySet
  <2>2. Sum({}) = 0
    BY SumStep, FS_EmptySet
  <2>3. Good({})
    BY <2>2
  <2> HIDE DEF Good
  <2> QED
    BY <2>1, <2>3
<1>3. ASSUME NEW n \in Nat, n \in T PROVE n + 1 \in T
  <2> SUFFICES ASSUME NEW D \in SUBSET S, Cardinality(D) <= n + 1
               PROVE  Good(D)
    OBVIOUS
  <2>0. CASE D = {}
    <3>1. Cardinality(D) <= 0
      BY <2>0, FS_EmptySet
    <3> QED
      BY <1>2, <3>1
  <2> SUFFICES ASSUME D # {} PROVE Good(D)
    BY <2>0
  <2> DEFINE c == Chosen(D)
  <2>1. c \in D
    BY DEF Chosen
  <2>2. Sum(D) = f[c] + Sum(D \ {c})
    BY <1>1, <2>1, SumStep
  <2>3. ASSUME NEW V \in SUBSET D, V # D PROVE Good(V)
    <3>1. Cardinality(V) < Cardinality(D) /\ Cardinality(V) \in Nat
          /\ Cardinality(D) \in Nat
      BY <1>1, <2>3, FS_Subset
    <3>2. Cardinality(V) <= n
      BY <3>1
    <3> HIDE DEF Good
    <3> QED
      BY <1>3, <3>2
  <2> HIDE DEF Sum, c
  <2>4. \A x \in D : Good(D \ {x})
    BY <2>3
  <2>5. f[c] \in Nat /\ Sum(D \ {c}) \in Nat
    BY <2>1, <2>4
  <2>6. Sum(D) \in Nat
    BY <2>2, <2>5
  <2>7. ASSUME NEW x \in D, x # c PROVE Sum(D) = f[x] + Sum(D \ {x})
    <3>1. Sum(D \ {c}) = f[x] + Sum((D \ {c}) \ {x})
      BY <2>1, <2>4, <2>7
    <3>2. Sum(D \ {x}) = f[c] + Sum((D \ {x}) \ {c})
      BY <2>1, <2>4, <2>7
    <3>3. (D \ {c}) \ {x} = (D \ {x}) \ {c}
      OBVIOUS
    <3>4. Sum((D \ {x}) \ {c}) \in Nat
      <4>1. Good((D \ {x}) \ {c})
        BY <2>1, <2>3
      <4> QED
        BY <4>1
    <3>5. f[x] \in Nat
      OBVIOUS
    <3> QED
      BY <2>2, <2>5, <3>1, <3>2, <3>3, <3>4, <3>5
  <2> QED
    BY <2>2, <2>6, <2>7
<1> HIDE DEF T
<1>4. Cardinality(S) \in T
  BY <1>1, <1>2, <1>3, Induction
<1> QED
  BY <1>1, <1>4 DEF T

(* A sum is no larger than another one that holds, at a place of its own,   *)
(* at least as much for each of its values.                                 *)
LEMMA SumDominated ==
  ASSUME NEW f, NEW S, IsFiniteSet(S), \A x \in S : f[x] \in Nat,
         NEW g, NEW R, IsFiniteSet(R), \A y \in R : g[y] \in Nat,
         NEW h, \A x \in S : f[x] # 0 => h[x] \in R /\ f[x] <= g[h[x]],
         \A x, y \in S : f[x] # 0 /\ f[y] # 0 /\ h[x] = h[y] => x = y
  PROVE  SumFunctionOnSet(f, S) <= SumFunctionOnSet(g, R)
<1> DEFINE Fits(D, V) == \A x \in D : f[x] # 0 => h[x] \in V
           T == {n \in Nat : \A D \in SUBSET S, V \in SUBSET R :
                    Cardinality(D) = n /\ Fits(D, V)
                      => SumFunctionOnSet(f, D) <= SumFunctionOnSet(g, V)}
<1>1. /\ \A D \in SUBSET S : IsFiniteSet(D) /\ Cardinality(D) \in Nat
      /\ \A V \in SUBSET R : IsFiniteSet(V)
  BY FS_Subset, FS_CardinalityType
<1>2. /\ \A D \in SUBSET S : SumFunctionOnSet(f, D) \in Nat
      /\ \A V \in SUBSET R : SumFunctionOnSet(g, V) \in Nat
  BY <1>1, SumSplits
<1>3. 0 \in T
  <2> SUFFICES ASSUME NEW D \in SUBSET S, NEW V \in SUBSET R, Cardinality(D) = 0
               PROVE  SumFunctionOnSet(f, D) <= SumFunctionOnSet(g, V)
    OBVIOUS
  <2>1. D = {}
    BY <1>1, FS_EmptySet
  <2>2. SumFunctionOnSet(f, D) = 0
    BY <1>1, <2>1, SumStep
  <2> QED
    BY <1>2, <2>2
<1>4. ASSUME NEW n \in Nat, n \in T PROVE n + 1 \in T
  <2> SUFFICES ASSUME NEW D \in SUBSET S, NEW V \in SUBSET R,
                      Cardinality(D) = n + 1, Fits(D, V)
               PROVE  SumFunctionOnSet(f, D) <= SumFunctionOnSet(g, V)
    OBVIOUS
  <2>1. PICK x \in D : TRUE
    BY FS_EmptySet
  <2> DEFINE less == D \ {x}
  <2>2. Cardinality(less) = n /\ less \in SUBSET S
    <3>1. Cardinality(less) = Cardinality(D) - 1
      BY <1>1, <2>1, FS_RemoveElement
    <3> QED
      BY <3>1
  <2>3. SumFunctionOnSet(f, D) = f[x] + SumFunctionOnSet(f, less)
    BY <1>1, <2>1, SumSplits
  <2>4. CASE f[x] = 0
    <3>1. Fits(less, V)
      OBVIOUS
    <3>2. SumFunctionOnSet(f, less) <= SumFunctionOnSet(g, V)
      BY <1>4, <2>2, <3>1
    <3>3. SumFunctionOnSet(f, less) \in Nat
      BY <1>2, <2>2
    <3> QED
      BY <2>3, <2>4, <3>2, <3>3
  <2>5. CASE f[x] # 0
    <3> DEFINE rest == V \ {h[x]}
    <3>1. h[x] \in V /\ f[x] <= g[h[x]]
      BY <2>1, <2>5
    <3>2. Fits(less, rest)
      BY <2>1, <2>5
    <3>3. SumFunctionOnSet(f, less) <= SumFunctionOnSet(g, rest)
      BY <1>4, <2>2, <3>2
    <3>4. SumFunctionOnSet(g, V) = g[h[x]] + SumFunctionOnSet(g, rest)
      BY <1>1, <3>1, SumSplits
    <3>5. /\ SumFunctionOnSet(f, less) \in Nat /\ SumFunctionOnSet(g, rest) \in Nat
          /\ f[x] \in Nat /\ g[h[x]] \in Nat
      BY <1>2, <2>1, <2>2, <3>1
    <3> QED
      BY <2>3, <3>1, <3>3, <3>4, <3>5
  <2> QED
    BY <2>4, <2>5
<1> HIDE DEF T
<1>5. Cardinality(S) \in T
  BY <1>1, <1>3, <1>4, Induction
<1> QED
  BY <1>1, <1>5 DEF T

LEMMA SumSame ==
  ASSUME NEW f, NEW S, IsFiniteSet(S), \A x \in S : f[x] \in Nat,
         NEW g, \A x \in S : g[x] = f[x]
  PROVE  SumFunctionOnSet(g, S) = SumFunctionOnSet(f, S)
<1> DEFINE h == [x \in S |-> x]
<1>1. \A x \in S : h[x] = x /\ g[x] \in Nat /\ f[x] <= g[x] /\ g[x] <= f[x]
  OBVIOUS
<1> HIDE DEF h
<1>2. SumFunctionOnSet(f, S) <= SumFunctionOnSet(g, S)
  BY <1>1, SumDominated
<1>3. SumFunctionOnSet(g, S) <= SumFunctionOnSet(f, S)
  BY <1>1, SumDominated
<1>4. SumFunctionOnSet(f, S) \in Nat /\ SumFunctionOnSet(g, S) \in Nat
  BY <1>1, SumSplits
<1> QED
  BY <1>2, <1>3, <1>4

(* Adding up by groups is adding up.                                        *)
LEMMA SumGroups ==
  ASSUME NEW f, NEW S, IsFiniteSet(S), \A x \in S : f[x] \in Nat,
         NEW key, NEW M, IsFiniteSet(M), \A x \in S : key[x] \in M
  PROVE  SumFunctionOnSet(f, S)
           = SumFunctionOnSet([m \in M |-> SumFunctionOnSet(f, {x \in S : key[x] = m})], M)
<1> DEFINE group(D, m) == {x \in D : key[x] = m}
           sums(D) == [m \in M |-> SumFunctionOnSet(f, group(D, m))]
           Good(D) == SumFunctionOnSet(f, D) = SumFunctionOnSet(sums(D), M)
           T == {n \in Nat : \A D \in SUBSET S : Cardinality(D) = n => Good(D)}
<1>1. /\ \A D \in SUBSET S : IsFiniteSet(D) /\ Cardinality(D) \in Nat
      /\ \A D \in SUBSET S, m \in M : IsFiniteSet(group(D, m))
  BY FS_Subset, FS_CardinalityType
<1>2. ASSUME NEW D \in SUBSET S, NEW m \in M
      PROVE  sums(D)[m] = SumFunctionOnSet(f, group(D, m)) /\ sums(D)[m] \in Nat
  <2>1. sums(D)[m] = SumFunctionOnSet(f, group(D, m))
    OBVIOUS
  <2>2. \A x \in group(D, m) : f[x] \in Nat
    OBVIOUS
  <2>3. IsFiniteSet(group(D, m))
    BY <1>1
  <2> HIDE DEF group, sums
  <2> QED
    BY <2>1, <2>2, <2>3, SumSplits
<1>3. 0 \in T
  <2> SUFFICES ASSUME NEW D \in SUBSET S, Cardinality(D) = 0 PROVE Good(D)
    OBVIOUS
  <2>1. D = {}
    BY <1>1, FS_EmptySet
  <2>2. SumFunctionOnSet(f, D) = 0 /\ \A m \in M : sums(D)[m] = 0
    <3>1. \A m \in M : group(D, m) = {}
      BY <2>1
    <3>2. SumFunctionOnSet(f, {}) = 0
      BY FS_EmptySet, SumStep
    <3> HIDE DEF group, sums
    <3> QED
      BY <1>2, <2>1, <3>1, <3>2
  <2> DEFINE none == [x \in {} |-> 0]
  <2>3. SumFunctionOnSet(sums(D), M) <= SumFunctionOnSet(none, {})
    <3> HIDE DEF sums, none
    <3> QED
      BY <1>2, <2>2, FS_EmptySet, SumDominated
  <2>4. SumFunctionOnSet(none, {}) = 0
    BY FS_EmptySet, SumStep
  <2>5. SumFunctionOnSet(sums(D), M) \in Nat
    <3> HIDE DEF sums
    <3> QED
      BY <1>2, SumSplits
  <2> QED
    BY <2>2, <2>3, <2>4, <2>5
<1>4. ASSUME NEW n \in Nat, n \in T PROVE n + 1 \in T
  <2> SUFFICES ASSUME NEW D \in SUBSET S, Cardinality(D) = n + 1 PROVE Good(D)
    OBVIOUS
  <2>0. D # {}
    <3>1. Cardinality(D) # 0
      OBVIOUS
    <3> QED
      BY <3>1, FS_EmptySet
  <2>1. PICK x \in D : TRUE
    BY <2>0
  <2> DEFINE less == D \ {x}
             k == key[x]
  <2>2. less \in SUBSET S /\ Cardinality(less) = n
    <3>1. Cardinality(less) = Cardinality(D) - 1
      BY <1>1, <2>1, FS_RemoveElement
    <3> QED
      BY <3>1
  <2>3. Good(less)
    BY <1>4, <2>2
  <2>4. /\ SumFunctionOnSet(f, D) = f[x] + SumFunctionOnSet(f, less)
        /\ SumFunctionOnSet(f, less) \in Nat /\ f[x] \in Nat
    BY <1>1, <2>1, <2>2, SumSplits
  <2>5. k \in M /\ x \in group(D, k) /\ group(less, k) = group(D, k) \ {x}
    BY <2>1
  <2>6. \A m \in M \ {k} : group(less, m) = group(D, m)
    BY <2>1
  <2>7. sums(D)[k] = f[x] + sums(less)[k]
    <3>1. \A y \in group(D, k) : f[y] \in Nat
      OBVIOUS
    <3>2. IsFiniteSet(group(D, k))
      BY <1>1, <2>5
    <3> HIDE DEF sums, group, less
    <3>3. SumFunctionOnSet(f, group(D, k)) = f[x] + SumFunctionOnSet(f, group(less, k))
      BY <2>5, <3>1, <3>2, SumSplits
    <3> QED
      BY <1>2, <2>2, <2>5, <3>3
  <2>8. \A m \in M \ {k} : sums(less)[m] = sums(D)[m]
    <3> HIDE DEF sums, group, less
    <3> QED
      BY <1>2, <2>2, <2>6
  <2> HIDE DEF sums, less, k, group
  <2>. (\A m \in M : sums(D)[m] \in Nat) /\ (\A m \in M : sums(less)[m] \in Nat)
    BY <1>2, <2>2
  <2>9. SumFunctionOnSet(sums(D), M)
          = sums(D)[k] + SumFunctionOnSet(sums(D), M \ {k})
    BY <2>5, SumSplits
  <2>10. SumFunctionOnSet(sums(less), M)
           = sums(less)[k] + SumFunctionOnSet(sums(less), M \ {k})
    BY <2>5, SumSplits
  <2>11. /\ SumFunctionOnSet(sums(D), M \ {k}) = SumFunctionOnSet(sums(less), M \ {k})
         /\ SumFunctionOnSet(sums(less), M \ {k}) \in Nat
    <3>1. IsFiniteSet(M \ {k})
      BY FS_Subset
    <3>2. \A m \in M \ {k} : sums(less)[m] \in Nat
      BY <1>2, <2>2
    <3> QED
      BY <2>8, <3>1, <3>2, SumSame, SumSplits
  <2>12. sums(less)[k] \in Nat
    BY <1>2, <2>2, <2>5
  <2> QED
    BY <2>3, <2>4, <2>7, <2>9, <2>10, <2>11, <2>12
<1> HIDE DEF T
<1>5. Cardinality(S) \in T
  BY <1>1, <1>3, <1>4, Induction
<1> QED
  BY <1>1, <1>5 DEF T

-----------------------------------------------------------------------------
(* What is read out of a response: counts, or nothing.                      *)
LEMMA LargestOf ==
  ASSUME NEW n \in Nat, NEW S \in SUBSET (1..n), S # {}
  PROVE  U!Max(S) \in S
<1> DEFINE T == {k \in Nat : n - k \in S}
<1>1. T \in SUBSET Nat /\ T # {}
  <2>1. PICK x \in S : TRUE
    OBVIOUS
  <2>2. n - x \in Nat /\ n - (n - x) = x
    OBVIOUS
  <2> QED
    BY <2>1, <2>2
<1>2. PICK k \in T : \A j \in T : k <= j
  BY <1>1, Least
<1>3. \A y \in S : n - k >= y
  <2> SUFFICES ASSUME NEW y \in S PROVE n - k >= y
    OBVIOUS
  <2>1. n - y \in T
    OBVIOUS
  <2>2. k <= n - y /\ k \in Nat /\ y \in Nat
    BY <1>2, <2>1
  <2> QED
    BY <2>2
<1>4. n - k \in S
  BY <1>2
<1> QED
  BY <1>3, <1>4 DEF U!Max

LEMMA SmallestOf ==
  ASSUME NEW S \in SUBSET Nat, S # {}
  PROVE  U!Min(S) \in S
BY Least DEF U!Min

LEMMA MergedIsContainer ==
  ASSUME NEW T, NEW containers \in Seq(T),
         \A i \in DOMAIN containers : U!IsContainer(containers[i])
  PROVE  U!IsContainer(U!Merged(containers))
<1> DEFINE has(k) == {i \in DOMAIN containers : k \in DOMAIN containers[i]}
           merged == U!Merged(containers)
<1>1. /\ DOMAIN merged = UNION {DOMAIN containers[i] : i \in DOMAIN containers}
      /\ \A k \in DOMAIN merged : merged[k] = containers[U!Max(has(k))][k]
  BY DEF U!Merged
<1>2. ASSUME NEW k \in DOMAIN merged PROVE U!Max(has(k)) \in has(k)
  <2>1. has(k) # {}
    BY <1>1
  <2>2. has(k) \in SUBSET (1..Len(containers)) /\ Len(containers) \in Nat
    OBVIOUS
  <2> HIDE DEF has
  <2> QED
    BY <2>1, <2>2, LargestOf
<1>3. \A k \in DOMAIN merged :
         \E i \in DOMAIN containers : k \in DOMAIN containers[i] /\ merged[k] = containers[i][k]
  BY <1>1, <1>2
<1>4. U!IsContainer(merged)
  <2> HIDE DEF merged
  <2> QED
    BY <1>3 DEF U!IsContainer
<1> QED
  BY <1>4

Counts(usage) ==
  /\ U!IsCount(usage.input) /\ U!IsCount(usage.output)
  /\ U!IsCount(usage.read.tokens) /\ U!IsCount(usage.write.tokens)

LEMMA FirstIsCount ==
  ASSUME NEW u, U!IsContainer(u), NEW keys, NEW n \in Nat, DOMAIN keys = 1..n,
         \A i \in 1..n : keys[i] \in U!CountKeys
  PROVE  U!IsCount(U!FirstOf(u, keys))
<1> DEFINE hits == {i \in DOMAIN keys : U!Value(u, keys[i]) # Null}
<1>1. CASE hits = {}
  BY <1>1 DEF U!FirstOf, U!IsCount
<1>2. CASE hits # {}
  <2>1. U!Min(hits) \in hits
    <3>1. hits \in SUBSET Nat
      OBVIOUS
    <3> HIDE DEF hits
    <3> QED
      BY <1>2, <3>1, SmallestOf
  <2>2. U!FirstOf(u, keys) = u[keys[U!Min(hits)]]
    BY <1>2 DEF U!FirstOf
  <2> DEFINE k == keys[U!Min(hits)]
  <2>3. k \in U!CountKeys /\ U!Value(u, k) # Null
    BY <2>1
  <2>4. k \in DOMAIN u
    BY <2>3 DEF U!Value
  <2> QED
    BY <2>2, <2>3, <2>4 DEF U!IsContainer
<1> QED
  BY <1>1, <1>2

LEMMA DugIsCount ==
  ASSUME NEW u, U!IsContainer(u), NEW source,
         \/ source.key \in U!DetailKeys
         \/ source.key \in U!CountKeys /\ source.sub = Null
  PROVE  source.sub # Null \/ source.key \in U!CountKeys => U!IsCount(U!Dig(u, source))
<1> DEFINE v == U!Value(u, source.key)
<1>1. CASE v = Null
  BY <1>1 DEF U!Dig, U!IsCount
<1>2. CASE v # Null
  <2>1. source.key \in DOMAIN u /\ v = u[source.key]
    BY <1>2 DEF U!Value
  <2>2. CASE source.sub = Null
    BY <2>1, <2>2 DEF U!Dig, U!IsContainer
  <2>3. CASE source.sub # Null
    <3>1. U!Dig(u, source) = U!Value(u[source.key], source.sub)
      BY <1>2, <2>3 DEF U!Dig
    <3>2. \A s \in DOMAIN u[source.key] : U!IsCount(u[source.key][s])
      BY <1>2, <2>1, <2>3 DEF U!IsContainer
    <3> QED
      BY <3>1, <3>2 DEF U!Value, U!IsCount
  <2> QED
    BY <2>2, <2>3
<1> QED
  BY <1>1, <1>2

LEMMA SourceIsCount ==
  ASSUME NEW u, U!IsContainer(u), NEW included
  PROVE  /\ \A key \in U!DetailKeys : \A sub \in {"cached_tokens", "cache_creation_tokens"} :
               U!IsCount(U!Dig(u, U!Source(key, sub, included)))
         /\ \A key \in {"cache_read_input_tokens", "cache_creation_input_tokens"} :
               U!IsCount(U!Dig(u, U!Source(key, Null, included)))
<1>1. ASSUME NEW key \in U!DetailKeys,
             NEW sub \in {"cached_tokens", "cache_creation_tokens"}
      PROVE  U!IsCount(U!Dig(u, U!Source(key, sub, included)))
  <2> DEFINE source == U!Source(key, sub, included)
  <2>1. source.key \in U!DetailKeys /\ source.sub # Null
    BY PricesAssumption DEF U!Source, PricesAssumption
  <2> HIDE DEF source
  <2>2. U!IsCount(U!Dig(u, source))
    BY <2>1, DugIsCount
  <2> QED
    BY <2>2 DEF source
<1>2. ASSUME NEW key \in {"cache_read_input_tokens", "cache_creation_input_tokens"}
      PROVE  U!IsCount(U!Dig(u, U!Source(key, Null, included)))
  <2> DEFINE source == U!Source(key, Null, included)
  <2>1. source.key \in U!CountKeys /\ source.sub = Null
    BY DEF U!Source, U!CountKeys
  <2> HIDE DEF source
  <2>2. U!IsCount(U!Dig(u, source))
    BY <2>1, DugIsCount
  <2> QED
    BY <2>2 DEF source
<1> QED
  BY <1>1, <1>2

LEMMA DetailIsCount ==
  ASSUME NEW u, NEW sources, NEW n \in Nat, DOMAIN sources = 1..n,
         \A i \in 1..n : U!IsCount(U!Dig(u, sources[i]))
  PROVE  U!IsCount(U!FirstDetail(u, sources).tokens)
<1> DEFINE hits == {i \in DOMAIN sources : U!Dig(u, sources[i]) # Null}
<1>1. CASE hits = {}
  BY <1>1 DEF U!FirstDetail, U!IsCount
<1>2. CASE hits # {}
  <2>1. U!Min(hits) \in hits
    <3>1. hits \in SUBSET Nat
      OBVIOUS
    <3> HIDE DEF hits
    <3> QED
      BY <1>2, <3>1, SmallestOf
  <2>2. U!FirstDetail(u, sources).tokens = U!Dig(u, sources[U!Min(hits)])
    BY <1>2 DEF U!FirstDetail
  <2> QED
    BY <2>1, <2>2
<1> QED
  BY <1>1, <1>2

LEMMA UsageCounts ==
  ASSUME NEW u, U!IsContainer(u)
  PROVE  Counts(U!BuildUsage(u))
<1>1. U!IsCount(U!FirstOf(u, U!InputKeys))
  <2>1. DOMAIN U!InputKeys = 1..3 /\ \A i \in 1..3 : U!InputKeys[i] \in U!CountKeys
    BY DEF U!InputKeys, U!CountKeys
  <2> QED
    BY <2>1, FirstIsCount
<1>2. U!IsCount(U!FirstOf(u, U!OutputKeys))
  <2>1. DOMAIN U!OutputKeys = 1..2 /\ \A i \in 1..2 : U!OutputKeys[i] \in U!CountKeys
    BY DEF U!OutputKeys, U!CountKeys
  <2> QED
    BY <2>1, FirstIsCount
<1>3. U!IsCount(U!FirstDetail(u, U!CacheReadSources).tokens)
  <2>1. DOMAIN U!CacheReadSources = 1..3
    BY DEF U!CacheReadSources
  <2>2. /\ \A i \in 1..3 : U!CacheReadSources[i] \in
              {U!Source("prompt_tokens_details", "cached_tokens", TRUE),
               U!Source("input_tokens_details", "cached_tokens", TRUE),
               U!Source("cache_read_input_tokens", Null, FALSE)}
    BY DEF U!CacheReadSources
  <2>3. \A i \in 1..3 : U!IsCount(U!Dig(u, U!CacheReadSources[i]))
    BY <2>2, SourceIsCount DEF U!DetailKeys
  <2> QED
    BY <2>1, <2>3, DetailIsCount
<1>4. U!IsCount(U!FirstDetail(u, U!CacheWriteSources).tokens)
  <2>1. DOMAIN U!CacheWriteSources = 1..2
    BY DEF U!CacheWriteSources
  <2>2. /\ \A i \in 1..2 : U!CacheWriteSources[i] \in
              {U!Source("cache_creation_input_tokens", Null, FALSE),
               U!Source("prompt_tokens_details", "cache_creation_tokens", TRUE)}
    BY DEF U!CacheWriteSources
  <2>3. \A i \in 1..2 : U!IsCount(U!Dig(u, U!CacheWriteSources[i]))
    BY <2>2, SourceIsCount DEF U!DetailKeys
  <2> QED
    BY <2>1, <2>3, DetailIsCount
<1> QED
  BY <1>1, <1>2, <1>3, <1>4 DEF Counts, U!BuildUsage

-----------------------------------------------------------------------------
(* The estimate of one response.                                            *)
LEMMA SumIsSum ==
  ASSUME NEW f
  PROVE  SumFunction(f) = SumFunctionOnSet(f, DOMAIN f) /\ U!SumFunction(f) = SumFunction(f)
BY DEF SumFunction, SumFunctionOnSet, FoldFunctionOnSet, MapThenFoldSet,
       U!SumFunction, U!SumFunctionOnSet, U!FoldFunctionOnSet, U!MapThenFoldSet

PriceOk(price) ==
  /\ price.input \in Nat /\ price.output \in Nat
  /\ U!IsCount(price.cache_read) /\ U!IsCount(price.cache_write)

Parts == {"input", "output", "cache_read", "cache_write"}

(* A complete estimate leaves no count out: the table prices whatever was   *)
(* reported (pricing.py:373-428).                                           *)
LEMMA NothingLeftOut ==
  ASSUME NEW usage, NEW price, PriceOk(price), U!Reasons(usage, price) = {}
  PROVE  /\ usage.read.tokens # Null => price.cache_read # Null
         /\ usage.write.tokens # Null => price.cache_write # Null
         /\ price.input # Null /\ price.output # Null
<1>1. "cache_price_missing" \notin U!Reasons(usage, price)
  OBVIOUS
<1>2. ~ (\/ usage.read.tokens # Null /\ price.cache_read = Null
         \/ usage.write.tokens # Null /\ price.cache_write = Null)
  BY <1>1 DEF U!Reasons
<1> QED
  BY <1>2, PricesAssumption DEF PriceOk, PricesAssumption

LEMMA BilledIsCount ==
  ASSUME NEW usage, Counts(usage), usage.input # Null
  PROVE  U!BilledInput(usage) \in Nat /\ U!BilledInput(usage) # Null
<1>1. usage.input \in Nat /\ (usage.read.tokens # Null => usage.read.tokens \in Nat)
  BY DEF Counts, U!IsCount
<1>2. U!BilledInput(usage) \in Nat
  BY <1>1 DEF U!BilledInput
<1> QED
  BY <1>2, PricesAssumption DEF PricesAssumption

LEMMA ComponentsAre ==
  ASSUME NEW usage, Counts(usage), NEW price, PriceOk(price),
         U!Reasons(usage, price) = {}
  PROVE  LET c == U!Components(usage, price) IN
         /\ DOMAIN c \subseteq Parts
         /\ \A n \in DOMAIN c : c[n] \in Nat /\ price[n] \in Nat
         /\ IF usage.input = Null THEN "input" \notin DOMAIN c
            ELSE "input" \in DOMAIN c /\ c["input"] = U!BilledInput(usage)
         /\ IF usage.output = Null THEN "output" \notin DOMAIN c
            ELSE "output" \in DOMAIN c /\ c["output"] = usage.output
         /\ IF usage.read.tokens = Null THEN "cache_read" \notin DOMAIN c
            ELSE "cache_read" \in DOMAIN c /\ c["cache_read"] = usage.read.tokens
         /\ IF usage.write.tokens = Null THEN "cache_write" \notin DOMAIN c
            ELSE "cache_write" \in DOMAIN c /\ c["cache_write"] = usage.write.tokens
<1> DEFINE tokens == [input |-> IF usage.input = Null THEN Null ELSE U!BilledInput(usage),
                      output |-> usage.output,
                      cache_read |-> usage.read.tokens,
                      cache_write |-> usage.write.tokens]
           c == U!Components(usage, price)
<1>1. /\ DOMAIN tokens = Parts
      /\ tokens["input"] = IF usage.input = Null THEN Null ELSE U!BilledInput(usage)
      /\ tokens["output"] = usage.output
      /\ tokens["cache_read"] = usage.read.tokens
      /\ tokens["cache_write"] = usage.write.tokens
  BY DEF Parts
<1>2. c = [n \in {m \in DOMAIN tokens : tokens[m] # Null /\ price[m] # Null} |-> tokens[n]]
  BY Zenon DEF U!Components
<1>3. /\ price["input"] \in Nat /\ price["output"] \in Nat
      /\ price["input"] # Null /\ price["output"] # Null
      /\ U!IsCount(price["cache_read"]) /\ U!IsCount(price["cache_write"])
      /\ tokens["cache_read"] # Null => price["cache_read"] # Null
      /\ tokens["cache_write"] # Null => price["cache_write"] # Null
  BY <1>1, NothingLeftOut DEF PriceOk
<1> HIDE DEF tokens, c
<1>4. /\ DOMAIN c = {m \in Parts : tokens[m] # Null /\ price[m] # Null}
      /\ \A n \in DOMAIN c : c[n] = tokens[n] /\ tokens[n] # Null /\ price[n] # Null
  BY <1>1, <1>2
<1>5. \A n \in DOMAIN c : c[n] \in Nat /\ price[n] \in Nat
  <2> SUFFICES ASSUME NEW n \in DOMAIN c PROVE c[n] \in Nat /\ price[n] \in Nat
    OBVIOUS
  <2>1. n \in Parts
    BY <1>4
  <2>2. CASE n = "input"
    BY <1>1, <1>3, <1>4, <2>2, BilledIsCount
  <2>3. CASE n = "output"
    BY <1>1, <1>3, <1>4, <2>3 DEF Counts, U!IsCount
  <2>4. CASE n = "cache_read"
    BY <1>1, <1>3, <1>4, <2>4 DEF Counts, U!IsCount
  <2>5. CASE n = "cache_write"
    BY <1>1, <1>3, <1>4, <2>5 DEF Counts, U!IsCount
  <2> QED
    BY <2>1, <2>2, <2>3, <2>4, <2>5 DEF Parts
<1>6. /\ IF usage.input = Null THEN "input" \notin DOMAIN c
         ELSE "input" \in DOMAIN c /\ c["input"] = U!BilledInput(usage)
      /\ IF usage.output = Null THEN "output" \notin DOMAIN c
         ELSE "output" \in DOMAIN c /\ c["output"] = usage.output
      /\ IF usage.read.tokens = Null THEN "cache_read" \notin DOMAIN c
         ELSE "cache_read" \in DOMAIN c /\ c["cache_read"] = usage.read.tokens
      /\ IF usage.write.tokens = Null THEN "cache_write" \notin DOMAIN c
         ELSE "cache_write" \in DOMAIN c /\ c["cache_write"] = usage.write.tokens
  BY <1>1, <1>3, <1>4, BilledIsCount DEF Parts
<1> QED
  BY <1>4, <1>5, <1>6 DEF c

LEMMA PartsAreFinite ==
  IsFiniteSet(Parts) /\ \A D \in SUBSET Parts : IsFiniteSet(D)
<1>1. IsFiniteSet({}) /\ IsFiniteSet({} \cup {"input"})
  BY FS_EmptySet, FS_AddElement
<1>2. IsFiniteSet(({} \cup {"input"}) \cup {"output"})
  BY <1>1, FS_AddElement
<1>3. IsFiniteSet((({} \cup {"input"}) \cup {"output"}) \cup {"cache_read"})
  BY <1>2, FS_AddElement
<1>4. IsFiniteSet(((({} \cup {"input"}) \cup {"output"}) \cup {"cache_read"})
                    \cup {"cache_write"})
  BY <1>3, FS_AddElement
<1>5. Parts = ((({} \cup {"input"}) \cup {"output"}) \cup {"cache_read"})
                \cup {"cache_write"}
  BY DEF Parts
<1>6. IsFiniteSet(Parts)
  BY <1>4, <1>5
<1> QED
  BY <1>6, FS_Subset

(* A component that is left out is one of no tokens.                        *)
LEMMA SumOfParts ==
  ASSUME NEW c, NEW D \in SUBSET Parts, \A n \in D : c[n] \in Nat,
         NEW f, \A n \in Parts : f[n] = IF n \in D THEN c[n] ELSE 0
  PROVE  SumFunctionOnSet(c, D)
           = ((f["input"] + f["output"]) + f["cache_read"]) + f["cache_write"]
<1> DEFINE h == [n \in Parts |-> n]
<1>1. \A n \in Parts : h[n] = n /\ f[n] \in Nat
  OBVIOUS
<1>2. \A n \in D : n \in Parts /\ f[n] = c[n]
  OBVIOUS
<1> HIDE DEF h
<1>3. SumFunctionOnSet(c, D) <= SumFunctionOnSet(f, Parts)
  BY <1>1, <1>2, PartsAreFinite, SumDominated
<1>4. SumFunctionOnSet(f, Parts) <= SumFunctionOnSet(c, D)
  <2>1. \A n \in Parts : f[n] # 0 => h[n] \in D /\ f[n] <= c[h[n]]
    BY <1>1
  <2> QED
    BY <1>1, <2>1, PartsAreFinite, SumDominated
<1>5. SumFunctionOnSet(c, D) \in Nat /\ SumFunctionOnSet(f, Parts) \in Nat
  BY <1>1, PartsAreFinite, SumSplits
<1>6. SumFunctionOnSet(f, Parts)
        = ((f["input"] + f["output"]) + f["cache_read"]) + f["cache_write"]
  <2> DEFINE P1 == Parts \ {"input"}
             P2 == P1 \ {"output"}
             P3 == P2 \ {"cache_read"}
             P4 == P3 \ {"cache_write"}
  <2>1. /\ "input" \in Parts /\ "output" \in P1 /\ "cache_read" \in P2
        /\ "cache_write" \in P3 /\ P4 = {}
        /\ P1 \in SUBSET Parts /\ P2 \in SUBSET Parts /\ P3 \in SUBSET Parts
    BY DEF Parts
  <2>2. SumFunctionOnSet(f, Parts) = f["input"] + SumFunctionOnSet(f, P1)
    <3>1. IsFiniteSet(Parts) /\ "input" \in Parts /\ P1 = Parts \ {"input"}
      BY <2>1, PartsAreFinite
    <3> HIDE DEF P1
    <3> QED
      BY <1>1, <3>1, SumSplits
  <2>3. SumFunctionOnSet(f, P1) = f["output"] + SumFunctionOnSet(f, P2)
    <3> HIDE DEF P1
    <3> QED
      BY <1>1, <2>1, PartsAreFinite, SumSplits
  <2>4. SumFunctionOnSet(f, P2) = f["cache_read"] + SumFunctionOnSet(f, P3)
    <3> HIDE DEF P2
    <3> QED
      BY <1>1, <2>1, PartsAreFinite, SumSplits
  <2>5. SumFunctionOnSet(f, P3) = f["cache_write"] + SumFunctionOnSet(f, P4)
    <3> HIDE DEF P3
    <3> QED
      BY <1>1, <2>1, PartsAreFinite, SumSplits
  <2>6. SumFunctionOnSet(f, P4) = 0
    <3>1. P4 = {}
      BY <2>1
    <3> HIDE DEF P4
    <3> QED
      BY <3>1, FS_EmptySet, SumStep
  <2>7. f["input"] \in Nat /\ f["output"] \in Nat /\ f["cache_read"] \in Nat
        /\ f["cache_write"] \in Nat
    BY <1>1 DEF Parts
  <2> HIDE DEF P1, P2, P3, P4
  <2> QED
    BY <2>2, <2>3, <2>4, <2>5, <2>6, <2>7
<1> QED
  BY <1>3, <1>4, <1>5, <1>6

(* What a complete estimate bills is what the call consumed.                *)
LEMMA BilledIsConsumed ==
  ASSUME NEW usage, Counts(usage), NEW price, PriceOk(price),
         U!Reasons(usage, price) = {}
  PROVE  SumFunction(U!Components(usage, price)) = Consumed(usage)
<1> DEFINE c == U!Components(usage, price)
           f == [n \in Parts |-> IF n \in DOMAIN c THEN c[n] ELSE 0]
<1>1. /\ DOMAIN c \in SUBSET Parts
      /\ \A n \in DOMAIN c : c[n] \in Nat
      /\ \A n \in Parts : f[n] = IF n \in DOMAIN c THEN c[n] ELSE 0
  BY ComponentsAre
<1>2. /\ f["input"] = IF usage.input = Null THEN 0 ELSE U!BilledInput(usage)
      /\ f["output"] = Count(usage.output)
      /\ f["cache_read"] = Count(usage.read.tokens)
      /\ f["cache_write"] = Count(usage.write.tokens)
  <2> HIDE DEF c
  <2>1. /\ "input" \in Parts /\ "output" \in Parts
        /\ "cache_read" \in Parts /\ "cache_write" \in Parts
    BY DEF Parts
  <2>2. /\ IF usage.input = Null THEN "input" \notin DOMAIN c
           ELSE "input" \in DOMAIN c /\ c["input"] = U!BilledInput(usage)
        /\ IF usage.output = Null THEN "output" \notin DOMAIN c
           ELSE "output" \in DOMAIN c /\ c["output"] = usage.output
        /\ IF usage.read.tokens = Null THEN "cache_read" \notin DOMAIN c
           ELSE "cache_read" \in DOMAIN c /\ c["cache_read"] = usage.read.tokens
        /\ IF usage.write.tokens = Null THEN "cache_write" \notin DOMAIN c
           ELSE "cache_write" \in DOMAIN c /\ c["cache_write"] = usage.write.tokens
    BY ComponentsAre DEF c
  <2> QED
    BY <2>1, <2>2 DEF Count
<1> HIDE DEF c, f
<1>3. SumFunctionOnSet(c, DOMAIN c)
        = ((f["input"] + f["output"]) + f["cache_read"]) + f["cache_write"]
  BY <1>1, SumOfParts
<1>4. /\ Count(usage.input) \in Nat /\ Count(usage.output) \in Nat
      /\ Count(usage.read.tokens) \in Nat /\ Count(usage.write.tokens) \in Nat
  BY DEF Counts, U!IsCount, Count
<1>5. f["input"] + f["cache_read"]
        = IF usage.read.included # TRUE THEN Count(usage.input) + Count(usage.read.tokens)
          ELSE IF Count(usage.read.tokens) > Count(usage.input)
               THEN Count(usage.read.tokens) ELSE Count(usage.input)
  <2> DEFINE i == Count(usage.input)
             r == Count(usage.read.tokens)
  <2>1. f["cache_read"] = r /\ i \in Nat /\ r \in Nat
    BY <1>2, <1>4
  <2>2. f["input"] = IF usage.read.included # TRUE THEN i ELSE IF r > i THEN 0 ELSE i - r
    <3>1. CASE usage.input = Null
      <4>1. f["input"] = 0 /\ i = 0
        BY <1>2, <3>1 DEF Count
      <4> HIDE DEF i, r
      <4>2. 0 = IF r > i THEN 0 ELSE i - r
        BY <2>1, <4>1
      <4>3. CASE usage.read.included # TRUE
        BY <4>1, <4>3
      <4>4. CASE usage.read.included = TRUE
        BY <4>1, <4>2, <4>4
      <4> QED
        BY <4>3, <4>4
    <3>2. CASE usage.input # Null
      <4>1. f["input"] = U!BilledInput(usage) /\ i = usage.input
        BY <1>2, <3>2 DEF Count
      <4>2. CASE usage.read.tokens = Null
        <5>1. r = 0 /\ U!BilledInput(usage) = usage.input
          BY <4>2 DEF Count, U!BilledInput
        <5>2. f["input"] = i
          BY <4>1, <5>1
        <5> HIDE DEF i, r
        <5>3. i = IF r > i THEN 0 ELSE i - r
          BY <2>1, <5>1
        <5>4. CASE usage.read.included # TRUE
          BY <5>2, <5>4
        <5>5. CASE usage.read.included = TRUE
          BY <5>2, <5>3, <5>5
        <5> QED
          BY <5>4, <5>5
      <4>3. CASE usage.read.tokens # Null
        <5>1. r = usage.read.tokens
          BY <4>3 DEF Count
        <5> QED
          BY <4>1, <4>3, <5>1 DEF U!BilledInput
      <4> QED
        BY <4>2, <4>3
    <3> QED
      BY <3>1, <3>2
  <2> HIDE DEF i, r
  <2>3. f["input"] + f["cache_read"]
          = IF usage.read.included # TRUE THEN i + r ELSE IF r > i THEN r ELSE i
    <3>1. CASE usage.read.included # TRUE
      BY <2>1, <2>2, <3>1
    <3>2. CASE usage.read.included = TRUE
      BY <2>1, <2>2, <3>2
    <3> QED
      BY <3>1, <3>2
  <2> QED
    BY <2>3 DEF i, r
<1>6. f["input"] \in Nat
  BY <1>2, BilledIsCount
<1>7. SumFunctionOnSet(c, DOMAIN c) = Consumed(usage)
  <2> DEFINE both == IF usage.read.included # TRUE
                     THEN Count(usage.input) + Count(usage.read.tokens)
                     ELSE IF Count(usage.read.tokens) > Count(usage.input)
                          THEN Count(usage.read.tokens) ELSE Count(usage.input)
  <2>1. Consumed(usage) = (Count(usage.output) + Count(usage.write.tokens)) + both
    BY Zenon DEF Consumed
  <2>2. f["input"] + f["cache_read"] = both
    BY <1>5
  <2> HIDE DEF both
  <2>3. f["output"] \in Nat /\ f["cache_read"] \in Nat /\ f["cache_write"] \in Nat
    BY <1>2, <1>4
  <2> QED
    BY <1>2, <1>3, <1>6, <2>1, <2>2, <2>3
<1> QED
  BY <1>7, SumIsSum DEF c

LEMMA SubtotalIsCount ==
  ASSUME NEW usage, Counts(usage), NEW price, PriceOk(price),
         U!Reasons(usage, price) = {}
  PROVE  U!Subtotal(U!Components(usage, price), price) \in Nat
<1> DEFINE c == U!Components(usage, price)
           f == [n \in DOMAIN c |-> c[n] * price[n]]
<1>1. DOMAIN c \in SUBSET Parts /\ \A n \in DOMAIN c : c[n] \in Nat /\ price[n] \in Nat
  BY ComponentsAre
<1> HIDE DEF c
<1>2. DOMAIN f = DOMAIN c /\ \A n \in DOMAIN c : f[n] \in Nat
  BY <1>1
<1>3. U!Subtotal(c, price) = SumFunction(f)
  BY SumIsSum DEF U!Subtotal
<1> HIDE DEF f
<1>4. SumFunctionOnSet(f, DOMAIN c) \in Nat
  BY <1>1, <1>2, PartsAreFinite, SumSplits
<1> QED
  BY <1>2, <1>3, <1>4, SumIsSum DEF c

(* estimate_cost answers complete only for a response with usage, of a      *)
(* model the table prices, with nothing missing (pricing.py:340-428).       *)
LEMMA CompleteIs ==
  ASSUME NEW usage, NEW status, NEW model, U!EstimateCost(usage, status, model).complete
  PROVE  /\ status = "present" /\ model \in DOMAIN Prices
         /\ U!Reasons(usage, Prices[model]) = {}
         /\ U!EstimateCost(usage, status, model).components
              = U!Components(usage, Prices[model])
         /\ U!EstimateCost(usage, status, model).total
              = U!Subtotal(U!Components(usage, Prices[model]), Prices[model])
<1> DEFINE e == U!EstimateCost(usage, status, model)
           price == Prices[model]
           full == [total |-> IF U!Reasons(usage, price) = {}
                              THEN U!Subtotal(U!Components(usage, price), price) ELSE Null,
                    complete |-> U!Reasons(usage, price) = {},
                    components |-> U!Components(usage, price),
                    reasons |-> U!Reasons(usage, price)]
<1>1. \A reason : ~ U!Unknown(reason).complete
  BY Zenon DEF U!Unknown
<1>2. status = "present"
  <2> SUFFICES ASSUME status # "present" PROVE FALSE
    OBVIOUS
  <2>1. e = U!Unknown(status)
    BY Zenon DEF U!EstimateCost
  <2> QED
    BY <1>1, <2>1
<1>3. ~U!IsEmpty(usage)
  <2> SUFFICES ASSUME U!IsEmpty(usage) PROVE FALSE
    OBVIOUS
  <2>1. e = U!Unknown("usage_empty")
    BY Zenon, <1>2 DEF U!EstimateCost
  <2> QED
    BY <1>1, <2>1
<1>4. model \in DOMAIN Prices
  <2> SUFFICES ASSUME model \notin DOMAIN Prices PROVE FALSE
    OBVIOUS
  <2>1. e = U!Unknown("model_not_in_price_table")
    BY Zenon, <1>2, <1>3 DEF U!EstimateCost
  <2> QED
    BY <1>1, <2>1
<1>5. e = full
  BY Zenon, <1>2, <1>3, <1>4 DEF U!EstimateCost
<1>6. /\ full.complete <=> U!Reasons(usage, price) = {}
      /\ full.components = U!Components(usage, price)
      /\ full.total = IF U!Reasons(usage, price) = {}
                      THEN U!Subtotal(U!Components(usage, price), price) ELSE Null
  BY Zenon
<1> HIDE DEF full
<1>7. full.complete
  BY <1>5
<1>8. U!Reasons(usage, price) = {}
  BY <1>6, <1>7
<1>9. full.total = U!Subtotal(U!Components(usage, price), price)
  BY <1>6, <1>8
<1> QED
  BY <1>2, <1>4, <1>5, <1>6, <1>8, <1>9

(* What a priced answer is worth.                                           *)
LEMMA PricedAnswer ==
  ASSUME NEW c \in Call, NEW a \in Answers[c], Cost(a) # Null, Cost(a).complete
  PROVE  /\ a.response /\ Status(a) = "present"
         /\ a.model \in DOMAIN Prices /\ a.model # Null
         /\ Cost(a).total \in Nat
         /\ SumFunction(Cost(a).components) = Consumed(Usage(a))
<1>1. a.response
  BY DEF Cost
<1>2. Cost(a) = U!EstimateCost(Usage(a), Status(a), a.model)
  BY <1>1 DEF Cost
<1>3. U!EstimateCost(Usage(a), Status(a), a.model).complete
  BY <1>2
<1> DEFINE price == Prices[a.model]
<1>4. /\ Status(a) = "present" /\ a.model \in DOMAIN Prices
      /\ U!Reasons(Usage(a), price) = {}
      /\ Cost(a).components = U!Components(Usage(a), price)
      /\ Cost(a).total = U!Subtotal(U!Components(Usage(a), price), price)
  BY <1>2, <1>3, CompleteIs
<1>5. a.model # Null /\ PriceOk(price)
  BY <1>4, PricesAssumption DEF PricesAssumption, PriceOk
<1>6. Counts(Usage(a))
  <2>1. /\ a.containers \in Seq({a.containers[i] : i \in DOMAIN a.containers})
        /\ \A i \in DOMAIN a.containers : U!IsContainer(a.containers[i])
    BY AnswersAssumption DEF AnswersAssumption
  <2>2. U!IsContainer(U!Merged(a.containers))
    BY <2>1, MergedIsContainer
  <2> QED
    BY <2>2, UsageCounts DEF Usage
<1> HIDE DEF price
<1>7. Cost(a).total \in Nat
  BY <1>4, <1>5, <1>6, SubtotalIsCount
<1>8. SumFunction(Cost(a).components) = Consumed(Usage(a))
  BY <1>4, <1>5, <1>6, BilledIsConsumed
<1> QED
  BY <1>1, <1>4, <1>5, <1>7, <1>8

-----------------------------------------------------------------------------
(* Every record is priced as its answer says, and stays as it was made.     *)
LineInv ==
  \A i \in DOMAIN records :
    /\ records[i].answer \in Answers[records[i].call]
    /\ records[i].cost = Cost(records[i].answer)

BooksInv == Inv /\ LineInv

Kept ==
  /\ DOMAIN records \subseteq DOMAIN records'
  /\ \A i \in DOMAIN records : records'[i] = records[i]

LEMMA RecordNewAppends ==
  ASSUME Inv, RecordNew
  PROVE  /\ Kept
         /\ \A i \in DOMAIN records' \ DOMAIN records :
              /\ records'[i].answer \in Answers[records'[i].call]
              /\ records'[i].cost = Cost(records'[i].answer)
<1> DEFINE c == Head(todo)
<1>1. PICK a \in Answers[c] :
        records' = Append(records, [call |-> c, identity |-> Resolve(c),
                                    answer |-> a, cost |-> Cost(a)])
  BY DEF RecordNew
<1> DEFINE e == [call |-> c, identity |-> Resolve(c), answer |-> a, cost |-> Cost(a)]
<1>2. e.call = c /\ e.answer = a /\ e.cost = Cost(a)
  BY Zenon
<1>3. PICK S : records \in Seq(S)
  BY DEF Inv, IsLog
<1> HIDE DEF e, c
<1>4. /\ Len(records') = Len(records) + 1
      /\ DOMAIN records = 1..Len(records)
      /\ DOMAIN records' = 1..(Len(records) + 1)
      /\ \A i \in 1..Len(records) : records'[i] = records[i]
      /\ records'[Len(records) + 1] = e
      /\ Len(records) \in Nat
  BY <1>1, <1>3, Appended DEF e
<1>5. \A i \in DOMAIN records' \ DOMAIN records : records'[i] = e
  BY <1>4
<1> QED
  BY <1>2, <1>4, <1>5 DEF Kept

LEMMA RecordsAreKept ==
  ASSUME Inv, [Next]_vars
  PROVE  RecordNew \/ records' = records
BY DEF Next, vars, Declare, LinkRetry, Extend, RecordDuplicate, RecordRaises, ledger

LEMMA LineNext == BooksInv /\ [Next]_vars => LineInv' /\ Kept
<1> SUFFICES ASSUME BooksInv, [Next]_vars PROVE LineInv' /\ Kept
  OBVIOUS
<1>1. CASE records' = records
  BY <1>1 DEF BooksInv, LineInv, Kept
<1>2. CASE RecordNew
  <2>1. /\ Kept
        /\ \A i \in DOMAIN records' \ DOMAIN records :
             /\ records'[i].answer \in Answers[records'[i].call]
             /\ records'[i].cost = Cost(records'[i].answer)
    BY <1>2, RecordNewAppends DEF BooksInv
  <2> QED
    BY <2>1 DEF BooksInv, LineInv, Kept
<1> QED
  BY <1>1, <1>2, RecordsAreKept DEF BooksInv

LEMMA BooksInvariance == Spec => []BooksInv
<1>1. Init => BooksInv
  <2>1. Init => LineInv
    BY DEF Init, LineInv
  <2> QED
    BY <2>1, InitInv DEF BooksInv
<1>2. BooksInv /\ [Next]_vars => BooksInv'
  BY NextInv, LineNext DEF BooksInv
<1> QED
  BY <1>1, <1>2, PTL DEF Spec

(* The records that have a price, and what each of them costs.              *)
PricedLines == {i \in DOMAIN records : Priced(records[i])}
Totals(S) == [i \in S |-> records[i].cost.total]
LinesOf(m) == {i \in DOMAIN records : records[i].answer.model = m}
Models == {records[i].answer.model : i \in DOMAIN records} \ {Null}

SummaryFacts ==
  /\ Summary.estimatedCost = IF PricedLines = {} THEN Null ELSE PricedSum(PricedLines)
  /\ Summary.unpriced = Len(records) - Cardinality(PricedLines)
  /\ Summary.costComplete => PricedLines = DOMAIN records
  /\ DOMAIN Summary.byModel = Models
  /\ \A m \in Models :
       Summary.byModel[m].cost = IF LinesOf(m) \cap PricedLines = {} THEN Null
                                 ELSE PricedSum(LinesOf(m) \cap PricedLines)

LEMMA SummaryIs == SummaryFacts
<1>1. Summary.estimatedCost = IF PricedLines = {} THEN Null ELSE PricedSum(PricedLines)
  BY Zenon DEF Summary, PricedLines
<1>2. Summary.unpriced = Len(records) - Cardinality(PricedLines)
  BY Zenon DEF Summary, PricedLines
<1>3. Summary.costComplete => PricedLines = DOMAIN records
  BY Zenon DEF Summary, PricedLines
<1> DEFINE cost(m) == IF LinesOf(m) \cap PricedLines = {} THEN Null
                      ELSE PricedSum(LinesOf(m) \cap PricedLines)
<1>4. Summary.byModel = [m \in Models |-> [requests |-> Cardinality(LinesOf(m)),
                                         cost |-> cost(m)]]
  BY Zenon DEF Summary, PricedLines, Models, LinesOf
<1> HIDE DEF cost
<1>5. \A m \in Models : Summary.byModel[m].cost = cost(m)
  BY <1>4
<1> QED
  BY <1>1, <1>2, <1>3, <1>4, <1>5 DEF SummaryFacts, cost

LEMMA PricedLine ==
  ASSUME BooksInv
  PROVE  /\ IsFiniteSet(PricedLines)
         /\ \A i \in PricedLines :
              /\ records[i].answer.response /\ Status(records[i].answer) = "present"
              /\ records[i].answer.model # Null
              /\ records[i].cost.total \in Nat
              /\ SumFunction(records[i].cost.components) = Consumed(Usage(records[i].answer))
<1>1. PICK S : records \in Seq(S)
  BY DEF BooksInv, Inv, IsLog
<1>2. DOMAIN records = 1..Len(records) /\ Len(records) \in Nat
  BY <1>1
<1>3. IsFiniteSet(1..Len(records))
  BY <1>2, FS_Interval
<1>4. IsFiniteSet(PricedLines)
  BY <1>2, <1>3, FS_Subset DEF PricedLines
<1>5. ASSUME NEW i \in PricedLines
      PROVE  /\ records[i].answer.response /\ Status(records[i].answer) = "present"
             /\ records[i].answer.model # Null
             /\ records[i].cost.total \in Nat
             /\ SumFunction(records[i].cost.components) = Consumed(Usage(records[i].answer))
  <2> DEFINE c == records[i].call
             a == records[i].answer
  <2>1. /\ i \in DOMAIN records /\ records[i].cost # Null /\ records[i].cost.complete
    BY DEF PricedLines, Priced
  <2>2. c \in Call /\ a \in Answers[c] /\ records[i].cost = Cost(a)
    BY <2>1 DEF BooksInv, Inv, TypeOK, LineInv
  <2>3. Cost(a) # Null /\ Cost(a).complete
    BY <2>1, <2>2
  <2> QED
    BY <2>2, <2>3, PricedAnswer
<1> QED
  BY <1>4, <1>5

(* A sum over some of the records, whichever function lists their totals.   *)
LEMMA PricedSumIs ==
  ASSUME BooksInv, NEW S \in SUBSET PricedLines
  PROVE  /\ PricedSum(S) = SumFunctionOnSet(Totals(PricedLines), S)
         /\ PricedSum(S) \in Nat
         /\ IsFiniteSet(S)
         /\ \A i \in S : Totals(PricedLines)[i] \in Nat
<1> DEFINE f == Totals(PricedLines)
           g == [i \in S |-> records[i].cost.total]
<1>1. IsFiniteSet(S)
  BY PricedLine, FS_Subset
<1>2. \A i \in S : f[i] = records[i].cost.total /\ g[i] = f[i]
  BY DEF Totals
<1>3. \A i \in S : f[i] \in Nat
  BY <1>2, PricedLine
<1>4. PricedSum(S) = SumFunctionOnSet(g, S)
  BY Zenon DEF PricedSum
<1> HIDE DEF f, g
<1>5. SumFunctionOnSet(g, S) = SumFunctionOnSet(f, S)
  BY <1>1, <1>2, <1>3, SumSame
<1>6. SumFunctionOnSet(f, S) \in Nat
  BY <1>1, <1>3, SumSplits
<1> QED
  BY <1>1, <1>3, <1>4, <1>5, <1>6 DEF f

LEMMA BooksAddUp == BooksInv => ModelsAddUp
<1> SUFFICES ASSUME BooksInv PROVE ModelsAddUp
  OBVIOUS
<1> DEFINE key == [i \in PricedLines |-> records[i].answer.model]
           M == {m \in DOMAIN Summary.byModel : Summary.byModel[m].cost # Null}
           by == [m \in M |-> Summary.byModel[m].cost]
           f == Totals(PricedLines)
           G == [m \in M |-> SumFunctionOnSet(f, {i \in PricedLines : key[i] = m})]
<1>1. SummaryFacts
  BY SummaryIs
<1>2. \A m : LinesOf(m) \cap PricedLines = {i \in PricedLines : key[i] = m}
  BY DEF LinesOf, PricedLines
<1>3. \A i \in PricedLines : key[i] \in Models
  <2>1. \A i \in PricedLines : i \in DOMAIN records /\ records[i].answer.model # Null
    BY PricedLine DEF PricedLines
  <2> QED
    BY <2>1 DEF Models
<1>4. \A n \in Nat : n # Null
  BY PricesAssumption DEF PricesAssumption
<1>5. ASSUME NEW m \in Models
      PROVE  /\ m \in M <=> \E i \in PricedLines : key[i] = m
             /\ m \in M => Summary.byModel[m].cost
                             = SumFunctionOnSet(f, {i \in PricedLines : key[i] = m})
  <2> DEFINE S == {i \in PricedLines : key[i] = m}
  <2>1. Summary.byModel[m].cost = IF S = {} THEN Null ELSE PricedSum(S)
    BY <1>1, <1>2 DEF SummaryFacts
  <2>2. S \in SUBSET PricedLines
    OBVIOUS
  <2>3. PricedSum(S) = SumFunctionOnSet(f, S) /\ PricedSum(S) \in Nat
    <3> HIDE DEF S
    <3> QED
      BY <2>2, PricedSumIs
  <2>4. m \in M <=> S # {}
    <3>1. m \in M <=> Summary.byModel[m].cost # Null
      BY <1>1 DEF SummaryFacts
    <3> HIDE DEF S, M
    <3> QED
      BY <1>4, <2>1, <2>3, <3>1
  <2>5. m \in M => Summary.byModel[m].cost = SumFunctionOnSet(f, S)
    <3> HIDE DEF S, M, f
    <3> QED
      BY <2>1, <2>3, <2>4
  <2>6. S # {} <=> \E i \in PricedLines : key[i] = m
    OBVIOUS
  <2> HIDE DEF M
  <2> QED
    BY <2>4, <2>5, <2>6
<1>6. M \subseteq Models
  BY <1>1 DEF SummaryFacts
<1>7. M = {key[i] : i \in PricedLines}
  <2> HIDE DEF M, key
  <2> QED
    BY <1>3, <1>5, <1>6
<1>8. IsFiniteSet(M)
  <2>1. key \in Surjection(PricedLines, M)
    <3> HIDE DEF M
    <3>1. \A i \in PricedLines : key[i] \in M
      BY <1>7
    <3>2. \A m \in M : \E i \in PricedLines : key[i] = m
      BY <1>7
    <3> QED
      BY <3>1, <3>2 DEF Surjection
  <2> QED
    BY <2>1, PricedLine, FS_Surjection
<1>9. Summary.estimatedCost = Null <=> M = {}
  <2>1. PricedSum(PricedLines) \in Nat
    BY PricedSumIs
  <2>2. Summary.estimatedCost = Null <=> PricedLines = {}
    BY <1>1, <1>4, <2>1 DEF SummaryFacts
  <2> HIDE DEF M
  <2> QED
    BY <1>7, <2>2
<1>10. M # {} => Summary.estimatedCost = SumFunctionOnSet(by, M)
  <2> SUFFICES ASSUME M # {} PROVE Summary.estimatedCost = SumFunctionOnSet(by, M)
    OBVIOUS
  <2>1. PricedLines # {}
    <3> HIDE DEF M
    <3> QED
      BY <1>7
  <2>2. /\ Summary.estimatedCost = SumFunctionOnSet(f, PricedLines)
        /\ IsFiniteSet(PricedLines) /\ \A i \in PricedLines : f[i] \in Nat
    BY <1>1, <2>1, PricedSumIs DEF SummaryFacts
  <2>3. \A i \in PricedLines : key[i] \in M
    <3> HIDE DEF M
    <3> QED
      BY <1>7
  <2>4. SumFunctionOnSet(f, PricedLines) = SumFunctionOnSet(G, M)
    <3> HIDE DEF M, key, f
    <3> QED
      BY <1>8, <2>2, <2>3, SumGroups
  <2>5. G = by
    <3> HIDE DEF M, f, key
    <3> QED
      BY <1>5, <1>6
  <2> QED
    BY <2>2, <2>4, <2>5
<1>11. Summary.costComplete =>
         \A i \in DOMAIN records :
           records[i].answer.response /\ Status(records[i].answer) = "present"
  BY <1>1, PricedLine DEF SummaryFacts
<1> QED
  BY Zenon, <1>9, <1>10, <1>11 DEF ModelsAddUp

(* A bill names every token the calls it prices consumed, once, and its     *)
(* total is the sum of its models' subtotals; it is called complete only    *)
(* when every call was answered with usage (pricing.py:340-428,             *)
(* calls.py:505-560).  For every registry, answer and price table.          *)
THEOREM BillsAreHonest == Spec => []BillIsHonest
<1>1. BooksInv => TokensBilledOnce
  <2> SUFFICES ASSUME BooksInv, NEW i \in DOMAIN records, Priced(records[i])
               PROVE  SumFunction(records[i].cost.components)
                        = Consumed(Usage(records[i].answer))
    BY DEF TokensBilledOnce
  <2>1. i \in PricedLines
    BY DEF PricedLines
  <2> QED
    BY <2>1, PricedLine
<1>2. BooksInv => BillIsHonest
  BY <1>1, BooksAddUp DEF BillIsHonest
<1> QED
  BY <1>2, BooksInvariance, PTL

LEMMA PricedStayPriced ==
  ASSUME Kept
  PROVE  /\ PricedLines \subseteq PricedLines'
         /\ DOMAIN records \subseteq DOMAIN records'
         /\ \A i \in PricedLines : records'[i] = records[i]
         /\ PricedLines' \cap DOMAIN records = PricedLines
BY DEF Kept, PricedLines, Priced

LEMMA PricedSums ==
  BooksInv => \A S \in SUBSET PricedLines :
                /\ PricedSum(S) = SumFunctionOnSet(Totals(PricedLines), S)
                /\ PricedSum(S) \in Nat
                /\ IsFiniteSet(S)
                /\ \A i \in S : Totals(PricedLines)[i] \in Nat
BY PricedSumIs

LEMMA TotalGrows ==
  ASSUME BooksInv, BooksInv', Kept
  PROVE  Summary.estimatedCost # Null =>
           Summary'.estimatedCost # Null /\ Summary'.estimatedCost >= Summary.estimatedCost
<1> SUFFICES ASSUME Summary.estimatedCost # Null
             PROVE  /\ Summary'.estimatedCost # Null
                    /\ Summary'.estimatedCost >= Summary.estimatedCost
  OBVIOUS
<1> DEFINE P == PricedLines
           f == Totals(PricedLines)
           h == [i \in P |-> i]
<1>1. SummaryFacts /\ SummaryFacts'
  BY SummaryIs, PTL
<1>2. P # {} /\ P' # {}
  BY <1>1, PricedStayPriced DEF SummaryFacts
<1>3. /\ Summary.estimatedCost = PricedSum(P) /\ PricedSum(P) = SumFunctionOnSet(f, P)
      /\ IsFiniteSet(P) /\ \A i \in P : f[i] \in Nat
      /\ SumFunctionOnSet(f, P) \in Nat
  BY <1>1, <1>2, PricedSumIs DEF SummaryFacts
<1>4. (\A S \in SUBSET PricedLines :
         /\ PricedSum(S) = SumFunctionOnSet(Totals(PricedLines), S)
         /\ PricedSum(S) \in Nat
         /\ IsFiniteSet(S)
         /\ \A i \in S : Totals(PricedLines)[i] \in Nat)'
  BY PricedSums, PTL
<1>5. /\ Summary'.estimatedCost = SumFunctionOnSet(f', P')
      /\ IsFiniteSet(P') /\ \A i \in P' : f'[i] \in Nat
      /\ SumFunctionOnSet(f', P') \in Nat
  BY <1>1, <1>2, <1>4 DEF SummaryFacts
<1>6. \A i \in P : h[i] = i /\ i \in P' /\ f[i] <= f'[i]
  <2>1. \A i \in P : f[i] = records[i].cost.total
    BY DEF Totals
  <2>2. \A i \in P' : f'[i] = records'[i].cost.total
    BY DEF Totals
  <2>3. \A i \in P : i \in P' /\ f[i] = f'[i]
    BY <2>1, <2>2, PricedStayPriced
  <2> HIDE DEF P, f
  <2> QED
    BY <1>3, <2>3
<1> DEFINE g == f'
           Q == P'
<1> HIDE DEF P, f, h, g, Q
<1>7. SumFunctionOnSet(f, P) <= SumFunctionOnSet(g, Q)
  <2>1. /\ IsFiniteSet(P) /\ \A i \in P : f[i] \in Nat
        /\ IsFiniteSet(Q) /\ \A i \in Q : g[i] \in Nat
        /\ \A i \in P : f[i] # 0 => h[i] \in Q /\ f[i] <= g[h[i]]
        /\ \A i, j \in P : f[i] # 0 /\ f[j] # 0 /\ h[i] = h[j] => i = j
    BY <1>3, <1>5, <1>6 DEF g, Q
  <2> QED
    BY <2>1, SumDominated
<1>8. Summary'.estimatedCost \in Nat /\ Summary'.estimatedCost >= Summary.estimatedCost
  BY <1>3, <1>5, <1>7 DEF g, Q
<1> QED
  BY <1>8, PricesAssumption DEF PricesAssumption

LEMMA UnpricedStays ==
  ASSUME BooksInv, BooksInv', Kept
  PROVE  Summary.unpriced > 0 => ~Summary'.costComplete
<1> SUFFICES ASSUME Summary.unpriced > 0, Summary'.costComplete PROVE FALSE
  OBVIOUS
<1>1. SummaryFacts /\ SummaryFacts'
  BY SummaryIs, PTL
<1>2. PricedLines' = DOMAIN records'
  BY <1>1 DEF SummaryFacts
<1>3. PricedLines = DOMAIN records
  BY <1>2, PricedStayPriced
<1>4. PICK S : records \in Seq(S)
  BY DEF BooksInv, Inv, IsLog
<1>5. DOMAIN records = 1..Len(records) /\ Len(records) \in Nat
  BY <1>4
<1>6. Cardinality(PricedLines) = Len(records)
  <2> DEFINE n == Len(records)
  <2>1. n \in Nat /\ PricedLines = 1..n
    BY <1>3, <1>5
  <2> HIDE DEF n
  <2>2. Cardinality(1..n) = n
    BY <2>1, FS_Interval
  <2> QED
    BY <2>1, <2>2 DEF n
<1> QED
  BY <1>1, <1>5, <1>6 DEF SummaryFacts

(* No delivery, whole, cut short or repeated, and no declaration of the     *)
(* application ever lowers the cost reported so far or makes a total        *)
(* complete that once lacked a call (calls.py:430-450 keeps the first       *)
(* record, 505-560 add them up).                                            *)
THEOREM TotalsGrow == Spec => TotalsOnlyGrow
<1>1. BooksInv /\ BooksInv' /\ [Next]_vars =>
        [/\ Summary.estimatedCost # Null =>
              Summary'.estimatedCost # Null /\ Summary'.estimatedCost >= Summary.estimatedCost
         /\ Summary.unpriced > 0 => ~Summary'.costComplete]_vars
  BY LineNext, TotalGrows, UnpricedStays
<1> QED
  BY <1>1, BooksInvariance, PTL DEF Spec, TotalsOnlyGrow


-----------------------------------------------------------------------------
(* A function by recursion on an interval: its equation has a solution.     *)
Follows(g, a, step, n) ==
  g = [k \in 0..n |-> IF k = 0 THEN a ELSE step[<<k, g[k-1]>>]]

LEMMA Recursion ==
  ASSUME NEW V, NEW a \in V, NEW n \in Nat, NEW step \in [(1..n) \X V -> V]
  PROVE  \E g \in [0..n -> V] : Follows(g, a, step, n)
<1> DEFINE T == {m \in Nat : m <= n => \E g \in [0..m -> V] : Follows(g, a, step, m)}
<1>1. 0 \in T
  <2> DEFINE g == [k \in 0..0 |-> a]
  <2>1. g \in [0..0 -> V]
    OBVIOUS
  <2>2. Follows(g, a, step, 0)
    BY DEF Follows
  <2> QED
    BY <2>1, <2>2
<1>2. ASSUME NEW m \in Nat, m \in T PROVE m + 1 \in T
  <2> SUFFICES ASSUME m + 1 <= n
               PROVE  \E g \in [0..(m + 1) -> V] : Follows(g, a, step, m + 1)
    OBVIOUS
  <2>1. PICK g \in [0..m -> V] : Follows(g, a, step, m)
    BY <1>2
  <2> DEFINE b == step[<<m + 1, g[m]>>]
             h == [k \in 0..(m + 1) |-> IF k = m + 1 THEN b ELSE g[k]]
  <2>2. b \in V
    <3>1. <<m + 1, g[m]>> \in (1..n) \X V
      OBVIOUS
    <3> QED
      BY <3>1
  <2>3. h \in [0..(m + 1) -> V]
    <3> HIDE DEF b
    <3> QED
      BY <2>2
  <2>4. \A k \in 0..m : g[k] = IF k = 0 THEN a ELSE step[<<k, g[k-1]>>]
    BY <2>1 DEF Follows
  <2>5. \A k \in 0..(m + 1) : h[k] = IF k = 0 THEN a ELSE step[<<k, h[k-1]>>]
    <3> SUFFICES ASSUME NEW k \in 0..(m + 1)
                 PROVE  h[k] = IF k = 0 THEN a ELSE step[<<k, h[k-1]>>]
      OBVIOUS
    <3>1. CASE k = m + 1
      <4>1. h[k] = b /\ h[k-1] = g[m] /\ k # 0
        BY <3>1
      <4> QED
        BY <3>1, <4>1
    <3>2. CASE k \in 0..m
      <4>1. h[k] = g[k] /\ (k # 0 => h[k-1] = g[k-1])
        BY <3>2
      <4> HIDE DEF h
      <4> QED
        BY <2>4, <3>2, <4>1
    <3> QED
      BY <3>1, <3>2
  <2>6. Follows(h, a, step, m + 1)
    <3> HIDE DEF h
    <3> QED
      BY <2>3, <2>5 DEF Follows
  <2> QED
    BY <2>3, <2>6
<1> HIDE DEF T
<1>3. n \in T
  BY <1>1, <1>2, Induction
<1> QED
  BY <1>3 DEF T

(* The chain upwards.                                                       *)
Up == [x \in (1..Calls) \X (Call \cup {Null}) |->
         IF x[2] = Null THEN Null ELSE links[x[2]]]

LEMMA Chain ==
  ASSUME TypeOK, NEW p \in Call
  PROVE  /\ Ancestor(p) \in [0..Calls -> Call \cup {Null}]
         /\ Ancestor(p)[0] = p
         /\ \A k \in 1..Calls :
              Ancestor(p)[k] = IF Ancestor(p)[k-1] = Null THEN Null
                               ELSE links[Ancestor(p)[k-1]]
<1> DEFINE V == Call \cup {Null}
           up(g) == g = [k \in 0..Calls |->
                           IF k = 0 THEN p
                           ELSE LET q == g[k-1] IN IF q = Null THEN Null ELSE links[q]]
<1>1. Calls \in Nat
  BY CallsAssumption DEF CallsAssumption
<1>2. \A x \in (1..Calls) \X V : Up[x] \in V
  BY DEF TypeOK, Up
<1>3. Up \in [(1..Calls) \X V -> V]
  BY <1>2 DEF Up
<1>4. PICK g \in [0..Calls -> V] : Follows(g, p, Up, Calls)
  BY <1>1, <1>3, Recursion
<1>5. \A k \in 1..Calls : Up[<<k, g[k-1]>>] = IF g[k-1] = Null THEN Null ELSE links[g[k-1]]
  <2> SUFFICES ASSUME NEW k \in 1..Calls
               PROVE  Up[<<k, g[k-1]>>] = IF g[k-1] = Null THEN Null ELSE links[g[k-1]]
    OBVIOUS
  <2>1. g[k-1] \in V
    BY <1>1
  <2>2. <<k, g[k-1]>> \in (1..Calls) \X V
    BY <2>1
  <2> QED
    BY <2>2 DEF Up
<1>6. up(g)
  <2>1. \A k \in 0..Calls :
          (IF k = 0 THEN p ELSE Up[<<k, g[k-1]>>])
            = IF k = 0 THEN p
              ELSE LET q == g[k-1] IN IF q = Null THEN Null ELSE links[q]
    BY <1>1, <1>5
  <2> QED
    BY <1>4, <2>1 DEF Follows
<1>7. Ancestor(p) = CHOOSE h : up(h)
  BY DEF Ancestor
<1>8. up(Ancestor(p))
  <2> HIDE DEF up
  <2> QED
    BY <1>6, <1>7
<1> DEFINE A == Ancestor(p)
<1>9. /\ DOMAIN A = 0..Calls
      /\ \A k \in 0..Calls : A[k] = IF k = 0 THEN p
                                    ELSE IF A[k-1] = Null THEN Null ELSE links[A[k-1]]
  <2> HIDE DEF A
  <2>1. up(A)
    BY <1>8 DEF A
  <2> QED
    BY <2>1
<1> HIDE DEF A
<1>10. \A k \in Nat : k \in 0..Calls => A[k] \in V
  <2> DEFINE T == {k \in Nat : k \in 0..Calls => A[k] \in V}
  <2>1. 0 \in T
    BY <1>9
  <2>2. ASSUME NEW k \in Nat, k \in T PROVE k + 1 \in T
    <3> SUFFICES ASSUME k + 1 \in 0..Calls PROVE A[k + 1] \in V
      OBVIOUS
    <3>1. A[k] \in V /\ A[k + 1] = IF A[k] = Null THEN Null ELSE links[A[k]]
      BY <1>1, <1>9, <2>2
    <3> QED
      BY <3>1 DEF TypeOK
  <2> HIDE DEF T
  <2>3. \A k \in Nat : k \in T
    BY <2>1, <2>2, Induction
  <2> QED
    BY <2>3 DEF T
<1>11. A = [k \in 0..Calls |-> A[k]]
  <2>1. up(A)
    BY <1>8 DEF A
  <2> QED
    BY <1>9, <2>1
<1>12. A \in [0..Calls -> V]
  BY <1>1, <1>9, <1>10, <1>11
<1> QED
  BY <1>1, <1>9, <1>12 DEF A

(* A circle of retries: calls that retry only each other.                   *)
Circle(S) == S \subseteq Call /\ S # {} /\ \A q \in S : links[q] \in S

LEMMA NullIsNoCall == Null \notin Call /\ Calls \in Nat /\ Calls >= 1
BY CallsAssumption DEF CallsAssumption

LEMMA Onwards ==
  ASSUME TypeOK, NEW p \in Call, NEW S, Circle(S), NEW i \in 0..Calls, Ancestor(p)[i] \in S
  PROVE  \A j \in 0..Calls : i <= j => Ancestor(p)[j] \in S
<1> DEFINE A == Ancestor(p)
           T == {k \in Nat : i + k \in 0..Calls => A[i + k] \in S}
<1>1. \A k \in 1..Calls : A[k] = IF A[k-1] = Null THEN Null ELSE links[A[k-1]]
  BY Chain
<1>2. 0 \in T
  BY NullIsNoCall
<1>3. ASSUME NEW k \in Nat, k \in T PROVE k + 1 \in T
  <2> SUFFICES ASSUME i + (k + 1) \in 0..Calls PROVE A[i + (k + 1)] \in S
    OBVIOUS
  <2> DEFINE m == i + k
  <2>1. m \in 0..Calls /\ m + 1 \in 1..Calls /\ A[m] \in S
    BY <1>3, NullIsNoCall
  <2>2. A[m] # Null /\ links[A[m]] \in S
    BY <2>1, NullIsNoCall DEF Circle
  <2> HIDE DEF A, m
  <2>3. A[m + 1] = links[A[m]]
    <3>1. (m + 1) - 1 = m
      BY <2>1, NullIsNoCall
    <3> QED
      BY <1>1, <2>1, <2>2, <3>1
  <2>4. A[m + 1] \in S
    BY <2>2, <2>3
  <2> QED
    BY <2>4 DEF m
<1> HIDE DEF T, A
<1>4. \A k \in Nat : k \in T
  BY <1>2, <1>3, Induction
<1>5. ASSUME NEW j \in 0..Calls, i <= j PROVE A[j] \in S
  <2>1. j - i \in Nat /\ i + (j - i) = j
    BY <1>5, NullIsNoCall
  <2>2. j - i \in T
    BY <1>4, <2>1
  <2> QED
    BY <2>1, <2>2 DEF T
<1> QED
  BY <1>5 DEF A

(* A walk that does not end within Calls steps has met a call twice.        *)
LEMMA LongWalkCircles ==
  ASSUME TypeOK, NEW p \in Call, InCycle(p)
  PROVE  \E S, i : Circle(S) /\ i \in 0..(Calls - 1) /\ Ancestor(p)[i] \in S
                   /\ S \subseteq {Ancestor(p)[k] : k \in 0..Calls}
<1> DEFINE A == Ancestor(p)
<1>1. /\ A \in [0..Calls -> Call \cup {Null}]
      /\ \A k \in 1..Calls : A[k] = IF A[k-1] = Null THEN Null ELSE links[A[k-1]]
  BY Chain
<1>2. A[Calls] # Null
  BY DEF InCycle
<1> HIDE DEF A
<1>3. \A j \in 0..Calls : A[j] \in Call
  <2> DEFINE T == {k \in Nat : k \in 0..Calls => A[Calls - k] # Null}
  <2>1. 0 \in T
    BY <1>2, NullIsNoCall
  <2>2. ASSUME NEW k \in Nat, k \in T PROVE k + 1 \in T
    <3> SUFFICES ASSUME k + 1 \in 0..Calls PROVE A[Calls - (k + 1)] # Null
      OBVIOUS
    <3>1. Calls - k \in 1..Calls /\ (Calls - k) - 1 = Calls - (k + 1)
      BY NullIsNoCall
    <3>2. A[Calls - k] # Null
      BY <2>2, NullIsNoCall
    <3> QED
      BY <1>1, <3>1, <3>2
  <2> HIDE DEF T
  <2>3. \A k \in Nat : k \in T
    BY <2>1, <2>2, Induction
  <2> SUFFICES ASSUME NEW j \in 0..Calls PROVE A[j] \in Call
    OBVIOUS
  <2>4. Calls - j \in Nat /\ Calls - j \in 0..Calls /\ Calls - (Calls - j) = j
    BY NullIsNoCall
  <2>5. A[j] # Null
    BY <2>3, <2>4 DEF T
  <2> QED
    BY <1>1, <2>5
<1>4. PICK x, y \in 0..Calls : x # y /\ A[x] = A[y]
  <2>1. A \in [0..Calls -> Call]
    BY <1>1, <1>3
  <2>2. /\ IsFiniteSet(0..Calls) /\ Cardinality(0..Calls) = Calls + 1
        /\ IsFiniteSet(Call) /\ Cardinality(Call) = Calls
    BY FS_Interval, NullIsNoCall DEF Call
  <2>3. Cardinality(Call) < Cardinality(0..Calls)
    BY <2>2, NullIsNoCall
  <2> DEFINE P == 0..Calls
  <2>4. IsFiniteSet(P) /\ Cardinality(Call) < Cardinality(P) /\ A \in [P -> Call]
    BY <2>1, <2>2, <2>3
  <2> HIDE DEF P
  <2>5. \E x, y \in P : x # y /\ A[x] = A[y]
    BY Zenon, <2>2, <2>4, FS_PigeonHole
  <2> QED
    BY Zenon, <2>5 DEF P
<1>5. PICK i, j \in 0..Calls : i < j /\ A[i] = A[j]
  BY <1>4, NullIsNoCall
<1> DEFINE S == {A[k] : k \in i..(j - 1)}
<1>6. \A k \in i..(j - 1) : k \in 0..Calls /\ k + 1 \in 1..Calls /\ (k + 1) - 1 = k
  BY <1>5, NullIsNoCall
<1>7. \A k \in i..(j - 1) : links[A[k]] = A[k + 1]
  BY <1>1, <1>3, <1>6, NullIsNoCall
<1>8. ASSUME NEW q \in S PROVE links[q] \in S
  <2>1. PICK k \in i..(j - 1) : q = A[k]
    BY <1>8
  <2>2. CASE k = j - 1
    <3>1. links[q] = A[i]
      BY <1>5, <1>7, <2>1, <2>2, NullIsNoCall
    <3>2. i \in i..(j - 1)
      BY <1>5, NullIsNoCall
    <3> QED
      BY <3>1, <3>2
  <2>3. CASE k # j - 1
    <3>1. links[q] = A[k + 1] /\ k + 1 \in i..(j - 1)
      BY <1>5, <1>7, <2>1, <2>3, NullIsNoCall
    <3> QED
      BY <3>1
  <2> QED
    BY <2>2, <2>3
<1>9. A[i] \in S /\ S \subseteq Call /\ S \subseteq {A[k] : k \in 0..Calls}
  <2>1. i \in i..(j - 1)
    BY <1>5, NullIsNoCall
  <2> QED
    BY <1>3, <1>6, <2>1
<1>10. Circle(S)
  <2> HIDE DEF S
  <2> QED
    BY <1>8, <1>9 DEF Circle
<1>11. i \in 0..(Calls - 1)
  BY <1>5, NullIsNoCall
<1> HIDE DEF S
<1> QED
  BY <1>9, <1>10, <1>11 DEF A

LEMMA CirclesNeverEnd ==
  ASSUME TypeOK, NEW p \in Call, NEW S, Circle(S), NEW i \in 0..Calls, Ancestor(p)[i] \in S
  PROVE  InCycle(p)
<1>1. Ancestor(p)[Calls] \in S
  BY Onwards, NullIsNoCall
<1> QED
  BY <1>1, NullIsNoCall DEF InCycle, Circle

(* A retry's walk is its predecessor's, one step later.                     *)
LEMMA Shift ==
  ASSUME TypeOK, NEW p \in Call, NEW q \in Call, links[p] = q
  PROVE  \A k \in 1..Calls : Ancestor(p)[k] = Ancestor(q)[k-1]
<1> DEFINE A == Ancestor(p)
           B == Ancestor(q)
           T == {k \in Nat : k + 1 \in 1..Calls => A[k + 1] = B[k]}
<1>1. /\ A[0] = p /\ B[0] = q
      /\ \A k \in 1..Calls : A[k] = IF A[k-1] = Null THEN Null ELSE links[A[k-1]]
      /\ \A k \in 1..Calls : B[k] = IF B[k-1] = Null THEN Null ELSE links[B[k-1]]
  BY Chain
<1> HIDE DEF A, B
<1>2. 0 \in T
  BY <1>1, NullIsNoCall
<1>3. ASSUME NEW k \in Nat, k \in T PROVE k + 1 \in T
  <2> SUFFICES ASSUME (k + 1) + 1 \in 1..Calls PROVE A[(k + 1) + 1] = B[k + 1]
    OBVIOUS
  <2>1. k + 1 \in 1..Calls /\ (k + 1) - 1 = k /\ ((k + 1) + 1) - 1 = k + 1
    BY NullIsNoCall
  <2>2. A[k + 1] = B[k]
    BY <1>3, <2>1
  <2> QED
    BY <1>1, <2>1, <2>2
<1> HIDE DEF T
<1>4. \A k \in Nat : k \in T
  BY <1>2, <1>3, Induction
<1>5. ASSUME NEW k \in 1..Calls PROVE A[k] = B[k-1]
  <2>1. k - 1 \in Nat /\ (k - 1) + 1 = k
    OBVIOUS
  <2>2. k - 1 \in T
    BY <1>4, <2>1
  <2> QED
    BY <2>1, <2>2 DEF T
<1> QED
  BY <1>5 DEF A, B

(* A retry is in a cycle, or leads into one, just as what it retries.       *)
LEMMA CyclesAreShared ==
  ASSUME TypeOK, NEW p \in Call, NEW q \in Call, links[p] = q
  PROVE  InCycle(p) <=> InCycle(q)
<1>1. Ancestor(p)[0] = p /\ Ancestor(q)[0] = q /\ 0 \in 0..Calls
  BY Chain, NullIsNoCall
<1>2. ASSUME InCycle(p) PROVE InCycle(q)
  <2>1. PICK S, i : Circle(S) /\ i \in 0..(Calls - 1) /\ Ancestor(p)[i] \in S
    BY <1>2, LongWalkCircles
  <2>2. CASE i = 0
    <3>1. Ancestor(q)[0] \in S
      BY <1>1, <2>1, <2>2 DEF Circle
    <3> QED
      BY <1>1, <2>1, <3>1, CirclesNeverEnd
  <2>3. CASE i # 0
    <3>1. i \in 1..Calls /\ i - 1 \in 0..Calls
      BY <2>1, <2>3, NullIsNoCall
    <3>2. Ancestor(q)[i-1] \in S
      BY <2>1, <3>1, Shift
    <3> QED
      BY <2>1, <3>1, <3>2, CirclesNeverEnd
  <2> QED
    BY <2>2, <2>3
<1>3. ASSUME InCycle(q) PROVE InCycle(p)
  <2>1. PICK S, i : Circle(S) /\ i \in 0..(Calls - 1) /\ Ancestor(q)[i] \in S
    BY <1>3, LongWalkCircles
  <2>2. i + 1 \in 1..Calls /\ i + 1 \in 0..Calls /\ (i + 1) - 1 = i
    BY <2>1, NullIsNoCall
  <2>3. Ancestor(p)[i + 1] \in S
    BY <2>1, <2>2, Shift
  <2> QED
    BY <2>1, <2>2, <2>3, CirclesNeverEnd
<1> QED
  BY <1>2, <1>3

-----------------------------------------------------------------------------
(* The family of a call: everything that links reach, in whichever direction.*)
Neighbours == [x \in (1..Calls) \X SUBSET Call |->
                 x[2] \cup {q \in Call : \E r \in x[2] : Linked(q, r)}]

Reaches(R, p) ==
  /\ R \in [0..Calls -> SUBSET Call]
  /\ R[0] = {p}
  /\ \A k \in 1..Calls : R[k] = R[k-1] \cup {q \in Call : \E r \in R[k-1] : Linked(q, r)}

LEMMA FamilyIsReach ==
  ASSUME NEW p \in Call
  PROVE  \E R : Reaches(R, p) /\ Family(p) = R[Calls]
<1> DEFINE V == SUBSET Call
           next(S) == S \cup {q \in Call : \E r \in S : Linked(q, r)}
           reach(g) == g = [k \in 0..Calls |->
                              IF k = 0 THEN {p} ELSE LET S == g[k-1] IN next(S)]
<1>1. Calls \in Nat /\ {p} \in V
  BY NullIsNoCall
<1>2. \A x \in (1..Calls) \X V : Neighbours[x] = next(x[2]) /\ Neighbours[x] \in V
  BY DEF Neighbours
<1>3. Neighbours \in [(1..Calls) \X V -> V]
  BY <1>2 DEF Neighbours
<1>4. PICK g \in [0..Calls -> V] : Follows(g, {p}, Neighbours, Calls)
  BY <1>1, <1>3, Recursion
<1>5. \A k \in 1..Calls : Neighbours[<<k, g[k-1]>>] = next(g[k-1])
  <2> SUFFICES ASSUME NEW k \in 1..Calls
               PROVE  Neighbours[<<k, g[k-1]>>] = next(g[k-1])
    OBVIOUS
  <2>1. g[k-1] \in V
    BY <1>1
  <2>2. <<k, g[k-1]>> \in (1..Calls) \X V /\ <<k, g[k-1]>>[2] = g[k-1]
    BY <2>1
  <2> HIDE DEF next
  <2> QED
    BY <1>2, <2>2
<1>6. reach(g)
  <2> HIDE DEF next
  <2>1. \A k \in 0..Calls :
          (IF k = 0 THEN {p} ELSE Neighbours[<<k, g[k-1]>>])
            = IF k = 0 THEN {p} ELSE LET S == g[k-1] IN next(S)
    BY <1>1, <1>5
  <2> QED
    BY <1>4, <2>1 DEF Follows
<1>7. Family(p) = (CHOOSE h : reach(h))[Calls]
  BY DEF Family
<1> DEFINE R == CHOOSE h : reach(h)
<1>8. reach(R)
  <2> HIDE DEF reach
  <2> QED
    BY <1>6
<1>9. R = [k \in 0..Calls |-> IF k = 0 THEN {p} ELSE next(R[k-1])]
  <2> HIDE DEF R, next
  <2> QED
    BY <1>8
<1> HIDE DEF R
<1>10. R[0] = {p} /\ \A k \in 1..Calls : R[k] = next(R[k-1])
  <2> HIDE DEF next
  <2>1. \A k \in 0..Calls : R[k] = IF k = 0 THEN {p} ELSE next(R[k-1])
    BY Zenon, <1>9
  <2>2. 0 \in 0..Calls /\ \A k \in 1..Calls : k \in 0..Calls /\ k # 0
    BY <1>1
  <2> QED
    BY <2>1, <2>2
<1>11. \A k \in Nat : k \in 0..Calls => R[k] \in V
  <2> DEFINE T == {k \in Nat : k \in 0..Calls => R[k] \in V}
  <2>1. 0 \in T
    BY <1>1, <1>10
  <2>2. ASSUME NEW k \in Nat, k \in T PROVE k + 1 \in T
    <3> SUFFICES ASSUME k + 1 \in 0..Calls PROVE R[k + 1] \in V
      OBVIOUS
    <3>1. R[k] \in V /\ k + 1 \in 1..Calls /\ (k + 1) - 1 = k
      BY <1>1, <2>2
    <3>2. R[k + 1] = next(R[k])
      <4> HIDE DEF next
      <4> QED
        BY <1>10, <3>1
    <3> QED
      BY <3>1, <3>2
  <2> HIDE DEF T
  <2>3. \A k \in Nat : k \in T
    BY <2>1, <2>2, Induction
  <2> QED
    BY <2>3 DEF T
<1>12. R \in [0..Calls -> V]
  <2>1. DOMAIN R = 0..Calls /\ R = [k \in 0..Calls |-> R[k]]
    <3> HIDE DEF next
    <3> QED
      BY <1>9
  <2> QED
    BY <1>1, <1>11, <2>1
<1>13. Reaches(R, p)
  BY <1>10, <1>12 DEF Reaches
<1> QED
  BY <1>7, <1>13 DEF R

(* After as many rounds as there are calls nothing is added any more.       *)
LEMMA ReachCloses ==
  ASSUME NEW p \in Call, NEW R, Reaches(R, p)
  PROVE  \A r \in R[Calls] : \A q \in Call : Linked(q, r) => q \in R[Calls]
<1> DEFINE next(S) == S \cup {q \in Call : \E r \in S : Linked(q, r)}
           T == {k \in Nat : k \in 0..Calls =>
                    next(R[k]) = R[k] \/ Cardinality(R[k]) >= k + 1}
<1>1. /\ R[0] = {p} /\ \A k \in 1..Calls : R[k] = next(R[k-1])
      /\ \A k \in 0..Calls : R[k] \in SUBSET Call
  BY DEF Reaches
<1>2. IsFiniteSet(Call) /\ Cardinality(Call) = Calls
  BY FS_Interval, NullIsNoCall DEF Call
<1>3. \A S \in SUBSET Call : IsFiniteSet(S) /\ Cardinality(S) \in Nat
                             /\ Cardinality(S) <= Calls
  BY <1>2, FS_Subset, FS_CardinalityType
<1>4. 0 \in T
  <2>1. Cardinality(R[0]) = 1
    BY <1>1, FS_Singleton
  <2> QED
    BY <2>1
<1>5. ASSUME NEW k \in Nat, k \in T PROVE k + 1 \in T
  <2> SUFFICES ASSUME k + 1 \in 0..Calls
               PROVE  next(R[k + 1]) = R[k + 1] \/ Cardinality(R[k + 1]) >= (k + 1) + 1
    OBVIOUS
  <2>1. k \in 0..Calls /\ k + 1 \in 1..Calls /\ (k + 1) - 1 = k
    BY NullIsNoCall
  <2>2. R[k + 1] = next(R[k])
    <3> HIDE DEF next
    <3> QED
      BY <1>1, <2>1
  <2>3. CASE next(R[k]) = R[k]
    <3> HIDE DEF next
    <3> QED
      BY <2>2, <2>3
  <2>4. CASE next(R[k]) # R[k]
    <3>1. Cardinality(R[k]) >= k + 1
      <4> HIDE DEF next
      <4> QED
        BY <1>5, <2>1, <2>4
    <3>2. R[k] \in SUBSET R[k + 1]
      BY <2>2
    <3>3. R[k] # R[k + 1]
      <4> HIDE DEF next
      <4> QED
        BY <2>2, <2>4
    <3>4. Cardinality(R[k]) <= Cardinality(R[k + 1])
          /\ Cardinality(R[k]) # Cardinality(R[k + 1])
      <4>1. IsFiniteSet(R[k + 1])
        BY <1>1, <1>3, <2>1
      <4> QED
        BY <3>2, <3>3, <4>1, FS_Subset
    <3>5. Cardinality(R[k]) \in Nat /\ Cardinality(R[k + 1]) \in Nat
      BY <1>1, <1>3, <2>1
    <3> QED
      BY <3>1, <3>4, <3>5
  <2> QED
    BY <2>3, <2>4
<1> HIDE DEF T
<1>6. \A k \in Nat : k \in T
  BY <1>4, <1>5, Induction
<1>7. next(R[Calls]) = R[Calls]
  <2>1. Cardinality(R[Calls]) \in Nat /\ Cardinality(R[Calls]) <= Calls /\ Calls \in 0..Calls
    BY <1>1, <1>3, NullIsNoCall
  <2>2. next(R[Calls]) = R[Calls] \/ Cardinality(R[Calls]) >= Calls + 1
    BY <1>6, <2>1, NullIsNoCall DEF T
  <2> HIDE DEF next
  <2> QED
    BY <2>1, <2>2, NullIsNoCall
<1> QED
  BY <1>7

(* The family is the least set with the call that no link leaves.           *)
Whole(S) == S \subseteq Call /\ \A r \in S : \A q \in Call : Linked(q, r) => q \in S

LEMMA FamilyIsWhole ==
  ASSUME NEW p \in Call
  PROVE  /\ Whole(Family(p)) /\ p \in Family(p)
         /\ \A S : Whole(S) /\ p \in S => Family(p) \subseteq S
<1>1. PICK R : Reaches(R, p) /\ Family(p) = R[Calls]
  BY FamilyIsReach
<1>2. Calls \in 0..Calls /\ 0 \in 0..Calls
  BY NullIsNoCall
<1>3. Whole(Family(p))
  <2>1. \A r \in R[Calls] : \A q \in Call : Linked(q, r) => q \in R[Calls]
    BY <1>1, ReachCloses
  <2>2. R[Calls] \subseteq Call
    BY <1>1, <1>2 DEF Reaches
  <2> QED
    BY <1>1, <2>1, <2>2 DEF Whole
<1>4. ASSUME NEW S, Whole(S), p \in S PROVE \A k \in Nat : k \in 0..Calls => R[k] \subseteq S
  <2> DEFINE T == {k \in Nat : k \in 0..Calls => R[k] \subseteq S}
  <2>1. 0 \in T
    BY <1>1, <1>4 DEF Reaches
  <2>2. ASSUME NEW k \in Nat, k \in T PROVE k + 1 \in T
    <3> SUFFICES ASSUME k + 1 \in 0..Calls PROVE R[k + 1] \subseteq S
      OBVIOUS
    <3>1. k \in 0..Calls /\ k + 1 \in 1..Calls /\ (k + 1) - 1 = k
      BY NullIsNoCall
    <3>2. R[k] \subseteq S
      BY <2>2, <3>1
    <3>3. R[k + 1] = R[k] \cup {q \in Call : \E r \in R[k] : Linked(q, r)}
      BY <1>1, <3>1 DEF Reaches
    <3> QED
      BY <1>4, <3>2, <3>3 DEF Whole
  <2> HIDE DEF T
  <2>3. \A k \in Nat : k \in T
    BY <2>1, <2>2, Induction
  <2> QED
    BY <2>3 DEF T
<1>5. \A k \in Nat : k \in 0..Calls => p \in R[k]
  <2> DEFINE T == {k \in Nat : k \in 0..Calls => p \in R[k]}
  <2>1. 0 \in T
    BY <1>1 DEF Reaches
  <2>2. ASSUME NEW k \in Nat, k \in T PROVE k + 1 \in T
    <3> SUFFICES ASSUME k + 1 \in 0..Calls PROVE p \in R[k + 1]
      OBVIOUS
    <3>1. k \in 0..Calls /\ k + 1 \in 1..Calls /\ (k + 1) - 1 = k
      BY NullIsNoCall
    <3>2. R[k + 1] = R[k] \cup {q \in Call : \E r \in R[k] : Linked(q, r)}
      BY <1>1, <3>1 DEF Reaches
    <3> QED
      BY <2>2, <3>1, <3>2
  <2> HIDE DEF T
  <2>3. \A k \in Nat : k \in T
    BY <2>1, <2>2, Induction
  <2> QED
    BY <2>3 DEF T
<1> QED
  BY <1>1, <1>2, <1>3, <1>4, <1>5, NullIsNoCall

LEMMA FamiliesAgree ==
  ASSUME NEW p \in Call, NEW q \in Family(p)
  PROVE  q \in Call /\ Family(q) = Family(p)
<1> DEFINE S == {r \in Call : Family(r) = Family(p)}
<1>1. ASSUME NEW r \in Call, NEW s \in Call, Linked(s, r)
      PROVE  Family(s) = Family(r)
  <2>1. Linked(r, s)
    BY <1>1 DEF Linked
  <2>2. s \in Family(r) /\ r \in Family(s)
    BY <1>1, <2>1, FamilyIsWhole DEF Whole
  <2> QED
    BY <2>2, FamilyIsWhole
<1>2. Whole(S)
  BY <1>1 DEF Whole
<1>3. Family(p) \subseteq S
  <2> HIDE DEF S
  <2>1. p \in S
    BY DEF S
  <2> QED
    BY <1>2, <2>1, FamilyIsWhole
<1> QED
  BY <1>3

(* chain raises for the calls of circular families, and for all of them.    *)
LEMMA AncestorsAreFamily ==
  ASSUME TypeOK, NEW p \in Call
  PROVE  \A k \in 0..Calls : Ancestor(p)[k] # Null => Ancestor(p)[k] \in Family(p)
<1> DEFINE A == Ancestor(p)
           T == {k \in Nat : k \in 0..Calls /\ A[k] # Null => A[k] \in Family(p)}
<1>1. /\ A \in [0..Calls -> Call \cup {Null}] /\ A[0] = p
      /\ \A k \in 1..Calls : A[k] = IF A[k-1] = Null THEN Null ELSE links[A[k-1]]
  BY Chain
<1> HIDE DEF A
<1>2. 0 \in T
  BY <1>1, FamilyIsWhole
<1>3. ASSUME NEW k \in Nat, k \in T PROVE k + 1 \in T
  <2> SUFFICES ASSUME k + 1 \in 0..Calls, A[k + 1] # Null PROVE A[k + 1] \in Family(p)
    OBVIOUS
  <2>1. k \in 0..Calls /\ k + 1 \in 1..Calls /\ (k + 1) - 1 = k
    BY NullIsNoCall
  <2>2. A[k] # Null /\ A[k + 1] = links[A[k]]
    BY <1>1, <2>1
  <2>3. A[k] \in Family(p)
    BY <1>3, <2>1, <2>2
  <2>4. A[k + 1] \in Call
    BY <1>1
  <2>5. Linked(A[k + 1], A[k])
    BY <2>2 DEF Linked
  <2> QED
    BY <2>3, <2>4, <2>5, FamilyIsWhole DEF Whole
<1> HIDE DEF T
<1>4. \A k \in Nat : k \in T
  BY <1>2, <1>3, Induction
<1> QED
  BY <1>4 DEF T, A

LEMMA FamilySharesCycle ==
  ASSUME TypeOK, NEW p \in Call, NEW q \in Family(p)
  PROVE  InCycle(q) <=> InCycle(p)
<1> DEFINE S == {r \in Call : InCycle(r) <=> InCycle(p)}
<1>1. ASSUME NEW r \in Call, NEW s \in Call, Linked(s, r)
      PROVE  InCycle(s) <=> InCycle(r)
  BY <1>1, CyclesAreShared DEF Linked
<1>2. Whole(S)
  BY <1>1 DEF Whole
<1>3. p \in S
  OBVIOUS
<1> HIDE DEF S
<1>4. Family(p) \subseteq S
  BY <1>2, <1>3, FamilyIsWhole
<1> QED
  BY <1>4 DEF S

LEMMA CyclesAreCircular ==
  ASSUME TypeOK, NEW p \in Call
  PROVE  InCycle(p) <=> Circular(p)
<1>1. ASSUME InCycle(p) PROVE Circular(p)
  <2>1. PICK S, i : Circle(S) /\ S \subseteq {Ancestor(p)[k] : k \in 0..Calls}
    BY <1>1, LongWalkCircles
  <2>2. S \subseteq Family(p)
    <3> SUFFICES ASSUME NEW q \in S PROVE q \in Family(p)
      OBVIOUS
    <3>1. PICK k \in 0..Calls : q = Ancestor(p)[k]
      BY <2>1
    <3>2. q # Null
      BY <2>1, NullIsNoCall DEF Circle
    <3> QED
      BY <3>1, <3>2, AncestorsAreFamily
  <2> QED
    BY <2>1, <2>2 DEF Circular, Circle
<1>2. ASSUME Circular(p) PROVE InCycle(p)
  <2>1. PICK S \in SUBSET Family(p) : S # {} /\ \A q \in S : links[q] \in S
    BY <1>2 DEF Circular
  <2>2. S \subseteq Call
    BY FamilyIsWhole DEF Whole
  <2>3. Circle(S)
    BY <2>1, <2>2 DEF Circle
  <2>4. PICK q \in S : TRUE
    BY <2>1
  <2>5. Ancestor(q)[0] \in S /\ 0 \in 0..Calls
    BY <2>2, <2>4, Chain, NullIsNoCall
  <2>6. InCycle(q)
    BY <2>2, <2>3, <2>4, <2>5, CirclesNeverEnd
  <2> QED
    BY <2>4, <2>6, FamilySharesCycle
<1> QED
  BY <1>1, <1>2

(* Depth and root of a call whose walk ends.                                *)
LEMMA MaxOf ==
  ASSUME NEW n \in Nat, NEW S \in SUBSET (0..n), S # {}
  PROVE  Max(S) \in S /\ \A x \in S : x <= Max(S)
<1> DEFINE T == {k \in Nat : n - k \in S}
<1>1. T \in SUBSET Nat /\ T # {}
  <2>1. PICK x \in S : TRUE
    OBVIOUS
  <2>2. n - x \in Nat /\ n - (n - x) = x
    OBVIOUS
  <2> QED
    BY <2>1, <2>2
<1>2. PICK k \in T : \A j \in T : k <= j
  BY <1>1, Least
<1>3. \A y \in S : n - k >= y
  <2> SUFFICES ASSUME NEW y \in S PROVE n - k >= y
    OBVIOUS
  <2>1. n - y \in T
    OBVIOUS
  <2>2. k <= n - y /\ k \in Nat /\ y \in Nat
    BY <1>2, <2>1
  <2> QED
    BY <2>2
<1>4. n - k \in S
  BY <1>2
<1>5. \E x \in S : \A y \in S : x >= y
  BY <1>3, <1>4
<1>6. Max(S) \in S /\ \A y \in S : Max(S) >= y
  BY <1>5 DEF Max
<1> QED
  BY <1>6

(* The walk ends behind the root, which is Depth steps away.                *)
LEMMA DepthIs ==
  ASSUME TypeOK, NEW p \in Call, ~InCycle(p)
  PROVE  /\ Depth(p) \in 0..(Calls - 1)
         /\ \A k \in 0..Calls : Ancestor(p)[k] # Null <=> k <= Depth(p)
         /\ Root(p) \in Call /\ Root(p) \in Family(p) /\ links[Root(p)] = Null
<1> DEFINE A == Ancestor(p)
           S == {k \in 0..Calls : A[k] # Null}
           d == Depth(p)
<1>1. /\ A \in [0..Calls -> Call \cup {Null}] /\ A[0] = p
      /\ \A k \in 1..Calls : A[k] = IF A[k-1] = Null THEN Null ELSE links[A[k-1]]
  BY Chain
<1>2. A[Calls] = Null
  BY DEF InCycle
<1>3. d = Max(S)
  BY DEF Depth
<1> HIDE DEF A, d
<1>4. d \in S /\ \A x \in S : x <= d
  <2>1. 0 \in S
    BY <1>1, NullIsNoCall
  <2>2. S \in SUBSET (0..Calls) /\ S # {}
    BY <2>1
  <2> HIDE DEF S
  <2> QED
    BY <1>3, <2>2, MaxOf, NullIsNoCall
<1>5. d \in 0..(Calls - 1)
  BY <1>2, <1>4, NullIsNoCall
<1>6. \A k \in Nat : k \in 0..Calls /\ A[k] # Null => \A j \in 0..k : A[j] # Null
  <2> DEFINE T == {k \in Nat : k \in 0..Calls /\ A[k] # Null => \A j \in 0..k : A[j] # Null}
  <2>1. 0 \in T
    BY <1>1
  <2>2. ASSUME NEW k \in Nat, k \in T PROVE k + 1 \in T
    <3> SUFFICES ASSUME k + 1 \in 0..Calls, A[k + 1] # Null, NEW j \in 0..(k + 1)
                 PROVE  A[j] # Null
      OBVIOUS
    <3>1. k \in 0..Calls /\ k + 1 \in 1..Calls /\ (k + 1) - 1 = k
      BY NullIsNoCall
    <3>2. A[k] # Null
      BY <1>1, <3>1
    <3>3. CASE j = k + 1
      BY <3>3
    <3>4. CASE j \in 0..k
      BY <2>2, <3>1, <3>2, <3>4
    <3> QED
      BY <3>3, <3>4
  <2> HIDE DEF T
  <2>3. \A k \in Nat : k \in T
    BY <2>1, <2>2, Induction
  <2> QED
    BY <2>3 DEF T
<1>7. \A k \in 0..Calls : A[k] # Null <=> k <= d
  <2> SUFFICES ASSUME NEW k \in 0..Calls PROVE A[k] # Null <=> k <= d
    OBVIOUS
  <2>1. A[k] # Null => k <= d
    BY <1>4
  <2>2. k <= d => k \in 0..d
    BY <1>5, NullIsNoCall
  <2>3. A[d] # Null /\ d \in 0..Calls /\ d \in Nat
    BY <1>4, NullIsNoCall
  <2> QED
    BY <1>6, <2>1, <2>2, <2>3
<1>8. Root(p) = A[d]
  BY DEF Root, A, d
<1>9. A[d] \in Call /\ A[d] # Null /\ A[d] \in Family(p)
  BY <1>1, <1>4, AncestorsAreFamily DEF A
<1>10. links[A[d]] = Null
  <2>1. d + 1 \in 1..Calls /\ d + 1 \in 0..Calls /\ (d + 1) - 1 = d /\ ~(d + 1 <= d)
    BY <1>5, NullIsNoCall
  <2>2. A[d + 1] = Null
    BY <1>7, <2>1
  <2> QED
    BY <1>1, <1>9, <2>1, <2>2
<1> QED
  BY <1>5, <1>7, <1>8, <1>9, <1>10 DEF A, d

LEMMA RetryIsDeeper ==
  ASSUME TypeOK, NEW p \in Call, NEW q \in Call, links[p] = q, ~InCycle(p)
  PROVE  ~InCycle(q) /\ Depth(p) = Depth(q) + 1 /\ Root(p) = Root(q)
<1>1. ~InCycle(q)
  BY CyclesAreShared
<1> DEFINE A == Ancestor(p)
           B == Ancestor(q)
           d == Depth(p)
           e == Depth(q)
<1>2. /\ d \in 0..(Calls - 1) /\ e \in 0..(Calls - 1)
      /\ \A k \in 0..Calls : A[k] # Null <=> k <= d
      /\ \A k \in 0..Calls : B[k] # Null <=> k <= e
  BY <1>1, DepthIs
<1>3. \A k \in 1..Calls : A[k] = B[k-1]
  BY Shift
<1> HIDE DEF A, B, d, e
<1>4. e + 1 <= d
  <2>1. e + 1 \in 1..Calls /\ e + 1 \in 0..Calls /\ (e + 1) - 1 = e /\ e \in 0..Calls
    BY <1>2, NullIsNoCall
  <2>2. A[e + 1] = B[e] /\ B[e] # Null
    BY <1>2, <1>3, <2>1
  <2> QED
    BY <1>2, <2>1, <2>2
<1>5. d - 1 <= e
  <2>1. d \in 1..Calls /\ d \in 0..Calls /\ d - 1 \in 0..Calls
    BY <1>2, <1>4, NullIsNoCall
  <2>2. A[d] = B[d-1] /\ A[d] # Null
    BY <1>2, <1>3, <2>1
  <2> QED
    BY <1>2, <2>1, <2>2
<1>6. d = e + 1 /\ d \in 1..Calls /\ d - 1 = e
  BY <1>2, <1>4, <1>5, NullIsNoCall
<1>7. A[d] = B[e]
  BY <1>3, <1>6
<1> QED
  BY <1>1, <1>6, <1>7 DEF A, B, d, e, Root

LEMMA RootOfRoot ==
  ASSUME TypeOK, NEW p \in Call, ~InCycle(p)
  PROVE  links[p] = Null <=> Depth(p) = 0
<1>1. /\ Ancestor(p)[0] = p
      /\ Ancestor(p)[1] = IF p = Null THEN Null ELSE links[p]
      /\ 1 \in 0..Calls /\ p # Null
  BY Chain, NullIsNoCall
<1>2. Depth(p) \in 0..(Calls - 1) /\ (Ancestor(p)[1] # Null <=> 1 <= Depth(p))
  BY <1>1, DepthIs
<1> QED
  BY <1>1, <1>2, NullIsNoCall

(* The calls of a family without a circle are those with its root.          *)
LEMMA FamilyByRoot ==
  ASSUME TypeOK, NEW p \in Call, ~InCycle(p)
  PROVE  Family(p) = {q \in Call : ~InCycle(q) /\ Root(q) = Root(p)}
<1> DEFINE S == {q \in Call : ~InCycle(q) /\ Root(q) = Root(p)}
<1>1. ASSUME NEW r \in Call, NEW s \in Call, Linked(s, r), ~InCycle(r)
      PROVE  ~InCycle(s) /\ Root(s) = Root(r)
  <2>1. CASE links[s] = r
    BY <1>1, <2>1, CyclesAreShared, RetryIsDeeper
  <2>2. CASE links[r] = s
    BY <1>1, <2>2, RetryIsDeeper
  <2> QED
    BY <1>1, <2>1, <2>2 DEF Linked
<1>2. Whole(S)
  BY <1>1 DEF Whole
<1>3. p \in S
  OBVIOUS
<1>4. Family(p) \subseteq S
  <2> HIDE DEF S
  <2> QED
    BY <1>2, <1>3, FamilyIsWhole
<1>5. ASSUME NEW q \in S PROVE q \in Family(p)
  <2>1. Root(p) \in Family(p) /\ Root(p) \in Family(q)
    BY DepthIs
  <2>2. Family(Root(p)) = Family(p) /\ Family(Root(p)) = Family(q)
    BY <2>1, FamiliesAgree
  <2>3. q \in Family(q)
    BY FamilyIsWhole
  <2> QED
    BY <2>2, <2>3
<1> QED
  BY <1>4, <1>5


-----------------------------------------------------------------------------
(* s lists the calls of S, each once.                                       *)
Lists(s, S) ==
  /\ s \in Seq(Call) /\ S \subseteq Call
  /\ \A i \in 1..Len(s) : s[i] \in S
  /\ \A c \in S : \E i \in 1..Len(s) : s[i] = c
  /\ \A i, j \in 1..Len(s) : s[i] = s[j] => i = j

(* Any set of calls can be put in order.                                    *)
Orders(s, S) ==
  /\ s \in [1..Cardinality(S) -> S]
  /\ \A i, j \in 1..Cardinality(S) : i < j => s[i] < s[j]

LEMMA SetsOfCalls ==
  ASSUME NEW S \in SUBSET Call
  PROVE  IsFiniteSet(S) /\ Cardinality(S) \in 0..Calls
<1>1. IsFiniteSet(Call) /\ Cardinality(Call) = Calls
  BY FS_Interval, NullIsNoCall DEF Call
<1> QED
  BY <1>1, FS_Subset, FS_CardinalityType, NullIsNoCall

LEMMA CallsAreNumbers == \A c \in Call : c \in Int /\ c \in 0..Calls
BY NullIsNoCall DEF Call

LEMMA OrderExists ==
  ASSUME NEW S \in SUBSET Call
  PROVE  \E s : Orders(s, S)
<1> DEFINE T == {n \in Nat : \A Z \in SUBSET Call : Cardinality(Z) = n => \E s : Orders(s, Z)}
<1>1. 0 \in T
  <2> SUFFICES ASSUME NEW Z \in SUBSET Call, Cardinality(Z) = 0 PROVE \E s : Orders(s, Z)
    OBVIOUS
  <2> DEFINE z == [i \in 1..0 |-> 1]
  <2>1. z \in [1..0 -> Z] /\ ~ \E i : i \in 1..0
    OBVIOUS
  <2> HIDE DEF z
  <2>2. Orders(z, Z)
    BY <2>1 DEF Orders
  <2> QED
    BY <2>2
<1>2. ASSUME NEW n \in Nat, n \in T PROVE n + 1 \in T
  <2> SUFFICES ASSUME NEW Z \in SUBSET Call, Cardinality(Z) = n + 1
               PROVE  \E s : Orders(s, Z)
    OBVIOUS
  <2>1. IsFiniteSet(Z) /\ Z # {}
    BY SetsOfCalls, FS_EmptySet
  <2>2. Z \in SUBSET (0..Calls)
    BY DEF Call
  <2> DEFINE m == Max(Z)
             Y == Z \ {m}
  <2>3. m \in Z /\ \A x \in Z : x <= m
    BY <2>1, <2>2, MaxOf, NullIsNoCall
  <2> HIDE DEF m
  <2>4. Y \in SUBSET Call /\ Cardinality(Y) = n
    BY <2>1, <2>3, FS_RemoveElement
  <2> HIDE DEF Y
  <2>5. PICK s : Orders(s, Y)
    BY <1>2, <2>4
  <2> DEFINE t == [i \in 1..(n + 1) |-> IF i = n + 1 THEN m ELSE s[i]]
  <2>6. s \in [1..n -> Y] /\ \A i, j \in 1..n : i < j => s[i] < s[j]
    BY <2>4, <2>5 DEF Orders
  <2>7. \A i \in 1..n : s[i] \in Z /\ s[i] < m
    <3> SUFFICES ASSUME NEW i \in 1..n PROVE s[i] \in Z /\ s[i] < m
      OBVIOUS
    <3>1. s[i] \in Z /\ s[i] # m
      BY <2>6 DEF Y
    <3>2. s[i] \in Int /\ m \in Int
      BY <2>3, <3>1, CallsAreNumbers
    <3> QED
      BY <2>3, <3>1, <3>2
  <2>8. t \in [1..(n + 1) -> Z]
    BY <2>3, <2>7
  <2>9. ASSUME NEW i \in 1..(n + 1), NEW j \in 1..(n + 1), i < j PROVE t[i] < t[j]
    <3>1. i \in 1..n /\ t[i] = s[i]
      BY <2>9
    <3>2. CASE j = n + 1
      BY <2>7, <3>1, <3>2
    <3>3. CASE j # n + 1
      BY <2>6, <2>9, <3>1, <3>3
    <3> QED
      BY <3>2, <3>3
  <2>10. Orders(t, Z)
    <3> HIDE DEF t
    <3> QED
      BY <2>8, <2>9 DEF Orders
  <2> QED
    BY <2>10
<1> HIDE DEF T
<1>3. \A n \in Nat : n \in T
  BY <1>1, <1>2, Induction
<1>4. Cardinality(S) \in Nat
  BY SetsOfCalls, NullIsNoCall
<1> QED
  BY <1>3, <1>4 DEF T

LEMMA ChildrenListed ==
  ASSUME TypeOK, NEW q \in Call
  PROVE  Lists(Children(q), {c \in Call : links[c] = q})
<1> DEFINE S == {c \in Call : links[c] = q}
           n == Cardinality(S)
           sorted(s) == \A i, j \in DOMAIN s : i < j => s[i] < s[j]
           C == Children(q)
<1>1. n \in Nat /\ IsFiniteSet(S) /\ S \in SUBSET Call
  BY SetsOfCalls, NullIsNoCall
<1>2. PICK s : Orders(s, S)
  BY OrderExists
<1> HIDE DEF S
<1>3. s \in [1..n -> S] /\ \A i, j \in 1..n : i < j => s[i] < s[j]
  BY <1>2 DEF Orders
<1>4. ASSUME NEW i \in 1..n, NEW j \in 1..n, i # j PROVE s[i] # s[j]
  <2>1. s[i] \in Int /\ s[j] \in Int
    <3>1. s[i] \in S /\ s[j] \in S
      BY <1>3
    <3> QED
      BY <1>1, <3>1, CallsAreNumbers
  <2>2. CASE i < j
    BY <1>3, <2>1, <2>2
  <2>3. CASE j < i
    BY <1>3, <2>1, <2>3
  <2> QED
    BY <1>1, <1>4, <2>2, <2>3
<1>5. s \in SetToSeqs(S)
  BY <1>3, <1>4 DEF SetToSeqs
<1>6. C = CHOOSE z \in SetToSeqs(S) : sorted(z)
  BY DEF Children, S
<1>7. sorted(s)
  BY <1>3
<1>8. C \in SetToSeqs(S)
  <2> HIDE DEF sorted, C
  <2> QED
    BY <1>5, <1>6, <1>7
<1> HIDE DEF C
<1>9. C \in [1..n -> S] /\ \A i, j \in 1..n : i # j => C[i] # C[j]
  BY <1>8 DEF SetToSeqs
<1>10. C \in Injection(1..n, S)
  BY <1>9 DEF Injection, IsInjective
<1>11. Cardinality(1..n) = n
  BY <1>1, FS_Interval
<1>12. C \in Surjection(1..n, S)
  BY <1>1, <1>10, <1>11, FS_Injection
<1>13. \A c \in S : \E i \in 1..n : C[i] = c
  BY <1>12 DEF Surjection
<1>14. C \in Seq(Call) /\ Len(C) = n
  BY <1>1, <1>9
<1>15. Lists(C, S)
  BY <1>1, <1>9, <1>13, <1>14 DEF Lists
<1> QED
  BY <1>15 DEF C, S

(* Lists of different calls, one behind the other.                          *)
LEMMA ConcatLists ==
  ASSUME NEW s, NEW t, NEW S, NEW T, Lists(s, S), Lists(t, T), S \cap T = {}
  PROVE  /\ Lists(s \o t, S \cup T)
         /\ s # <<>> => (s \o t)[1] = s[1]
<1> DEFINE m == Len(s)
           n == Len(t)
           u == s \o t
<1>1. /\ s \in Seq(Call) /\ t \in Seq(Call) /\ m \in Nat /\ n \in Nat
      /\ s \in [1..m -> Call] /\ t \in [1..n -> Call]
  BY LenProperties DEF Lists
<1>2. /\ u \in Seq(Call) /\ Len(u) = m + n
      /\ \A i \in 1..(m + n) : u[i] = IF i <= m THEN s[i] ELSE t[i - m]
  BY <1>1, ConcatProperties
<1> HIDE DEF m, n, u
<1>3. \A i \in 1..m : i \in 1..(m + n) /\ i <= m /\ u[i] = s[i] /\ u[i] \in S
  BY <1>1, <1>2 DEF Lists, m
<1>4. \A i \in 1..n : m + i \in 1..(m + n) /\ u[m + i] = t[i] /\ u[m + i] \in T
  <2> SUFFICES ASSUME NEW i \in 1..n
               PROVE  m + i \in 1..(m + n) /\ u[m + i] = t[i] /\ u[m + i] \in T
    OBVIOUS
  <2>1. m + i \in 1..(m + n) /\ (m + i) - m = i /\ ~(m + i <= m)
    BY <1>1
  <2>2. u[m + i] = t[i]
    BY <1>2, <2>1
  <2> QED
    BY <2>1, <2>2 DEF Lists, n
<1>5. \A i \in 1..(m + n) : i \in 1..m \/ (i - m \in 1..n /\ i = m + (i - m))
  BY <1>1
<1>6. \A i \in 1..Len(u) : u[i] \in S \cup T
  BY <1>2, <1>3, <1>4, <1>5
<1>7. \A c \in S \cup T : \E i \in 1..Len(u) : u[i] = c
  <2> SUFFICES ASSUME NEW c \in S \cup T PROVE \E i \in 1..(m + n) : u[i] = c
    BY <1>2
  <2>1. CASE c \in S
    <3>1. PICK i \in 1..m : s[i] = c
      BY <2>1 DEF Lists, m
    <3> QED
      BY <1>3, <3>1
  <2>2. CASE c \in T
    <3>1. PICK i \in 1..n : t[i] = c
      BY <2>2 DEF Lists, n
    <3> QED
      BY <1>4, <3>1
  <2> QED
    BY <2>1, <2>2
<1>8. ASSUME NEW i \in 1..(m + n), NEW j \in 1..(m + n), u[i] = u[j] PROVE i = j
  <2>1. CASE i \in 1..m /\ j \in 1..m
    BY <1>3, <1>8, <2>1 DEF Lists, m
  <2>2. CASE i \in 1..m /\ j - m \in 1..n
    <3>1. j = m + (j - m)
      BY <1>1
    <3> QED
      BY <1>3, <1>4, <1>8, <2>2, <3>1
  <2>3. CASE i - m \in 1..n /\ j \in 1..m
    <3>1. i = m + (i - m)
      BY <1>1
    <3> QED
      BY <1>3, <1>4, <1>8, <2>3, <3>1
  <2>4. CASE i - m \in 1..n /\ j - m \in 1..n
    <3>1. i = m + (i - m) /\ j = m + (j - m)
      BY <1>1
    <3>2. t[i - m] = t[j - m]
      BY <1>4, <1>8, <2>4, <3>1
    <3>3. i - m = j - m
      BY <2>4, <3>2 DEF Lists, n
    <3> QED
      BY <3>1, <3>3
  <2> QED
    BY <1>5, <2>1, <2>2, <2>3, <2>4
<1>9. Lists(u, S \cup T)
  <2>1. S \cup T \subseteq Call
    BY DEF Lists
  <2> QED
    BY <1>2, <1>6, <1>7, <1>8, <2>1 DEF Lists
<1>10. s # <<>> => u[1] = s[1]
  <2> SUFFICES ASSUME s # <<>> PROVE u[1] = s[1]
    OBVIOUS
  <2>1. m # 0
    BY <1>1, EmptySeq DEF m
  <2>2. 1 \in 1..m
    BY <1>1, <2>1
  <2> QED
    BY <1>3, <2>2
<1> QED
  BY <1>9, <1>10 DEF u

(* FlattenSeq, for lists of different calls.                                *)
LEMMA FlattenLists ==
  ASSUME NEW n \in Nat, NEW seqs \in [1..n -> Seq(Call)], NEW parts \in [1..n -> SUBSET Call],
         \A i \in 1..n : Lists(seqs[i], parts[i]),
         \A i, j \in 1..n : i # j => parts[i] \cap parts[j] = {}
  PROVE  /\ Lists(FlattenSeq(seqs), UNION {parts[i] : i \in 1..n})
         /\ n >= 1 /\ seqs[1] # <<>> => FlattenSeq(seqs)[1] = seqs[1][1]
<1> DEFINE V == Seq(Call)
           upTo(i) == UNION {parts[j] : j \in 1..i}
<1>1. seqs \in Seq(V) /\ Len(seqs) = n
  OBVIOUS
<1>2. CASE n = 0
  <2>1. FlattenSeq(seqs) = seqs
    BY <1>1, <1>2 DEF FlattenSeq
  <2>2. seqs = <<>>
    BY <1>1, <1>2
  <2>3. Lists(<<>>, {})
    BY DEF Lists
  <2>4. UNION {parts[i] : i \in 1..n} = {}
    BY <1>2
  <2>5. Lists(FlattenSeq(seqs), UNION {parts[i] : i \in 1..n})
    BY Zenon, <2>1, <2>2, <2>3, <2>4
  <2>6. ~(n >= 1)
    BY <1>2
  <2> QED
    BY Zenon, <2>5, <2>6
<1>3. CASE n # 0
  <2> DEFINE flat(g) == g = [i \in 1..n |-> IF i = 1 THEN seqs[i] ELSE g[i-1] \o seqs[i]]
             step == [x \in (1..(n - 1)) \X V |-> x[2] \o seqs[x[1] + 1]]
             F == CHOOSE g : flat(g)
  <2>1. FlattenSeq(seqs) = F[n]
    BY <1>1, <1>3 DEF FlattenSeq
  <2>2. n - 1 \in Nat /\ seqs[1] \in V
    BY <1>3
  <2>3. ASSUME NEW x \in (1..(n - 1)) \X V PROVE step[x] = x[2] \o seqs[x[1] + 1] /\ step[x] \in V
    <3>1. x[1] + 1 \in 1..n /\ x[2] \in V
      BY <2>2
    <3>2. seqs[x[1] + 1] \in V
      BY <3>1
    <3> QED
      BY <3>1, <3>2, ConcatProperties
  <2>4. step \in [(1..(n - 1)) \X V -> V]
    BY <2>3
  <2> HIDE DEF step
  <2>5. PICK g \in [0..(n - 1) -> V] : Follows(g, seqs[1], step, n - 1)
    BY <2>2, <2>4, Recursion
  <2> DEFINE h == [i \in 1..n |-> g[i-1]]
  <2>6. \A k \in 0..(n - 1) : g[k] = IF k = 0 THEN seqs[1] ELSE step[<<k, g[k-1]>>]
    BY <2>5 DEF Follows
  <2>7. ASSUME NEW i \in 1..n
        PROVE  h[i] = IF i = 1 THEN seqs[i] ELSE h[i-1] \o seqs[i]
    <3>1. CASE i = 1
      <4>1. g[0] = seqs[1]
        <5>1. 0 \in 0..(n - 1)
          BY <2>2
        <5>2. g[0] = IF 0 = 0 THEN seqs[1] ELSE step[<<0, g[0-1]>>]
          BY Zenon, <2>6, <5>1
        <5> QED
          BY Zenon, <5>2
      <4>2. h[i] = g[i - 1] /\ i - 1 = 0
        BY <3>1
      <4> HIDE DEF h
      <4> QED
        BY <3>1, <4>1, <4>2
    <3>2. CASE i # 1
      <4>1. i - 1 \in 1..(n - 1) /\ i - 1 \in 0..(n - 1) /\ (i - 1) - 1 \in 0..(n - 1)
            /\ i - 1 \in 1..n /\ (i - 1) + 1 = i
        BY <3>2
      <4>2. <<i - 1, g[(i - 1) - 1]>> \in (1..(n - 1)) \X V
        BY <4>1
      <4>3. step[<<i - 1, g[(i - 1) - 1]>>] = g[(i - 1) - 1] \o seqs[(i - 1) + 1]
        BY <2>3, <4>2
      <4>4. h[i] = g[i - 1] /\ h[i - 1] = g[(i - 1) - 1]
        BY <4>1
      <4>5. g[i - 1] = step[<<i - 1, g[(i - 1) - 1]>>]
        BY <2>6, <3>2, <4>1
      <4> HIDE DEF h
      <4> QED
        BY <3>2, <4>1, <4>3, <4>4, <4>5
    <3> QED
      BY <3>1, <3>2
  <2>8. h = [i \in 1..n |-> h[i]]
    OBVIOUS
  <2> HIDE DEF h
  <2>9. flat(h)
    BY <2>7, <2>8
  <2>10. flat(F)
    <3> HIDE DEF flat
    <3> QED
      BY <2>9
  <2> HIDE DEF F
  <2>11. \A i \in 1..n : F[i] = IF i = 1 THEN seqs[i] ELSE F[i-1] \o seqs[i]
    BY <2>10
  <2> HIDE DEF upTo
  <2> DEFINE T == {i \in Nat : i + 1 <= n =>
                     /\ Lists(F[i + 1], upTo(i + 1))
                     /\ seqs[1] # <<>> => F[i + 1] # <<>> /\ F[i + 1][1] = seqs[1][1]}
  <2>12. 0 \in T
    <3>1. 1 \in 1..n /\ F[1] = seqs[1]
      BY <1>3, <2>11
    <3>2. upTo(1) = parts[1]
      BY DEF upTo
    <3> QED
      BY <3>1, <3>2
  <2>13. ASSUME NEW i \in Nat, i \in T PROVE i + 1 \in T
    <3> SUFFICES ASSUME (i + 1) + 1 <= n
                 PROVE  /\ Lists(F[(i + 1) + 1], upTo((i + 1) + 1))
                        /\ seqs[1] # <<>> => /\ F[(i + 1) + 1] # <<>>
                                             /\ F[(i + 1) + 1][1] = seqs[1][1]
      OBVIOUS
    <3> DEFINE k == (i + 1) + 1
    <3>1. /\ k \in 1..n /\ k # 1 /\ k - 1 = i + 1 /\ i + 1 \in 1..n
          /\ \A j \in 1..(i + 1) : j \in 1..n /\ j # k
          /\ 1..k = 1..(i + 1) \cup {k}
      OBVIOUS
    <3> HIDE DEF k
    <3>2. F[k] = F[i + 1] \o seqs[k]
      BY <2>11, <3>1
    <3>3. Lists(F[i + 1], upTo(i + 1))
          /\ (seqs[1] # <<>> => F[i + 1] # <<>> /\ F[i + 1][1] = seqs[1][1])
      BY <2>13, <3>1
    <3>4. upTo(i + 1) \cap parts[k] = {}
      BY <3>1 DEF upTo
    <3>5. upTo(k) = upTo(i + 1) \cup parts[k]
      BY <3>1 DEF upTo
    <3>6. Lists(seqs[k], parts[k])
      BY <3>1
    <3>7. /\ Lists(F[k], upTo(k))
          /\ F[i + 1] # <<>> => F[k][1] = F[i + 1][1]
      <4> DEFINE a == F[i + 1]
                 b == seqs[k]
                 A == upTo(i + 1)
                 B == parts[k]
      <4>1. Lists(a, A) /\ Lists(b, B) /\ A \cap B = {}
        BY Zenon, <3>3, <3>4, <3>6
      <4>2. F[k] = a \o b /\ upTo(k) = A \cup B
        BY Zenon, <3>2, <3>5
      <4> HIDE DEF a, b, A, B
      <4>3. Lists(a \o b, A \cup B) /\ (a # <<>> => (a \o b)[1] = a[1])
        BY <4>1, ConcatLists
      <4>4. Lists(F[k], upTo(k)) /\ (a # <<>> => F[k][1] = a[1])
        BY Zenon, <4>2, <4>3
      <4> QED
        BY Zenon, <4>4 DEF a
    <3>8. F[i + 1] # <<>> => F[k] # <<>>
      <4>1. F[i + 1] \in Seq(Call) /\ seqs[k] \in Seq(Call)
        BY <3>3, <3>6 DEF Lists
      <4> DEFINE a == F[i + 1]
                 b == seqs[k]
      <4>2. a \in Seq(Call) /\ b \in Seq(Call) /\ F[k] = a \o b
        BY Zenon, <3>2, <4>1
      <4> HIDE DEF a, b
      <4>3. a # <<>> => a \o b # <<>>
        BY <4>2, ConcatEqualIffEmpty
      <4>4. a # <<>> => F[k] # <<>>
        BY Zenon, <4>2, <4>3
      <4> QED
        BY Zenon, <4>4 DEF a
    <3> QED
      BY <3>3, <3>7, <3>8 DEF k
  <2> HIDE DEF T
  <2>14. \A i \in Nat : i \in T
    BY <2>12, <2>13, Induction
  <2>15. (n - 1) + 1 = n /\ n - 1 \in T
    BY <2>2, <2>14
  <2>16. Lists(F[n], upTo(n)) /\ (seqs[1] # <<>> => F[n][1] = seqs[1][1])
    BY <2>15 DEF T
  <2> QED
    BY <2>1, <2>16 DEF upTo
<1> QED
  BY <1>2, <1>3

(* One level of component: the retries of the calls of the level above.     *)
LEMMA NextLevel ==
  ASSUME TypeOK, NEW s, NEW S, Lists(s, S)
  PROVE  Lists(FlattenSeq([i \in DOMAIN s |-> Children(s[i])]), {c \in Call : links[c] \in S})
<1> DEFINE n == Len(s)
           seqs == [i \in DOMAIN s |-> Children(s[i])]
           parts == [i \in 1..n |-> {c \in Call : links[c] = s[i]}]
<1>1. n \in Nat /\ DOMAIN s = 1..n /\ \A i \in 1..n : s[i] \in Call
  BY LenProperties DEF Lists
<1>2. \A i \in 1..n : Lists(Children(s[i]), {c \in Call : links[c] = s[i]})
  BY <1>1, ChildrenListed
<1>3. seqs = [i \in 1..n |-> Children(s[i])]
  BY <1>1
<1>4. \A i \in 1..n : seqs[i] \in Seq(Call) /\ Lists(seqs[i], parts[i])
  <2> SUFFICES ASSUME NEW i \in 1..n PROVE seqs[i] \in Seq(Call) /\ Lists(seqs[i], parts[i])
    OBVIOUS
  <2>1. seqs[i] = Children(s[i]) /\ parts[i] = {c \in Call : links[c] = s[i]}
    BY <1>3
  <2>2. Lists(Children(s[i]), {c \in Call : links[c] = s[i]})
    BY <1>2
  <2> HIDE DEF seqs, parts
  <2>3. Lists(seqs[i], parts[i])
    BY Zenon, <2>1, <2>2
  <2> QED
    BY <2>3 DEF Lists
<1>5. \A i, j \in 1..n : i # j => parts[i] \cap parts[j] = {}
  BY DEF Lists
<1>6. parts \in [1..n -> SUBSET Call]
  OBVIOUS
<1>7. seqs \in [1..n -> Seq(Call)]
  <2> DEFINE z == seqs
  <2>1. DOMAIN z = 1..n /\ z = [i \in 1..n |-> z[i]]
    BY <1>3
  <2>2. \A i \in 1..n : z[i] \in Seq(Call)
    BY <1>4
  <2> HIDE DEF z
  <2>3. z \in [1..n -> Seq(Call)]
    BY <2>1, <2>2
  <2> QED
    BY <2>3 DEF z
<1>8. UNION {parts[i] : i \in 1..n} = {c \in Call : links[c] \in S}
  BY DEF Lists
<1> HIDE DEF seqs, parts, n
<1>9. Lists(FlattenSeq(seqs), UNION {parts[i] : i \in 1..n})
  <2>1. n \in Nat /\ \A i \in 1..n : Lists(seqs[i], parts[i])
    BY Zenon, <1>1, <1>4
  <2> QED
    BY Zenon, <1>5, <1>6, <1>7, <2>1, FlattenLists
<1> QED
  BY Zenon, <1>8, <1>9 DEF seqs

(* The calls of p's family at distance k from the root.                     *)
Generation(p, k) == {c \in Call : ~InCycle(c) /\ Root(c) = Root(p) /\ Depth(c) = k}

LEMMA Generations ==
  ASSUME TypeOK, NEW p \in Call, ~InCycle(p)
  PROVE  /\ Generation(p, 0) = {Root(p)}
         /\ \A k \in Nat : {c \in Call : links[c] \in Generation(p, k)} = Generation(p, k + 1)
<1> DEFINE r == Root(p)
<1>1. r \in Call /\ r \in Family(p) /\ links[r] = Null /\ ~InCycle(r)
  BY DepthIs, FamilySharesCycle
<1>2. Depth(r) = 0
  BY <1>1, RootOfRoot
<1>3. \A c \in Call : Ancestor(c)[0] = c
  BY Chain
<1>4. \A c \in Call : Depth(c) = 0 => Root(c) = c
  BY <1>3 DEF Root
<1>5. r \in Generation(p, 0)
  <2> HIDE DEF r
  <2>1. Root(r) = r
    BY <1>1, <1>2, <1>4
  <2> QED
    BY <1>1, <1>2, <2>1 DEF Generation, r
<1>6. ASSUME NEW c \in Generation(p, 0) PROVE c = r
  BY <1>4 DEF Generation
<1>7. Generation(p, 0) = {r}
  <2> HIDE DEF r
  <2> QED
    BY <1>5, <1>6
<1>8. ASSUME NEW k \in Nat, NEW c \in Call, links[c] \in Generation(p, k)
      PROVE  c \in Generation(p, k + 1)
  <2> DEFINE q == links[c]
  <2>1. q \in Call /\ ~InCycle(q) /\ Root(q) = Root(p) /\ Depth(q) = k
    BY <1>8 DEF Generation
  <2>2. ~InCycle(c)
    BY <2>1, CyclesAreShared
  <2>3. Depth(c) = Depth(q) + 1 /\ Root(c) = Root(q)
    BY <2>1, <2>2, RetryIsDeeper
  <2> QED
    BY <2>1, <2>2, <2>3 DEF Generation
<1>9. ASSUME NEW k \in Nat, NEW c \in Generation(p, k + 1)
      PROVE  links[c] \in Generation(p, k)
  <2> DEFINE q == links[c]
  <2>1. c \in Call /\ ~InCycle(c) /\ Root(c) = Root(p) /\ Depth(c) = k + 1
    BY DEF Generation
  <2>2. q \in Call
    <3>1. q # Null
      BY <2>1, RootOfRoot
    <3> QED
      BY <2>1, <3>1 DEF TypeOK
  <2>3. ~InCycle(q) /\ Depth(c) = Depth(q) + 1 /\ Root(c) = Root(q)
    BY <2>1, <2>2, RetryIsDeeper
  <2>4. Depth(q) \in Nat
    BY <2>2, <2>3, DepthIs, NullIsNoCall
  <2>5. Depth(q) = k
    BY <2>1, <2>3, <2>4
  <2> QED
    BY <2>1, <2>2, <2>3, <2>5 DEF Generation
<1>10. ASSUME NEW k \in Nat
       PROVE  {c \in Call : links[c] \in Generation(p, k)} = Generation(p, k + 1)
  <2>1. Generation(p, k + 1) \subseteq Call
    BY DEF Generation
  <2> QED
    BY <1>8, <1>9, <2>1
<1> QED
  BY <1>7, <1>10

(* component visits the family, each call once and the root first.          *)
LEMMA ComponentListed ==
  ASSUME TypeOK, NEW p \in Call, ~InCycle(p)
  PROVE  Lists(Component(p), Family(p)) /\ Component(p)[1] = Root(p)
<1> DEFINE V == {s \in Seq(Call) : \E S : Lists(s, S)}
           r == Root(p)
           below(s) == FlattenSeq([i \in DOMAIN s |-> Children(s[i])])
           level(g) == g = [k \in 0..Calls |->
                              IF k = 0 THEN <<r>> ELSE LET above == g[k-1] IN below(above)]
           step == [x \in (1..Calls) \X V |-> below(x[2])]
           L == CHOOSE g : level(g)
<1>1. Calls \in Nat /\ r \in Call
  BY NullIsNoCall, DepthIs
<1>2. Lists(<<r>>, {r}) /\ <<r>> \in V
  <2> HIDE DEF r
  <2>1. <<r>> \in Seq(Call) /\ Len(<<r>>) = 1 /\ <<r>>[1] = r
    BY <1>1
  <2>2. Lists(<<r>>, {r})
    BY <1>1, <2>1 DEF Lists
  <2> QED
    BY <2>1, <2>2
<1>3. ASSUME NEW s, NEW S, Lists(s, S)
      PROVE  Lists(below(s), {c \in Call : links[c] \in S})
  BY <1>3, NextLevel
<1> HIDE DEF below, r
<1>4. \A s \in V : below(s) \in V
  <2> SUFFICES ASSUME NEW s \in V PROVE below(s) \in V
    OBVIOUS
  <2>1. PICK S : Lists(s, S)
    OBVIOUS
  <2>2. Lists(below(s), {c \in Call : links[c] \in S})
    BY <1>3, <2>1
  <2>3. below(s) \in Seq(Call)
    BY <2>2 DEF Lists
  <2> QED
    BY <2>2, <2>3
<1>5. \A x \in (1..Calls) \X V : step[x] = below(x[2]) /\ step[x] \in V
  BY <1>4
<1>6. step \in [(1..Calls) \X V -> V]
  BY <1>5
<1> HIDE DEF step, V
<1>7. PICK g \in [0..Calls -> V] : Follows(g, <<r>>, step, Calls)
  BY <1>1, <1>2, <1>6, Recursion
<1>8. \A k \in 1..Calls : step[<<k, g[k-1]>>] = below(g[k-1])
  <2> SUFFICES ASSUME NEW k \in 1..Calls PROVE step[<<k, g[k-1]>>] = below(g[k-1])
    OBVIOUS
  <2>1. g[k-1] \in V
    BY <1>1
  <2>2. <<k, g[k-1]>> \in (1..Calls) \X V /\ <<k, g[k-1]>>[2] = g[k-1]
    BY <2>1
  <2> QED
    BY <1>5, <2>2
<1>9. level(g)
  <2>1. \A k \in 0..Calls :
          (IF k = 0 THEN <<r>> ELSE step[<<k, g[k-1]>>])
            = IF k = 0 THEN <<r>> ELSE LET above == g[k-1] IN below(above)
    BY <1>1, <1>8
  <2> QED
    BY <1>7, <2>1 DEF Follows
<1>10. Component(p) = FlattenSeq([k \in 1..(Calls + 1) |-> L[k-1]])
  BY DEF Component, below, r
<1>11. level(L)
  <2> HIDE DEF level
  <2> QED
    BY <1>9
<1> HIDE DEF L
<1>12. L[0] = <<r>> /\ \A k \in 1..Calls : L[k] = below(L[k-1])
  <2>1. \A k \in 0..Calls : L[k] = IF k = 0 THEN <<r>> ELSE below(L[k-1])
    BY Zenon, <1>11
  <2>2. 0 \in 0..Calls /\ \A k \in 1..Calls : k \in 0..Calls /\ k # 0
    BY <1>1
  <2> QED
    BY <2>1, <2>2
<1>13. \A k \in Nat : k \in 0..Calls => Lists(L[k], Generation(p, k))
  <2> DEFINE T == {k \in Nat : k \in 0..Calls => Lists(L[k], Generation(p, k))}
  <2>1. 0 \in T
    <3>1. Generation(p, 0) = {r}
      BY Generations DEF r
    <3>2. Lists(L[0], Generation(p, 0))
      BY Zenon, <1>2, <1>12, <3>1
    <3> QED
      BY <3>2
  <2>2. ASSUME NEW k \in Nat, k \in T PROVE k + 1 \in T
    <3> SUFFICES ASSUME k + 1 \in 0..Calls PROVE Lists(L[k + 1], Generation(p, k + 1))
      OBVIOUS
    <3>1. k \in 0..Calls /\ k + 1 \in 1..Calls /\ (k + 1) - 1 = k
      BY <1>1
    <3>2. Lists(L[k], Generation(p, k))
      BY <2>2, <3>1
    <3>3. L[k + 1] = below(L[k])
      BY <1>12, <3>1
    <3>4. {c \in Call : links[c] \in Generation(p, k)} = Generation(p, k + 1)
      BY Generations
    <3>5. Lists(below(L[k]), {c \in Call : links[c] \in Generation(p, k)})
      BY <1>3, <3>2
    <3> QED
      BY Zenon, <3>3, <3>4, <3>5
  <2> HIDE DEF T
  <2>3. \A k \in Nat : k \in T
    BY <2>1, <2>2, Induction
  <2> QED
    BY <2>3 DEF T
<1> DEFINE n == Calls + 1
           seqs == [k \in 1..n |-> L[k-1]]
           parts == [k \in 1..n |-> Generation(p, k-1)]
<1>14. \A k \in 1..n : /\ seqs[k] = L[k-1] /\ parts[k] = Generation(p, k-1)
                       /\ k - 1 \in Nat /\ k - 1 \in 0..Calls
  BY <1>1
<1>15. n \in Nat /\ DOMAIN seqs = 1..n /\ DOMAIN parts = 1..n
       /\ seqs = [k \in 1..n |-> seqs[k]] /\ parts = [k \in 1..n |-> parts[k]]
  BY <1>1
<1>16. Component(p) = FlattenSeq(seqs)
  BY <1>10
<1> HIDE DEF seqs, parts
<1>17. \A k \in 1..n : Lists(seqs[k], parts[k])
  BY <1>13, <1>14
<1>18. \A i, j \in 1..n : i # j => parts[i] \cap parts[j] = {}
  <2> SUFFICES ASSUME NEW i \in 1..n, NEW j \in 1..n, i # j, NEW c \in parts[i], c \in parts[j]
               PROVE  FALSE
    OBVIOUS
  <2>1. Depth(c) = i - 1 /\ Depth(c) = j - 1
    BY <1>14 DEF Generation
  <2> QED
    BY <2>1
<1>19. seqs \in [1..n -> Seq(Call)] /\ parts \in [1..n -> SUBSET Call]
  <2>1. \A k \in 1..n : seqs[k] \in Seq(Call) /\ parts[k] \in SUBSET Call
    BY <1>17 DEF Lists
  <2> QED
    BY <1>15, <2>1
<1>20. UNION {parts[k] : k \in 1..n} = Family(p)
  <2>1. ASSUME NEW k \in 1..n, NEW c \in parts[k] PROVE c \in Family(p)
    BY <1>14, FamilyByRoot DEF Generation
  <2>2. ASSUME NEW c \in Family(p) PROVE \E k \in 1..n : c \in parts[k]
    <3>1. c \in Call /\ ~InCycle(c) /\ Root(c) = Root(p)
      BY FamilyByRoot
    <3>2. Depth(c) \in 0..(Calls - 1)
      BY <3>1, DepthIs
    <3>3. Depth(c) + 1 \in 1..n /\ (Depth(c) + 1) - 1 = Depth(c)
      BY <1>1, <3>2
    <3>4. c \in Generation(p, Depth(c))
      BY <3>1 DEF Generation
    <3>5. parts[Depth(c) + 1] = Generation(p, Depth(c))
      BY <1>14, <3>3
    <3> QED
      BY <3>3, <3>4, <3>5
  <2> QED
    BY <2>1, <2>2
<1>21. n >= 1 /\ 1 \in 1..n /\ seqs[1] = <<r>>
  <2>1. n >= 1 /\ 1 \in 1..n /\ 1 - 1 = 0
    BY <1>1
  <2> QED
    BY <1>12, <1>14, <2>1
<1> HIDE DEF n
<1>22. /\ Lists(FlattenSeq(seqs), UNION {parts[k] : k \in 1..n})
       /\ n >= 1 /\ seqs[1] # <<>> => FlattenSeq(seqs)[1] = seqs[1][1]
  BY <1>15, <1>17, <1>18, <1>19, FlattenLists
<1>23. <<r>> # <<>> /\ <<r>>[1] = r
  OBVIOUS
<1>24. Lists(Component(p), Family(p))
  BY Zenon, <1>16, <1>20, <1>22
<1>25. Component(p)[1] = r
  BY <1>16, <1>21, <1>22, <1>23
<1> QED
  BY <1>24, <1>25 DEF r

LEMMA ListedLength ==
  ASSUME NEW s, NEW S, Lists(s, S)
  PROVE  ToSet(s) = S /\ Len(s) = Cardinality(S)
<1> DEFINE n == Len(s)
<1>1. n \in Nat /\ DOMAIN s = 1..n /\ s = [i \in 1..n |-> s[i]]
  BY LenProperties DEF Lists
<1>2. ToSet(s) = S
  BY <1>1 DEF ToSet, Lists
<1>3. s \in [1..n -> S] /\ \A c \in S : \E i \in 1..n : s[i] = c
  BY <1>1 DEF Lists
<1>4. s \in Bijection(1..n, S)
  BY <1>1, <1>3 DEF Bijection, Injection, Surjection, IsInjective, Lists
<1>5. ExistsBijection(1..n, S)
  BY <1>4 DEF ExistsBijection
<1>6. IsFiniteSet(1..n) /\ Cardinality(1..n) = n
  BY <1>1, FS_Interval
<1>7. Cardinality(S) = Cardinality(1..n)
  BY <1>5, <1>6, FS_Bijection
<1> QED
  BY <1>2, <1>6, <1>7

LEMMA FamiliesAreWhole == TypeOK => ComponentIsFamily
<1> SUFFICES ASSUME TypeOK, NEW p \in Call
             PROVE  /\ InCycle(p) <=> Circular(p)
                    /\ ~InCycle(p) =>
                         /\ ToSet(Component(p)) = Family(p)
                         /\ Len(Component(p)) = Cardinality(Family(p))
                         /\ links[Component(p)[1]] = Null
  BY DEF ComponentIsFamily
<1>1. ASSUME ~InCycle(p)
      PROVE  /\ ToSet(Component(p)) = Family(p)
             /\ Len(Component(p)) = Cardinality(Family(p))
             /\ links[Component(p)[1]] = Null
  <2>1. Lists(Component(p), Family(p)) /\ Component(p)[1] = Root(p)
    BY <1>1, ComponentListed
  <2>2. links[Root(p)] = Null
    BY <1>1, DepthIs
  <2> QED
    BY <2>1, <2>2, ListedLength
<1> QED
  BY <1>1, CyclesAreCircular

-----------------------------------------------------------------------------
(* Names.                                                                   *)
LEMMA NameIs ==
  ASSUME TypeOK, NEW p \in Call, ~InCycle(p)
  PROVE  /\ (\A r \in Family(p) : logical[r] = Null) => LogicalId(p) = Root(p)
         /\ \A q \in Family(p) : LogicalId(q) = LogicalId(p)
<1>1. ASSUME \A r \in Family(p) : logical[r] = Null PROVE LogicalId(p) = Root(p)
  <2> DEFINE family == Component(p)
             named == {i \in DOMAIN family : logical[family[i]] # Null}
  <2>1. LogicalId(p) = IF named = {} THEN Root(p) ELSE logical[family[Min(named)]]
    BY DEF LogicalId
  <2>2. named = {}
    <3>1. Lists(Component(p), Family(p))
      BY ComponentListed
    <3>2. \A i \in DOMAIN Component(p) : Component(p)[i] \in Family(p)
      BY <3>1, LenProperties DEF Lists
    <3> QED
      BY <1>1, <3>2
  <2> QED
    BY <2>1, <2>2
<1>2. ASSUME NEW q \in Family(p) PROVE LogicalId(q) = LogicalId(p)
  <2>1. Root(q) = Root(p)
    BY FamilyByRoot
  <2>2. Component(q) = Component(p)
    BY <2>1 DEF Component
  <2> QED
    BY <2>1, <2>2 DEF LogicalId
<1> QED
  BY <1>1, <1>2

(* Records made since the registry last changed carry the present names.    *)
NamesInv ==
  \A i \in (settled + 1)..Len(records) :
    /\ records[i].call \in Call /\ ~InCycle(records[i].call)
    /\ records[i].identity.logicalCall = LogicalId(records[i].call)

LEMMA RegistryKept ==
  ASSUME links' = links, logical' = logical
  PROVE  \A c \in Call : LogicalId(c)' = LogicalId(c) /\ InCycle(c)' = InCycle(c)
BY DEF LogicalId, Component, Children, Root, Depth, InCycle, Ancestor

LEMMA NamesNext == BooksInv /\ NamesInv /\ [Next]_vars => NamesInv'
<1> SUFFICES ASSUME BooksInv, NamesInv, [Next]_vars PROVE NamesInv'
  OBVIOUS
<1>1. PICK S : records \in Seq(S)
  BY DEF BooksInv, Inv, IsLog
<1>2. Len(records) \in Nat /\ settled \in 0..Len(records) /\ DOMAIN records = 1..Len(records)
  BY <1>1 DEF BooksInv, Inv, TypeOK
<1>3. ASSUME settled' = Len(records), records' = records PROVE NamesInv'
  BY <1>2, <1>3 DEF NamesInv
<1>4. ASSUME links' = links, logical' = logical, settled' = settled, records' = records
      PROVE  NamesInv'
  BY <1>4, RegistryKept DEF NamesInv
<1>5. CASE \E p \in Call, n \in Name : Declare(p, n)
  BY <1>3, <1>5 DEF Declare, ledger
<1>6. CASE \E p, q \in Call : LinkRetry(p, q)
  BY <1>3, <1>6 DEF LinkRetry, ledger
<1>7. CASE \E batch \in Batches : Extend(batch)
  BY <1>4, <1>7 DEF Extend, registry
<1>8. CASE RecordDuplicate
  BY <1>4, <1>8 DEF RecordDuplicate, registry
<1>9. CASE RecordNew
  <2> DEFINE c == Head(todo)
  <2>1. PICK a \in Answers[c] :
          records' = Append(records, [call |-> c, identity |-> Resolve(c),
                                      answer |-> a, cost |-> Cost(a)])
    BY <1>9 DEF RecordNew
  <2> DEFINE e == [call |-> c, identity |-> Resolve(c), answer |-> a, cost |-> Cost(a)]
  <2>2. /\ c \in Call /\ ~InCycle(c) /\ links' = links /\ logical' = logical
        /\ settled' = settled
    BY <1>9 DEF RecordNew, registry, BooksInv, Inv, TypeOK
  <2>3. e.call = c /\ e.identity.logicalCall = LogicalId(c)
    BY DEF Resolve
  <2> HIDE DEF e, c
  <2>4. /\ Len(records') = Len(records) + 1
        /\ \A i \in 1..Len(records) : records'[i] = records[i]
        /\ records'[Len(records) + 1] = e
    BY <1>1, <2>1, Appended DEF e
  <2>5. \A q \in Call : LogicalId(q)' = LogicalId(q) /\ InCycle(q)' = InCycle(q)
    BY <2>2, RegistryKept
  <2>6. ASSUME NEW i \in (settled' + 1)..Len(records')
        PROVE  /\ records'[i].call \in Call /\ ~InCycle(records'[i].call)
               /\ records'[i].identity.logicalCall = LogicalId(records'[i].call)
    <3>1. CASE i = Len(records) + 1
      BY <2>2, <2>3, <2>4, <3>1
    <3>2. CASE i # Len(records) + 1
      <4>1. i \in (settled + 1)..Len(records) /\ i \in 1..Len(records)
        BY <1>2, <2>2, <2>4, <3>2
      <4> QED
        BY <2>4, <4>1 DEF NamesInv
    <3> QED
      BY <3>1, <3>2
  <2> QED
    BY <2>5, <2>6 DEF NamesInv
<1>10. CASE RecordRaises
  BY <1>4, <1>10 DEF RecordRaises, registry
<1>11. CASE UNCHANGED vars
  BY <1>4, <1>11 DEF vars
<1> QED
  BY <1>5, <1>6, <1>7, <1>8, <1>9, <1>10, <1>11 DEF Next

LEMMA NamesAgree == BooksInv /\ NamesInv => FamiliesAreCalls
<1> SUFFICES ASSUME BooksInv, NamesInv,
                    NEW i \in (settled + 1)..Len(records), NEW j \in (settled + 1)..Len(records)
             PROVE  LET p == records[i].call
                        q == records[j].call
                        nameOf(r) == records[r].identity.logicalCall
                    IN  IF q \in Family(p) THEN nameOf(i) = nameOf(j)
                        ELSE nameOf(i) = nameOf(j) =>
                               \E r \in Family(p) \cup Family(q) : logical[r] # Null
  BY DEF FamiliesAreCalls
<1> DEFINE p == records[i].call
           q == records[j].call
           nameOf(r) == records[r].identity.logicalCall
<1>1. /\ p \in Call /\ ~InCycle(p) /\ nameOf(i) = LogicalId(p)
      /\ q \in Call /\ ~InCycle(q) /\ nameOf(j) = LogicalId(q)
  BY DEF NamesInv
<1>2. TypeOK
  BY DEF BooksInv, Inv
<1> HIDE DEF p, q, nameOf
<1>3. ASSUME q \in Family(p) PROVE nameOf(i) = nameOf(j)
  BY <1>1, <1>2, <1>3, NameIs
<1>4. ASSUME q \notin Family(p), nameOf(i) = nameOf(j),
             \A r \in Family(p) \cup Family(q) : logical[r] = Null
      PROVE  FALSE
  <2>1. LogicalId(p) = Root(p) /\ LogicalId(q) = Root(q)
    BY <1>1, <1>2, <1>4, NameIs
  <2>2. Root(q) = Root(p)
    BY <1>1, <1>4, <2>1
  <2> QED
    BY <1>1, <1>2, <1>4, <2>2, FamilyByRoot
<1> QED
  BY <1>3, <1>4 DEF p, q, nameOf

(* For any calls, links, names and deliveries: chain raises exactly for     *)
(* the calls of circular families, component otherwise meets every call of  *)
(* the family once and the root first (calls.py:143-178), and the records   *)
(* made since the registry last changed give one family one name and        *)
(* unnamed families different ones (resolve, 180-201).                      *)
THEOREM FamiliesAreOneCall == Spec => []RetriesAreOneCall
<1>1. Init => NamesInv
  BY DEF Init, NamesInv
<1>2. Spec => []NamesInv
  BY <1>1, NamesNext, BooksInvariance, PTL DEF Spec
<1>3. BooksInv /\ NamesInv => RetriesAreOneCall
  BY NamesAgree, FamiliesAreWhole DEF RetriesAreOneCall, BooksInv, Inv
<1> QED
  BY <1>2, <1>3, BooksInvariance, PTL
=============================================================================
