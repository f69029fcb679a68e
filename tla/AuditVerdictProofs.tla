------------------------- MODULE AuditVerdictProofs -------------------------
(* For any names, policies, kernels, rules and number of steps: what the     *)
(* enforcement model refuses is enough to keep a protected directory as it   *)
(* was, whatever sequence of operations an agent tries; and what the audit   *)
(* finds is true of what the agent did, and stays found.  What it finds is   *)
(* worth as much as what the recorder says it lost: at the end, the counters *)
(* of losses, for any streams, events and threads.                           *)
EXTENDS AuditVerdict, LossCounters, FiniteSetTheorems, FunctionTheorems,
        WellFoundedInduction, NaturalsInduction, TLAPS

-----------------------------------------------------------------------------
(* The audit.  First natural numbers and sums.                              *)
LEMMA Least ==
  ASSUME NEW S \in SUBSET Nat, S # {}
  PROVE  \E x \in S : \A y \in S : x <= y
<1> DEFINE R == OpToRel(<, Nat)
<1>1. IsWellFoundedOn(R, Nat)
  BY NatLessThanWellFounded
<1> HIDE DEF R
<1>2. PICK x \in S : \A y \in S : <<y, x>> \notin R
  BY <1>1, WFMin
<1>3. \A y \in S : ~(y < x)
  BY <1>2 DEF R, OpToRel
<1> QED
  BY <1>3

LEMMA Induction ==
  ASSUME NEW T, 0 \in T, \A n \in Nat : n \in T => n + 1 \in T
  PROVE  \A n \in Nat : n \in T
<1> SUFFICES ASSUME Nat \ T # {} PROVE FALSE
  OBVIOUS
<1>1. PICK m \in Nat \ T : \A y \in Nat \ T : m <= y
  BY Least
<1>2. m # 0 /\ m - 1 \in Nat
  OBVIOUS
<1>3. m - 1 \in T
  BY <1>1, <1>2
<1> QED
  BY <1>2, <1>3

(* The sum of f over a set, as the fold of the community modules defines it:*)
(* the function g gives the sum for every subset.                           *)
Chosen(T) == CHOOSE x \in T : TRUE
Unfolds(g, f, S) ==
    g = [T \in SUBSET S |-> IF T = {} THEN 0
                            ELSE f[Chosen(T)] + g[T \ {Chosen(T)}]]

LEMMA SumIsChosen ==
  ASSUME NEW f, NEW S
  PROVE  SumFunctionOnSet(f, S) = (CHOOSE g : Unfolds(g, f, S))[S]
BY DEF SumFunctionOnSet, FoldFunctionOnSet, MapThenFoldSet, Unfolds, Chosen

LEMMA UnfoldsAt ==
  ASSUME NEW f, NEW S, NEW g, Unfolds(g, f, S), NEW T \in SUBSET S
  PROVE  g[T] = IF T = {} THEN 0 ELSE f[Chosen(T)] + g[T \ {Chosen(T)}]
BY DEF Unfolds

LEMMA UnfoldsOnce ==
  ASSUME NEW f, NEW S, NEW R, IsFiniteSet(S), NEW g, NEW h,
         Unfolds(g, f, S), Unfolds(h, f, R), S \subseteq R
  PROVE  g[S] = h[S]
<1> DEFINE T == {n \in Nat : \A U \in SUBSET S : Cardinality(U) = n => g[U] = h[U]}
<1>1. \A U \in SUBSET S : IsFiniteSet(U) /\ Cardinality(U) \in Nat
  BY FS_Subset, FS_CardinalityType
<1>2. 0 \in T
  <2>1. \A U \in SUBSET S : Cardinality(U) = 0 => U = {}
    BY <1>1, FS_EmptySet
  <2>2. g[{}] = 0 /\ h[{}] = 0
    BY UnfoldsAt
  <2> QED
    BY <2>1, <2>2
<1>3. ASSUME NEW n \in Nat, n \in T PROVE n + 1 \in T
  <2> SUFFICES ASSUME NEW U \in SUBSET S, Cardinality(U) = n + 1
               PROVE  g[U] = h[U]
    OBVIOUS
  <2>1. U # {} /\ Chosen(U) \in U
    BY FS_EmptySet DEF Chosen
  <2>2. Cardinality(U \ {Chosen(U)}) = n
    BY <1>1, <2>1, FS_RemoveElement
  <2>3. g[U \ {Chosen(U)}] = h[U \ {Chosen(U)}]
    BY <1>3, <2>2
  <2>4. g[U] = f[Chosen(U)] + g[U \ {Chosen(U)}]
    BY <2>1, UnfoldsAt
  <2>5. h[U] = f[Chosen(U)] + h[U \ {Chosen(U)}]
    BY <2>1, UnfoldsAt
  <2> QED
    BY <2>3, <2>4, <2>5
<1> HIDE DEF T
<1>4. Cardinality(S) \in T
  BY <1>1, <1>2, <1>3, Induction
<1> QED
  BY <1>4 DEF T

LEMMA SumExists ==
  ASSUME NEW f, NEW S, IsFiniteSet(S)
  PROVE  \E g : Unfolds(g, f, S)
<1> DEFINE T == {n \in Nat : \A U \in SUBSET S : Cardinality(U) <= n =>
                                 \E g : Unfolds(g, f, U)}
<1>1. \A U \in SUBSET S : IsFiniteSet(U) /\ Cardinality(U) \in Nat
  BY FS_Subset, FS_CardinalityType
<1>2. 0 \in T
  <2>1. \A U \in SUBSET S : Cardinality(U) <= 0 => U = {}
    BY <1>1, FS_EmptySet
  <2>2. Unfolds([U \in SUBSET {} |-> 0], f, {})
    BY DEF Unfolds
  <2> QED
    BY <2>1, <2>2
<1>3. ASSUME NEW n \in Nat, n \in T PROVE n + 1 \in T
  <2> SUFFICES ASSUME NEW U \in SUBSET S, Cardinality(U) <= n + 1
               PROVE  \E g : Unfolds(g, f, U)
    OBVIOUS
  <2> DEFINE rest(V) == V \ {Chosen(V)}
             part(V) == CHOOSE g : Unfolds(g, f, V)
             whole == [V \in SUBSET U |-> IF V = {} THEN 0
                                          ELSE f[Chosen(V)] + part(rest(V))[rest(V)]]
  <2>1. ASSUME NEW V \in SUBSET U, V # {}
        PROVE  /\ rest(V) \in SUBSET U
               /\ Unfolds(part(rest(V)), f, rest(V))
    <3>1. Chosen(V) \in V
      BY <2>1 DEF Chosen
    <3>2. Cardinality(rest(V)) = Cardinality(V) - 1
      BY <1>1, <3>1, FS_RemoveElement
    <3>3. Cardinality(V) <= Cardinality(U) /\ Cardinality(V) \in Nat
          /\ Cardinality(U) \in Nat
      BY <1>1, FS_Subset
    <3>4. Cardinality(rest(V)) <= n
      BY <3>2, <3>3
    <3>5. \E g : Unfolds(g, f, rest(V))
      BY <1>3, <3>4
    <3> QED
      BY <3>5
  <2>2. ASSUME NEW V \in SUBSET U, V # {}
        PROVE  whole[rest(V)] = part(rest(V))[rest(V)]
    <3> DEFINE W == rest(V)
    <3>1. W \in SUBSET U /\ Unfolds(part(W), f, W) /\ IsFiniteSet(W)
      BY <1>1, <2>1, <2>2
    <3> HIDE DEF W, part
    <3>2. CASE W = {}
      <4>1. part(W)[W] = 0
        BY <3>1, <3>2, UnfoldsAt
      <4> QED
        BY <3>1, <3>2, <4>1 DEF W
    <3>3. CASE W # {}
      <4>1. part(W)[W] = f[Chosen(W)] + part(W)[rest(W)]
        BY <3>1, <3>3, UnfoldsAt
      <4>2. whole[W] = f[Chosen(W)] + part(rest(W))[rest(W)]
        BY <3>1, <3>3
      <4>3. Unfolds(part(rest(W)), f, rest(W))
        BY <2>1, <3>1, <3>3
      <4>4. part(rest(W))[rest(W)] = part(W)[rest(W)]
        <5>1. rest(W) \subseteq W /\ IsFiniteSet(rest(W))
          BY <1>1, <2>1, <3>1, <3>3
        <5> HIDE DEF rest
        <5> QED
          BY <3>1, <4>3, <5>1, UnfoldsOnce
      <4> QED
        BY <4>1, <4>2, <4>4 DEF W
    <3> QED
      BY <3>2, <3>3
  <2>3. whole = [V \in SUBSET U |-> IF V = {} THEN 0
                                    ELSE f[Chosen(V)] + whole[rest(V)]]
    <3> DEFINE again == [V \in SUBSET U |-> IF V = {} THEN 0
                                            ELSE f[Chosen(V)] + whole[rest(V)]]
    <3>1. ASSUME NEW V \in SUBSET U, V # {} PROVE whole[V] = again[V]
      <4>1. whole[rest(V)] = part(rest(V))[rest(V)]
        BY <2>2, <3>1
      <4> HIDE DEF rest, part
      <4> QED
        BY <3>1, <4>1
    <3>2. \A V \in SUBSET U : whole[V] = again[V]
      <4> SUFFICES ASSUME NEW V \in SUBSET U PROVE whole[V] = again[V]
        OBVIOUS
      <4>1. CASE V = {}
        BY <4>1
      <4> QED
        BY <3>1, <4>1
    <3> HIDE DEF rest, part
    <3> QED
      BY <3>2
  <2>4. Unfolds(whole, f, U)
    BY <2>3 DEF Unfolds
  <2> QED
    BY <2>4
<1> HIDE DEF T
<1>4. Cardinality(S) \in T
  BY <1>1, <1>2, <1>3, Induction
<1> QED
  BY <1>1, <1>4 DEF T

(* A sum is one chosen value and the sum of the rest.                       *)
LEMMA SumStep ==
  ASSUME NEW f, NEW S, IsFiniteSet(S)
  PROVE  SumFunctionOnSet(f, S) =
           IF S = {} THEN 0
           ELSE f[Chosen(S)] + SumFunctionOnSet(f, S \ {Chosen(S)})
<1> DEFINE part(V) == CHOOSE g : Unfolds(g, f, V)
           rest == S \ {Chosen(S)}
<1>1. Unfolds(part(S), f, S) /\ Unfolds(part(rest), f, rest) /\ IsFiniteSet(rest)
  BY SumExists, FS_Subset
<1> HIDE DEF part
<1>2. part(S)[S] = IF S = {} THEN 0 ELSE f[Chosen(S)] + part(S)[rest]
  BY <1>1, UnfoldsAt
<1>3. part(rest)[rest] = part(S)[rest]
  BY <1>1, UnfoldsOnce
<1> QED
  BY <1>2, <1>3, SumIsChosen DEF part

(* In whatever order the fold takes them: any one value, and the rest.      *)
LEMMA SumSplits ==
  ASSUME NEW f, NEW S, IsFiniteSet(S), \A x \in S : f[x] \in Nat
  PROVE  /\ SumFunctionOnSet(f, S) \in Nat
         /\ \A x \in S : SumFunctionOnSet(f, S) = f[x] + SumFunctionOnSet(f, S \ {x})
<1> DEFINE Sum(U) == SumFunctionOnSet(f, U)
           Good(U) == Sum(U) \in Nat /\ \A x \in U : Sum(U) = f[x] + Sum(U \ {x})
           T == {n \in Nat : \A U \in SUBSET S : Cardinality(U) <= n => Good(U)}
<1>1. \A U \in SUBSET S : IsFiniteSet(U) /\ Cardinality(U) \in Nat
  BY FS_Subset, FS_CardinalityType
<1>2. 0 \in T
  <2>1. \A U \in SUBSET S : Cardinality(U) <= 0 => U = {}
    BY <1>1, FS_EmptySet
  <2>2. Sum({}) = 0
    BY SumStep, FS_EmptySet
  <2>3. Good({})
    BY <2>2
  <2> HIDE DEF Good
  <2> QED
    BY <2>1, <2>3
<1>3. ASSUME NEW n \in Nat, n \in T PROVE n + 1 \in T
  <2> SUFFICES ASSUME NEW U \in SUBSET S, Cardinality(U) <= n + 1
               PROVE  Good(U)
    OBVIOUS
  <2>0. CASE U = {}
    <3>1. Cardinality(U) <= 0
      BY <2>0, FS_EmptySet
    <3> QED
      BY <1>2, <3>1
  <2> SUFFICES ASSUME U # {} PROVE Good(U)
    BY <2>0
  <2> DEFINE c == Chosen(U)
  <2>1. c \in U
    BY DEF Chosen
  <2>2. Sum(U) = f[c] + Sum(U \ {c})
    BY <1>1, <2>1, SumStep
  <2>3. ASSUME NEW V \in SUBSET U, V # U PROVE Good(V)
    <3>1. Cardinality(V) < Cardinality(U) /\ Cardinality(V) \in Nat
          /\ Cardinality(U) \in Nat
      BY <1>1, <2>3, FS_Subset
    <3>2. Cardinality(V) <= n
      BY <3>1
    <3> HIDE DEF Good
    <3> QED
      BY <1>3, <3>2
  <2> HIDE DEF Sum, c
  <2>4. \A x \in U : Good(U \ {x})
    BY <2>3
  <2>5. f[c] \in Nat /\ Sum(U \ {c}) \in Nat
    BY <2>1, <2>4
  <2>6. Sum(U) \in Nat
    BY <2>2, <2>5
  <2>7. ASSUME NEW x \in U, x # c PROVE Sum(U) = f[x] + Sum(U \ {x})
    <3>1. Sum(U \ {c}) = f[x] + Sum((U \ {c}) \ {x})
      BY <2>1, <2>4, <2>7
    <3>2. Sum(U \ {x}) = f[c] + Sum((U \ {x}) \ {c})
      BY <2>1, <2>4, <2>7
    <3>3. (U \ {c}) \ {x} = (U \ {x}) \ {c}
      OBVIOUS
    <3>4. Sum((U \ {x}) \ {c}) \in Nat
      <4>1. Good((U \ {x}) \ {c})
        BY <2>1, <2>3
      <4> QED
        BY <4>1
    <3>5. f[x] \in Nat
      OBVIOUS
    <3> QED
      BY <2>2, <2>5, <3>1, <3>2, <3>3, <3>4, <3>5
  <2> QED
    BY <2>2, <2>6, <2>7
<1> HIDE DEF T
<1>4. Cardinality(S) \in T
  BY <1>1, <1>2, <1>3, Induction
<1> QED
  BY <1>1, <1>4 DEF T

(* A sum is no larger than another one that holds, at a place of its own,   *)
(* at least as much for each of its values.                                 *)
LEMMA SumDominated ==
  ASSUME NEW f, NEW S, IsFiniteSet(S), \A x \in S : f[x] \in Nat,
         NEW g, NEW R, IsFiniteSet(R), \A y \in R : g[y] \in Nat,
         NEW h, \A x \in S : f[x] # 0 => h[x] \in R /\ f[x] <= g[h[x]],
         \A x, y \in S : f[x] # 0 /\ f[y] # 0 /\ h[x] = h[y] => x = y
  PROVE  SumFunctionOnSet(f, S) <= SumFunctionOnSet(g, R)
<1> DEFINE Fits(U, V) == \A x \in U : f[x] # 0 => h[x] \in V
           T == {n \in Nat : \A U \in SUBSET S, V \in SUBSET R :
                    Cardinality(U) = n /\ Fits(U, V)
                      => SumFunctionOnSet(f, U) <= SumFunctionOnSet(g, V)}
<1>1. /\ \A U \in SUBSET S : IsFiniteSet(U) /\ Cardinality(U) \in Nat
      /\ \A V \in SUBSET R : IsFiniteSet(V)
  BY FS_Subset, FS_CardinalityType
<1>2. /\ \A U \in SUBSET S : SumFunctionOnSet(f, U) \in Nat
      /\ \A V \in SUBSET R : SumFunctionOnSet(g, V) \in Nat
  BY <1>1, SumSplits
<1>3. 0 \in T
  <2> SUFFICES ASSUME NEW U \in SUBSET S, NEW V \in SUBSET R, Cardinality(U) = 0
               PROVE  SumFunctionOnSet(f, U) <= SumFunctionOnSet(g, V)
    OBVIOUS
  <2>1. U = {}
    BY <1>1, FS_EmptySet
  <2>2. SumFunctionOnSet(f, U) = 0
    BY <1>1, <2>1, SumStep
  <2> QED
    BY <1>2, <2>2
<1>4. ASSUME NEW n \in Nat, n \in T PROVE n + 1 \in T
  <2> SUFFICES ASSUME NEW U \in SUBSET S, NEW V \in SUBSET R,
                      Cardinality(U) = n + 1, Fits(U, V)
               PROVE  SumFunctionOnSet(f, U) <= SumFunctionOnSet(g, V)
    OBVIOUS
  <2>1. PICK x \in U : TRUE
    BY FS_EmptySet
  <2> DEFINE less == U \ {x}
  <2>2. Cardinality(less) = n /\ less \in SUBSET S
    <3>1. Cardinality(less) = Cardinality(U) - 1
      BY <1>1, <2>1, FS_RemoveElement
    <3> QED
      BY <3>1
  <2>3. SumFunctionOnSet(f, U) = f[x] + SumFunctionOnSet(f, less)
    BY <1>1, <2>1, SumSplits
  <2>4. CASE f[x] = 0
    <3>1. Fits(less, V)
      OBVIOUS
    <3>2. SumFunctionOnSet(f, less) <= SumFunctionOnSet(g, V)
      BY <1>4, <2>2, <3>1
    <3>3. SumFunctionOnSet(f, less) \in Nat
      BY <1>2, <2>2
    <3> QED
      BY <2>3, <2>4, <3>2, <3>3
  <2>5. CASE f[x] # 0
    <3> DEFINE rest == V \ {h[x]}
    <3>1. h[x] \in V /\ f[x] <= g[h[x]]
      BY <2>1, <2>5
    <3>2. Fits(less, rest)
      BY <2>1, <2>5
    <3>3. SumFunctionOnSet(f, less) <= SumFunctionOnSet(g, rest)
      BY <1>4, <2>2, <3>2
    <3>4. SumFunctionOnSet(g, V) = g[h[x]] + SumFunctionOnSet(g, rest)
      BY <1>1, <3>1, SumSplits
    <3>5. /\ SumFunctionOnSet(f, less) \in Nat /\ SumFunctionOnSet(g, rest) \in Nat
          /\ f[x] \in Nat /\ g[h[x]] \in Nat
      BY <1>2, <2>1, <2>2, <3>1
    <3> QED
      BY <2>3, <3>1, <3>3, <3>4, <3>5
  <2> QED
    BY <2>4, <2>5
<1> HIDE DEF T
<1>5. Cardinality(S) \in T
  BY <1>1, <1>3, <1>4, Induction
<1> QED
  BY <1>1, <1>5 DEF T

-----------------------------------------------------------------------------
(* What the ledger and the artifact may hold of what the agent did.         *)
Kinds == {"write", "truncate", "rename", "unlink", "read", "open", "connect", "send",
          "create", "link", "call"}
DeedSet == [id : Nat, kind : Kinds, paths : SUBSET (Names \union Directories),
            destination : Destinations \union {"none"}, bytes : Nat, cost : Nat,
            currency : Currencies \union {"none"}, result : {"ok", "error"}]

DoneInv ==
    /\ done \in Seq(DeedSet) /\ Len(done) <= MaxSteps
    /\ \A i \in DOMAIN done : /\ done[i].id = i
                              /\ done[i].kind # "call" => done[i].cost = 0

(* Every event is one of a deed; if none was lost, every deed has one.      *)
EventInv ==
    /\ \A e \in events : e.id \in DOMAIN done /\ e \in Recordings(done[e.id])
    /\ lost \in Nat /\ lost <= Len(done)
    /\ lost = 0 => \A i \in DOMAIN done :
                      done[i].kind \in Recorded => \E e \in events : e.id = i

(* Every call has one line, and the line claims no more than is true.       *)
LineInv ==
    /\ IsFiniteSet(calls)
    /\ \A c \in calls :
          /\ c.id \in DOMAIN done /\ done[c.id].kind = "call"
          /\ c.cost \in 0..done[c.id].cost
          /\ c.cost_known \in BOOLEAN /\ c.cost_complete \in BOOLEAN
          /\ c.currency \in {done[c.id].currency} \union Unnamed
          /\ c.cost_complete => c.cost_known /\ c.cost = done[c.id].cost
    /\ \A c, d \in calls : c.id = d.id => c = d
    /\ \A i \in DOMAIN done : done[i].kind = "call" => \E c \in calls : c.id = i

FileInv ==
    /\ policy \in Policies /\ kernel \in Kernels
    /\ agent \in {"new", "running", "refused"}
    /\ original \in Layouts
    /\ fileAt \in [Names -> 0..(MaxFile + MaxSteps)]
    /\ changed \subseteq 1..(MaxFile + MaxSteps)

AuditInv == DoneInv /\ EventInv /\ LineInv /\ FileInv

LEMMA RecordingIs ==
  ASSUME NEW d \in DeedSet, NEW e \in Recordings(d)
  PROVE  /\ e.id = d.id /\ e.kind = d.kind /\ e.destination = d.destination
         /\ e.paths = d.paths
            \/ (e.paths = {} /\ d.kind \in {"read", "write", "truncate"})
         /\ e.result = "unknown" \/ (e.result = d.result /\ e.bytes = d.bytes)
<1> DEFINE Paths == {d.paths} \union
                    (IF d.kind \in {"read", "write", "truncate"} THEN {{}} ELSE {})
<1>1. PICK paths \in Paths, result \in {d.result, "unknown"} :
             e = Captured(d, paths, result)
  BY DEF Recordings
<1>2. /\ e.id = d.id /\ e.kind = d.kind /\ e.destination = d.destination
      /\ e.paths = paths /\ e.result = result
      /\ e.bytes = IF result = "unknown" THEN 0 ELSE d.bytes
  BY <1>1 DEF DeedSet, Captured
<1>3. d.result # "unknown"
  BY DEF DeedSet
<1> QED
  BY <1>1, <1>2, <1>3

(* One more deed leaves the earlier ones in place.                          *)
LEMMA DeedAdded ==
  ASSUME DoneInv, NEW deed \in DeedSet, deed.id = Len(done) + 1, Len(done) < MaxSteps,
         MaxSteps \in Nat, deed.kind # "call" => deed.cost = 0,
         done' = Append(done, deed)
  PROVE  /\ DoneInv' /\ Len(done) \in Nat /\ Len(done') = Len(done) + 1
         /\ DOMAIN done = 1..Len(done) /\ DOMAIN done' = DOMAIN done \union {deed.id}
         /\ done'[deed.id] = deed
         /\ \A i \in DOMAIN done : done'[i] = done[i] /\ i # deed.id
<1>1. done \in Seq(DeedSet) /\ Len(done) \in Nat /\ DOMAIN done = 1..Len(done)
  BY DEF DoneInv
<1>2. /\ done' \in Seq(DeedSet) /\ Len(done') = Len(done) + 1
      /\ DOMAIN done' = 1..(Len(done) + 1)
      /\ done'[Len(done) + 1] = deed
      /\ \A i \in 1..Len(done) : done'[i] = done[i]
  BY <1>1
<1>3. DOMAIN done' = DOMAIN done \union {deed.id}
  BY <1>1, <1>2
<1>4. \A i \in DOMAIN done : done'[i] = done[i] /\ i # deed.id
  BY <1>1, <1>2
<1>5. DoneInv'
  BY <1>1, <1>2, <1>3, <1>4 DEF DoneInv
<1> QED
  BY <1>1, <1>2, <1>3, <1>4, <1>5

(* Captured with all its fields, without some, or not at all.               *)
LEMMA CaptureKeeps ==
  ASSUME DoneInv, EventInv, LineInv, NEW deed \in DeedSet, deed.id = Len(done) + 1,
         Len(done) < MaxSteps, MaxSteps \in Nat, deed.kind # "call", deed.cost = 0,
         Capture(deed), calls' = calls
  PROVE  (DoneInv /\ EventInv /\ LineInv)'
<1>1. done' = Append(done, deed)
  BY DEF Capture
<1>2. /\ DoneInv' /\ Len(done) \in Nat /\ Len(done') = Len(done) + 1
      /\ DOMAIN done = 1..Len(done) /\ DOMAIN done' = DOMAIN done \union {deed.id}
      /\ done'[deed.id] = deed
      /\ \A i \in DOMAIN done : done'[i] = done[i] /\ i # deed.id
  BY <1>1, DeedAdded
<1>3. \/ /\ \E e \in Recordings(deed) : events' = events \union {e}
         /\ lost' = lost
      \/ events' = events /\ lost' = lost + 1
      \/ events' = events /\ lost' = lost /\ deed.kind \notin Recorded
  BY DEF Capture
<1>4. \A e \in events' \ events : e \in Recordings(deed) /\ e.id = deed.id
  BY <1>3, RecordingIs
<1>5. \A e \in events' : e.id \in DOMAIN done' /\ e \in Recordings(done'[e.id])
  BY <1>2, <1>4 DEF EventInv
<1>6. lost' \in Nat /\ lost' <= Len(done') /\ (lost' = 0 => lost = 0)
  BY <1>2, <1>3 DEF EventInv
<1>7. ASSUME lost' = 0, NEW i \in DOMAIN done', done'[i].kind \in Recorded
      PROVE  \E e \in events' : e.id = i
  <2>1. CASE i = deed.id
    <3>1. PICK e \in Recordings(deed) : events' = events \union {e}
      BY <1>2, <1>3, <1>6, <1>7, <2>1 DEF EventInv
    <3> QED
      BY <2>1, <3>1, RecordingIs
  <2>2. CASE i \in DOMAIN done
    <3>1. \E e \in events : e.id = i
      BY <1>2, <1>6, <1>7, <2>2 DEF EventInv
    <3> QED
      BY <1>3, <3>1
  <2> QED
    BY <1>2, <2>1, <2>2
<1>8. EventInv'
  BY <1>5, <1>6, <1>7 DEF EventInv
<1>9. LineInv'
  BY <1>2 DEF LineInv
<1> QED
  BY <1>2, <1>8, <1>9

LEMMA CallKeeps ==
  ASSUME DoneInv, EventInv, LineInv, ConstantsOk,
         NEW currency \in Currencies, NEW cost \in 0..MaxCost, CallModel(currency, cost)
  PROVE  (DoneInv /\ EventInv /\ LineInv)'
<1> DEFINE call == [Deed("call", {}, "none", 0, TRUE) EXCEPT !.cost = cost,
                                                             !.currency = currency]
<1>1. /\ call \in DeedSet /\ call.id = Len(done) + 1 /\ call.kind = "call"
      /\ call.cost = cost /\ call.currency = currency
  <2> DEFINE bare == Deed("call", {}, "none", 0, TRUE)
  <2>1. Len(done) + 1 \in Nat /\ cost \in Nat
    BY DEF DoneInv, ConstantsOk
  <2>2. /\ bare.id = Len(done) + 1 /\ bare.kind = "call" /\ bare.paths = {}
        /\ bare.destination = "none" /\ bare.bytes = 0 /\ bare.result = "ok"
        /\ bare.cost = 0 /\ bare.currency = "none"
    BY DEF Deed
  <2>3. bare \in DeedSet
    <3>1. "call" \in Kinds
      BY DEF Kinds
    <3>2. {} \in SUBSET (Names \union Directories)
      OBVIOUS
    <3> QED
      BY <2>1, <3>1, <3>2 DEF Deed, DeedSet
  <2> HIDE DEF bare
  <2>4. call = [bare EXCEPT !.cost = cost, !.currency = currency]
    BY DEF bare
  <2> HIDE DEF call
  <2> QED
    BY <2>1, <2>2, <2>3, <2>4 DEF DeedSet
<1>2. done' = Append(done, call) /\ Len(done) < MaxSteps /\ UNCHANGED <<events, lost>>
  BY DEF CallModel, Working
<1>3. PICK known \in 0..cost, cost_known \in BOOLEAN, cost_complete \in BOOLEAN,
           named \in {currency} \union Unnamed :
           /\ cost_complete => cost_known /\ known = cost /\ named = currency
           /\ calls' = calls \union
                 {[id |-> call.id, currency |-> named, cost |-> known,
                   cost_known |-> cost_known, cost_complete |-> cost_complete]}
  BY DEF CallModel
<1> DEFINE line == [id |-> call.id, currency |-> named, cost |-> known,
                    cost_known |-> cost_known, cost_complete |-> cost_complete]
<1> HIDE DEF call
<1>4. /\ DoneInv' /\ Len(done) \in Nat /\ Len(done') = Len(done) + 1
      /\ DOMAIN done = 1..Len(done) /\ DOMAIN done' = DOMAIN done \union {call.id}
      /\ done'[call.id] = call
      /\ \A i \in DOMAIN done : done'[i] = done[i] /\ i # call.id
  BY <1>1, <1>2, DeedAdded DEF ConstantsOk
<1>5. EventInv'
  <2>1. "call" \notin Recorded
    BY DEF Recorded, Writes
  <2> QED
    BY <1>1, <1>2, <1>4, <2>1 DEF EventInv
<1>6. LineInv'
  <2>1. calls' = calls \union {line}
    BY <1>3
  <2>2. IsFiniteSet(calls')
    <3> HIDE DEF line
    <3>1. IsFiniteSet(calls \union {line})
      BY FS_AddElement DEF LineInv
    <3> QED
      BY <2>1, <3>1
  <2>3. /\ line.id = call.id /\ line.cost = known /\ line.cost_known = cost_known
        /\ line.cost_complete = cost_complete /\ line.currency = named
    OBVIOUS
  <2> DEFINE Honest(c) == /\ c.id \in DOMAIN done /\ done[c.id].kind = "call"
                          /\ c.cost \in 0..done[c.id].cost
                          /\ c.cost_known \in BOOLEAN /\ c.cost_complete \in BOOLEAN
                          /\ c.currency \in {done[c.id].currency} \union Unnamed
                          /\ c.cost_complete => c.cost_known /\ c.cost = done[c.id].cost
  <2> HIDE DEF line
  <2>4. \A c \in calls : Honest(c)
    BY DEF LineInv
  <2>5. ASSUME NEW c \in calls' PROVE Honest(c)'
    <3>1. CASE c = line
      <4>1. c.id \in DOMAIN done' /\ done'[c.id] = call
        BY <1>4, <2>3, <3>1
      <4> QED
        BY <1>1, <1>3, <2>3, <3>1, <4>1
    <3>2. CASE c \in calls
      <4>1. c.id \in DOMAIN done /\ c.id \in DOMAIN done' /\ done'[c.id] = done[c.id]
        BY <1>4, <2>4, <3>2
      <4> QED
        BY <2>4, <3>2, <4>1
    <3> QED
      BY <2>1, <3>1, <3>2
  <2>6. \A c, d \in calls' : c.id = d.id => c = d
    BY <1>4, <2>1, <2>3 DEF LineInv
  <2>7. \A i \in DOMAIN done' : done'[i].kind = "call" => \E c \in calls' : c.id = i
    BY <1>4, <2>1, <2>3 DEF LineInv
  <2> QED
    BY <2>2, <2>5, <2>6, <2>7 DEF LineInv
<1> QED
  BY <1>4, <1>5, <1>6

(* An operation that the file system allows leads to files that there are.  *)
LEMMA EffectTypes ==
  ASSUME FileInv, DoneInv, ConstantsOk, Len(done) < MaxSteps,
         NEW op \in Requests, Possible(op), Effect(op)
  PROVE  /\ fileAt' \in [Names -> 0..(MaxFile + MaxSteps)]
         /\ changed' \subseteq 1..(MaxFile + MaxSteps)
<1> DEFINE Files == 0..(MaxFile + MaxSteps)
           fresh == MaxFile + Len(done) + 1
<1>1. op.kind # "rename" => op.target \in Names /\ op.source \subseteq Names
  BY DEF Requests, DirectoryRenames
<1>2. fileAt \in [Names -> Files] /\ NoFile \in Files /\ fresh \in Files
  BY DEF FileInv, DoneInv, ConstantsOk, NoFile
<1>3. \A n \in Names : fileAt[n] # NoFile => fileAt[n] \in 1..(MaxFile + MaxSteps)
  BY DEF FileInv, NoFile, ConstantsOk
<1> HIDE DEF Files, fresh
<1>4. ASSUME NEW s, NEW t PROVE Renamed(s, t) \in [Names -> Files]
  <2>1. \A n : From(s, t, n) # {} =>
                  (CHOOSE name \in From(s, t, n) : TRUE) \in Names
    BY DEF From
  <2> QED
    BY <1>2, <2>1 DEF Renamed
<1>5. fileAt' \in [Names -> Files]
  <2>1. CASE op.kind = "rename"
    BY <1>4, <2>1 DEF Effect
  <2>2. CASE op.kind = "link"
    BY <1>1, <1>2, <2>2 DEF Effect
  <2>3. CASE op.kind \notin {"rename", "link"}
    <3>1. fileAt' \in {fileAt, [fileAt EXCEPT ![op.target] = fresh],
                       [fileAt EXCEPT ![op.target] = NoFile]}
      BY <2>3 DEF Effect, fresh
    <3> QED
      BY <1>2, <3>1
  <2> QED
    BY <2>1, <2>2, <2>3
<1>6. changed' \subseteq 1..(MaxFile + MaxSteps)
  <2>1. changed' = changed \/ (/\ op.kind \in {"truncate", "write"}
                               /\ changed' = changed \union {fileAt[op.target]})
    BY DEF Effect
  <2>2. op.kind \in {"truncate", "write"} => fileAt[op.target] # NoFile
    BY DEF Possible, Exists
  <2>3. op.kind \in {"truncate", "write"} => fileAt[op.target] \in 1..(MaxFile + MaxSteps)
    BY <1>1, <1>3, <2>2
  <2>4. changed \subseteq 1..(MaxFile + MaxSteps)
    BY DEF FileInv
  <2> QED
    BY <2>1, <2>3, <2>4
<1> QED
  BY <1>5, <1>6 DEF Files

LEMMA DeedIs ==
  ASSUME DoneInv, NEW kind \in Kinds, NEW paths \in SUBSET (Names \union Directories),
         NEW destination \in Destinations \union {"none"}, NEW bytes \in Nat,
         NEW ok \in BOOLEAN
  PROVE  LET deed == Deed(kind, paths, destination, bytes, ok) IN
         deed \in DeedSet /\ deed.id = Len(done) + 1 /\ deed.kind = kind /\ deed.cost = 0
<1>1. Len(done) + 1 \in Nat
  BY DEF DoneInv
<1> QED
  BY <1>1 DEF Deed, DeedSet

LEMMA OperateAudit ==
  ASSUME AuditInv, ConstantsOk, NEW op \in Requests, Operate(op)
  PROVE  AuditInv'
<1> DEFINE ok == Possible(op) /\ ~KernelRefuses(policy, kernel, op)
           bytes == IF ok THEN op.bytes ELSE 0
           paths == {op.target} \union op.source
<1>1. /\ op.kind \in Kinds \ {"call"} /\ op.bytes \in Nat
      /\ paths \in SUBSET (Names \union Directories)
  BY DEF Requests, DirectoryRenames, Kinds
<1>2. PICK kind \in KindsRecordedFor(op) : Capture(Deed(kind, paths, "none", bytes, ok))
  BY DEF Operate
<1>3. kind \in Kinds \ {"call"} /\ bytes \in Nat /\ ok \in BOOLEAN
  BY <1>1 DEF KindsRecordedFor, Kinds
<1> DEFINE deed == Deed(kind, paths, "none", bytes, ok)
<1>4. deed \in DeedSet /\ deed.id = Len(done) + 1 /\ deed.kind # "call" /\ deed.cost = 0
  <2> HIDE DEF ok, bytes, paths
  <2> QED
    BY <1>1, <1>3, DeedIs DEF AuditInv
<1>5. Capture(deed) /\ calls' = calls /\ Len(done) < MaxSteps /\ MaxSteps \in Nat
  BY <1>2 DEF Operate, Working, ConstantsOk
<1> HIDE DEF deed
<1>6. (DoneInv /\ EventInv /\ LineInv)'
  BY <1>4, <1>5, CaptureKeeps DEF AuditInv
<1>7. /\ fileAt' \in [Names -> 0..(MaxFile + MaxSteps)]
      /\ changed' \subseteq 1..(MaxFile + MaxSteps)
  <2>1. CASE ok
    BY <1>5, <2>1, EffectTypes DEF Operate, AuditInv
  <2>2. CASE ~ok
    BY <2>2 DEF Operate, AuditInv, FileInv
  <2> QED
    BY <2>1, <2>2
<1>8. FileInv'
  BY <1>7 DEF Operate, AuditInv, FileInv
<1> QED
  BY <1>6, <1>8 DEF AuditInv

LEMMA InitAudit == ConstantsOk /\ Init => AuditInv
<1> SUFFICES ASSUME ConstantsOk, Init PROVE AuditInv
  OBVIOUS
<1>1. DoneInv
  BY DEF Init, DoneInv, ConstantsOk
<1>2. EventInv
  BY DEF Init, EventInv
<1>3. LineInv
  BY FS_EmptySet DEF Init, LineInv
<1>4. FileInv
  BY DEF Init, FileInv, ConstantsOk
<1> QED
  BY <1>1, <1>2, <1>3, <1>4 DEF AuditInv

LEMMA NextAudit == ConstantsOk /\ AuditInv /\ [Next]_vars => AuditInv'
<1> SUFFICES ASSUME ConstantsOk, AuditInv, [Next]_vars PROVE AuditInv'
  OBVIOUS
<1>1. CASE Start
  BY <1>1 DEF Start, AuditInv, DoneInv, EventInv, LineInv, FileInv
<1>2. ASSUME NEW op \in Requests, Operate(op) PROVE AuditInv'
  BY <1>2, OperateAudit
<1>3. ASSUME NEW n \in Names, NEW bytes \in {0, 1}, ReadFile(n, bytes)
      PROVE  AuditInv'
  <2> DEFINE deed == Deed("read", {n}, "none", IF Exists(n) THEN bytes ELSE 0, Exists(n))
  <2>1. deed \in DeedSet /\ deed.id = Len(done) + 1 /\ deed.kind # "call" /\ deed.cost = 0
    <3>1. /\ "read" \in Kinds /\ {n} \in SUBSET (Names \union Directories) /\ Exists(n) \in BOOLEAN
          /\ (IF Exists(n) THEN bytes ELSE 0) \in Nat
      BY DEF Kinds, Exists
    <3> QED
      BY <3>1, DeedIs DEF AuditInv
  <2>2. Capture(deed) /\ calls' = calls /\ Len(done) < MaxSteps /\ MaxSteps \in Nat
    BY <1>3 DEF ReadFile, Working, ConstantsOk
  <2> HIDE DEF deed
  <2>3. (DoneInv /\ EventInv /\ LineInv)'
    BY <2>1, <2>2, CaptureKeeps DEF AuditInv
  <2> QED
    BY <1>3, <2>3 DEF ReadFile, AuditInv, FileInv
<1>4. ASSUME NEW d \in Destinations, NEW ok \in BOOLEAN, Contact(d, ok)
      PROVE  AuditInv'
  <2>1. PICK kind \in {"connect", "send"} : Capture(Deed(kind, {}, d, 0, ok))
    BY <1>4 DEF Contact
  <2> DEFINE deed == Deed(kind, {}, d, 0, ok)
  <2>2. deed \in DeedSet /\ deed.id = Len(done) + 1 /\ deed.kind # "call" /\ deed.cost = 0
    <3>1. kind \in Kinds /\ kind # "call" /\ {} \in SUBSET (Names \union Directories)
      BY DEF Kinds
    <3> QED
      BY <3>1, DeedIs DEF AuditInv
  <2>3. Capture(deed) /\ calls' = calls /\ Len(done) < MaxSteps /\ MaxSteps \in Nat
    BY <1>4, <2>1 DEF Contact, Working, ConstantsOk
  <2> HIDE DEF deed
  <2>4. (DoneInv /\ EventInv /\ LineInv)'
    BY <2>2, <2>3, CaptureKeeps DEF AuditInv
  <2> QED
    BY <1>4, <2>4 DEF Contact, AuditInv, FileInv
<1>5. ASSUME NEW c \in Currencies, NEW cost \in 0..MaxCost, CallModel(c, cost)
      PROVE  AuditInv'
  <2>1. (DoneInv /\ EventInv /\ LineInv)'
    BY <1>5, CallKeeps DEF AuditInv
  <2> QED
    BY <1>5, <2>1 DEF CallModel, AuditInv, FileInv
<1>6. CASE UNCHANGED vars
  BY <1>6 DEF vars, AuditInv, DoneInv, EventInv, LineInv, FileInv
<1> QED
  BY <1>1, <1>2, <1>3, <1>4, <1>5, <1>6 DEF Next

-----------------------------------------------------------------------------
(* The protected directories.  An agent only runs on a kernel that was      *)
(* validated for the policy, and nothing has happened before it runs.       *)
StartInv ==
    /\ agent = "new" => fileAt = original /\ changed = {}
    /\ agent = "running" => Ready(policy, kernel)

(* The names inside have the files they had; a file that has a name inside  *)
(* and one outside now had one outside from the start, which is what links  *)
(* and renames could undo; and only such files were changed.                *)
Intact == \A n \in Names : Protected(n) => fileAt[n] = original[n]
Apart ==
    \A n, m \in Names :
        Protected(n) /\ ~Protected(m) /\ original[n] # NoFile /\ fileAt[m] = original[n]
        => LinkedOutside(original[n])
Unchanged ==
    \A n \in Names : Protected(n) /\ original[n] \in changed => LinkedOutside(original[n])

IInv == StartInv /\ (Enforced /\ ~AboveRenamed => Intact /\ Apart /\ Unchanged)

(* A path that is neither in nor above a protected directory.               *)
Aside(path) ==
    \A directory \in policy.directories :
        ~IsPrefix(directory, path) /\ ~IsStrictPrefix(path, directory)

(* Of two prefixes of a path one is a prefix of the other.                  *)
LEMMA PrefixesCompare ==
  ASSUME NEW S, NEW a \in Seq(S), NEW b \in Seq(S), NEW n \in Seq(S),
         IsPrefix(a, n), IsPrefix(b, n), Len(a) <= Len(b)
  PROVE  IsPrefix(a, b)
<1>1. Len(a) \in Nat /\ Len(b) \in Nat /\ Len(n) \in Nat
  OBVIOUS
<1>2. /\ Len(a) <= Len(n) /\ SubSeq(a, 1, Len(a)) = SubSeq(n, 1, Len(a))
      /\ Len(b) <= Len(n) /\ SubSeq(b, 1, Len(b)) = SubSeq(n, 1, Len(b))
  BY DEF IsPrefix
<1>3. \A i \in 1..Len(b) : b[i] = n[i]
  <2>1. \A i \in 1..Len(b) : SubSeq(b, 1, Len(b))[i] = b[i] /\ SubSeq(n, 1, Len(b))[i] = n[i]
    BY <1>1, <1>2
  <2> QED
    BY <1>2, <2>1
<1>4. SubSeq(n, 1, Len(a)) = [i \in 1..Len(a) |-> n[i]]
  BY <1>1, <1>2
<1>5. SubSeq(b, 1, Len(a)) = [i \in 1..Len(a) |-> b[i]]
  BY <1>1
<1>6. \A i \in 1..Len(a) : b[i] = n[i]
  BY <1>1, <1>3
<1>7. SubSeq(n, 1, Len(a)) = SubSeq(b, 1, Len(a))
  BY <1>4, <1>5, <1>6
<1> QED
  BY <1>2, <1>7 DEF IsPrefix

(* So nothing protected is at or below a path aside.                        *)
LEMMA NothingBelow ==
  ASSUME NEW S, NEW path \in Seq(S), NEW n \in Seq(S), policy.directories \subseteq Seq(S),
         Aside(path), Protected(n)
  PROVE  ~IsPrefix(path, n)
<1> SUFFICES ASSUME IsPrefix(path, n) PROVE FALSE
  OBVIOUS
<1>1. PICK directory \in policy.directories : IsPrefix(directory, n)
  BY DEF Protected, PathIsWithin
<1>2. directory \in Seq(S) /\ Len(path) \in Nat /\ Len(directory) \in Nat
  OBVIOUS
<1>3. IsPrefix(path, directory) \/ IsPrefix(directory, path)
  BY <1>1, <1>2, PrefixesCompare
<1>4. ~IsPrefix(directory, path) /\ ~IsStrictPrefix(path, directory)
  BY DEF Aside
<1>5. path = directory
  BY <1>3, <1>4 DEF IsStrictPrefix
<1> QED
  BY <1>3, <1>4, <1>5

(* What a rename carries to t lies at or below t.                           *)
LEMMA CarriedBelow ==
  ASSUME NEW S, NEW s \in Seq(S), NEW t \in Seq(S), NEW name \in Seq(S), IsPrefix(s, name)
  PROVE  IsPrefix(t, Carried(s, t, name))
<1> DEFINE rest == SubSeq(name, Len(s) + 1, Len(name))
<1>1. rest \in Seq(S)
  <2>1. Len(s) \in Nat /\ Len(name) \in Nat
    OBVIOUS
  <2> QED
    BY <2>1
<1> HIDE DEF rest
<1>2. /\ Len(t) \in Nat /\ Len(rest) \in Nat /\ Len(t \o rest) = Len(t) + Len(rest)
      /\ \A i \in 1..Len(t) : (t \o rest)[i] = t[i]
  BY <1>1
<1>3. SubSeq(t, 1, Len(t)) = [i \in 1..Len(t) |-> t[i]]
  BY <1>2
<1>4. SubSeq(t \o rest, 1, Len(t)) = [i \in 1..Len(t) |-> (t \o rest)[i]]
  BY <1>1, <1>2
<1>5. IsPrefix(t, t \o rest)
  BY <1>2, <1>3, <1>4 DEF IsPrefix
<1> QED
  BY <1>5 DEF Carried, rest

LEMMA PathsAreSequences ==
  ASSUME ConstantsOk, AuditInv
  PROVE  /\ Names \subseteq Seq(Components) /\ Directories \subseteq Seq(Components)
         /\ policy.directories \subseteq Seq(Components)
  BY DEF ConstantsOk, AuditInv, FileInv

(* An operation that the kernel lets through on a validated system touches  *)
(* no protected name (enforce/model.py:123 _paths_affected, :128            *)
(* evaluate_operation).                                                     *)
LEMMA NothingProtectedTouched ==
    ASSUME NEW op \in Requests, Enforced, Ready(policy, kernel),
           ~KernelRefuses(policy, kernel, op)
    PROVE  \A path \in {op.target} \union op.source : ~Protected(path)
<1>1. op.kind \in FileOperations
  BY DEF Requests, DirectoryRenames, FileOperations
<1>2. kernel.lsm /\ RequiredHooks(FileOperations) \subseteq kernel.hooks
  BY DEF Ready, Enforced
<1>3. RequiredHooks({op.kind}) \subseteq kernel.hooks
  BY <1>1, <1>2 DEF RequiredHooks
<1>4. Allowed(policy, op)
  BY <1>2, <1>3 DEF KernelRefuses
<1>5. ProtectedPaths(policy, op) = {}
  BY <1>1, <1>4 DEF Allowed, WouldDeny, Enforced
<1> QED
  BY <1>5 DEF ProtectedPaths, PathsAffected, Protected

LEMMA InitIInv == Init => IInv
  BY DEF Init, IInv, StartInv, Enforced

(* One more deed: the renames seen so far were seen before, or it is one.   *)
LEMMA AboveGrows ==
  ASSUME DoneInv, NEW deed, done' = Append(done, deed), policy' = policy
  PROVE  /\ AboveRenamed => AboveRenamed'
         /\ ~AboveRenamed' /\ deed.kind = "rename" /\ deed.result = "ok" =>
               \A path \in deed.paths, directory \in policy.directories :
                  ~IsStrictPrefix(path, directory)
<1>1. done \in Seq(DeedSet) /\ DOMAIN done = 1..Len(done) /\ Len(done) \in Nat
  BY DEF DoneInv
<1>2. /\ DOMAIN done' = 1..(Len(done) + 1) /\ done'[Len(done) + 1] = deed
      /\ \A i \in 1..Len(done) : done'[i] = done[i]
  BY <1>1
<1>3. deed \in Deeds' /\ Deeds \subseteq Deeds'
  <2>1. Len(done) + 1 \in 1..(Len(done) + 1) /\ 1..Len(done) \subseteq 1..(Len(done) + 1)
    BY <1>1
  <2> QED
    BY <1>1, <1>2, <2>1 DEF Deeds
<1> QED
  BY <1>3 DEF AboveRenamed

(* A step that leaves the files alone and starts nothing keeps the          *)
(* invariant.                                                               *)
LEMMA FilesUntouched ==
    ASSUME IInv, UNCHANGED <<policy, kernel, agent, original, fileAt, changed>>,
           AboveRenamed => AboveRenamed'
    PROVE  IInv'
<1>1. \A f : LinkedOutside(f)' <=> LinkedOutside(f)
  BY DEF LinkedOutside, Protected
<1>2. (Intact /\ Apart /\ Unchanged) => (Intact /\ Apart /\ Unchanged)'
  BY <1>1 DEF Intact, Apart, Unchanged, Protected
<1>3. StartInv' /\ (Enforced' => Enforced)
  BY DEF IInv, StartInv, Ready, Enforced
<1> QED
  BY <1>2, <1>3 DEF IInv

LEMMA StartIInv == IInv /\ Start => IInv'
<1> SUFFICES ASSUME IInv, Start PROVE IInv'
  OBVIOUS
<1> USE DEF Start
<1>1. /\ fileAt' = original /\ changed' = {} /\ original' = original
      /\ policy' = policy /\ kernel' = kernel
  BY DEF IInv, StartInv
<1>2. agent' # "new" /\ (agent' = "running" => Ready(policy, kernel))
  OBVIOUS
<1>3. StartInv'
  BY <1>1, <1>2 DEF StartInv, Ready
<1>4. (Intact /\ Apart /\ Unchanged)'
  BY <1>1 DEF Intact, Apart, Unchanged, LinkedOutside, Protected
<1> QED
  BY <1>3, <1>4 DEF IInv

(* A rename between paths aside leaves the names inside alone and puts      *)
(* nothing outside that was not outside.                                    *)
LEMMA RenameAside ==
  ASSUME ConstantsOk, AuditInv, NEW s \in Names \union Directories,
         NEW t \in Names \union Directories, Aside(s), Aside(t), NEW n \in Names
  PROVE  IF Protected(n) THEN Renamed(s, t)[n] = fileAt[n]
         ELSE Renamed(s, t)[n] \in {NoFile} \union {fileAt[m] : m \in {k \in Names : ~Protected(k)}}
<1>1. \A m \in Names : Protected(m) => ~IsPrefix(s, m) /\ ~IsPrefix(t, m)
  BY PathsAreSequences, NothingBelow
<1>2. CASE {s, t} \subseteq Names /\ fileAt[s] = fileAt[t]
  BY <1>2 DEF Renamed
<1>3. CASE ~({s, t} \subseteq Names /\ fileAt[s] = fileAt[t])
  <2>1. Renamed(s, t)[n] =
           IF From(s, t, n) # {} THEN fileAt[CHOOSE name \in From(s, t, n) : TRUE]
           ELSE IF IsPrefix(s, n) \/ IsPrefix(t, n) THEN NoFile ELSE fileAt[n]
    BY <1>3, Zenon DEF Renamed
  <2>2. CASE From(s, t, n) # {}
    <3> DEFINE name == CHOOSE k \in From(s, t, n) : TRUE
    <3>1. name \in From(s, t, n)
      BY <2>2
    <3>2. name \in Names /\ IsPrefix(s, name) /\ Carried(s, t, name) = n
      BY <3>1 DEF From
    <3>3. Renamed(s, t)[n] = fileAt[name]
      BY <2>1, <2>2
    <3> HIDE DEF name
    <3>4. ~Protected(name)
      BY <1>1, <3>2
    <3>5. IsPrefix(t, n)
      BY <3>2, PathsAreSequences, CarriedBelow
    <3>6. ~Protected(n)
      BY <1>1, <3>5
    <3> QED
      BY <3>2, <3>3, <3>4, <3>6
  <2>3. CASE From(s, t, n) = {}
    BY <1>1, <2>1, <2>3
  <2> QED
    BY <2>2, <2>3
<1> QED
  BY <1>2, <1>3

(* What an operation on paths aside does to the files.                      *)
LEMMA EffectIInv ==
    ASSUME ConstantsOk, AuditInv, Intact, Apart, Unchanged,
           NEW op \in Requests, Possible(op), Effect(op),
           policy' = policy, original' = original,
           \A path \in {op.target} \union op.source : ~Protected(path),
           op.kind = "rename" => \A path \in {op.target} \union op.source : Aside(path)
    PROVE  (Intact /\ Apart /\ Unchanged)'
<1> DEFINE fresh == MaxFile + Len(done) + 1
           outside == {fileAt[m] : m \in {k \in Names : ~Protected(k)}}
<1>1. \A n : Protected(n)' <=> Protected(n)
  BY DEF Protected
<1>2. \A f : LinkedOutside(f)' <=> LinkedOutside(f)
  BY <1>1 DEF LinkedOutside
<1>3. /\ DOMAIN fileAt = Names /\ \A n \in Names : original[n] \in 0..MaxFile
      /\ MaxFile \in Nat /\ Len(done) \in Nat
  BY DEF AuditInv, FileInv, DoneInv, ConstantsOk
<1>4. op.kind # "rename" => op.target \in Names /\ op.source \subseteq Names
  BY DEF Requests, DirectoryRenames
<1>5. op.target \in Names \union Directories /\ op.source \subseteq Names \union Directories
  BY DEF Requests, DirectoryRenames
<1>6. ASSUME NEW n \in Names
      PROVE  IF Protected(n) THEN fileAt'[n] = fileAt[n]
             ELSE fileAt'[n] \in {NoFile, fresh} \union outside
  <2>1. CASE op.kind = "rename"
    <3>1. PICK s \in op.source : fileAt' = Renamed(s, op.target)
      BY <2>1 DEF Effect
    <3>2. Aside(s) /\ Aside(op.target) /\ s \in Names \union Directories
      BY <1>5, <2>1
    <3> HIDE DEF fresh
    <3> QED
      BY <1>5, <3>1, <3>2, RenameAside
  <2>2. CASE op.kind = "link"
    <3>1. PICK s \in op.source : fileAt' = [fileAt EXCEPT ![op.target] = fileAt[s]]
      BY <2>2 DEF Effect
    <3>2. fileAt[s] \in outside
      BY <1>4, <2>2
    <3> QED
      BY <1>3, <1>4, <2>2, <3>1, <3>2
  <2>3. CASE op.kind \notin {"rename", "link"}
    <3>1. fileAt' \in {fileAt, [fileAt EXCEPT ![op.target] = fresh],
                       [fileAt EXCEPT ![op.target] = NoFile]}
      BY <2>3 DEF Effect
    <3> HIDE DEF fresh
    <3> QED
      BY <1>3, <1>4, <2>3, <3>1
  <2> QED
    BY <2>1, <2>2, <2>3
<1>7. Intact'
  BY <1>1, <1>6 DEF Intact
<1>8. \A n \in Names : original[n] # fresh
  BY <1>3
<1>9. Apart'
  <2> SUFFICES ASSUME NEW n \in Names, NEW m \in Names, Protected(n), ~Protected(m),
                      original[n] # NoFile, fileAt'[m] = original[n]
               PROVE  LinkedOutside(original[n])
    BY <1>1, <1>2 DEF Apart
  <2>1. PICK k \in Names : ~Protected(k) /\ fileAt'[m] = fileAt[k]
    <3>1. fileAt'[m] \in {NoFile, fresh} \union outside
      BY <1>6
    <3> HIDE DEF fresh
    <3> QED
      BY <1>8, <3>1
  <2> QED
    BY <2>1 DEF Apart
<1>10. Unchanged'
  <2>1. changed' = changed \/ (/\ op.kind \in {"truncate", "write"}
                               /\ changed' = changed \union {fileAt[op.target]})
    BY DEF Effect
  <2>2. op.kind \in {"truncate", "write"} =>
           op.target \in Names /\ ~Protected(op.target) /\ fileAt[op.target] # NoFile
    BY <1>4 DEF Possible, Exists
  <2> SUFFICES ASSUME NEW n \in Names, Protected(n), original[n] \in changed'
               PROVE  LinkedOutside(original[n])
    BY <1>1, <1>2 DEF Unchanged
  <2>3. CASE original[n] \in changed
    BY <2>3 DEF Unchanged
  <2>4. CASE original[n] \notin changed
    <3>1. op.kind \in {"truncate", "write"} /\ original[n] = fileAt[op.target]
      BY <2>1, <2>4
    <3> QED
      BY <2>2, <3>1 DEF Apart
  <2> QED
    BY <2>3, <2>4
<1> QED
  BY <1>7, <1>9, <1>10

LEMMA OperateIInv ==
    ASSUME ConstantsOk, AuditInv, IInv, NEW op \in Requests, Operate(op)
    PROVE  IInv'
<1> DEFINE ok == Possible(op) /\ ~KernelRefuses(policy, kernel, op)
           bytes == IF ok THEN op.bytes ELSE 0
           paths == {op.target} \union op.source
<1>1. /\ agent = "running" /\ Ready(policy, kernel)
      /\ UNCHANGED <<policy, kernel, agent, original>>
  BY DEF Operate, Working, IInv, StartInv
<1>2. PICK kind \in KindsRecordedFor(op) : done' = Append(done, Deed(kind, paths, "none", bytes, ok))
  BY DEF Operate, Capture
<1> DEFINE deed == Deed(kind, paths, "none", bytes, ok)
<1>3. /\ deed.kind = kind /\ deed.paths = paths /\ (ok => deed.result = "ok")
      /\ op.kind = "rename" => kind = "rename"
  BY DEF Deed, KindsRecordedFor
<1>4. /\ AboveRenamed => AboveRenamed'
      /\ ~AboveRenamed' /\ ok /\ op.kind = "rename" =>
            \A path \in paths, directory \in policy.directories :
               ~IsStrictPrefix(path, directory)
  <2>1. done' = Append(done, deed) /\ DoneInv /\ policy' = policy
    BY <1>1, <1>2 DEF AuditInv
  <2> HIDE DEF deed, ok, paths
  <2> QED
    BY <1>3, <2>1, AboveGrows
<1> HIDE DEF deed, bytes
<1>5. CASE ~ok
  <2>1. UNCHANGED <<fileAt, changed>>
    BY <1>5 DEF Operate
  <2> HIDE DEF ok
  <2> QED
    BY <1>1, <1>4, <2>1, FilesUntouched
<1>6. CASE ok
  <2>1. Effect(op) /\ Possible(op) /\ ~KernelRefuses(policy, kernel, op)
    BY <1>6 DEF Operate
  <2> HIDE DEF ok
  <2>2. StartInv'
    BY <1>1 DEF StartInv, Ready
  <2>3. ASSUME Enforced', ~AboveRenamed' PROVE (Intact /\ Apart /\ Unchanged)'
    <3>1. Enforced /\ ~AboveRenamed
      BY <1>1, <1>4, <2>3 DEF Enforced
    <3>2. Intact /\ Apart /\ Unchanged
      BY <3>1 DEF IInv
    <3>3. \A path \in paths : ~Protected(path)
      BY <1>1, <2>1, <3>1, NothingProtectedTouched
    <3>4. op.kind = "rename" => \A path \in paths : Aside(path)
      BY <1>4, <1>6, <2>3, <3>3 DEF Aside, Protected, PathIsWithin
    <3> QED
      BY <1>1, <2>1, <3>2, <3>3, <3>4, EffectIInv
  <2> QED
    BY <2>2, <2>3 DEF IInv
<1> QED
  BY <1>5, <1>6

LEMMA NextIInv == ConstantsOk /\ AuditInv /\ IInv /\ [Next]_vars => IInv'
<1> SUFFICES ASSUME ConstantsOk, AuditInv, IInv, [Next]_vars PROVE IInv'
  OBVIOUS
<1>1. CASE Start
  BY <1>1, StartIInv
<1>2. ASSUME NEW op \in Requests, Operate(op) PROVE IInv'
  BY <1>2, OperateIInv
<1>3. ASSUME NEW deed, done' = Append(done, deed),
             UNCHANGED <<policy, kernel, agent, original, fileAt, changed>>
      PROVE  IInv'
  BY <1>3, AboveGrows, FilesUntouched DEF AuditInv
<1>4. ASSUME NEW n \in Names, NEW bytes \in {0, 1}, ReadFile(n, bytes)
      PROVE  IInv'
  BY <1>3, <1>4 DEF ReadFile, Capture
<1>5. ASSUME NEW d \in Destinations, NEW ok \in BOOLEAN, Contact(d, ok)
      PROVE  IInv'
  BY <1>3, <1>5 DEF Contact, Capture
<1>6. ASSUME NEW c \in Currencies, NEW cost \in 0..MaxCost, CallModel(c, cost)
      PROVE  IInv'
  BY <1>3, <1>6 DEF CallModel
<1>7. CASE UNCHANGED vars
  <2>1. AboveRenamed => AboveRenamed'
    BY <1>7 DEF vars, AboveRenamed, Deeds
  <2> QED
    BY <1>7, <2>1, FilesUntouched DEF vars
<1> QED
  BY <1>1, <1>2, <1>4, <1>5, <1>6, <1>7 DEF Next

(* Enforced on a validated kernel, a policy that covers every operation     *)
(* keeps its directories as they were, unless a directory above them was    *)
(* renamed: no sequence of links, other renames, writes and removals        *)
(* reaches the names, nor the content of a file that had no name outside    *)
(* from the start (enforce/model.py:128 evaluate_operation, :181            *)
(* validate_installation).                                                  *)
THEOREM ProtectionHolds == Spec => []EnforcedStaysIntact
<1>1. IInv => EnforcedStaysIntact
  BY DEF IInv, Intact, Unchanged, EnforcedStaysIntact
<1> QED
  BY <1>1, InitIInv, NextIInv, InitAudit, NextAudit, ConstantsOk, PTL DEF Spec

-----------------------------------------------------------------------------
(* From what the ledger holds to what was done, and back.                   *)
Matches(e, d) ==
    /\ e.id = d.id /\ e.kind = d.kind /\ e.destination = d.destination
    /\ e.paths = d.paths \/ (e.paths = {} /\ d.kind \in {"read", "write", "truncate"})
    /\ e.result = "unknown" \/ (e.result = d.result /\ e.bytes = d.bytes)

LEMMA EventIsADeed ==
  ASSUME AuditInv, NEW e \in events
  PROVE  /\ e.id \in DOMAIN done /\ done[e.id] \in DeedSet
         /\ Matches(e, done[e.id])
<1>1. e.id \in DOMAIN done /\ e \in Recordings(done[e.id])
  BY DEF AuditInv, EventInv
<1>2. done[e.id] \in DeedSet
  BY <1>1 DEF AuditInv, DoneInv
<1> QED
  BY <1>1, <1>2, RecordingIs DEF Matches

LEMMA DeedHasAnEvent ==
  ASSUME AuditInv, lost = 0, NEW d \in Deeds, d.kind \in Recorded
  PROVE  d \in DeedSet /\ \E e \in events : Matches(e, d)
<1>1. PICK i \in DOMAIN done : d = done[i]
  BY DEF Deeds
<1>2. d \in DeedSet /\ d.id = i
  BY <1>1 DEF AuditInv, DoneInv
<1>3. PICK e \in events : e.id = i
  BY <1>1 DEF AuditInv, EventInv
<1> QED
  BY <1>1, <1>2, <1>3, EventIsADeed

LEMMA FindingsSay ==
  ASSUME NEW violations, NEW uncertain, NEW f \in Findings(violations, uncertain)
  PROVE  /\ f.verdict = VIOLATION => f.ids = Ids(violations)
         /\ f.verdict = PASS => violations = {} /\ uncertain = {}
<1>1. \/ f = [verdict |-> VIOLATION, ids |-> Ids(violations)]
      \/ f = [verdict |-> INSUFFICIENT, ids |-> Ids(uncertain)]
      \/ /\ f = [verdict |-> PASS, ids |-> {}]
         /\ violations = {} /\ uncertain = {}
  BY DEF Findings
<1>2. VIOLATION # INSUFFICIENT /\ VIOLATION # PASS /\ INSUFFICIENT # PASS
  BY DEF VIOLATION, INSUFFICIENT, PASS
<1> QED
  BY <1>1, <1>2

TrueFinding(rule, f) ==
    /\ f.verdict = VIOLATION =>
          \A i \in f.ids : Offends(rule, done[i], Deeds) \/ Attempt(rule, done[i])
    /\ f.verdict = PASS /\ lost = 0 => \A d \in Seen : ~Offends(rule, d, Seen)

LEMMA FileFindingsTrue ==
  ASSUME AuditInv, NEW rule,
         rule.kind # "destination_allowlist", rule.kind # "cost_limit",
         NEW f \in FileFindings(rule, events)
  PROVE  TrueFinding(rule, f)
<1> DEFINE relevant == {e \in events : e.kind \in KindsOf(rule)}
           violations == {e \in relevant : /\ OnRulePath(rule, e) /\ e.result = "ok"
                                           /\ Actual(e)}
           uncertain == {e \in relevant : UncertainFile(rule, e)}
<1>1. /\ f.verdict = VIOLATION => f.ids = Ids(violations)
      /\ f.verdict = PASS => violations = {} /\ uncertain = {}
  <2>1. f \in Findings(violations, uncertain)
    BY DEF FileFindings
  <2> QED
    BY <2>1, FindingsSay
<1>2. \A d, S : Offends(rule, d, S) <=>
                   /\ d.kind \in KindsOf(rule) \/ (d.kind = "open" /\ rule.kind = "forbidden_write")
                   /\ d.result = "ok" /\ Actual(d) /\ OnRulePath(rule, d)
  BY DEF Offends
<1>3. ASSUME NEW i \in Ids(violations) PROVE Offends(rule, done[i], Deeds)
  <2>1. PICK e \in violations : e.id = i
    BY DEF Ids
  <2>2. Matches(e, done[i]) /\ e.result = "ok" /\ Actual(e) /\ OnRulePath(rule, e)
        /\ e.kind \in KindsOf(rule)
    BY <2>1, EventIsADeed
  <2>3. e.paths = done[i].paths
    BY <2>2 DEF Matches, OnRulePath
  <2>4. e.kind = done[i].kind /\ e.result = done[i].result /\ e.bytes = done[i].bytes
    BY <2>2 DEF Matches
  <2> QED
    BY <1>2, <2>2, <2>3, <2>4 DEF OnRulePath, Actual
<1>4. ASSUME lost = 0, violations = {}, uncertain = {}, NEW d \in Seen, Offends(rule, d, Seen)
      PROVE  FALSE
  <2>1. /\ d.kind \in KindsOf(rule) /\ d.result = "ok" /\ Actual(d) /\ OnRulePath(rule, d)
        /\ d \in Deeds
    BY <1>2, <1>4 DEF Seen, Overlooked
  <2>2. d.kind \in Recorded
    BY <2>1 DEF KindsOf, Recorded
  <2>3. PICK e \in events : Matches(e, d)
    BY <1>4, <2>1, <2>2, DeedHasAnEvent
  <2>4. e \in relevant
    BY <2>1, <2>3 DEF Matches
  <2>5. e.paths # {} /\ e.paths = d.paths
    BY <1>4, <2>3, <2>4 DEF UncertainFile, Matches
  <2>6. OnRulePath(rule, e)
    BY <2>1, <2>5 DEF OnRulePath
  <2>7. e.result # "unknown"
    BY <1>4, <2>4, <2>6 DEF UncertainFile
  <2>8. e.result = "ok" /\ Actual(e)
    BY <2>1, <2>3, <2>7 DEF Matches, Actual
  <2> QED
    BY <1>4, <2>4, <2>6, <2>8
<1> HIDE DEF violations, uncertain
<1> QED
  BY <1>1, <1>3, <1>4 DEF TrueFinding

LEMMA NetworkFindingsTrue ==
  ASSUME AuditInv, NEW rule, rule.kind = "destination_allowlist",
         NEW f \in NetworkFindings(rule, events)
  PROVE  TrueFinding(rule, f)
<1> DEFINE sent == {e \in events : e.kind \in {"connect", "send"}}
           violations == {e \in sent : /\ e.result # "unknown"
                                       /\ e.destination \notin rule.destinations}
           uncertain == {e \in sent : e.result = "unknown"}
<1>1. /\ f.verdict = VIOLATION => f.ids = Ids(violations)
      /\ f.verdict = PASS => violations = {} /\ uncertain = {}
  <2>1. f \in Findings(violations, uncertain)
    BY DEF NetworkFindings
  <2> QED
    BY <2>1, FindingsSay
<1>2. \A d, S : Offends(rule, d, S) <=> /\ d.kind \in {"connect", "send"} /\ d.result = "ok"
                                         /\ d.destination \notin rule.destinations
  BY DEF Offends
<1>3. ASSUME NEW i \in Ids(violations)
      PROVE  Offends(rule, done[i], Deeds) \/ Attempt(rule, done[i])
  <2>1. PICK e \in violations : e.id = i
    BY DEF Ids
  <2>2. Matches(e, done[i]) /\ done[i] \in DeedSet
    BY <2>1, EventIsADeed
  <2>3. done[i].result \in {"ok", "error"}
    BY <2>2 DEF DeedSet
  <2> QED
    BY <1>2, <2>1, <2>2, <2>3 DEF Matches, Attempt
<1>4. ASSUME lost = 0, violations = {}, uncertain = {}, NEW d \in Seen, Offends(rule, d, Seen)
      PROVE  FALSE
  <2>1. /\ d.kind \in {"connect", "send"} /\ d.destination \notin rule.destinations
        /\ d \in Deeds
    BY <1>2, <1>4 DEF Seen
  <2>2. PICK e \in events : Matches(e, d)
    BY <1>4, <2>1, DeedHasAnEvent DEF Recorded
  <2> QED
    BY <1>4, <2>1, <2>2 DEF Matches
<1> HIDE DEF violations, uncertain
<1> QED
  BY <1>1, <1>3, <1>4 DEF TrueFinding

LEMMA DeedsAre ==
  ASSUME AuditInv
  PROVE  /\ IsFiniteSet(Deeds)
         /\ \A d \in Deeds : /\ d \in DeedSet /\ d.id \in DOMAIN done /\ done[d.id] = d
                             /\ d.cost # 0 => d.kind = "call"
         /\ \A i \in DOMAIN done : done[i] \in Deeds /\ done[i].id = i
<1>1. done \in Seq(DeedSet) /\ DOMAIN done = 1..Len(done) /\ Len(done) \in Nat
  BY DEF AuditInv, DoneInv
<1>2. IsFiniteSet(1..Len(done))
  BY <1>1, FS_Interval
<1>3. IsFiniteSet(Deeds)
  <2> DEFINE h == [i \in 1..Len(done) |-> done[i]]
  <2>1. h \in Surjection(1..Len(done), Deeds)
    BY <1>1 DEF Deeds, Surjection
  <2> HIDE DEF h
  <2> QED
    BY <1>2, <2>1, FS_Surjection
<1>4. \A i \in DOMAIN done : /\ done[i] \in Deeds /\ done[i].id = i /\ done[i] \in DeedSet
                             /\ done[i].cost # 0 => done[i].kind = "call"
  BY <1>1 DEF AuditInv, DoneInv, Deeds
<1>5. \A d \in Deeds : \E i \in DOMAIN done : d = done[i]
  BY DEF Deeds
<1> QED
  BY <1>3, <1>4, <1>5

(* The known costs of a currency are no more than what was spent in it      *)
(* (audit/evaluate.py:127 evaluate_cost_rule).                              *)
LEMMA KnownIsSpent ==
  ASSUME AuditInv, NEW currency, currency \notin Unnamed
  PROVE  LET applicable == {c \in calls : c.currency = currency} IN
         /\ Known(applicable) \in Nat /\ Spent(currency, Deeds) \in Nat
         /\ Known(applicable) <= Spent(currency, Deeds)
<1> DEFINE applicable == {c \in calls : c.currency = currency}
           known == {c \in applicable : c.cost_known}
           spent == {d \in Deeds : d.currency = currency}
           f == [c \in applicable |-> c.cost]
           g == [d \in Deeds |-> d.cost]
           h == [c \in known |-> done[c.id]]
<1>1. IsFiniteSet(known) /\ IsFiniteSet(spent)
  BY DeedsAre, FS_Subset DEF AuditInv, LineInv
<1>2. \A c \in known : c \in calls /\ f[c] = c.cost /\ h[c] = done[c.id]
  OBVIOUS
<1>3. \A c \in calls : /\ c.id \in DOMAIN done /\ c.cost \in 0..done[c.id].cost
                       /\ c.currency \in {done[c.id].currency} \union Unnamed
  BY DEF AuditInv, LineInv
<1>4. \A d \in Deeds : d.cost \in Nat /\ g[d] = d.cost
  BY DeedsAre DEF DeedSet
<1>5. ASSUME NEW c \in known
      PROVE  f[c] \in Nat /\ h[c] \in spent /\ f[c] <= g[h[c]] /\ h[c].id = c.id
  <2>1. done[c.id] \in Deeds /\ done[c.id].id = c.id
    BY <1>2, <1>3, DeedsAre
  <2>2. done[c.id].currency = currency
    BY <1>3
  <2>3. c.cost \in 0..done[c.id].cost /\ done[c.id].cost \in Nat
    BY <1>2, <1>3, <1>4, <2>1
  <2> QED
    BY <1>2, <1>4, <2>1, <2>2, <2>3
<1>6. \A c, d \in known : h[c] = h[d] => c = d
  <2>1. \A c, d \in known : c.id = d.id => c = d
    BY DEF AuditInv, LineInv
  <2> HIDE DEF known, spent, f, g, h
  <2> QED
    BY <1>5, <2>1
<1>7. \A d \in spent : g[d] \in Nat
  BY <1>4
<1>8. Known(applicable) = SumFunctionOnSet(f, known)
  BY DEF Known
<1>9. Spent(currency, Deeds) = SumFunctionOnSet(g, spent)
  BY DEF Spent
<1> HIDE DEF known, spent, f, g, h
<1>10. SumFunctionOnSet(f, known) <= SumFunctionOnSet(g, spent)
  BY <1>1, <1>5, <1>6, <1>7, SumDominated
<1>11. SumFunctionOnSet(f, known) \in Nat /\ SumFunctionOnSet(g, spent) \in Nat
  BY <1>1, <1>5, <1>7, SumSplits
<1> QED
  BY <1>8, <1>9, <1>10, <1>11

(* And with complete lines they are all that was spent where the lines      *)
(* name their currency.                                                     *)
LEMMA SpentIsKnown ==
  ASSUME AuditInv, NEW currency,
         Incomplete({c \in calls : c.currency = currency}) = {}
  PROVE  /\ Spent(currency, Seen) \in Nat
         /\ Spent(currency, Seen) <= Known({c \in calls : c.currency = currency})
<1> DEFINE applicable == {c \in calls : c.currency = currency}
           known == {c \in applicable : c.cost_known}
           spent == {d \in Seen : d.currency = currency}
           f == [c \in applicable |-> c.cost]
           g == [d \in Seen |-> d.cost]
           h == [d \in spent |-> CHOOSE c \in calls : c.id = d.id]
<1>0. Seen \subseteq Deeds
  BY DEF Seen
<1>1. IsFiniteSet(known) /\ IsFiniteSet(spent)
  <2>1. spent \subseteq Deeds
    BY <1>0
  <2> HIDE DEF spent
  <2> QED
    BY <2>1, DeedsAre, FS_Subset DEF AuditInv, LineInv
<1>2. \A d \in Seen : d.cost \in Nat /\ g[d] = d.cost
  BY <1>0, DeedsAre DEF DeedSet
<1>3. ASSUME NEW c \in known PROVE f[c] \in Nat
  <2>1. f[c] = c.cost /\ c.cost \in 0..done[c.id].cost
    BY DEF AuditInv, LineInv
  <2> QED
    BY <2>1
<1>4. ASSUME NEW d \in spent, g[d] # 0
      PROVE  h[d] \in known /\ g[d] <= f[h[d]] /\ h[d].id = d.id
  <2>1. d.id \in DOMAIN done /\ done[d.id] = d /\ d.kind = "call" /\ d.cost \in Nat
        /\ d.currency = currency
    BY <1>0, <1>2, <1>4, DeedsAre
  <2>2. \E c \in calls : c.id = d.id
    BY <2>1 DEF AuditInv, LineInv
  <2>3. h[d] = CHOOSE c \in calls : c.id = d.id
    OBVIOUS
  <2>4. h[d] \in calls /\ h[d].id = d.id
    BY <2>2, <2>3
  <2> HIDE DEF h
  <2>5. /\ h[d].currency = currency
        /\ h[d].cost_complete => h[d].cost_known /\ h[d].cost = d.cost
    BY <2>1, <2>4 DEF AuditInv, LineInv, Seen, Overlooked
  <2>6. h[d] \in applicable
    BY <2>4, <2>5
  <2>7. h[d].cost_complete /\ h[d].cost_known
    BY <2>6 DEF Incomplete
  <2> QED
    BY <1>2, <2>1, <2>4, <2>5, <2>6, <2>7
<1>5. \A d, e \in spent : g[d] # 0 /\ g[e] # 0 /\ h[d] = h[e] => d = e
  <2> SUFFICES ASSUME NEW d \in spent, NEW e \in spent, g[d] # 0, g[e] # 0, h[d] = h[e]
               PROVE  d = e
    OBVIOUS
  <2> HIDE DEF g, h
  <2>1. d.id = e.id
    BY <1>4
  <2> QED
    BY <1>0, <2>1, DeedsAre
<1>6. \A d \in spent : g[d] \in Nat
  BY <1>2
<1>7. Known(applicable) = SumFunctionOnSet(f, known)
  BY DEF Known
<1>8. Spent(currency, Seen) = SumFunctionOnSet(g, spent)
  BY DEF Spent
<1> HIDE DEF known, spent, f, g, h
<1>9. SumFunctionOnSet(g, spent) <= SumFunctionOnSet(f, known)
  BY <1>1, <1>3, <1>4, <1>5, <1>6, SumDominated
<1>10. SumFunctionOnSet(g, spent) \in Nat
  BY <1>1, <1>6, SumSplits
<1> QED
  BY <1>7, <1>8, <1>9, <1>10

LEMMA CostFindingsTrue ==
  ASSUME AuditInv, ConstantsOk, NEW rule \in Rules,
         rule.kind = "cost_limit", NEW f \in CostFindings(rule, provided, calls)
  PROVE  TrueFinding(rule, f)
<1> DEFINE applicable == {c \in calls : c.currency = rule.currency}
<1>1. \A d, S : Offends(rule, d, S) <=> Spent(rule.currency, S) > rule.max_cost
  BY DEF Offends
<1>2. /\ Known(applicable) \in Nat /\ Spent(rule.currency, Deeds) \in Nat
      /\ Known(applicable) <= Spent(rule.currency, Deeds)
      /\ rule.max_cost \in Nat
  BY KnownIsSpent DEF ConstantsOk
<1>3. Incomplete(applicable) = {} => /\ Spent(rule.currency, Seen) \in Nat
                                     /\ Spent(rule.currency, Seen) <= Known(applicable)
  BY SpentIsKnown
<1>4. /\ f.verdict = VIOLATION => Known(applicable) > rule.max_cost
      /\ f.verdict = PASS => /\ ~(Known(applicable) > rule.max_cost)
                             /\ Incomplete(applicable) = {}
  <2> DEFINE verdict == IF ~provided \/ applicable = {} THEN INSUFFICIENT
                        ELSE IF Known(applicable) > rule.max_cost THEN VIOLATION
                        ELSE IF Incomplete(applicable) # {} THEN INSUFFICIENT ELSE PASS
             ids == IF provided THEN Ids(applicable) ELSE {}
  <2>0. CostFindings(rule, provided, calls) = {[verdict |-> verdict, ids |-> ids]}
    BY Zenon DEF CostFindings
  <2>1. f.verdict = verdict
    <3> HIDE DEF verdict, ids
    <3> QED
      BY <2>0
  <2>2. VIOLATION # INSUFFICIENT /\ VIOLATION # PASS /\ INSUFFICIENT # PASS
    BY DEF VIOLATION, INSUFFICIENT, PASS
  <2> HIDE DEF applicable
  <2> QED
    BY <2>1, <2>2
<1> HIDE DEF applicable
<1>5. f.verdict = VIOLATION => \A d : Offends(rule, d, Deeds)
  BY <1>1, <1>2, <1>4
<1>6. f.verdict = PASS => \A d : ~Offends(rule, d, Seen)
  BY <1>1, <1>2, <1>3, <1>4
<1> QED
  BY <1>5, <1>6 DEF TrueFinding

LEMMA AuditTypes == ConstantsOk /\ AuditInv => TypeOK
<1> SUFFICES ASSUME ConstantsOk, AuditInv PROVE TypeOK
  OBVIOUS
<1>1. lost <= MaxSteps /\ Len(done) <= MaxSteps
  <2>1. Len(done) \in Nat /\ MaxSteps \in Nat /\ lost \in Nat
    BY DEF AuditInv, EventInv, DoneInv, ConstantsOk
  <2> QED
    BY <2>1 DEF AuditInv, EventInv, DoneInv
<1> QED
  BY <1>1 DEF AuditInv, FileInv, EventInv, LineInv, TypeOK, Ids

(* A violation cites only what the agent really did against the rule, or    *)
(* tried to where attempts count, whatever was lost or came without a path, *)
(* a result or a price; and a pass, when no event was lost, means that it   *)
(* did nothing against it but by opens and calls of an unnamed currency     *)
(* (audit/evaluate.py:43 _file_rule, :90 _network_rule, :127                *)
(* evaluate_cost_rule).                                                     *)
THEOREM VerdictsAreTrue == Spec => []FindingsAreTrue
<1>1. AuditInv => FindingsAreTrue
  <2> SUFFICES ASSUME AuditInv, NEW rule \in Rules, NEW f \in FindingsOf(rule)
               PROVE  TrueFinding(rule, f)
    BY AuditTypes, ConstantsOk DEF FindingsAreTrue, TrueFinding
  <2>1. CASE rule.kind = "cost_limit"
    BY <2>1, CostFindingsTrue, ConstantsOk DEF FindingsOf, RuleFindings
  <2>2. CASE rule.kind = "destination_allowlist"
    BY <2>2, NetworkFindingsTrue DEF FindingsOf, RuleFindings
  <2>3. CASE rule.kind \notin {"cost_limit", "destination_allowlist"}
    BY <2>3, FileFindingsTrue DEF FindingsOf, RuleFindings
  <2> QED
    BY <2>1, <2>2, <2>3
<1> QED
  BY <1>1, InitAudit, NextAudit, ConstantsOk, PTL DEF Spec

-----------------------------------------------------------------------------
(* A ledger and an artifact that grow.                                      *)
LEMMA ViolationIn ==
  ASSUME NEW violations, NEW uncertain
  PROVE  VIOLATION \in {f.verdict : f \in Findings(violations, uncertain)}
           <=> violations # {}
<1>1. /\ VIOLATION # INSUFFICIENT /\ VIOLATION # PASS
  BY DEF VIOLATION, INSUFFICIENT, PASS
<1>2. ASSUME violations # {}
      PROVE  \E f \in Findings(violations, uncertain) : f.verdict = VIOLATION
  <2>1. Ids(violations) # {}
    BY <1>2 DEF Ids
  <2>2. [verdict |-> VIOLATION, ids |-> Ids(violations)]
           \in Findings(violations, uncertain)
    BY <2>1 DEF Findings
  <2> QED
    BY <2>2
<1>3. ASSUME violations = {}, NEW f \in Findings(violations, uncertain)
      PROVE  f.verdict # VIOLATION
  <2>1. \/ f.verdict = VIOLATION /\ f.ids = Ids(violations) /\ f.ids # {}
        \/ f.verdict \in {INSUFFICIENT, PASS}
    BY DEF Findings
  <2> QED
    BY <1>1, <1>3, <2>1 DEF Ids
<1> QED
  BY <1>2, <1>3

LEMMA KnownGrows ==
  ASSUME NEW S, NEW T, IsFiniteSet(T), S \subseteq T, \A c \in T : c.cost \in Nat
  PROVE  Known(S) \in Nat /\ Known(T) \in Nat /\ Known(S) <= Known(T)
<1> DEFINE f == [c \in S |-> c.cost]
           g == [c \in T |-> c.cost]
           A == {c \in S : c.cost_known}
           B == {c \in T : c.cost_known}
           h == [c \in A |-> c]
<1>1. IsFiniteSet(A) /\ IsFiniteSet(B)
  BY FS_Subset
<1>2. /\ \A c \in A : f[c] \in Nat /\ h[c] = c /\ c \in B /\ f[c] = g[c]
      /\ \A c \in B : g[c] \in Nat
  OBVIOUS
<1>3. Known(S) = SumFunctionOnSet(f, A) /\ Known(T) = SumFunctionOnSet(g, B)
  BY DEF Known
<1> HIDE DEF f, g, A, B, h
<1>4. SumFunctionOnSet(f, A) <= SumFunctionOnSet(g, B)
  BY <1>1, <1>2, SumDominated
<1>5. SumFunctionOnSet(f, A) \in Nat /\ SumFunctionOnSet(g, B) \in Nat
  BY <1>1, <1>2, SumSplits
<1> QED
  BY <1>3, <1>4, <1>5

LEMMA CostViolation ==
  ASSUME NEW rule, NEW given \in BOOLEAN, NEW lines
  PROVE  LET applicable == {c \in lines : c.currency = rule.currency} IN
         VIOLATION \in {f.verdict : f \in CostFindings(rule, given, lines)}
           <=> given /\ applicable # {} /\ Known(applicable) > rule.max_cost
<1> DEFINE applicable == {c \in lines : c.currency = rule.currency}
           verdict == IF ~given \/ applicable = {} THEN INSUFFICIENT
                      ELSE IF Known(applicable) > rule.max_cost THEN VIOLATION
                      ELSE IF Incomplete(applicable) # {} THEN INSUFFICIENT ELSE PASS
           ids == IF given THEN Ids(applicable) ELSE {}
<1>1. CostFindings(rule, given, lines) = {[verdict |-> verdict, ids |-> ids]}
  BY Zenon DEF CostFindings
<1>2. VIOLATION \in {f.verdict : f \in CostFindings(rule, given, lines)}
        <=> verdict = VIOLATION
  <2> HIDE DEF verdict, ids
  <2> QED
    BY <1>1
<1>3. VIOLATION # INSUFFICIENT /\ VIOLATION # PASS /\ INSUFFICIENT # PASS
  BY DEF VIOLATION, INSUFFICIENT, PASS
<1>4. verdict = VIOLATION
        <=> given /\ applicable # {} /\ Known(applicable) > rule.max_cost
  <2> HIDE DEF applicable
  <2> QED
    BY <1>3
<1> QED
  BY <1>2, <1>4

LEMMA ViolationKept ==
  ASSUME AuditInv, AuditInv', ConstantsOk, NEW rule \in Rules,
         events \subseteq events', calls \subseteq calls', provided' = provided,
         provided \in BOOLEAN, VIOLATION \in VerdictsOf(rule)
  PROVE  VIOLATION \in VerdictsOf(rule)'
<1>1. CASE rule.kind = "cost_limit"
  <2> DEFINE before == {c \in calls : c.currency = rule.currency}
             after == {c \in calls' : c.currency = rule.currency}
  <2>1. VIOLATION \in {f.verdict : f \in CostFindings(rule, provided, calls)}
    BY <1>1 DEF VerdictsOf, FindingsOf, RuleFindings
  <2>2. provided /\ before # {} /\ Known(before) > rule.max_cost
    BY <2>1, CostViolation
  <2>3. /\ IsFiniteSet(after) /\ before \subseteq after
        /\ \A c \in after : c.cost \in Nat
    BY FS_Subset DEF AuditInv, LineInv
  <2>4. /\ Known(before) \in Nat /\ Known(after) \in Nat /\ Known(before) <= Known(after)
        /\ rule.max_cost \in Nat
    <3> HIDE DEF before, after
    <3> QED
      BY <1>1, <2>3, KnownGrows DEF ConstantsOk
  <2>5. provided' /\ after # {} /\ Known(after) > rule.max_cost
    <3> HIDE DEF before, after
    <3> QED
      BY <2>2, <2>3, <2>4
  <2>6. VIOLATION \in {f.verdict : f \in CostFindings(rule, provided', calls')}
    BY <2>5, CostViolation
  <2> QED
    BY <1>1, <2>6 DEF VerdictsOf, FindingsOf, RuleFindings
<1>2. CASE rule.kind = "destination_allowlist"
  <2> DEFINE bad(e) == /\ e.kind \in {"connect", "send"} /\ e.result # "unknown"
                       /\ e.destination \notin rule.destinations
  <2>1. VIOLATION \in {f.verdict : f \in NetworkFindings(rule, events)}
    BY <1>2 DEF VerdictsOf, FindingsOf, RuleFindings
  <2>2. \E e \in events : bad(e)
    BY <2>1, ViolationIn DEF NetworkFindings
  <2>3. VIOLATION \in {f.verdict : f \in NetworkFindings(rule, events')}
    BY <2>2, ViolationIn DEF NetworkFindings
  <2> QED
    BY <1>2, <2>3 DEF VerdictsOf, FindingsOf, RuleFindings
<1>3. CASE rule.kind \notin {"cost_limit", "destination_allowlist"}
  <2> DEFINE bad(e) == /\ e.kind \in KindsOf(rule) /\ OnRulePath(rule, e)
                       /\ e.result = "ok" /\ Actual(e)
  <2>1. VIOLATION \in {f.verdict : f \in FileFindings(rule, events)}
    BY <1>3 DEF VerdictsOf, FindingsOf, RuleFindings
  <2>2. \E e \in events : bad(e)
    BY <2>1, ViolationIn DEF FileFindings
  <2>3. VIOLATION \in {f.verdict : f \in FileFindings(rule, events')}
    BY <2>2, ViolationIn DEF FileFindings
  <2> QED
    BY <1>3, <2>3 DEF VerdictsOf, FindingsOf, RuleFindings
<1> QED
  BY <1>1, <1>2, <1>3

(* Nothing that an audit has found a violation in is withdrawn by a later   *)
(* one: events and lines are added, and neither an event without a path nor *)
(* a line without a price outweighs what is known already                   *)
(* (audit/evaluate.py:43 _file_rule, :127 evaluate_cost_rule).              *)
THEOREM ViolationsStand == Spec => ViolationStands
<1> DEFINE Given == provided \in BOOLEAN
           Stands == \A rule \in Rules :
                        VIOLATION \in VerdictsOf(rule) => VIOLATION \in VerdictsOf(rule)'
<1>1. Init => Given
  BY DEF Init
<1>2. [Next]_vars => provided' = provided
  BY DEF Next, vars, Start, Operate, ReadFile, Contact, CallModel
<1>3. [Next]_vars => events \subseteq events' /\ calls \subseteq calls'
  BY DEF Next, vars, Start, Operate, ReadFile, Contact, CallModel, Capture
<1>4. AuditInv /\ AuditInv' /\ Given /\ [Next]_vars => Stands
  BY <1>2, <1>3, ViolationKept, ConstantsOk
<1>5. Given /\ [Next]_vars => Given'
  BY <1>2
<1> QED
  BY <1>1, <1>4, <1>5, InitAudit, NextAudit, ConstantsOk, PTL DEF Spec, ViolationStands

-----------------------------------------------------------------------------
(* The loss counters: sequence_gap counts every missing number, and what   *)
(* it counts beyond is no more than the regressions.                       *)

(* A stream without an entry has been nowhere; one with an entry has seen  *)
(* its largest number, and every number between the first and the largest  *)
(* was seen or jumped over.                                                *)
StreamInv(c, s) ==
  /\ lastSeq[c][s] = NoSeq =>
       /\ first[c][s] = NoSeq
       /\ \A n \in Nat : <<s, n>> \notin seen[c] /\ <<s, n>> \notin skipped[c]
  /\ lastSeq[c][s] # NoSeq =>
       /\ first[c][s] # NoSeq /\ first[c][s] <= lastSeq[c][s]
       /\ <<s, lastSeq[c][s]>> \in seen[c]
       /\ \A n \in Nat :
            /\ <<s, n>> \in skipped[c] => first[c][s] < n /\ n < lastSeq[c][s]
            /\ <<s, n>> \in seen[c] => n <= lastSeq[c][s]
            /\ first[c][s] < n /\ n < lastSeq[c][s]
                 => <<s, n>> \in skipped[c] \cup seen[c]

(* The gap counter is the number of jumped-over numbers plus what was      *)
(* declared, and each of them that came after all was a regression.        *)
CountInv(c) ==
  /\ IsFiniteSet(skipped[c])
  /\ gap[c] = declared[c] + Cardinality(skipped[c])
  /\ Cardinality(skipped[c] \cap seen[c]) <= regressions[c]

LossIInv ==
  /\ LossTypeOK
  /\ \A c \in Counter : CountInv(c) /\ \A s \in Stream : StreamInv(c, s)

-----------------------------------------------------------------------------
LEMMA BetweenCount ==
  ASSUME NEW s, NEW lo \in Int, NEW hi \in Int
  PROVE  /\ IsFiniteSet(Between(s, lo, hi))
         /\ Cardinality(Between(s, lo, hi)) = IF hi > lo + 1 THEN hi - lo - 1 ELSE 0
<1> DEFINE I == (lo + 1)..(hi - 1)
           B == Between(s, lo, hi)
           F == [n \in I |-> <<s, n>>]
<1>1. IsFiniteSet(I) /\ Cardinality(I) = IF lo + 1 > hi - 1 THEN 0 ELSE (hi - 1) - (lo + 1) + 1
  BY FS_Interval
<1>2. F \in Bijection(I, B)
  <2>1. F \in [I -> B] /\ \A a, b \in I : F[a] = F[b] => a = b
    BY DEF Between
  <2>2. \A x \in B : \E n \in I : F[n] = x
    BY DEF Between
  <2>. QED  BY <2>1, <2>2, Fun_IsBij
<1>3. ExistsBijection(I, B)
  BY <1>2 DEF ExistsBijection
<1>4. IsFiniteSet(B) /\ Cardinality(B) = Cardinality(I)
  BY <1>1, <1>3, FS_Bijection
<1>. QED  BY <1>1, <1>4

LEMMA EmptyTail ==
  ASSUME NEW S, NEW q \in Seq(S), q # <<>>
  PROVE  Head(q) \in S /\ Tail(q) \in Seq(S)
OBVIOUS

LEMMA SetAt ==
  ASSUME NEW S, NEW T, NEW f \in [S -> T], NEW a \in S, NEW v \in T
  PROVE  [f EXCEPT ![a] = v] \in [S -> T]
OBVIOUS

LEMMA Bump ==
  ASSUME NEW S, NEW f \in [S -> Nat], NEW a \in S, NEW k \in Nat
  PROVE  [f EXCEPT ![a] = @ + k] \in [S -> Nat]
OBVIOUS

LEMMA InitLoss == LossInit => LossIInv
<1> SUFFICES ASSUME LossInit PROVE LossIInv
  OBVIOUS
<1>1. LossTypeOK
  BY DEF LossInit, LossTypeOK, NoSeq
<1>2. ASSUME NEW c \in Counter  PROVE CountInv(c)
  BY FS_EmptySet DEF LossInit, CountInv
<1>3. ASSUME NEW c \in Counter, NEW s \in Stream  PROVE StreamInv(c, s)
  BY DEF LossInit, StreamInv
<1>. QED  BY <1>1, <1>2, <1>3 DEF LossIInv

LEMMA OneMore ==
  ASSUME NEW S, NEW T, NEW x, IsFiniteSet(S), T \subseteq S \cup {x}
  PROVE  IsFiniteSet(T) /\ Cardinality(T) \in Nat /\ Cardinality(T) <= Cardinality(S) + 1
<1>1. IsFiniteSet(S \cup {x}) /\ Cardinality(S) \in Nat
  BY FS_AddElement, FS_CardinalityType
<1>2. Cardinality(S \cup {x}) = IF x \in S THEN Cardinality(S) ELSE Cardinality(S) + 1
  BY FS_AddElement
<1>3. IsFiniteSet(T) /\ Cardinality(T) <= Cardinality(S \cup {x})
  BY <1>1, FS_Subset
<1>4. Cardinality(T) \in Nat /\ Cardinality(S \cup {x}) \in Nat
  BY <1>1, <1>3, FS_CardinalityType
<1>. QED  BY <1>1, <1>2, <1>3, <1>4

LEMMA DisjointUnion ==
  ASSUME NEW S, NEW T, IsFiniteSet(S), IsFiniteSet(T), S \cap T = {}
  PROVE  IsFiniteSet(S \cup T) /\ Cardinality(S \cup T) = Cardinality(S) + Cardinality(T)
<1>1. Cardinality(S \cap T) = 0
  BY FS_EmptySet
<1>2. Cardinality(S) \in Nat /\ Cardinality(T) \in Nat
  BY FS_CardinalityType
<1>3. /\ IsFiniteSet(S \cup T)
      /\ Cardinality(S \cup T) = Cardinality(S) + Cardinality(T) - Cardinality(S \cap T)
  BY FS_Union
<1> DEFINE a == Cardinality(S)
           b == Cardinality(T)
           ab == Cardinality(S \cup T)
           i == Cardinality(S \cap T)
<1>4. a \in Nat /\ b \in Nat /\ i = 0 /\ ab = a + b - i
  BY <1>1, <1>2, <1>3
<1> HIDE DEF a, b, ab, i
<1>5. ab = a + b
  BY ONLY <1>4
<1>. QED  BY <1>3, <1>5 DEF a, b, ab

(* Tracking one number.                                                    *)
LEMMA TrackType ==
  ASSUME LossTypeOK, NEW c \in Counter, NEW s \in Stream, NEW n \in Nat,
         TrackSequence(c, s, n)
  PROVE  /\ lastSeq' \in [Counter -> [Stream -> Nat \cup {NoSeq}]]
         /\ first' \in [Counter -> [Stream -> Nat \cup {NoSeq}]]
         /\ regressions' \in [Counter -> Nat]
         /\ seen' \in [Counter -> SUBSET (Stream \X Nat)]
         /\ skipped' \in [Counter -> SUBSET (Stream \X Nat)]
<1>1. lastSeq' \in [Counter -> [Stream -> Nat \cup {NoSeq}]]
  BY DEF TrackSequence, LossTypeOK
<1>2. first' \in [Counter -> [Stream -> Nat \cup {NoSeq}]]
  BY DEF TrackSequence, LossTypeOK
<1>3. regressions' \in [Counter -> Nat]
  BY DEF TrackSequence, LossTypeOK
<1>4. seen' \in [Counter -> SUBSET (Stream \X Nat)]
  BY DEF TrackSequence, LossTypeOK
<1>5. lastSeq[c][s] # NoSeq => Between(s, lastSeq[c][s], n) \subseteq Stream \X Nat
  BY DEF LossTypeOK, Between
<1>6. skipped' \in [Counter -> SUBSET (Stream \X Nat)]
  BY <1>5 DEF TrackSequence, LossTypeOK
<1>. QED  BY <1>1, <1>2, <1>3, <1>4, <1>6

(* One stream's numbers: l the largest, f the first, K the jumped over, S  *)
(* the seen, n the number that comes.                                      *)
Larger(n, l) == IF n > l THEN n ELSE l

Tracked(s, f, l, S, K) ==
  /\ f <= l /\ <<s, l>> \in S
  /\ \A m \in Nat :
       /\ <<s, m>> \in K => f < m /\ m < l
       /\ <<s, m>> \in S => m <= l
       /\ f < m /\ m < l => <<s, m>> \in K \cup S

JumpedOver(s, l, n, B) == \A m \in Nat : <<s, m>> \in B <=> l < m /\ m < n

LEMMA TrackedStream ==
  ASSUME NEW s, NEW l \in Nat, NEW f \in Nat, NEW n \in Nat, NEW S, NEW K, NEW B,
         Tracked(s, f, l, S, K), JumpedOver(s, l, n, B)
  PROVE  /\ Larger(n, l) \in Nat /\ f <= Larger(n, l)
         /\ Tracked(s, f, Larger(n, l), S \cup {<<s, n>>}, K \cup B)
<1> USE DEF Tracked, JumpedOver
<1> DEFINE L == Larger(n, l)
<1>0. L = IF n > l THEN n ELSE l
  BY DEF Larger
<1> HIDE DEF L
<1>1. L \in Nat /\ f <= L /\ l <= L /\ n <= L /\ (L = n \/ L = l)
  BY <1>0
<1>2. <<s, L>> \in S \cup {<<s, n>>}
  BY <1>1
<1>3. ASSUME NEW m \in Nat
      PROVE  /\ <<s, m>> \in K \cup B => f < m /\ m < L
             /\ <<s, m>> \in S \cup {<<s, n>>} => m <= L
             /\ f < m /\ m < L => <<s, m>> \in (K \cup B) \cup (S \cup {<<s, n>>})
  <2>1. <<s, m>> \in K \cup B => f < m /\ m < L
    BY <1>1
  <2>2. <<s, m>> \in S \cup {<<s, n>>} => m <= L
    BY <1>1
  <2>3. f < m /\ m < L => <<s, m>> \in (K \cup B) \cup (S \cup {<<s, n>>})
    <3> SUFFICES ASSUME f < m, m < L  PROVE <<s, m>> \in (K \cup B) \cup S
      OBVIOUS
    <3>1. CASE m < l
      BY <3>1
    <3>2. CASE m = l
      BY <3>2
    <3>3. CASE l < m
      BY <1>1, <3>3
    <3>. QED  BY <3>1, <3>2, <3>3
  <2>. QED  BY <2>1, <2>2, <2>3
<1>. QED  BY <1>1, <1>2, <1>3 DEF L

LEMMA TrackStream ==
  ASSUME LossIInv, NEW c \in Counter, NEW s \in Stream, NEW n \in Nat,
         TrackSequence(c, s, n), NEW d \in Counter, NEW r \in Stream
  PROVE  StreamInv(d, r)'
<1> USE DEF LossIInv, LossTypeOK
<1>1. StreamInv(d, r)
  OBVIOUS
<1>2. CASE d # c
  <2>1. UNCHANGED <<lastSeq[d], first[d], seen[d], skipped[d]>>
    BY <1>2 DEF TrackSequence
  <2>. QED  BY <1>1, <2>1 DEF StreamInv
<1>3. CASE d = c /\ r # s
  <2>1. UNCHANGED <<lastSeq[d][r], first[d][r]>>
    BY <1>3 DEF TrackSequence
  <2>2. \A m \in Nat : /\ <<r, m>> \in seen[d]' <=> <<r, m>> \in seen[d]
                       /\ <<r, m>> \in skipped[d]' <=> <<r, m>> \in skipped[d]
    BY <1>3 DEF TrackSequence, Between
  <2>. QED  BY <1>1, <2>1, <2>2 DEF StreamInv, NoSeq
<1>4. CASE d = c /\ r = s /\ lastSeq[c][s] = NoSeq
  <2>1. /\ lastSeq'[c][s] = n /\ first'[c][s] = n
        /\ seen'[c] = seen[c] \cup {<<s, n>>} /\ skipped'[c] = skipped[c]
    BY <1>4 DEF TrackSequence, NoSeq
  <2>. QED  BY <1>1, <1>4, <2>1 DEF StreamInv, NoSeq
<1>5. CASE d = c /\ r = s /\ lastSeq[c][s] # NoSeq
  <2> DEFINE l == lastSeq[c][s]
  <2>1. /\ lastSeq'[c][s] = IF n > l THEN n ELSE l
        /\ first'[c][s] = first[c][s]
        /\ seen'[c] = seen[c] \cup {<<s, n>>}
        /\ skipped'[c] = skipped[c] \cup Between(s, l, n)
    BY <1>5 DEF TrackSequence
  <2>2. l \in Nat /\ first[c][s] \in Nat
    BY <1>1, <1>5 DEF StreamInv, NoSeq
  <2>3. \A m \in Nat : <<s, m>> \in Between(s, l, n) <=> l < m /\ m < n
    BY <2>2 DEF Between
  <2>4. /\ first[c][s] <= l /\ <<s, l>> \in seen[c]
        /\ \A m \in Nat :
            /\ <<s, m>> \in skipped[c] => first[c][s] < m /\ m < l
            /\ <<s, m>> \in seen[c] => m <= l
            /\ first[c][s] < m /\ m < l => <<s, m>> \in skipped[c] \cup seen[c]
    BY <1>1, <1>5 DEF StreamInv
  <2> DEFINE f == first[c][s]
             S == seen[c]
             K == skipped[c]
             B == Between(s, l, n)
             L == Larger(n, l)
  <2>6. /\ l \in Nat /\ f \in Nat /\ n \in Nat /\ f <= l /\ <<s, l>> \in S
        /\ \A m \in Nat : <<s, m>> \in B <=> l < m /\ m < n
        /\ \A m \in Nat : /\ <<s, m>> \in K => f < m /\ m < l
                          /\ <<s, m>> \in S => m <= l
                          /\ f < m /\ m < l => <<s, m>> \in K \cup S
    BY ONLY <2>2, <2>3, <2>4, n \in Nat
  <2>7. /\ lastSeq'[c][s] = L /\ first'[c][s] = f
        /\ seen'[c] = S \cup {<<s, n>>} /\ skipped'[c] = K \cup B
    BY ONLY <2>1 DEF Larger
  <2> HIDE DEF l, f, S, K, B, L
  <2>8. /\ L \in Nat /\ f <= L /\ Tracked(s, f, L, S \cup {<<s, n>>}, K \cup B)
    <3>1. Tracked(s, f, l, S, K) /\ JumpedOver(s, l, n, B)
      BY ONLY <2>6 DEF Tracked, JumpedOver
    <3>. QED  BY ONLY <2>6, <3>1, TrackedStream DEF L
  <2>5. /\ first'[c][s] # NoSeq /\ lastSeq'[c][s] # NoSeq
        /\ first'[c][s] <= lastSeq'[c][s]
        /\ <<s, lastSeq'[c][s]>> \in seen'[c]
        /\ \A m \in Nat :
            /\ <<s, m>> \in skipped'[c] => first'[c][s] < m /\ m < lastSeq'[c][s]
            /\ <<s, m>> \in seen'[c] => m <= lastSeq'[c][s]
            /\ first'[c][s] < m /\ m < lastSeq'[c][s]
                 => <<s, m>> \in skipped'[c] \cup seen'[c]
    BY ONLY <2>6, <2>7, <2>8 DEF Tracked, NoSeq
  <2>. QED  BY ONLY <1>5, <2>5 DEF StreamInv
<1>. QED  BY <1>2, <1>3, <1>4, <1>5

LEMMA TrackCount ==
  ASSUME LossIInv, NEW c \in Counter, NEW s \in Stream, NEW n \in Nat,
         TrackSequence(c, s, n)
  PROVE  /\ IsFiniteSet(skipped'[c])
         /\ Cardinality(skipped'[c]) = Cardinality(skipped[c]) + Jump(c, s, n)
         /\ Cardinality(skipped'[c] \cap seen'[c]) <= regressions'[c]
         /\ Jump(c, s, n) \in Nat
<1> USE DEF LossIInv, LossTypeOK
<1>1. /\ StreamInv(c, s) /\ IsFiniteSet(skipped[c])
      /\ Cardinality(skipped[c] \cap seen[c]) <= regressions[c]
      /\ regressions[c] \in Nat
      /\ Cardinality(skipped[c]) \in Nat
  BY FS_CardinalityType DEF CountInv
<1>2. IsFiniteSet(skipped[c] \cap seen[c]) /\ Cardinality(skipped[c] \cap seen[c]) \in Nat
  BY <1>1, FS_Intersection, FS_CardinalityType
<1>3. seen'[c] = seen[c] \cup {<<s, n>>} /\ lastSeq[c][s] \in Nat \cup {NoSeq}
  BY DEF TrackSequence
<1>4. CASE lastSeq[c][s] = NoSeq
  <2>1. skipped'[c] = skipped[c] /\ regressions'[c] = regressions[c] /\ Jump(c, s, n) = 0
    BY <1>4 DEF TrackSequence, Jump
  <2> DEFINE late == skipped[c] \cap seen[c]
             late2 == skipped'[c] \cap seen'[c]
  <2>2. late2 = late
    BY <1>1, <1>3, <1>4, <2>1 DEF StreamInv
  <2>3. Cardinality(late) <= regressions[c]
    BY <1>1
  <2> HIDE DEF late, late2
  <2>4. Cardinality(late2) <= regressions'[c]
    BY ONLY <2>1, <2>2, <2>3
  <2>5. Cardinality(skipped'[c]) = Cardinality(skipped[c]) + Jump(c, s, n)
    BY ONLY <1>1, <2>1
  <2>. QED  BY <1>1, <2>1, <2>4, <2>5 DEF late2
<1>5. CASE lastSeq[c][s] # NoSeq /\ n <= lastSeq[c][s]
  <2>1. lastSeq[c][s] \in Nat
    BY <1>5
  <2>2. Between(s, lastSeq[c][s], n) = {}
    BY <1>5, <2>1 DEF Between
  <2>3. /\ skipped'[c] = skipped[c] /\ Jump(c, s, n) = 0
        /\ regressions'[c] = regressions[c] + 1
    BY <1>5, <2>1, <2>2 DEF TrackSequence, Jump
  <2>4. skipped'[c] \cap seen'[c] \subseteq (skipped[c] \cap seen[c]) \cup {<<s, n>>}
    BY <1>3, <2>3
  <2> DEFINE late == skipped[c] \cap seen[c]
             late2 == skipped'[c] \cap seen'[c]
  <2>5. IsFiniteSet(late) /\ Cardinality(late) \in Nat /\ late2 \subseteq late \cup {<<s, n>>}
    BY <1>2, <2>4
  <2>6. IsFiniteSet(late2) /\ Cardinality(late2) \in Nat /\ Cardinality(late2) <= Cardinality(late) + 1
    <3> HIDE DEF late, late2
    <3>. QED  BY ONLY <2>5, OneMore
  <2>. QED  BY ONLY <1>1, <2>3, <2>5, <2>6
<1>6. CASE lastSeq[c][s] # NoSeq /\ n > lastSeq[c][s]
  <2> DEFINE l == lastSeq[c][s]
             B == Between(s, l, n)
  <2>1. l \in Nat
    BY <1>6
  <2>2. skipped'[c] = skipped[c] \cup B /\ regressions'[c] = regressions[c]
    BY <1>6, <2>1 DEF TrackSequence
  <2>3. IsFiniteSet(B) /\ Cardinality(B) = Jump(c, s, n) /\ Jump(c, s, n) \in Nat
    BY <1>6, <2>1, BetweenCount DEF Jump
  <2>4. ASSUME NEW x \in B
        PROVE  x \notin skipped[c] /\ x \notin seen[c] /\ x # <<s, n>>
    <3>1. PICK m \in (l + 1)..(n - 1) : x = <<s, m>>
      BY <2>4 DEF Between
    <3>2. m \in Nat /\ l < m /\ m < n
      BY <2>1, <3>1
    <3>. QED  BY <1>1, <1>6, <2>1, <3>1, <3>2 DEF StreamInv
  <2>5. <<s, n>> \notin skipped[c]
    BY <1>1, <1>6, <2>1 DEF StreamInv
  <2> HIDE DEF B
  <2>6. skipped[c] \cap B = {}
    BY <2>4
  <2>7. /\ IsFiniteSet(skipped'[c])
        /\ Cardinality(skipped'[c]) = Cardinality(skipped[c]) + Cardinality(B)
    BY ONLY <1>1, <2>2, <2>3, <2>6, DisjointUnion
  <2>8. skipped'[c] \cap seen'[c] = skipped[c] \cap seen[c]
    BY <1>3, <2>2, <2>4, <2>5
  <2>. QED  BY ONLY <1>1, <2>2, <2>3, <2>7, <2>8
<1>7. lastSeq[c][s] # NoSeq => n <= lastSeq[c][s] \/ n > lastSeq[c][s]
  BY <1>3
<1>. QED  BY ONLY <1>4, <1>5, <1>6, <1>7

LEMMA ObserveKeeps ==
  ASSUME LossIInv, NEW t \in Thread, Observe(t)
  PROVE  LossIInv'
<1> DEFINE e == Head(todo[t])
           c == target[t]
           tracked == track[t] /\ e.seq # NoSeq
<1>0. LossTypeOK
  BY DEF LossIInv
<1>1. /\ c \in Counter /\ e \in Event /\ Tail(todo[t]) \in Seq(Event)
      /\ e.stream \in Stream /\ e.seq \in Nat \cup {NoSeq} /\ e.gap \in Nat
  BY <1>0, EventAssumption, EmptyTail DEF Observe, LossTypeOK
<1>2. /\ observed' \in [Counter -> Nat] /\ todo' \in [Thread -> Seq(Event)]
      /\ UNCHANGED <<issues, adding, target, track>>
  <2>1. /\ observed' = [observed EXCEPT ![c] = @ + 1]
        /\ UNCHANGED <<issues, adding, target, track>>
    BY DEF Observe
  <2>2. observed' \in [Counter -> Nat]
    BY <1>0, <1>1, <2>1 DEF LossTypeOK
  <2>3. \/ todo' = [todo EXCEPT ![t] = <<>>]
        \/ todo' = [todo EXCEPT ![t] = Tail(todo[t])]
    BY DEF Observe
  <2>4. todo' \in [Thread -> Seq(Event)]
    <3>1. todo \in [Thread -> Seq(Event)] /\ <<>> \in Seq(Event)
      BY <1>0 DEF LossTypeOK
    <3>. QED  BY ONLY <1>1, <2>3, <3>1, SetAt, t \in Thread
  <2>. QED  BY <2>1, <2>2, <2>4
<1>3. CASE ~e.known
  <2>1. UNCHANGED <<gap, lastSeq, regressions, seen, first, skipped, declared>>
    BY <1>3 DEF Observe, ghosts
  <2>2. LossTypeOK'
    BY <1>2, <2>1 DEF LossIInv, LossTypeOK
  <2>3. ASSUME NEW q \in Counter  PROVE CountInv(q)'
    BY <2>1 DEF LossIInv, CountInv
  <2>4. ASSUME NEW q \in Counter, NEW s \in Stream  PROVE StreamInv(q, s)'
    BY <2>1 DEF LossIInv, StreamInv
  <2>. QED  BY <2>2, <2>3, <2>4 DEF LossIInv
<1>4. CASE e.known
  <2>1. /\ declared' = [declared EXCEPT ![c] = @ + e.gap]
        /\ gap' = [gap EXCEPT ![c] = @ + e.gap + IF tracked THEN Jump(c, e.stream, e.seq) ELSE 0]
        /\ IF tracked THEN TrackSequence(c, e.stream, e.seq)
           ELSE UNCHANGED <<lastSeq, regressions, first, skipped, seen>>
    BY <1>4 DEF Observe
  <2>2. declared' \in [Counter -> Nat]
    <3>1. /\ declared \in [Counter -> Nat]
          /\ c \in Counter /\ e.gap \in Nat
      BY <1>0, <1>1 DEF LossTypeOK
    <3>2. declared' = [declared EXCEPT ![c] = @ + e.gap]
      BY <2>1
    <3> HIDE DEF c, e
    <3>. QED  BY ONLY <3>1, <3>2, Bump
  <2>3. CASE ~tracked
    <3>0. UNCHANGED <<lastSeq, regressions, first, skipped, seen>>
      BY <2>1, <2>3
    <3> HIDE DEF c, e, tracked
    <3>1. gap' = [gap EXCEPT ![c] = gap[c] + e.gap]
      <4>1. gap[c] \in Nat
        BY ONLY <1>0, <1>1 DEF LossTypeOK
      <4>2. gap' = [gap EXCEPT ![c] = gap[c] + e.gap + 0]
        BY ONLY <2>1, <2>3
      <4>3. gap[c] + e.gap + 0 = gap[c] + e.gap
        BY ONLY <1>1, <4>1
      <4>. QED  BY ONLY <4>2, <4>3
    <3>2. LossTypeOK'
      <4>1. gap' \in [Counter -> Nat]
        <5>1. gap \in [Counter -> Nat] /\ c \in Counter /\ e.gap \in Nat
          BY <1>0, <1>1 DEF LossTypeOK
        <5>. QED  BY ONLY <3>1, <5>1, Bump
      <4>. QED  BY ONLY <1>0, <1>2, <2>2, <3>0, <4>1 DEF LossTypeOK
    <3>3. ASSUME NEW d \in Counter  PROVE CountInv(d)'
      <4>1. Cardinality(skipped[d]) \in Nat /\ CountInv(d)
        BY FS_CardinalityType DEF LossIInv, CountInv
      <4>2. gap[d] \in Nat /\ declared[d] \in Nat
        BY <1>0 DEF LossTypeOK
      <4>3. gap'[d] = declared'[d] + Cardinality(skipped[d])
        <5>1. CASE d = c
          <6>1. gap'[d] = gap[d] + e.gap /\ declared'[d] = declared[d] + e.gap
            BY ONLY <1>0, <1>1, <2>1, <3>1, <5>1 DEF LossTypeOK
          <6>. QED  BY ONLY <1>1, <4>1, <4>2, <6>1 DEF CountInv
        <5>2. CASE d # c
          <6>1. gap'[d] = gap[d] /\ declared'[d] = declared[d]
            BY ONLY <1>0, <1>1, <2>1, <3>1, <5>2, d \in Counter DEF LossTypeOK
          <6>. QED  BY ONLY <4>1, <6>1 DEF CountInv
        <5>. QED  BY <5>1, <5>2
      <4>. QED  BY ONLY <3>0, <4>1, <4>3 DEF CountInv
    <3>4. ASSUME NEW d \in Counter, NEW r \in Stream  PROVE StreamInv(d, r)'
      BY <2>1, <2>3, <3>4 DEF LossIInv, StreamInv
    <3>. QED  BY <3>2, <3>3, <3>4 DEF LossIInv
  <2>4. CASE tracked
    <3>1. TrackSequence(c, e.stream, e.seq) /\ e.seq \in Nat
      BY <1>1, <2>1, <2>4
    <3>2. /\ IsFiniteSet(skipped'[c])
          /\ Cardinality(skipped'[c]) = Cardinality(skipped[c]) + Jump(c, e.stream, e.seq)
          /\ Cardinality(skipped'[c] \cap seen'[c]) <= regressions'[c]
          /\ Jump(c, e.stream, e.seq) \in Nat
      BY <1>1, <3>1, TrackCount
    <3>3. gap' = [gap EXCEPT ![c] = @ + e.gap + Jump(c, e.stream, e.seq)]
      BY <2>1, <2>4
    <3>4. LossTypeOK'
      <4>1. gap' \in [Counter -> Nat]
        BY <1>1, <3>2, <3>3 DEF LossIInv, LossTypeOK
      <4>. QED  BY <1>1, <1>2, <2>2, <3>1, <4>1, TrackType DEF LossIInv, LossTypeOK
    <3>5. CountInv(c)'
      <4>1. /\ Cardinality(skipped[c]) \in Nat
            /\ gap[c] = declared[c] + Cardinality(skipped[c])
            /\ gap[c] \in Nat /\ declared[c] \in Nat
        BY <1>1, FS_CardinalityType DEF LossIInv, LossTypeOK, CountInv
      <4>2. gap'[c] = gap[c] + e.gap + Jump(c, e.stream, e.seq) /\ declared'[c] = declared[c] + e.gap
        BY <1>1, <2>1, <3>3 DEF LossIInv, LossTypeOK
      <4>3. target'[t] = c
        BY <1>2
      <4>. QED  BY <1>1, <3>2, <4>1, <4>2, <4>3 DEF CountInv
    <3>6. ASSUME NEW d \in Counter, d # c  PROVE CountInv(d)'
      <4>1. UNCHANGED <<gap[d], declared[d], skipped[d], seen[d], regressions[d]>>
        BY <1>1, <2>1, <3>1, <3>3, <3>6 DEF TrackSequence, LossIInv, LossTypeOK
      <4>. QED  BY <4>1 DEF LossIInv, CountInv
    <3>7. ASSUME NEW d \in Counter, NEW r \in Stream  PROVE StreamInv(d, r)'
      BY <1>1, <3>1, TrackStream
    <3>. QED  BY <1>2, <3>4, <3>5, <3>6, <3>7 DEF LossIInv
  <2>. QED  BY <2>3, <2>4
<1>. QED  BY <1>3, <1>4

LEMMA RecordLossKeeps ==
  ASSUME LossIInv, NEW c \in Counter, NEW n \in Losses, RecordLoss(c, n)
  PROVE  LossIInv'
<1>1. n \in Nat /\ LossTypeOK
  BY EventAssumption DEF LossIInv
<1>2. /\ gap' = [gap EXCEPT ![c] = @ + n]
      /\ declared' = [declared EXCEPT ![c] = @ + n]
      /\ UNCHANGED <<issues, lastSeq, observed, regressions, todo, adding, target, track,
                     seen, first, skipped>>
  BY DEF RecordLoss
<1>3. LossTypeOK'
  <2>1. gap' \in [Counter -> Nat] /\ declared' \in [Counter -> Nat]
    <3>1. gap \in [Counter -> Nat] /\ declared \in [Counter -> Nat]
      BY <1>1 DEF LossTypeOK
    <3>. QED  BY ONLY <1>1, <1>2, <3>1, c \in Counter, Bump
  <2>. QED  BY ONLY <1>1, <1>2, <2>1 DEF LossTypeOK
<1>4. ASSUME NEW d \in Counter  PROVE CountInv(d)'
  <2> DEFINE k == Cardinality(skipped[d])
  <2>1. /\ CountInv(d) /\ k \in Nat /\ gap[d] = declared[d] + k
        /\ gap[d] \in Nat /\ declared[d] \in Nat
    BY <1>1, FS_CardinalityType DEF LossIInv, CountInv, LossTypeOK
  <2>2. \/ gap'[d] = gap[d] + n /\ declared'[d] = declared[d] + n
        \/ gap'[d] = gap[d] /\ declared'[d] = declared[d]
    BY <1>1, <1>2 DEF LossTypeOK
  <2> HIDE DEF k
  <2>3. gap'[d] = declared'[d] + k
    BY ONLY <1>1, <2>1, <2>2
  <2>. QED  BY <1>2, <2>1, <2>3 DEF CountInv, k
<1>5. ASSUME NEW d \in Counter, NEW r \in Stream  PROVE StreamInv(d, r)'
  BY <1>2 DEF LossIInv, StreamInv
<1>. QED  BY <1>3, <1>4, <1>5 DEF LossIInv

LEMMA NextLoss == LossIInv /\ [LossNext]_lossVars => LossIInv'
<1> SUFFICES ASSUME LossIInv, [LossNext]_lossVars PROVE LossIInv'
  OBVIOUS
<1>1. ASSUME UNCHANGED <<gap, lastSeq, observed, regressions, ghosts>>, LossTypeOK'
      PROVE  LossIInv'
  BY <1>1 DEF LossIInv, CountInv, StreamInv, ghosts
<1>2. ASSUME NEW t \in Thread, NEW c \in Counter, NEW q \in Batches, NEW tr \in BOOLEAN,
             ObserveAll(t, c, q, tr)
      PROVE  LossIInv'
  <2>1. q \in Seq(Event)
    BY EventAssumption
  <2>2. LossTypeOK'
    BY <1>2, <2>1 DEF ObserveAll, LossIInv, LossTypeOK, counts, ghosts
  <2>. QED  BY <1>1, <1>2, <2>2 DEF ObserveAll, counts, ghosts
<1>3. ASSUME NEW t \in Thread, NEW c \in Counter, NEW q \in IssueLists, AddIssues(t, c, q)
      PROVE  LossIInv'
  <2>1. q \in Seq(Int)
    <3>1. q \in Seq(Nat \cup {-1})
      BY EventAssumption
    <3>. QED  BY <3>1
  <2>2. LossTypeOK'
    BY <1>3, <2>1 DEF AddIssues, LossIInv, LossTypeOK, counts, ghosts
  <2>. QED  BY <1>1, <1>3, <2>2 DEF AddIssues, counts, ghosts
<1>4. ASSUME NEW t \in Thread, RecordIssue(t)  PROVE LossIInv'
  <2>1. Head(adding[t]) \in Int /\ Tail(adding[t]) \in Seq(Int)
    BY <1>4, EmptyTail DEF RecordIssue, LossIInv, LossTypeOK
  <2>2. adding' \in [Thread -> Seq(Int)] /\ issues' \in [Counter -> Nat]
    <3>1. \/ adding' = [adding EXCEPT ![t] = <<>>]
          \/ adding' = [adding EXCEPT ![t] = Tail(adding[t])]
      BY <1>4 DEF RecordIssue
    <3>2. adding' \in [Thread -> Seq(Int)]
      <4>1. adding \in [Thread -> Seq(Int)] /\ <<>> \in Seq(Int)
        BY DEF LossIInv, LossTypeOK
      <4>. QED  BY ONLY <2>1, <3>1, <4>1, SetAt, t \in Thread
    <3>3. \/ issues' = issues
          \/ /\ Head(adding[t]) >= 0
             /\ issues' = [issues EXCEPT ![target[t]] = issues[target[t]] + Head(adding[t])]
      BY <1>4 DEF RecordIssue
    <3>4. target[t] \in Counter /\ issues \in [Counter -> Nat]
      BY DEF LossIInv, LossTypeOK
    <3>5. issues' \in [Counter -> Nat]
      BY ONLY <2>1, <3>3, <3>4
    <3>. QED  BY <3>2, <3>5
  <2>3. LossTypeOK'
    BY <1>4, <2>2 DEF RecordIssue, LossIInv, LossTypeOK, ghosts
  <2>. QED  BY <1>1, <1>4, <2>3 DEF RecordIssue
<1>5. ASSUME UNCHANGED lossVars  PROVE LossIInv'
  <2>1. LossTypeOK'
    BY <1>5 DEF lossVars, LossIInv, LossTypeOK
  <2>. QED  BY <1>1, <1>5, <2>1 DEF lossVars, ghosts
<1>6. ASSUME NEW c \in Counter, NEW n \in Losses, RecordLoss(c, n)  PROVE LossIInv'
  BY <1>6, RecordLossKeeps
<1>. QED
  BY <1>2, <1>3, <1>4, <1>5, <1>6, ObserveKeeps DEF LossNext

LEMMA AlwaysLoss == LossSpec => []LossIInv
BY InitLoss, NextLoss, PTL DEF LossSpec

-----------------------------------------------------------------------------
(* The missing numbers are exactly those jumped over that did not come.    *)
LEMMA MissingIsSkipped ==
  ASSUME LossIInv, NEW c \in Counter
  PROVE  Missing(c) = skipped[c] \ seen[c]
<1> USE DEF LossIInv, LossTypeOK
<1>1. ASSUME NEW x \in Missing(c)  PROVE x \in skipped[c] \ seen[c]
  <2> DEFINE G(y) == Between(y[1], first[c][y[1]], y[2])
  <2>a. x \in UNION {G(y) : y \in seen[c]} /\ x \notin seen[c]
    <3>1. Missing(c) = (UNION {G(y) : y \in seen[c]}) \ seen[c]
      BY Zenon DEF Missing
    <3> HIDE DEF G
    <3> DEFINE U == UNION {G(y) : y \in seen[c]}
               M == Missing(c)
    <3>2. M = U \ seen[c] /\ x \in M
      BY <3>1
    <3> HIDE DEF U, M
    <3>3. x \in U /\ x \notin seen[c]
      BY ONLY <3>2
    <3>. QED  BY <3>3 DEF U
  <2>b. PICK g \in {G(y) : y \in seen[c]} : x \in g
    <3> HIDE DEF G
    <3>. QED  BY ONLY <2>a
  <2>c. PICK y \in seen[c] : g = G(y)
    <3> HIDE DEF G
    <3>. QED  BY ONLY <2>b
  <2>1. x \in Between(y[1], first[c][y[1]], y[2]) /\ x \notin seen[c]
    BY ONLY <2>a, <2>b, <2>c
  <2>0. seen[c] \subseteq Stream \X Nat
    OBVIOUS
  <2> DEFINE s == y[1]
  <2>2. s \in Stream /\ y[2] \in Nat /\ y = <<s, y[2]>>
    BY ONLY <2>0, y \in seen[c]
  <2>3. /\ StreamInv(c, s) /\ lastSeq[c][s] # NoSeq
    BY <2>2 DEF StreamInv
  <2>4. PICK n \in (first[c][s] + 1)..(y[2] - 1) : x = <<s, n>>
    BY <2>1 DEF Between
  <2>5. first[c][s] \in Nat /\ lastSeq[c][s] \in Nat /\ y[2] <= lastSeq[c][s]
    BY <2>2, <2>3 DEF StreamInv
  <2>6. n \in Nat /\ first[c][s] < n /\ n < lastSeq[c][s]
    BY <2>2, <2>4, <2>5
  <2>. QED  BY <2>1, <2>3, <2>4, <2>6 DEF StreamInv
<1>2. ASSUME NEW x \in skipped[c], x \notin seen[c]  PROVE x \in Missing(c)
  <2> DEFINE s == x[1]
             n == x[2]
             y == <<s, lastSeq[c][s]>>
  <2>1. s \in Stream /\ n \in Nat /\ x = <<s, n>>
    OBVIOUS
  <2>2. StreamInv(c, s) /\ lastSeq[c][s] # NoSeq
    BY <2>1 DEF StreamInv
  <2>3. y \in seen[c] /\ first[c][s] < n /\ n < lastSeq[c][s]
    BY <1>2, <2>1, <2>2 DEF StreamInv
  <2>4. first[c][s] \in Nat /\ lastSeq[c][s] \in Nat
    BY <2>1, <2>2 DEF StreamInv
  <2>5. n \in (first[c][s] + 1)..(lastSeq[c][s] - 1)
    BY ONLY <2>1, <2>3, <2>4
  <2>6. y[1] = s /\ y[2] = lastSeq[c][s]
    OBVIOUS
  <2> HIDE DEF y, n, s
  <2>7. x \in Between(y[1], first[c][y[1]], y[2])
    BY ONLY <2>1, <2>5, <2>6 DEF Between
  <2> DEFINE G(z) == Between(z[1], first[c][z[1]], z[2])
  <2>8. x \in G(y) /\ y \in seen[c] /\ x \notin seen[c]
    BY ONLY <1>2, <2>3, <2>7
  <2>9. x \in (UNION {G(z) : z \in seen[c]}) \ seen[c]
    <3> HIDE DEF G
    <3> DEFINE H == {G(z) : z \in seen[c]}
    <3>1. G(y) \in H
      BY ONLY <2>8
    <3> HIDE DEF H
    <3>2. x \in (UNION H) \ seen[c]
      BY ONLY <2>8, <3>1
    <3>. QED  BY <3>2 DEF H
  <2>10. Missing(c) = (UNION {G(z) : z \in seen[c]}) \ seen[c]
    BY Zenon DEF Missing
  <2>. QED  BY ONLY <2>9, <2>10
<1>. QED
  <2>1. Missing(c) \subseteq skipped[c] \ seen[c]
    BY <1>1
  <2>2. skipped[c] \ seen[c] \subseteq Missing(c)
    BY <1>2
  <2>. QED  BY <2>1, <2>2

LEMMA SplitCount ==
  ASSUME NEW S, NEW T, IsFiniteSet(S)
  PROVE  /\ IsFiniteSet(S \ T) /\ IsFiniteSet(S \cap T)
         /\ Cardinality(S \ T) = Cardinality(S) - Cardinality(S \cap T)
<1>1. IsFiniteSet(S \ T) /\ IsFiniteSet(S \cap T)
  BY FS_Subset, S \ T \subseteq S, S \cap T \subseteq S
<1>2. S = (S \ T) \cup (S \cap T) /\ (S \ T) \cap (S \cap T) = {}
  OBVIOUS
<1>3. Cardinality(S) = Cardinality(S \ T) + Cardinality(S \cap T)
  BY <1>1, <1>2, DisjointUnion
<1>4. Cardinality(S \ T) \in Nat /\ Cardinality(S \cap T) \in Nat
  BY <1>1, FS_CardinalityType
<1> DEFINE a == Cardinality(S)
           b == Cardinality(S \ T)
           i == Cardinality(S \cap T)
<1>5. a = b + i /\ b \in Nat /\ i \in Nat
  BY <1>3, <1>4
<1> HIDE DEF a, b, i
<1>6. b = a - i
  BY ONLY <1>5
<1>. QED  BY <1>1, <1>6 DEF a, b, i

LEMMA GapSplits ==
  ASSUME LossIInv, NEW c \in Counter
  PROVE  /\ gap[c] = declared[c] + Cardinality(Missing(c)) + Cardinality(skipped[c] \cap seen[c])
         /\ Cardinality(Missing(c)) \in Nat /\ Cardinality(skipped[c] \cap seen[c]) \in Nat
         /\ declared[c] \in Nat /\ regressions[c] \in Nat
<1>1. IsFiniteSet(skipped[c]) /\ gap[c] = declared[c] + Cardinality(skipped[c])
  BY DEF LossIInv, CountInv
<1>2. /\ IsFiniteSet(Missing(c)) /\ IsFiniteSet(skipped[c] \cap seen[c])
      /\ Cardinality(Missing(c)) = Cardinality(skipped[c]) - Cardinality(skipped[c] \cap seen[c])
  <2>1. Missing(c) = skipped[c] \ seen[c]
    BY MissingIsSkipped
  <2>2. /\ IsFiniteSet(skipped[c] \ seen[c]) /\ IsFiniteSet(skipped[c] \cap seen[c])
        /\ Cardinality(skipped[c] \ seen[c])
             = Cardinality(skipped[c]) - Cardinality(skipped[c] \cap seen[c])
    BY ONLY <1>1, SplitCount
  <2> DEFINE D == skipped[c] \ seen[c]
  <2>3. Missing(c) = D
    BY <2>1
  <2>4. /\ IsFiniteSet(D) /\ IsFiniteSet(skipped[c] \cap seen[c])
        /\ Cardinality(D) = Cardinality(skipped[c]) - Cardinality(skipped[c] \cap seen[c])
    BY <2>2
  <2> HIDE DEF D
  <2>. QED  BY ONLY <2>3, <2>4
<1>3. /\ Cardinality(skipped[c]) \in Nat /\ Cardinality(Missing(c)) \in Nat
      /\ Cardinality(skipped[c] \cap seen[c]) \in Nat
  BY <1>1, <1>2, FS_CardinalityType
<1>. QED  BY <1>1, <1>2, <1>3 DEF LossIInv, LossTypeOK

(* The counters keep their types.                                          *)
THEOREM CountersTypeCorrect == LossSpec => []LossTypeOK
<1>1. LossIInv => LossTypeOK
  BY DEF LossIInv
<1>. QED  BY <1>1, AlwaysLoss, PTL

(* No missing sequence number goes uncounted, in whatever order, by        *)
(* whichever threads and how often the events are observed.                *)
THEOREM EveryGapIsCounted == LossSpec => []NoGapUncounted
<1>1. LossIInv => NoGapUncounted
  <2> SUFFICES ASSUME LossIInv, NEW c \in Counter
               PROVE  declared[c] + Cardinality(Missing(c)) <= gap[c]
    BY DEF NoGapUncounted
  <2> DEFINE missing == Cardinality(Missing(c))
             late == Cardinality(skipped[c] \cap seen[c])
  <2>1. /\ gap[c] = declared[c] + missing + late
        /\ missing \in Nat /\ late \in Nat /\ declared[c] \in Nat
    BY GapSplits
  <2> HIDE DEF missing, late
  <2>2. declared[c] + missing <= gap[c]
    BY ONLY <2>1
  <2>. QED  BY <2>2 DEF missing
<1>. QED  BY <1>1, AlwaysLoss, PTL

(* What sequence_gap reports beyond the missing numbers is bounded by      *)
(* sequence_regressions.                                                   *)
THEOREM OvercountIsBounded == LossSpec => []OvercountIsRegressions
<1>1. LossIInv => OvercountIsRegressions
  <2> SUFFICES ASSUME LossIInv, NEW c \in Counter
               PROVE  gap[c] <= declared[c] + Cardinality(Missing(c)) + regressions[c]
    BY DEF OvercountIsRegressions
  <2> DEFINE missing == Cardinality(Missing(c))
             late == Cardinality(skipped[c] \cap seen[c])
  <2>1. /\ gap[c] = declared[c] + missing + late
        /\ missing \in Nat /\ late \in Nat /\ declared[c] \in Nat /\ regressions[c] \in Nat
    BY GapSplits
  <2>2. late <= regressions[c]
    BY DEF LossIInv, CountInv
  <2> HIDE DEF missing, late
  <2>3. gap[c] <= declared[c] + missing + regressions[c]
    BY ONLY <2>1, <2>2
  <2>. QED  BY <2>3 DEF missing
<1>. QED  BY <1>1, AlwaysLoss, PTL
=============================================================================
