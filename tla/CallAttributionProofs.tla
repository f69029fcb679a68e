----------------------- MODULE CallAttributionProofs -----------------------
(***************************************************************************)
(* For any processes, calls, declarations and windows: what markers make   *)
(* certain is true, the true call is not ruled out, and a wrong marker is  *)
(* doubted.                                                                *)
(***************************************************************************)
EXTENDS CallAttribution, FiniteSetTheorems, WellFoundedInduction,
        NaturalsInduction, TLAPS

LEMMA Least ==
  ASSUME NEW S \in SUBSET Nat, S # {}
  PROVE  \E x \in S : \A y \in S : x <= y
<1> DEFINE R == OpToRel(<, Nat)
<1>1. IsWellFoundedOn(R, Nat)
  BY NatLessThanWellFounded
<1> HIDE DEF R
<1>2. PICK x \in S : \A y \in S : <<y, x>> \notin R
  BY <1>1, WFMin
<1>3. \A y \in S : ~(y < x)
  BY <1>2 DEF R, OpToRel
<1> QED
  BY <1>3

LEMMA Greatest ==
  ASSUME NEW S \in SUBSET Nat, S # {}, NEW n \in Nat, \A x \in S : x <= n
  PROVE  \E x \in S : \A y \in S : y <= x
<1> DEFINE T == {n - x : x \in S}
<1>1. T \in SUBSET Nat /\ T # {}
  <2>1. \A x \in S : x \in Nat /\ x <= n
    OBVIOUS
  <2>2. \A x \in S : n - x \in Nat
    BY <2>1
  <2> QED
    BY <2>2
<1>2. PICK t \in T : \A y \in T : t <= y
  BY <1>1, Least
<1>3. PICK x \in S : t = n - x
  OBVIOUS
<1>4. ASSUME NEW y \in S PROVE y <= x
  <2>1. n - y \in T
    OBVIOUS
  <2>2. n - x <= n - y
    BY <1>2, <1>3, <2>1
  <2>3. x \in Nat /\ y \in Nat
    OBVIOUS
  <2> HIDE DEF T
  <2> QED
    BY <2>2, <2>3
<1> QED
  BY <1>4

-----------------------------------------------------------------------------
(* The inductive invariant.  Everything recorded is of a time that has     *)
(* come, a write tells what really happened, a declaration tells the       *)
(* process of its tool, if any, and the declaration of a tool comes first. *)
Traffics == [conn : Nat, proc : Procs, at : 1..now, wall : Nat]

WritesOf == [path : Paths, proc : Procs, at : 1..now, wall : Nat,
             cause : started, corr : Nat]

Declarations == [call : Nat, conn : Nat, pid : Nat, start : Nat,
                 clock : {"monotonic", "wall", "none"}, at : 1..now, wall : Nat,
                 tool : Nat, cause : started]

WrittenTrue(w) ==
  w.proc = ProcOf[w.cause] /\ w.corr \in {None, ToolOf[w.cause]} \cup Names(w.cause)

OfItsProcess(d) ==
  /\ d.tool \in {None, ToolOf[d.cause]}
  /\ d.pid \in {None, PidOf[ProcOf[d.cause]]}
  /\ d.start \in {None, ProcOf[d.cause]}

WriteInv == writes \subseteq WritesOf /\ \A w \in writes : WrittenTrue(w)

DeclInv == decls \subseteq Declarations /\ \A d \in decls : OfItsProcess(d)

DeclaredFirst == \A w \in writes : \A x \in decls : x.cause = w.cause => x.at <= w.at

IInv ==
  /\ TypeOK /\ now \in Nat \ {0}
  /\ IsFiniteSet(sent) /\ IsFiniteSet(traffic) /\ IsFiniteSet(writes) /\ IsFiniteSet(decls)
  /\ traffic \subseteq Traffics /\ WriteInv /\ DeclInv /\ DeclaredFirst

LEMMA InitIInv == Init => IInv
<1> SUFFICES ASSUME Init PROVE IInv
  OBVIOUS
<1>1. TypeOK /\ now \in Nat \ {0}
  BY CallAssumption DEF Init, TypeOK
<1>2. IsFiniteSet(sent) /\ IsFiniteSet(traffic) /\ IsFiniteSet(writes) /\ IsFiniteSet(decls)
  BY FS_EmptySet DEF Init
<1>3. traffic \subseteq Traffics /\ WriteInv /\ DeclInv /\ DeclaredFirst
  BY DEF Init, WriteInv, DeclInv, DeclaredFirst
<1> QED
  BY <1>1, <1>2, <1>3 DEF IInv

(* What was recorded keeps its type when time passes or a tool starts.     *)
LEMMA OldRecords ==
  ASSUME IInv, now' \in Nat, now <= now', started \subseteq started'
  PROVE  traffic \subseteq Traffics' /\ writes \subseteq WritesOf' /\ decls \subseteq Declarations'
<1>1. 1..now \subseteq 1..now'
  BY DEF IInv
<1>2. traffic \subseteq Traffics'
  BY <1>1 DEF IInv, Traffics
<1>3. writes \subseteq WritesOf'
  BY <1>1 DEF IInv, WriteInv, WritesOf
<1>4. decls \subseteq Declarations'
  BY <1>1 DEF IInv, DeclInv, Declarations
<1> QED
  BY <1>2, <1>3, <1>4

LEMMA Times == IInv => now \in 1..now /\ now + offset \in Nat
  BY CallAssumption DEF IInv, TypeOK

LEMMA TrafficKeepsIInv ==
  ASSUME IInv, NEW c \in Calls, SendRequest(c) \/ ReadAnswer(c)
  PROVE  IInv'
<1> DEFINE r == [conn |-> ConnOf[c], proc |-> ProcOf[c], at |-> now, wall |-> now + offset]
<1>1. /\ UNCHANGED <<now, offset, started, writes, decls>>
      /\ traffic' = traffic \/ traffic' = traffic \cup {r}
  BY DEF SendRequest, ReadAnswer, Act, Traffic
<1>2. r \in Traffics'
  BY <1>1, Times, CallAssumption DEF Traffics
<1> HIDE DEF r
<1>3. now' \in Nat /\ now <= now' /\ started \subseteq started'
  BY <1>1 DEF IInv
<1>4. traffic' \subseteq Traffics'
  BY <1>1, <1>2, <1>3, OldRecords
<1>5. WriteInv' /\ DeclInv' /\ DeclaredFirst'
  BY <1>1, <1>3, OldRecords DEF IInv, WriteInv, DeclInv, DeclaredFirst
<1>6. /\ sent' \subseteq Calls /\ answered' \subseteq sent' /\ started' \subseteq answered'
      /\ IsFiniteSet(sent')
  <2>1. sent \subseteq Calls /\ answered \subseteq sent /\ started \subseteq answered
    BY DEF IInv, TypeOK
  <2>2. IsFiniteSet(sent) /\ IsFiniteSet(sent \cup {c})
    BY FS_AddElement DEF IInv
  <2> QED
    BY <1>1, <2>1, <2>2 DEF SendRequest, ReadAnswer
<1>7. TypeOK' /\ now' \in Nat \ {0}
  BY <1>1, <1>6 DEF IInv, TypeOK
<1>8. IsFiniteSet(traffic') /\ IsFiniteSet(writes') /\ IsFiniteSet(decls')
  BY <1>1, FS_AddElement DEF IInv
<1> QED
  BY <1>4, <1>5, <1>6, <1>7, <1>8 DEF IInv

LEMMA TickKeepsIInv == IInv /\ Tick => IInv'
<1> SUFFICES ASSUME IInv, Tick PROVE IInv'
  OBVIOUS
<1>1. /\ now < MaxTime /\ now' = now + 1 /\ offset' \in Offsets
      /\ UNCHANGED <<sent, answered, started, traffic, writes, decls>>
  BY DEF Tick
<1>2. TypeOK' /\ now' \in Nat \ {0} /\ IsFiniteSet(sent')
  <2>1. now \in Nat \ {0} /\ MaxTime \in Nat
    BY CallAssumption DEF IInv
  <2>2. now' \in 1 .. MaxTime + 1
    BY <1>1, <2>1
  <2> QED
    BY <1>1, <2>1, <2>2 DEF IInv, TypeOK
<1>3. now' \in Nat /\ now <= now' /\ started \subseteq started'
  BY <1>1 DEF IInv
<1>4. traffic' \subseteq Traffics' /\ WriteInv' /\ DeclInv' /\ DeclaredFirst'
  BY <1>1, <1>3, OldRecords
  DEF IInv, WriteInv, DeclInv, DeclaredFirst, WrittenTrue, OfItsProcess
<1> QED
  BY <1>1, <1>2, <1>4 DEF IInv

LEMMA WriteKeepsIInv ==
  ASSUME IInv, NEW c \in Calls, NEW path \in Paths, WriteFile(c, path)
  PROVE  IInv'
<1>1. /\ UNCHANGED <<now, offset, sent, answered, started, traffic, decls>>
      /\ c \in started
  BY DEF WriteFile, Act
<1>2. PICK corr \in {None, ToolOf[c]} \cup Names(c) :
        writes' = writes \cup {[path |-> path, proc |-> ProcOf[c], at |-> now,
                                wall |-> now + offset, cause |-> c, corr |-> corr]}
  BY DEF WriteFile
<1> DEFINE w == [path |-> path, proc |-> ProcOf[c], at |-> now,
                 wall |-> now + offset, cause |-> c, corr |-> corr]
<1>3. w \in WritesOf' /\ WrittenTrue(w) /\ w.at = now
  <2>1. corr \in Nat
    BY CallAssumption DEF Names, None
  <2>2. w \in WritesOf'
    BY <1>1, <2>1, Times, CallAssumption DEF WritesOf
  <2> QED
    BY <2>2 DEF WrittenTrue
<1>4. writes' = writes \cup {w}
  BY <1>2
<1> HIDE DEF w
<1>5. now' \in Nat /\ now <= now' /\ started \subseteq started'
  BY <1>1 DEF IInv
<1>6. WriteInv'
  BY <1>3, <1>4, <1>5, OldRecords DEF IInv, WriteInv, WrittenTrue
<1>7. ASSUME NEW x \in decls PROVE x.at <= now
  BY DEF IInv, DeclInv, Declarations
<1>8. DeclaredFirst'
  BY <1>1, <1>3, <1>4, <1>7 DEF IInv, DeclaredFirst
<1>9. traffic' \subseteq Traffics' /\ DeclInv'
  BY <1>1, <1>5, OldRecords DEF IInv, DeclInv, OfItsProcess
<1>10. TypeOK' /\ now' \in Nat \ {0}
  BY <1>1 DEF IInv, TypeOK
<1>11. IsFiniteSet(sent') /\ IsFiniteSet(traffic') /\ IsFiniteSet(writes') /\ IsFiniteSet(decls')
  BY <1>1, <1>4, FS_AddElement DEF IInv
<1> QED
  BY <1>6, <1>8, <1>9, <1>10, <1>11 DEF IInv

LEMMA StartKeepsIInv ==
  ASSUME IInv, NEW c \in Calls, StartTool(c)
  PROVE  IInv'
<1>1. /\ UNCHANGED <<now, offset, sent, answered, traffic, writes>>
      /\ c \in answered /\ c \notin started /\ started' = started \cup {c}
  BY DEF StartTool, Act
<1>2. now' \in Nat /\ now <= now' /\ started \subseteq started'
  BY <1>1 DEF IInv
<1>3. /\ TypeOK' /\ now' \in Nat \ {0}
      /\ IsFiniteSet(sent') /\ IsFiniteSet(traffic') /\ IsFiniteSet(writes')
  BY <1>1 DEF IInv, TypeOK
<1>4. traffic' \subseteq Traffics' /\ WriteInv'
  BY <1>1, <1>2, OldRecords DEF IInv, WriteInv, WrittenTrue
<1>5. decls \subseteq Declarations'
  BY <1>2, OldRecords
<1>6. CASE decls' = decls
  BY <1>1, <1>3, <1>4, <1>5, <1>6 DEF IInv, DeclInv, DeclaredFirst, OfItsProcess
<1>7. ASSUME NEW shape \in Shapes, NEW d \in Calls, decls' = decls \cup {Declare(c, d, shape)}
      PROVE  IInv'
  <2> DEFINE n == Declare(c, d, shape)
  <2>1. /\ n.at = now /\ n.cause = c /\ OfItsProcess(n)
        /\ n \in Declarations'
    <3> DEFINE call == IF shape.call # "none"
                       THEN IF shape.call = "logical" THEN LogicalOf[d] ELSE d ELSE None
               conn == IF shape.conn THEN ConnOf[d] ELSE None
               pid  == IF shape.pid THEN PidOf[ProcOf[c]] ELSE None
               start == IF shape.start THEN ProcOf[c] ELSE None
               tool == IF shape.tool THEN ToolOf[c] ELSE None
               m == [call |-> call, conn |-> conn, pid |-> pid, start |-> start,
                     clock |-> shape.clock, at |-> now, wall |-> now + offset,
                     tool |-> tool, cause |-> c]
    <3>1. n = m
      BY DEF Declare
    <3>2. /\ call \in Nat /\ conn \in Nat /\ pid \in Nat /\ start \in Nat /\ tool \in Nat
          /\ shape.clock \in {"monotonic", "wall", "none"}
          /\ tool \in {None, ToolOf[c]} /\ pid \in {None, PidOf[ProcOf[c]]}
          /\ start \in {None, ProcOf[c]}
      BY CallAssumption DEF None
    <3>3. c \in started' /\ now \in 1..now' /\ now + offset \in Nat
      BY <1>1, Times
    <3> HIDE DEF call, conn, pid, start, tool, n
    <3>4. /\ m \in Declarations'
          /\ m.cause = c /\ m.at = now /\ m.tool = tool /\ m.pid = pid /\ m.start = start
      BY <3>2, <3>3 DEF Declarations
    <3> HIDE DEF m
    <3> QED
      BY <3>1, <3>2, <3>4 DEF OfItsProcess
  <2>2. decls' = decls \cup {n}
    BY <1>7
  <2> HIDE DEF n
  <2>3. DeclInv'
    BY <1>5, <2>1, <2>2 DEF IInv, DeclInv, OfItsProcess
  <2>4. \A w \in writes : w.cause # c
    BY <1>1 DEF IInv, WriteInv, WritesOf
  <2>5. DeclaredFirst'
    BY <1>1, <2>1, <2>2, <2>4 DEF IInv, DeclaredFirst
  <2>6. IsFiniteSet(decls')
    BY <2>2, FS_AddElement DEF IInv
  <2> QED
    BY <1>3, <1>4, <2>3, <2>5, <2>6 DEF IInv
<1> QED
  BY <1>6, <1>7 DEF StartTool

LEMMA Inductive == IInv /\ [Next]_vars => IInv'
<1> SUFFICES ASSUME IInv, [Next]_vars PROVE IInv'
  OBVIOUS
<1>1. CASE UNCHANGED vars
  BY <1>1 DEF vars, IInv, TypeOK, Traffics, WriteInv, WritesOf, WrittenTrue,
     DeclInv, Declarations, OfItsProcess, DeclaredFirst
<1> QED
  BY <1>1, TrafficKeepsIInv, StartKeepsIInv, WriteKeepsIInv, TickKeepsIInv DEF Next

LEMMA AlwaysIInv == Spec => []IInv
  BY InitIInv, Inductive, PTL DEF Spec

(* What the model calls a type invariant holds throughout: tools run only  *)
(* for answers that were read, of requests that were sent.                 *)
THEOREM CallTypeCorrect == Spec => []TypeOK
<1>1. IInv => TypeOK
  BY DEF IInv
<1> QED
  BY <1>1, AlwaysIInv, PTL

-----------------------------------------------------------------------------
(* Effects, times and windows.                                             *)
LEMMA TimeIsFirst ==
  ASSUME IInv, NEW e \in Effects
  PROVE  TimeOf(e) \in 1..now
<1> DEFINE T == {w.at : w \in EventsOf(e)}
<1>1. EventsOf(e) \subseteq writes /\ EventsOf(e) # {}
  BY DEF Effects, EventsOf
<1>2. T \subseteq 1..now /\ T # {}
  BY <1>1 DEF IInv, WriteInv, WritesOf
<1>3. PICK t \in T : \A y \in T : t <= y
  <2>1. T \in SUBSET Nat
    BY <1>2
  <2> QED
    BY <1>2, <2>1, Least
<1>4. Min(T) \in T
  BY <1>3 DEF Min
<1> QED
  BY <1>2, <1>4 DEF TimeOf

LEMMA WriterFacts ==
  ASSUME IInv, NEW e \in Effects, NEW w \in EventsOf(e)
  PROVE  /\ w \in writes /\ w.proc = e.proc /\ e.proc \in Procs /\ e.proc \in Nodes
         /\ w.cause \in sent /\ w.cause \in Calls
         /\ e.proc = ProcOf[w.cause] /\ WrittenTrue(w)
<1>1. w \in writes /\ w.proc = e.proc
  BY DEF EventsOf
<1>2. w.proc \in Procs /\ w.cause \in started /\ WrittenTrue(w)
  BY <1>1 DEF IInv, WriteInv, WritesOf
<1>3. w.cause \in sent /\ w.cause \in Calls
  BY <1>2 DEF IInv, TypeOK
<1>4. e.proc \in Nodes /\ e.proc = ProcOf[w.cause]
  BY <1>1, <1>2 DEF Nodes, WrittenTrue
<1> QED
  BY <1>1, <1>2, <1>3, <1>4

LEMMA FirstWritesAreEvents ==
  ASSUME NEW e, NEW w \in FirstWrites(e)
  PROVE  w \in EventsOf(e) /\ w.at = TimeOf(e)
  BY DEF FirstWrites

LEMMA ExternalCallsFinite ==
  ASSUME IInv, NEW e
  PROVE  /\ ExternalCalls(e) \subseteq sent /\ IsFiniteSet(ExternalCalls(e))
         /\ ExternalCalls(e) \subseteq Nat
<1>1. ExternalCalls(e) \subseteq sent
  BY DEF ExternalCalls
<1>2. IsFiniteSet(sent) /\ sent \subseteq Nat
  BY CallAssumption DEF IInv, TypeOK
<1> QED
  BY <1>1, <1>2, FS_Subset

LEMMA FewAreOne ==
  ASSUME NEW S, IsFiniteSet(S)
  PROVE  Cardinality(S) < 2 <=> \A x, y \in S : x = y
<1>1. Cardinality(S) \in Nat
  BY FS_CardinalityType
<1>2. Cardinality(S) = 0 <=> S = {}
  BY FS_EmptySet
<1>3. Cardinality(S) = 1 <=> \E x : S = {x}
  BY FS_Singleton
<1>4. (\A x, y \in S : x = y) <=> S = {} \/ \E x : S = {x}
  OBVIOUS
<1>5. Cardinality(S) < 2 <=> Cardinality(S) = 0 \/ Cardinality(S) = 1
  BY <1>1
<1> QED
  BY <1>2, <1>3, <1>4, <1>5

LEMMA CallNodesFinite ==
  ASSUME NEW S, IsFiniteSet(S)
  PROVE  IsFiniteSet({CallNode(c) : c \in S})
<1> DEFINE T == {CallNode(c) : c \in S}
           f == [c \in S |-> CallNode(c)]
<1>1. f \in Surjection(S, T)
  BY DEF Surjection
<1> HIDE DEF T, f
<1>2. IsFiniteSet(T)
  BY <1>1, FS_Surjection
<1> QED
  BY <1>2 DEF T

LEMMA CallNodesDistinct == \A c, d : CallNode(c) = CallNode(d) => c = d
  BY DEF CallNode

(* A record of the window belongs to the span, which reaches over it.      *)
LEMMA SpanCovers ==
  ASSUME NEW n \in Nat, NEW times \in SUBSET (1..n), NEW t \in times, NEW at \in Nat,
         t <= at + Window, at <= t + Window
  PROVE  Near(at, times)
<1>1. times \in SUBSET Nat /\ times # {} /\ \A x \in times : x <= n
  OBVIOUS
<1>2. \E x \in times : \A y \in times : x <= y
  BY <1>1, Least
<1>3. Min(times) \in times /\ \A y \in times : Min(times) <= y
  BY <1>2 DEF Min
<1>4. \E x \in times : \A y \in times : y <= x
  BY <1>1, Greatest
<1>5. \E x \in times : \A y \in times : x >= y
  BY <1>1, <1>4
<1>6. Max(times) \in times /\ \A y \in times : Max(times) >= y
  BY <1>5 DEF Max
<1> DEFINE lo == Min(times)
           hi == Max(times)
<1>7. lo \in Nat /\ hi \in Nat /\ t \in Nat /\ lo <= t /\ t <= hi
  BY <1>1, <1>3, <1>6
<1> HIDE DEF lo, hi
<1>8. Window \in Nat
  BY CallAssumption
<1>9. lo <= at + Window /\ at <= hi + Window
  BY <1>7, <1>8
<1>10. Span(times) = <<lo, hi>>
  BY DEF Span, lo, hi
<1> QED
  BY <1>1, <1>9, <1>10 DEF Near

LEMMA SeenCallIsExternal ==
  ASSUME IInv, NEW e \in Effects, NEW w \in FirstWrites(e),
         NEW t \in traffic, t.conn = ConnOf[w.cause],
         t.proc = e.proc, t.at <= TimeOf(e) + Window, TimeOf(e) <= t.at + Window
  PROVE  w.cause \in ExternalCalls(e)
<1> DEFINE c == w.cause
           times == {x.at : x \in TlsOf(ConnOf[c])}
<1>1. c \in sent
  BY FirstWritesAreEvents, WriterFacts
<1>2. t \in TlsOf(ConnOf[c])
  BY DEF TlsOf
<1>3. e.proc \in CallProcesses(c)
  BY <1>2 DEF CallProcesses
<1>4. times \in SUBSET (1..now) /\ t.at \in times
  BY <1>2 DEF TlsOf, IInv, Traffics
<1>5. now \in Nat /\ TimeOf(e) \in Nat
  BY TimeIsFirst DEF IInv
<1> HIDE DEF times
<1>6. Near(TimeOf(e), times)
  BY <1>4, <1>5, SpanCovers
<1> HIDE DEF c
<1> QED
  BY <1>1, <1>3, <1>6 DEF ExternalCalls, times, c

-----------------------------------------------------------------------------
(* Ambiguous claims.                                                       *)
LEMMA KeptAreCandidates ==
  ASSUME NEW e, NEW basis, NEW nodes
  PROVE  LET k == AmbiguousClaim(e, basis, nodes)
             kept == FirstOf(nodes, MaxCandidates, Rank)
         IN  /\ k.src = e /\ k.dst = First(kept) /\ k.conf = AMBIGUOUS
             /\ k.others = kept \ {k.dst}
             /\ kept \subseteq Candidates(k)
<1> DEFINE kept == FirstOf(nodes, MaxCandidates, Rank)
<1>1. AmbiguousClaim(e, basis, nodes) = Claim(e, First(kept), basis, AMBIGUOUS, kept)
  BY DEF AmbiguousClaim
<1> HIDE DEF kept
<1> QED
  BY <1>1 DEF Claim, Candidates, kept

(* One that at most one other precedes is kept.                            *)
LEMMA SecondIsKept ==
  ASSUME NEW nodes, NEW b \in nodes, NEW n, {y \in nodes : Rank(y) < Rank(b)} \subseteq {n}
  PROVE  b \in FirstOf(nodes, MaxCandidates, Rank)
<1> DEFINE below == {y \in nodes : Rank(y) < Rank(b)}
<1>1. IsFiniteSet({n}) /\ Cardinality({n}) = 1
  BY FS_Singleton
<1>2. below \in SUBSET {n}
  OBVIOUS
<1> HIDE DEF below
<1>3. Cardinality(below) \in Nat /\ Cardinality(below) <= 1
  BY <1>1, <1>2, FS_Subset, FS_CardinalityType
<1>4. Cardinality(below) < MaxCandidates
  BY <1>3, CallAssumption
<1> QED
  BY <1>4 DEF FirstOf, below

(* Any of the calls is kept, unless they are too many.                     *)
LEMMA EachCallIsKept ==
  ASSUME NEW e, NEW basis, NEW S \in SUBSET Nat, IsFiniteSet(S), NEW c \in S,
         NEW owners, NEW n, owners \subseteq {n}
  PROVE  LET k == AmbiguousClaim(e, basis, owners \cup {CallNode(x) : x \in S})
         IN  c \in CallsAmong(k) \/ MaxCandidates <= Cardinality(S)
<1> DEFINE nodes == owners \cup {CallNode(x) : x \in S}
           k     == AmbiguousClaim(e, basis, nodes)
           R     == S \ {c}
           T     == {CallNode(x) : x \in R}
           below == {y \in nodes : Rank(y) < Rank(CallNode(c))}
<1>1. IsFiniteSet(R) /\ Cardinality(R) = Cardinality(S) - 1
  BY FS_RemoveElement
<1>2. Cardinality(S) \in Nat /\ Cardinality(R) \in Nat
  BY <1>1, FS_CardinalityType
<1>3. IsFiniteSet(T) /\ Cardinality(T) <= Cardinality(R) /\ Cardinality(T) \in Nat
  <2> DEFINE f == [x \in R |-> CallNode(x)]
  <2>1. f \in Surjection(R, T)
    BY DEF Surjection
  <2> HIDE DEF f, R, T
  <2> QED
    BY <1>1, <2>1, FS_Surjection, FS_CardinalityType
<1>4. /\ IsFiniteSet(T \cup {n}) /\ Cardinality(T \cup {n}) \in Nat
      /\ Cardinality(T \cup {n}) <= Cardinality(T) + 1
  <2> HIDE DEF T
  <2>1. IsFiniteSet(T \cup {n})
    BY <1>3, FS_AddElement
  <2>2. Cardinality(T \cup {n}) = Cardinality(T) \/ Cardinality(T \cup {n}) = Cardinality(T) + 1
    BY <1>3, FS_AddElement
  <2> QED
    BY <1>3, <2>1, <2>2, FS_CardinalityType
<1>5. below \subseteq T \cup {n}
  <2> SUFFICES ASSUME NEW y \in nodes, Rank(y) < Rank(CallNode(c)), y \notin owners
               PROVE  y \in T
    OBVIOUS
  <2>1. PICK x \in S : y = CallNode(x)
    OBVIOUS
  <2>2. x # c
    <3>1. Rank(CallNode(c)) = c /\ c \in Nat
      BY DEF Rank, CallNode
    <3> QED
      BY <2>1, <3>1
  <2> QED
    BY <2>1, <2>2
<1>6. CallNode(c) \in nodes
  OBVIOUS
<1> HIDE DEF nodes, T, R, below, k
<1>7. Cardinality(below) <= Cardinality(T \cup {n}) /\ Cardinality(below) \in Nat
  BY <1>4, <1>5, FS_Subset, FS_CardinalityType
<1>8. CASE Cardinality(S) < MaxCandidates
  <2>1. Cardinality(below) < MaxCandidates
    BY <1>1, <1>2, <1>3, <1>4, <1>7, <1>8, CallAssumption
  <2>2. CallNode(c) \in FirstOf(nodes, MaxCandidates, Rank)
    BY <1>6, <2>1 DEF FirstOf, below
  <2>3. CallNode(c) \in Candidates(k)
    BY <2>2, KeptAreCandidates DEF k
  <2>4. CallsOfOwner(CallNode(c)) = {c}
    BY DEF CallsOfOwner, CallNode
  <2>5. c \in CallsAmong(k)
    BY <2>3, <2>4 DEF CallsAmong
  <2> QED
    BY <2>5 DEF k, nodes
<1> QED
  BY <1>2, <1>8, CallAssumption

(* A claim that names no others allows the calls of its end alone.         *)
LEMMA PlainClaim ==
  ASSUME NEW e, NEW n, NEW basis, NEW conf
  PROVE  LET k == Claim(e, n, basis, conf, {})
         IN  k.src = e /\ k.dst = n /\ k.conf = conf /\ k.others = {} /\ CallsAmong(k) = CallsOfOwner(n)
  BY DEF Claim, CallsAmong, Candidates

(* What a wrong marker, or none, leaves of the true call.                  *)
LeavesTheCall(k, c, S) ==
  IF k.conf = AMBIGUOUS THEN c \in CallsAmong(k) \/ MaxCandidates <= Cardinality(S)
                        ELSE CallsAmong(k) = {} \/ CallsAmong(k) \cap S # {}

LEMMA WindowsLeaveTheCall ==
  ASSUME IInv, NEW e, NEW c \in ExternalCalls(e), NEW k \in WindowClaims(e)
  PROVE  LeavesTheCall(k, c, ExternalCalls(e))
<1> DEFINE S == ExternalCalls(e)
           calls == {CallNode(x) : x \in S}
<1>1. S \in SUBSET Nat /\ IsFiniteSet(S)
  BY ExternalCallsFinite
<1>2. \/ k \in {Claim(e, n, "window", PROBABLE, {}) : n \in calls}
      \/ k = AmbiguousClaim(e, "window", {} \cup calls)
  BY DEF WindowClaims
<1>3. CASE k \in {Claim(e, n, "window", PROBABLE, {}) : n \in calls}
  <2>1. PICK x \in S : k = Claim(e, CallNode(x), "window", PROBABLE, {})
    BY <1>3
  <2>2. CallsAmong(k) = CallsOfOwner(CallNode(x)) /\ k.conf = PROBABLE
    BY <2>1, PlainClaim
  <2>3. CallsOfOwner(CallNode(x)) = {x}
    BY DEF CallsOfOwner, CallNode
  <2>4. CallsAmong(k) \cap S # {} /\ k.conf # AMBIGUOUS
    BY <2>2, <2>3 DEF PROBABLE, AMBIGUOUS
  <2> QED
    BY <2>4 DEF LeavesTheCall
<1>4. CASE k = AmbiguousClaim(e, "window", {} \cup calls)
  <2> DEFINE none == {}
  <2>1. c \in S /\ none \subseteq {None}
    OBVIOUS
  <2> HIDE DEF S, none
  <2>2. LET x == AmbiguousClaim(e, "window", none \cup calls)
        IN  c \in CallsAmong(x) \/ MaxCandidates <= Cardinality(S)
    BY <1>1, <2>1, EachCallIsKept
  <2>3. AmbiguousClaim(e, "window", none \cup calls).conf = AMBIGUOUS
    BY KeptAreCandidates
  <2> HIDE DEF calls
  <2> QED
    BY <1>4, <2>2, <2>3 DEF LeavesTheCall, S, none
<1> QED
  BY <1>2, <1>3, <1>4

LEMMA CallTargetsFinite ==
  ASSUME IInv, NEW d
  PROVE  CallTargets(d) \subseteq sent /\ IsFiniteSet(CallTargets(d))
<1>1. CallTargets(d) \subseteq sent
  BY DEF CallTargets, CallsNamed, CallsOnConn
<1> QED
  BY <1>1, FS_Subset DEF IInv

LEMMA OneOwner ==
  ASSUME IInv, NEW d
  PROVE  \E n : Owners(d) = {n}
<1>1. CASE d.tool # None \/ Cardinality(CallTargets(d)) # 1
  BY <1>1 DEF Owners
<1>2. CASE d.tool = None /\ Cardinality(CallTargets(d)) = 1
  <2>1. \E c : CallTargets(d) = {c}
    BY <1>2, CallTargetsFinite, FS_Singleton
  <2> QED
    BY <1>2, <2>1 DEF Owners
<1> QED
  BY <1>1, <1>2

(* A declaration is only worth a certainty when every field was verified   *)
(* and something besides it ties it to the events.                         *)
LEMMA WorthCases ==
  ASSUME NEW d
  PROVE  /\ Worth(d) \in {AMBIGUOUS, PROBABLE, CERTAIN}
         /\ Worth(d) = CERTAIN => Checks(d) = {"verified"} /\ ~WallFallback(d)
         /\ Bounded(d) \in {PROBABLE, CERTAIN}
         /\ Bounded(d) = CERTAIN => Worth(d) = CERTAIN
<1> DEFINE checks == Checks(d)
           plain  == CASE "conflict" \in checks -> AMBIGUOUS
                       [] checks = {"verified"} ->
                            IF Bridge(d) THEN CERTAIN ELSE PROBABLE
                       [] OTHER -> PROBABLE
<1>1. Worth(d) = IF WallFallback(d) THEN Compose(plain, PROBABLE) ELSE plain
  BY DEF Worth
<1> HIDE DEF checks
<1>2. plain \in {AMBIGUOUS, PROBABLE, CERTAIN}
  OBVIOUS
<1>3. plain = CERTAIN => checks = {"verified"}
  BY DEF AMBIGUOUS, PROBABLE, CERTAIN
<1> HIDE DEF plain
<1>4. Compose(plain, PROBABLE) \in {AMBIGUOUS, PROBABLE}
  BY <1>2 DEF Compose, AMBIGUOUS, PROBABLE, CERTAIN
<1>5. /\ Worth(d) \in {AMBIGUOUS, PROBABLE, CERTAIN}
      /\ Worth(d) = CERTAIN => plain = CERTAIN /\ ~WallFallback(d)
  BY <1>1, <1>2, <1>4 DEF AMBIGUOUS, PROBABLE, CERTAIN
<1> QED
  BY <1>3, <1>5 DEF Bounded, checks, AMBIGUOUS, PROBABLE, CERTAIN

(* The owners that a segment gives.                                        *)
LEMMA OwnersFinite ==
  ASSUME IInv, NEW group \in SUBSET decls
  PROVE  IsFiniteSet(OwnersOf(group))
<1> DEFINE all == {Owners(d) : d \in group}
           f   == [d \in group |-> Owners(d)]
<1>1. IsFiniteSet(group)
  BY FS_Subset DEF IInv
<1>2. f \in Surjection(group, all)
  BY DEF Surjection
<1>3. \A T \in all : IsFiniteSet(T)
  <2> SUFFICES ASSUME NEW d \in group PROVE IsFiniteSet(Owners(d))
    OBVIOUS
  <2>1. PICK n : Owners(d) = {n}
    BY OneOwner
  <2> QED
    BY <2>1, FS_Singleton
<1> HIDE DEF all, f
<1>4. IsFiniteSet(all)
  BY <1>1, <1>2, FS_Surjection
<1>5. IsFiniteSet(UNION all)
  BY <1>3, <1>4, FS_UNION
<1> QED
  BY <1>5 DEF all, OwnersOf

LEMMA OneOrManyOwners ==
  ASSUME IInv, NEW group \in SUBSET decls, group # {}
  PROVE  \/ Cardinality(OwnersOf(group)) > 1
         \/ Cardinality(OwnersOf(group)) = 1 /\ \E n : OwnersOf(group) = {n}
<1> DEFINE owners == OwnersOf(group)
<1>1. IsFiniteSet(owners)
  BY OwnersFinite
<1>2. owners # {}
  BY OneOwner DEF OwnersOf
<1> HIDE DEF owners
<1>3. Cardinality(owners) \in Nat /\ Cardinality(owners) # 0
  BY <1>1, <1>2, FS_CardinalityType, FS_EmptySet
<1>4. Cardinality(owners) = 1 => \E n : owners = {n}
  BY <1>1, FS_Singleton
<1> QED
  BY <1>3, <1>4 DEF owners

LEMMA OwnerOfEach ==
  ASSUME IInv, NEW group, NEW n, OwnersOf(group) = {n}, NEW d \in group
  PROVE  Owners(d) = {n}
<1>1. PICK m : Owners(d) = {m}
  BY OneOwner
<1>2. Owners(d) \subseteq OwnersOf(group)
  BY DEF OwnersOf
<1> QED
  BY <1>1, <1>2

(* What the declarations of a segment with one owner make of it: the claim *)
(* is doubtful and names the calls of the windows too, or there are none,  *)
(* or nothing speaks against it.                                           *)
MarkerConf(group) == Min({Bounded(d) : d \in group})

LEMMA MarkerConfIs ==
  ASSUME NEW group, group # {}
  PROVE  /\ MarkerConf(group) \in {PROBABLE, CERTAIN}
         /\ MarkerConf(group) = CERTAIN => \A d \in group : Worth(d) = CERTAIN
<1> DEFINE B == {Bounded(d) : d \in group}
<1>1. B \subseteq {PROBABLE, CERTAIN} /\ B # {}
  BY WorthCases
<1>2. PROBABLE \in Nat /\ CERTAIN \in Nat /\ PROBABLE < CERTAIN
  BY DEF PROBABLE, CERTAIN
<1>3. \E x \in B : \A y \in B : x <= y
  <2> HIDE DEF B
  <2>1. CASE PROBABLE \in B
    BY <1>1, <1>2, <2>1
  <2>2. CASE PROBABLE \notin B
    <3>1. B = {CERTAIN}
      BY <1>1, <2>2
    <3>2. CERTAIN <= CERTAIN
      BY <1>2
    <3> QED
      BY <3>1, <3>2
  <2> QED
    BY <2>1, <2>2
<1>4. Min(B) \in B /\ \A y \in B : Min(B) <= y
  BY <1>3 DEF Min
<1>5. Min(B) = CERTAIN => \A y \in B : y = CERTAIN
  <2> HIDE DEF B
  <2> QED
    BY <1>1, <1>2, <1>4
<1>6. Min(B) = CERTAIN => \A d \in group : Bounded(d) = CERTAIN
  BY <1>5
<1>7. \A d : Bounded(d) = CERTAIN => Worth(d) = CERTAIN
  BY WorthCases
<1> QED
  BY <1>1, <1>4, <1>6, <1>7 DEF MarkerConf

LEMMA MarkerOfMany ==
  ASSUME NEW e, NEW group, Cardinality(OwnersOf(group)) > 1
  PROVE  MarkerClaim(e, group) = AmbiguousClaim(e, "marker", OwnersOf(group))
<1> DEFINE owners == OwnersOf(group)
<1> HIDE DEF owners
<1>1. Cardinality(owners) > 1
  BY DEF owners
<1> QED
  BY <1>1 DEF MarkerClaim, owners

LEMMA MarkerCases ==
  ASSUME IInv, NEW e, NEW group, group # {}, NEW n, OwnersOf(group) = {n}
  PROVE  LET k     == MarkerClaim(e, group)
             calls == {CallNode(c) : c \in ExternalCalls(e)}
         IN  \/ k = AmbiguousClaim(e, "marker", {n} \cup calls) /\ ~(calls \subseteq {n})
             \/ k = Claim(e, n, "marker", PROBABLE, {}) /\ calls \subseteq {n}
             \/ /\ k = Claim(e, n, "marker", MarkerConf(group), {})
                /\ ~Contradicts(n, ExternalCalls(e))
<1> DEFINE k     == MarkerClaim(e, group)
           ext   == ExternalCalls(e)
           calls == {CallNode(c) : c \in ext}
           owners == OwnersOf(group)
           owner == CHOOSE x \in owners : TRUE
           doubted == \/ \E x \in group : Worth(x) = AMBIGUOUS
                      \/ Contradicts(owner, ext)
           all == {owner} \cup calls
           conf == Min({Bounded(x) : x \in group})
<1>1. owners = {n}
  OBVIOUS
<1>2. owner = n
  BY <1>1
<1>3. Cardinality(owners) = 1
  BY <1>1, FS_Singleton
<1>4. IsFiniteSet(calls)
  BY ExternalCallsFinite, CallNodesFinite
<1>5. conf = MarkerConf(group)
  BY DEF MarkerConf
<1>6. Contradicts(n, ext) => doubted
  BY <1>2
<1>7. k = CASE Cardinality(owners) > 1 -> AmbiguousClaim(e, "marker", owners)
            [] Cardinality(owners) = 1 /\ doubted /\ Cardinality(all) > 1 ->
                 AmbiguousClaim(e, "marker", all)
            [] Cardinality(owners) = 1 /\ doubted /\ Cardinality(all) = 1 ->
                 Claim(e, owner, "marker", PROBABLE, {})
            [] OTHER -> Claim(e, owner, "marker", conf, {})
  BY DEF MarkerClaim
<1>8. all = {n} \cup calls
  BY <1>2
<1> HIDE DEF k, owners, owner, doubted, all, conf, calls
<1>9. k = CASE doubted /\ Cardinality(all) > 1 -> AmbiguousClaim(e, "marker", all)
             [] doubted /\ Cardinality(all) = 1 -> Claim(e, n, "marker", PROBABLE, {})
             [] OTHER -> Claim(e, n, "marker", conf, {})
  BY <1>2, <1>3, <1>7
<1>10. IsFiniteSet(all) /\ Cardinality(all) \in Nat /\ all # {}
  <2>1. all = calls \cup {n}
    BY <1>8
  <2> QED
    BY <1>4, <2>1, FS_AddElement, FS_CardinalityType
<1>11. Cardinality(all) # 0
  BY <1>10, FS_EmptySet
<1>12. Cardinality(all) = 1 <=> calls \subseteq {n}
  <2>1. Cardinality(all) = 1 <=> \E x : all = {x}
    BY <1>10, FS_Singleton
  <2>2. (\E x : all = {x}) <=> calls \subseteq {n}
    BY <1>8
  <2> QED
    BY <2>1, <2>2
<1>13. CASE doubted /\ Cardinality(all) > 1
  <2>1. k = AmbiguousClaim(e, "marker", {n} \cup calls)
    BY <1>8, <1>9, <1>13
  <2>2. ~(calls \subseteq {n})
    BY <1>10, <1>12, <1>13
  <2> QED
    BY <2>1, <2>2 DEF k, calls
<1>14. CASE doubted /\ Cardinality(all) = 1
  <2>1. k = Claim(e, n, "marker", PROBABLE, {})
    BY <1>9, <1>14
  <2> QED
    BY <1>12, <1>14, <2>1 DEF k, calls
<1>15. CASE ~doubted
  <2>1. k = Claim(e, n, "marker", MarkerConf(group), {})
    BY <1>5, <1>9, <1>15
  <2> QED
    BY <1>6, <1>15, <2>1 DEF k
<1> QED
  BY <1>10, <1>11, <1>13, <1>14, <1>15

LEMMA MarkersLeaveTheCall ==
  ASSUME IInv, NEW e, NEW c \in ExternalCalls(e),
         NEW group, group # {}, NEW n, OwnersOf(group) = {n}
  PROVE  LeavesTheCall(MarkerClaim(e, group), c, ExternalCalls(e))
<1> DEFINE k     == MarkerClaim(e, group)
           S     == ExternalCalls(e)
           calls == {CallNode(x) : x \in S}
<1>1. S \in SUBSET Nat /\ IsFiniteSet(S) /\ c \in S
  BY ExternalCallsFinite
<1>2. \/ k = AmbiguousClaim(e, "marker", {n} \cup calls)
      \/ k = Claim(e, n, "marker", PROBABLE, {}) /\ calls \subseteq {n}
      \/ k = Claim(e, n, "marker", MarkerConf(group), {}) /\ ~Contradicts(n, S)
  BY MarkerCases
<1> HIDE DEF k, S
<1>3. CASE k = AmbiguousClaim(e, "marker", {n} \cup calls)
  <2>1. LET x == AmbiguousClaim(e, "marker", {n} \cup calls)
        IN  c \in CallsAmong(x) \/ MaxCandidates <= Cardinality(S)
    BY <1>1, EachCallIsKept
  <2>2. AmbiguousClaim(e, "marker", {n} \cup calls).conf = AMBIGUOUS
    BY KeptAreCandidates
  <2> HIDE DEF calls
  <2> QED
    BY <1>3, <2>1, <2>2 DEF LeavesTheCall, k, S
<1>4. CASE k = Claim(e, n, "marker", PROBABLE, {}) /\ calls \subseteq {n}
  <2>1. n = CallNode(c)
    BY <1>1, <1>4
  <2>2. CallsOfOwner(n) = {c}
    BY <2>1 DEF CallsOfOwner, CallNode
  <2>3. CallsAmong(k) = CallsOfOwner(n) /\ k.conf # AMBIGUOUS
    BY <1>4, PlainClaim DEF PROBABLE, AMBIGUOUS
  <2>4. CallsAmong(k) \cap S # {}
    BY <1>1, <2>2, <2>3
  <2> QED
    BY <2>3, <2>4 DEF LeavesTheCall, k, S
<1>5. CASE k = Claim(e, n, "marker", MarkerConf(group), {}) /\ ~Contradicts(n, S)
  <2>1. CallsAmong(k) = CallsOfOwner(n) /\ k.conf # AMBIGUOUS
    BY <1>5, PlainClaim, MarkerConfIs DEF PROBABLE, CERTAIN, AMBIGUOUS
  <2>2. CallsOfOwner(n) = {} \/ CallsOfOwner(n) \cap S # {}
    BY <1>1, <1>5 DEF Contradicts
  <2> QED
    BY <2>1, <2>2 DEF LeavesTheCall, k, S
<1> QED
  BY <1>2, <1>3, <1>4, <1>5

LEMMA WrongCallDoubted == IInv => WrongCallIsDoubted
<1> SUFFICES ASSUME IInv, NEW e \in Effects, NEW w \in FirstWrites(e), Silent(e),
                    w.cause \in ExternalCalls(e), NEW k \in EffectClaims(e)
             PROVE  /\ Cardinality(OwnersOf(Segment(e.proc, TimeOf(e)))) > 1 => k.conf = AMBIGUOUS
                    /\ ~(Cardinality(OwnersOf(Segment(e.proc, TimeOf(e)))) > 1) =>
                         LeavesTheCall(k, w.cause, ExternalCalls(e))
  BY DEF WrongCallIsDoubted, LeavesTheCall
<1> DEFINE group == Segment(e.proc, TimeOf(e))
<1>1. {x \in decls : e \in Correlated(x)} = {}
  BY DEF Correlated, Silent
<1>2. k \in IF group # {} THEN {MarkerClaim(e, group)} ELSE WindowClaims(e)
  BY <1>1 DEF EffectClaims
<1>3. group \in SUBSET decls
  BY DEF Segment
<1>4. CASE group # {}
  <2>1. k = MarkerClaim(e, group)
    BY <1>2, <1>4
  <2> HIDE DEF group
  <2>2. CASE Cardinality(OwnersOf(group)) > 1
    <3>1. k.conf = AMBIGUOUS
      BY <2>1, <2>2, MarkerOfMany, KeptAreCandidates
    <3> QED
      BY <2>2, <3>1 DEF group
  <2>3. CASE Cardinality(OwnersOf(group)) = 1 /\ \E n : OwnersOf(group) = {n}
    <3>1. LeavesTheCall(k, w.cause, ExternalCalls(e))
      BY <1>4, <2>1, <2>3, MarkersLeaveTheCall
    <3> QED
      BY <2>3, <3>1 DEF group
  <2> QED
    BY <1>3, <1>4, <2>2, <2>3, OneOrManyOwners
<1>5. CASE group = {}
  <2>1. OwnersOf(group) = {}
    BY <1>5 DEF OwnersOf
  <2>2. Cardinality(OwnersOf(group)) = 0
    BY <2>1, FS_EmptySet
  <2>3. k \in WindowClaims(e)
    BY <1>2, <1>5
  <2> HIDE DEF group
  <2>4. LeavesTheCall(k, w.cause, ExternalCalls(e))
    BY <2>3, WindowsLeaveTheCall
  <2> QED
    BY <2>2, <2>4 DEF group
<1> QED
  BY <1>4, <1>5

(* A declaration that names the wrong call is doubted: whatever is         *)
(* declared, by however many tools at a time, the true call of an effect,  *)
(* when the windows allow it, stays among the candidates of an ambiguous   *)
(* claim that they fit into, and a claim of one owner is of no call that   *)
(* the windows rule out.                                                   *)
THEOREM WrongMarkersAreDoubted == Spec => []WrongCallIsDoubted
  BY AlwaysIInv, WrongCallDoubted, PTL

-----------------------------------------------------------------------------
LEMMA TrueCallKept == IInv => TrueCallIsCandidate
<1> SUFFICES ASSUME IInv, NEW e \in Effects, NEW w \in FirstWrites(e), decls = {},
                    NEW t \in traffic, t.conn = ConnOf[w.cause], t.proc = e.proc,
                    t.at <= TimeOf(e) + Window, TimeOf(e) <= t.at + Window
             PROVE  LET c == w.cause
                        before == {CallNode(x) : x \in {y \in ExternalCalls(e) : y < c}}
                    IN  \E k \in EffectClaims(e) :
                          /\ c \in CallsAmong(k) \/ MaxCandidates <= Cardinality(before)
                          /\ k.conf = PROBABLE => CallsAmong(k) = {c}
  BY DEF TrueCallIsCandidate
<1> DEFINE c == w.cause
           S == ExternalCalls(e)
           calls == {CallNode(x) : x \in S}
           before == {CallNode(x) : x \in {y \in S : y < c}}
<1>1. c \in S
  BY SeenCallIsExternal
<1>2. EffectClaims(e) = WindowClaims(e)
  BY DEF EffectClaims, Segment
<1>3. S \in SUBSET Nat /\ IsFiniteSet(S) /\ IsFiniteSet(calls)
  BY ExternalCallsFinite, CallNodesFinite
<1>4. WindowClaims(e) = IF Cardinality(calls) < 2
                        THEN {Claim(e, n, "window", PROBABLE, {}) : n \in calls}
                        ELSE {AmbiguousClaim(e, "window", calls)}
  BY DEF WindowClaims
<1> HIDE DEF c, S
<1>5. CallsOfOwner(CallNode(c)) = {c}
  BY DEF CallsOfOwner, CallNode
<1>6. CASE Cardinality(calls) < 2
  <2> DEFINE k == Claim(e, CallNode(c), "window", PROBABLE, {})
  <2>1. k \in EffectClaims(e)
    BY <1>1, <1>2, <1>4, <1>6
  <2>2. CallsAmong(k) = {c}
    BY <1>5, PlainClaim
  <2> HIDE DEF k
  <2> QED
    BY <2>1, <2>2 DEF c
<1>7. CASE ~(Cardinality(calls) < 2)
  <2> DEFINE k == AmbiguousClaim(e, "window", calls)
             below == {y \in calls : Rank(y) < Rank(CallNode(c))}
  <2>1. k \in EffectClaims(e)
    BY <1>2, <1>4, <1>7
  <2>2. k.conf # PROBABLE
    BY KeptAreCandidates DEF AMBIGUOUS, PROBABLE
  <2>3. below = before
    <3>1. \A x : Rank(CallNode(x)) = x
      BY DEF Rank, CallNode
    <3> QED
      BY <3>1
  <2>4. Cardinality(below) \in Nat /\ MaxCandidates \in Nat
    BY <1>3, CallAssumption, FS_Subset, FS_CardinalityType
  <2>5. CallNode(c) \in calls
    BY <1>1
  <2> HIDE DEF k, calls, before
  <2>6. CASE Cardinality(below) < MaxCandidates
    <3>1. CallNode(c) \in FirstOf(calls, MaxCandidates, Rank)
      BY <2>5, <2>6 DEF FirstOf
    <3>2. CallNode(c) \in Candidates(k)
      BY <3>1, KeptAreCandidates DEF k
    <3>3. c \in CallsAmong(k)
      BY <1>5, <3>2 DEF CallsAmong
    <3> QED
      BY <2>1, <2>2, <3>3 DEF c
  <2>7. CASE MaxCandidates <= Cardinality(below)
    BY <2>1, <2>2, <2>3, <2>7 DEF c, S, before
  <2>8. Cardinality(below) < MaxCandidates \/ MaxCandidates <= Cardinality(below)
    <3> HIDE DEF below
    <3> QED
      BY <2>4
  <2> QED
    BY <2>6, <2>7, <2>8, Zenon
<1> QED
  BY <1>6, <1>7

(* In the external mode the call behind an effect is a candidate for it    *)
(* whenever traffic of that call was captured within the window, unless    *)
(* the calls before it fill the list of candidates, and the effect is      *)
(* given to one call only if that is the one.                              *)
THEOREM TrueCallIsKept == Spec => []TrueCallIsCandidate
  BY AlwaysIInv, TrueCallKept, PTL

-----------------------------------------------------------------------------
(* What a declaration says.                                                *)
LEMMA DeclaredFacts ==
  ASSUME IInv, NEW d \in decls
  PROVE  /\ d.cause \in sent /\ d.cause \in Calls /\ d.cause \in Nat \ {0}
         /\ ProcOf[d.cause] \in Procs /\ d.at \in Nat /\ OfItsProcess(d)
<1>1. d.cause \in started /\ d.at \in 1..now
  BY DEF IInv, DeclInv, Declarations
<1>2. d.cause \in sent /\ d.cause \in Calls
  BY <1>1 DEF IInv, TypeOK
<1>3. d.at \in Nat
  BY <1>1
<1>4. d.cause \in Nat \ {0} /\ ProcOf[d.cause] \in Procs
  BY <1>2, CallAssumption
<1> QED
  BY <1>2, <1>3, <1>4 DEF IInv, DeclInv

LEMMA NodesFinite ==
  ASSUME IInv
  PROVE  Nodes \subseteq Procs /\ IsFiniteSet(Nodes)
<1> DEFINE all == traffic \cup writes
           f   == [e \in all |-> e.proc]
<1>1. Nodes \subseteq Procs
  BY DEF Nodes, IInv, Traffics, WriteInv, WritesOf
<1>2. IsFiniteSet(all)
  BY FS_Union DEF IInv
<1>3. f \in Surjection(all, Nodes)
  BY DEF Surjection, Nodes
<1> HIDE DEF all, f
<1> QED
  BY <1>1, <1>2, <1>3, FS_Surjection

(* A process that a declaration means is the right one, or has the number  *)
(* that the declaration gives.                                             *)
LEMMA TargetsOfProcesses ==
  ASSUME IInv, NEW d \in decls, NEW p \in ProcessTargets(d)
  PROVE  /\ p \in Procs
         /\ \/ p = ProcOf[d.cause] /\ d.start # None
            \/ d.pid = PidOf[p] /\ d.pid # None
<1>1. p \in Procs
  BY NodesFinite DEF ProcessTargets, PidCandidates, ExactCandidates
<1>2. p # None
  BY <1>1, CallAssumption DEF None
<1>3. d.start \in {None, ProcOf[d.cause]}
  BY DeclaredFacts DEF OfItsProcess
<1> QED
  BY <1>1, <1>2, <1>3 DEF ProcessTargets, PidCandidates, ExactCandidates

LEMMA TrueCallIsATarget ==
  ASSUME IInv, NEW d \in decls, Truthful(d), CallTargets(d) # {}
  PROVE  d.cause \in CallTargets(d)
<1>1. d.cause \in sent
  BY DeclaredFacts
<1>2. CASE d.call = None
  <2>1. CallTargets(d) = CallsOnConn(d)
    BY <1>2 DEF CallTargets
  <2>2. d.conn # None
    BY <2>1 DEF CallsOnConn
  <2>3. d.conn = ConnOf[d.cause]
    BY <2>2 DEF Truthful
  <2> QED
    BY <1>1, <2>1, <2>2, <2>3 DEF CallsOnConn
<1>3. CASE d.call # None
  <2>1. d.call \in Names(d.cause)
    BY <1>3 DEF Truthful
  <2>2. d.cause \in CallsNamed(d)
    BY <1>1, <1>3, <2>1 DEF CallsNamed
  <2>3. CallsOnConn(d) = {} \/ d.cause \in CallsOnConn(d)
    BY <1>1 DEF Truthful, CallsOnConn
  <2> QED
    BY <1>3, <2>2, <2>3 DEF CallTargets
<1> QED
  BY <1>2, <1>3

(* What a certain declaration says of its process was found.               *)
LEMMA CertainIsVerified ==
  ASSUME NEW d, Worth(d) = CERTAIN
  PROVE  /\ d.pid # None => PidCandidates(d) # {}
         /\ d.start # None => ExactCandidates(d) # {}
<1>1. Checks(d) = {"verified"}
  BY WorthCases
<1>2. d.pid # None => VerifiedOr("conflict", PidCandidates(d) # {}) \in Checks(d)
  BY DEF Checks
<1>3. d.start # None => VerifiedOr("conflict", ExactCandidates(d) # {}) \in Checks(d)
  BY DEF Checks
<1> QED
  BY <1>1, <1>2, <1>3 DEF VerifiedOr

(* When the start time was declared, the right process is meant.           *)
LEMMA ExactIsRight ==
  ASSUME IInv, NEW d \in decls, Worth(d) = CERTAIN, d.start # None
  PROVE  ProcOf[d.cause] \in ProcessTargets(d)
<1>1. PICK p \in ExactCandidates(d) : TRUE
  BY CertainIsVerified
<1>2. p = d.start
  BY <1>1 DEF ExactCandidates
<1>3. d.start = ProcOf[d.cause]
  BY DeclaredFacts DEF OfItsProcess
<1> QED
  BY <1>1, <1>2, <1>3 DEF ProcessTargets

(* A certain claim of several targets has only one of them.                *)
LEMMA CertainIsSingle ==
  ASSUME NEW n, NEW targets, NEW basis, NEW conf,
         NEW k \in MultiTarget(n, targets, basis, conf), k.conf = CERTAIN
  PROVE  /\ k.src = n /\ k.dst \in targets \ {n} /\ conf = CERTAIN
         /\ Cardinality(targets \ {n}) < 2
<1> DEFINE rest == targets \ {n}
<1>1. MultiTarget(n, targets, basis, conf)
        = IF Cardinality(rest) < 2 THEN {Claim(n, t, basis, conf, {}) : t \in rest}
          ELSE {AmbiguousClaim(n, basis, rest)}
  BY DEF MultiTarget
<1> HIDE DEF rest
<1>2. AmbiguousClaim(n, basis, rest).conf # CERTAIN
  BY KeptAreCandidates DEF AMBIGUOUS, CERTAIN
<1>3. Cardinality(rest) < 2
  BY <1>1, <1>2
<1>4. PICK t \in rest : k = Claim(n, t, basis, conf, {})
  BY <1>1, <1>3
<1>5. k.src = n /\ k.dst = t /\ k.conf = conf
  BY <1>4, PlainClaim
<1> QED
  BY <1>3, <1>4, <1>5 DEF rest

(* The process that a declaration makes certain.                           *)
LEMMA ProcessIsTrue ==
  ASSUME IInv, NEW d \in decls, NEW n, NEW basis, n.kind # "process",
         NEW k \in MultiTarget(n, {ProcessNode(p) : p \in ProcessTargets(d)}, basis, Bounded(d)),
         k.conf = CERTAIN
  PROVE  /\ k.src = n
         /\ \/ k.dst = ProcessNode(ProcOf[d.cause])
            \/ \E p \in Procs : k.dst = ProcessNode(p) /\ PassesFor(p, d)
<1> DEFINE processes == {ProcessNode(p) : p \in ProcessTargets(d)}
           f == [p \in ProcessTargets(d) |-> ProcessNode(p)]
<1>1. IsFiniteSet(processes)
  <2>1. ProcessTargets(d) \subseteq Nodes
    BY DEF ProcessTargets, PidCandidates, ExactCandidates
  <2>2. IsFiniteSet(ProcessTargets(d))
    BY <2>1, NodesFinite, FS_Subset
  <2>3. f \in Surjection(ProcessTargets(d), processes)
    BY DEF Surjection
  <2> HIDE DEF f, processes
  <2> QED
    BY <2>2, <2>3, FS_Surjection
<1>2. n \notin processes
  BY DEF ProcessNode
<1>3. processes \ {n} = processes
  BY <1>2
<1> HIDE DEF processes
<1>4. /\ k.src = n /\ k.dst \in processes /\ Bounded(d) = CERTAIN
      /\ Cardinality(processes) < 2
  BY <1>3, CertainIsSingle DEF processes
<1>5. \A x, y \in processes : x = y
  BY <1>1, <1>4, FewAreOne
<1>6. Worth(d) = CERTAIN
  BY <1>4, WorthCases
<1>7. PICK p \in ProcessTargets(d) : k.dst = ProcessNode(p)
  BY <1>4 DEF processes
<1>8. CASE d.start # None
  <2>1. ProcessNode(ProcOf[d.cause]) \in processes
    BY <1>6, <1>8, ExactIsRight DEF processes
  <2> QED
    BY <1>4, <1>5, <2>1
<1>9. CASE d.start = None
  <2>1. p \in Procs /\ d.pid = PidOf[p]
    BY <1>9, TargetsOfProcesses
  <2> QED
    BY <1>4, <1>7, <1>9, <2>1 DEF PassesFor
<1> QED
  BY <1>8, <1>9

LEMMA DeclaredTrue == IInv => DeclaredIsTrue
<1> SUFFICES ASSUME IInv,
                    NEW d \in decls, Truthful(d), d.tool # None \/ Cardinality(CallTargets(d)) = 1,
                    NEW k \in DeclarationClaims(d), k.conf = CERTAIN
             PROVE  /\ k.src \in {ToolNode(d), CallNode(d.cause)}
                    /\ \/ k.dst \in {CallNode(d.cause), TaskNode, ProcessNode(ProcOf[d.cause])}
                       \/ \E p \in Procs : k.dst = ProcessNode(p) /\ PassesFor(p, d)
  BY DEF DeclaredIsTrue
<1> DEFINE calls     == {CallNode(c) : c \in CallTargets(d)}
           processes == {ProcessNode(p) : p \in ProcessTargets(d)}
           conf      == Bounded(d)
<1>1. IsFiniteSet(calls)
  BY CallTargetsFinite, CallNodesFinite
<1>2. calls # {} => CallNode(d.cause) \in calls
  BY TrueCallIsATarget
<1>3. CASE d.tool # None
  <2> DEFINE n == ToolNode(d)
  <2>1. k \in MultiTarget(n, calls, "call_id", conf) \cup MultiTarget(n, processes, "tool_id", conf)
                \cup MultiTarget(n, {TaskNode}, "run_id", conf)
    BY <1>3 DEF DeclarationClaims
  <2>2. n \notin calls /\ n.kind # "process"
    BY DEF ToolNode, CallNode
  <2>3. CASE k \in MultiTarget(n, processes, "tool_id", conf)
    BY <2>2, <2>3, ProcessIsTrue
  <2> HIDE DEF n, calls, processes, conf
  <2>4. CASE k \in MultiTarget(n, calls, "call_id", conf)
    <3>1. k.src = n /\ k.dst \in calls /\ Cardinality(calls \ {n}) < 2
      BY <2>4, CertainIsSingle
    <3>2. calls \ {n} = calls
      BY <2>2
    <3>3. \A x, y \in calls : x = y
      BY <1>1, <3>1, <3>2, FewAreOne
    <3>4. k.dst = CallNode(d.cause)
      BY <1>2, <3>1, <3>3
    <3> QED
      BY <3>1, <3>4 DEF n
  <2>5. CASE k \in MultiTarget(n, {TaskNode}, "run_id", conf)
    <3>1. k.src = n /\ k.dst \in {TaskNode}
      BY <2>5, CertainIsSingle
    <3> QED
      BY <3>1 DEF n
  <2> QED
    BY <2>1, <2>3, <2>4, <2>5
<1>4. CASE d.tool = None
  <2>1. CallTargets(d) = {d.cause}
    <3>1. \E c : CallTargets(d) = {c}
      BY <1>4, CallTargetsFinite, FS_Singleton
    <3> QED
      BY <3>1, TrueCallIsATarget
  <2>2. calls = {CallNode(d.cause)}
    BY <2>1
  <2> DEFINE n == First(calls)
  <2>3. n = CallNode(d.cause)
    <3>1. Rank(CallNode(d.cause)) = d.cause
      BY DEF Rank, CallNode
    <3>2. d.cause <= d.cause
      BY DeclaredFacts
    <3> QED
      BY <2>2, <3>1, <3>2 DEF First
  <2>4. k \in MultiTarget(n, processes, "call_id", conf) \cup MultiTarget(n, {TaskNode}, "run_id", conf)
    BY <1>4, <2>2 DEF DeclarationClaims
  <2>5. n.kind # "process"
    BY <2>3 DEF CallNode
  <2> HIDE DEF n
  <2>6. CASE k \in MultiTarget(n, processes, "call_id", conf)
    BY <2>3, <2>5, <2>6, ProcessIsTrue
  <2> HIDE DEF calls, processes, conf
  <2>7. CASE k \in MultiTarget(n, {TaskNode}, "run_id", conf)
    <3>1. k.src = n /\ k.dst \in {TaskNode}
      BY <2>7, CertainIsSingle
    <3> QED
      BY <2>3, <3>1
  <2> QED
    BY <2>4, <2>6, <2>7
<1> QED
  BY <1>3, <1>4

-----------------------------------------------------------------------------
(* The graph accepts the claims: of several candidates, two are kept.      *)
LEMMA TwoAreKept ==
  ASSUME NEW nodes, \A n \in nodes : Rank(n) \in Nat,
         NEW x \in nodes, NEW y \in nodes, x # y
  PROVE  LET kept == FirstOf(nodes, MaxCandidates, Rank)
         IN  First(kept) \in nodes /\ kept \ {First(kept)} # {}
<1> DEFINE kept == FirstOf(nodes, MaxCandidates, Rank)
<1>1. ASSUME NEW S \in SUBSET nodes, S # {}
      PROVE  \E b \in S : \A m \in S : Rank(b) <= Rank(m)
  <2> DEFINE ranks == {Rank(m) : m \in S}
  <2>1. ranks \in SUBSET Nat /\ ranks # {}
    BY <1>1
  <2>2. PICK r \in ranks : \A q \in ranks : r <= q
    BY <2>1, Least
  <2>3. PICK b \in S : Rank(b) = r
    OBVIOUS
  <2> QED
    BY <2>2, <2>3
<1>2. PICK a \in nodes : \A m \in nodes : Rank(a) <= Rank(m)
  BY <1>1
<1>3. nodes \ {a} # {}
  OBVIOUS
<1>4. PICK b \in nodes \ {a} : \A m \in nodes \ {a} : Rank(b) <= Rank(m)
  BY <1>1, <1>3
<1>5. {m \in nodes : Rank(m) < Rank(a)} \subseteq {a}
  BY <1>2
<1>6. {m \in nodes : Rank(m) < Rank(b)} \subseteq {a}
  BY <1>4
<1>7. a \in kept /\ b \in kept
  BY <1>4, <1>5, <1>6, SecondIsKept
<1>8. kept \subseteq nodes
  BY DEF FirstOf
<1> HIDE DEF kept
<1>9. \E n \in kept : \A m \in kept : Rank(n) <= Rank(m)
  BY <1>1, <1>7, <1>8
<1>10. First(kept) \in kept
  BY <1>9 DEF First
<1>11. a # b
  BY <1>4
<1> QED
  BY <1>7, <1>8, <1>10, <1>11 DEF kept

(* An effect is no node of the other kinds.                                *)
LEMMA EffectsAreNoNodes ==
  ASSUME NEW e \in Effects, NEW kind, NEW id
  PROVE  e # [kind |-> kind, id |-> id]
<1>1. DOMAIN e = {"path", "proc"}
  BY DEF Effects
<1>2. DOMAIN [kind |-> kind, id |-> id] = {"kind", "id"}
  OBVIOUS
<1> QED
  BY <1>1, <1>2

LEMMA DoubtIsAcceptable ==
  ASSUME NEW e \in Effects, NEW basis, NEW nodes, \A n \in nodes : Rank(n) \in Nat,
         \A n \in nodes : e # n, NEW x \in nodes, NEW y \in nodes, x # y
  PROVE  Acceptable(AmbiguousClaim(e, basis, nodes))
<1> DEFINE kept == FirstOf(nodes, MaxCandidates, Rank)
           k == AmbiguousClaim(e, basis, nodes)
<1>1. First(kept) \in nodes /\ kept \ {First(kept)} # {}
  BY TwoAreKept
<1>2. k.src = e /\ k.dst = First(kept) /\ k.others = kept \ {k.dst}
  BY KeptAreCandidates
<1> HIDE DEF kept, k
<1>3. Acceptable(k)
  BY <1>1, <1>2 DEF Acceptable
<1> QED
  BY <1>3 DEF k

LEMMA NodesAreRanked ==
  ASSUME IInv
  PROVE  /\ \A d \in decls : Rank(ToolNode(d)) \in Nat
         /\ \A c \in sent : Rank(CallNode(c)) \in Nat
         /\ Rank(TaskNode) \in Nat
<1>1. ASSUME NEW d \in decls PROVE Rank(ToolNode(d)) \in Nat
  <2> DEFINE a == d.cause
             b == d.at
  <2>1. a \in Nat /\ b \in Nat /\ MaxTime \in Nat
    BY DeclaredFacts, CallAssumption
  <2>2. Rank(ToolNode(d)) = 10 + a * (MaxTime + 1) + b
    BY DEF Rank, ToolNode
  <2> HIDE DEF a, b
  <2>3. a * (MaxTime + 1) \in Nat
    BY <2>1
  <2> QED
    BY <2>1, <2>2, <2>3
<1>2. ASSUME NEW c \in sent PROVE Rank(CallNode(c)) \in Nat
  <2>1. c \in Nat
    BY CallAssumption DEF IInv, TypeOK
  <2> QED
    BY <2>1 DEF Rank, CallNode
<1>3. Rank(TaskNode) \in Nat
  BY DEF Rank, TaskNode
<1> QED
  BY <1>1, <1>2, <1>3

(* The owner that a declaration gives an effect.                           *)
LEMMA OwnerKinds ==
  ASSUME IInv, NEW d \in decls, NEW n, Owners(d) = {n}
  PROVE  /\ \/ n = ToolNode(d) /\ d.tool # None
            \/ \E c \in sent : n = CallNode(c)
            \/ n = TaskNode
         /\ Rank(n) \in Nat
<1>1. \/ n = ToolNode(d) /\ d.tool # None
      \/ \E c \in sent : n = CallNode(c)
      \/ n = TaskNode
  <2>1. CASE d.tool # None
    BY <2>1 DEF Owners
  <2>2. CASE d.tool = None /\ Cardinality(CallTargets(d)) = 1
    <3>1. {n} = {CallNode(c) : c \in CallTargets(d)}
      BY <2>2 DEF Owners
    <3>2. \E c \in CallTargets(d) : n = CallNode(c)
      BY <3>1
    <3> QED
      BY <3>2, CallTargetsFinite
  <2>3. CASE d.tool = None /\ Cardinality(CallTargets(d)) # 1
    BY <2>3 DEF Owners
  <2> QED
    BY <2>1, <2>2, <2>3
<1> QED
  BY <1>1, NodesAreRanked

LEMMA PlainIsAcceptable ==
  ASSUME NEW e \in Effects, NEW n, e # n, NEW basis, NEW conf, conf # AMBIGUOUS
  PROVE  Acceptable(Claim(e, n, basis, conf, {}))
  BY PlainClaim DEF Acceptable

LEMMA NodeIsNoEffect ==
  ASSUME IInv, NEW e \in Effects, NEW d \in decls, NEW n, Owners(d) = {n}
  PROVE  e # n
  BY OwnerKinds, EffectsAreNoNodes DEF ToolNode, CallNode, TaskNode

LEMMA WindowsAreAcceptable ==
  ASSUME IInv, NEW e \in Effects, NEW k \in WindowClaims(e)
  PROVE  Acceptable(k) /\ k.conf # CERTAIN
<1> DEFINE calls == {CallNode(c) : c \in ExternalCalls(e)}
<1>1. IsFiniteSet(calls)
  BY ExternalCallsFinite, CallNodesFinite
<1>2. \A n \in calls : e # n /\ Rank(n) \in Nat
  BY ExternalCallsFinite, NodesAreRanked, EffectsAreNoNodes DEF CallNode
<1>3. k \in IF Cardinality(calls) < 2
            THEN {Claim(e, n, "window", PROBABLE, {}) : n \in calls}
            ELSE {AmbiguousClaim(e, "window", calls)}
  BY DEF WindowClaims
<1> HIDE DEF calls
<1>4. CASE Cardinality(calls) < 2
  <2>1. PICK n \in calls : k = Claim(e, n, "window", PROBABLE, {})
    BY <1>3, <1>4
  <2>2. PROBABLE # AMBIGUOUS /\ PROBABLE # CERTAIN
    BY DEF PROBABLE, AMBIGUOUS, CERTAIN
  <2> QED
    BY <1>2, <2>1, <2>2, PlainClaim, PlainIsAcceptable
<1>5. CASE ~(Cardinality(calls) < 2)
  <2>1. PICK x \in calls, y \in calls : x # y
    BY <1>1, <1>5, FewAreOne
  <2>2. k = AmbiguousClaim(e, "window", calls)
    BY <1>3, <1>5
  <2>3. Acceptable(AmbiguousClaim(e, "window", calls))
    BY <1>2, <2>1, DoubtIsAcceptable
  <2>4. k.conf = AMBIGUOUS
    BY <2>2, KeptAreCandidates
  <2> QED
    BY <2>2, <2>3, <2>4 DEF AMBIGUOUS, CERTAIN
<1> QED
  BY <1>4, <1>5

(* A marker is certain of an owner only when all declarations of the       *)
(* segment are, and mean that one.                                         *)
LEMMA MarkersAreAcceptable ==
  ASSUME IInv, NEW e \in Effects, NEW group \in SUBSET decls, group # {}
  PROVE  LET k == MarkerClaim(e, group)
         IN  /\ Acceptable(k)
             /\ k.conf = CERTAIN =>
                  OwnersOf(group) = {k.dst} /\ \A d \in group : Worth(d) = CERTAIN
<1> DEFINE k     == MarkerClaim(e, group)
           ext   == ExternalCalls(e)
           calls == {CallNode(c) : c \in ext}
           owners == OwnersOf(group)
<1>1. \A m \in owners : e # m /\ Rank(m) \in Nat
  <2> SUFFICES ASSUME NEW m \in owners PROVE e # m /\ Rank(m) \in Nat
    OBVIOUS
  <2>1. PICK d \in group : m \in Owners(d)
    BY DEF OwnersOf
  <2>2. Owners(d) = {m}
    BY <2>1, OneOwner
  <2> QED
    BY <2>2, NodeIsNoEffect, OwnerKinds
<1>2. \A m \in calls : e # m /\ Rank(m) \in Nat
  <2>1. \A m \in calls : e # m
    BY EffectsAreNoNodes DEF CallNode
  <2>2. \A m \in calls : Rank(m) \in Nat
    BY ExternalCallsFinite, NodesAreRanked
  <2> QED
    BY <2>1, <2>2
<1>3. CASE Cardinality(owners) > 1
  <2> HIDE DEF owners
  <2>1. IsFiniteSet(owners)
    BY OwnersFinite DEF owners
  <2>2. PICK x \in owners, y \in owners : x # y
    <3>1. ~(Cardinality(owners) < 2)
      BY <1>3, <2>1, FS_CardinalityType
    <3> QED
      BY <2>1, <3>1, FewAreOne
  <2>3. k = AmbiguousClaim(e, "marker", owners)
    BY <1>3, MarkerOfMany DEF owners
  <2>4. Acceptable(AmbiguousClaim(e, "marker", owners))
    BY <1>1, <2>2, DoubtIsAcceptable
  <2>5. AmbiguousClaim(e, "marker", owners).conf # CERTAIN
    BY KeptAreCandidates DEF AMBIGUOUS, CERTAIN
  <2> HIDE DEF k
  <2>6. Acceptable(k) /\ k.conf # CERTAIN
    BY <2>3, <2>4, <2>5
  <2> QED
    BY <2>6 DEF k
<1>4. ASSUME NEW n, owners = {n}
      PROVE  /\ Acceptable(k)
             /\ k.conf = CERTAIN => n = k.dst /\ \A d \in group : Worth(d) = CERTAIN
  <2>1. \A m \in {n} \cup calls : e # m /\ Rank(m) \in Nat
    BY <1>1, <1>2, <1>4
  <2>2. \/ k = AmbiguousClaim(e, "marker", {n} \cup calls) /\ ~(calls \subseteq {n})
        \/ k = Claim(e, n, "marker", PROBABLE, {})
        \/ k = Claim(e, n, "marker", MarkerConf(group), {})
    BY <1>4, MarkerCases
  <2> HIDE DEF k, ext, calls, owners
  <2>3. CASE k = AmbiguousClaim(e, "marker", {n} \cup calls) /\ ~(calls \subseteq {n})
    <3> DEFINE nodes == {n} \cup calls
    <3>1. PICK x \in nodes : x # n
      BY <2>3
    <3>2. n \in nodes /\ k = AmbiguousClaim(e, "marker", nodes)
      BY <2>3
    <3>3. \A m \in nodes : e # m /\ Rank(m) \in Nat
      BY <2>1
    <3> HIDE DEF nodes
    <3>4. Acceptable(k)
      BY <3>1, <3>2, <3>3, DoubtIsAcceptable
    <3>5. k.conf # CERTAIN
      BY <3>2, KeptAreCandidates DEF AMBIGUOUS, CERTAIN
    <3> QED
      BY <3>4, <3>5
  <2>4. CASE k = Claim(e, n, "marker", PROBABLE, {})
    <3>1. PROBABLE # AMBIGUOUS /\ PROBABLE # CERTAIN
      BY DEF PROBABLE, AMBIGUOUS, CERTAIN
    <3> QED
      BY <2>1, <2>4, <3>1, PlainClaim, PlainIsAcceptable
  <2>5. CASE k = Claim(e, n, "marker", MarkerConf(group), {})
    <3>1. MarkerConf(group) # AMBIGUOUS
      BY MarkerConfIs DEF PROBABLE, AMBIGUOUS, CERTAIN
    <3>2. k.dst = n /\ k.conf = MarkerConf(group)
      BY <2>5, PlainClaim
    <3>3. Acceptable(k)
      BY <2>1, <2>5, <3>1, PlainIsAcceptable
    <3> QED
      BY <3>2, <3>3, MarkerConfIs
  <2> QED
    BY <2>2, <2>3, <2>4, <2>5
<1> HIDE DEF k
<1> QED
  BY <1>3, <1>4, OneOrManyOwners DEF owners, k

(* An owner that is no task tells whose tool was declared.                 *)
LEMMA OwnerTellsTheCause ==
  ASSUME IInv, NEW d \in decls, Truthful(d), NEW n, n # TaskNode, Owners(d) = {n}
  PROVE  \/ n = ToolNode(d)
         \/ n = CallNode(d.cause)
<1>1. CASE d.tool # None
  BY <1>1 DEF Owners
<1>2. CASE d.tool = None /\ Cardinality(CallTargets(d)) = 1
  <2>1. PICK c : CallTargets(d) = {c}
    BY <1>2, CallTargetsFinite, FS_Singleton
  <2>2. c = d.cause
    BY <2>1, TrueCallIsATarget
  <2> QED
    BY <1>2, <2>1, <2>2 DEF Owners
<1>3. CASE d.tool = None /\ Cardinality(CallTargets(d)) # 1
  BY <1>3 DEF Owners
<1> QED
  BY <1>1, <1>2, <1>3

(* The tool that wrote first, if it was declared in the engine's sight, is *)
(* of the segment.                                                         *)
LEMMA WriterIsOfTheSegment ==
  ASSUME IInv, NEW e \in Effects, NEW w \in FirstWrites(e),
         NEW d \in Segment(e.proc, TimeOf(e)), Worth(d) = CERTAIN,
         NEW x \in decls, x.cause = w.cause, x.clock = "monotonic",
         x.pid # None \/ x.start # None, ~(x.at < d.at)
  PROVE  x \in Segment(e.proc, TimeOf(e))
<1>1. w \in writes /\ e.proc = ProcOf[x.cause] /\ e.proc \in Nodes /\ w.at = TimeOf(e)
  BY FirstWritesAreEvents, WriterFacts
<1>2. x.at <= TimeOf(e)
  BY <1>1 DEF IInv, DeclaredFirst
<1>3. e.proc \in Ruled(x)
  <2>1. x.pid \in {None, PidOf[e.proc]} /\ x.start \in {None, e.proc}
    BY <1>1, DeclaredFacts DEF OfItsProcess
  <2>2. CASE x.pid # None
    BY <1>1, <2>1, <2>2 DEF Ruled, ProcessTargets, PidCandidates
  <2>3. CASE x.pid = None
    BY <1>1, <2>1, <2>3 DEF Ruled, ProcessTargets, ExactCandidates
  <2> QED
    BY <2>2, <2>3
<1>4. Timed(x) /\ Start(x) = x.at
  BY DEF Timed, Start
<1>5. d \in decls /\ Timed(d) /\ \A y \in decls :
        Timed(y) /\ e.proc \in Ruled(y) /\ Start(y) <= TimeOf(e) => Start(y) <= Start(d)
  BY DEF Segment
<1>6. Start(d) = d.at
  <2>1. ~WallFallback(d)
    BY WorthCases
  <2>2. d.clock = "monotonic"
    BY <1>5, <2>1 DEF Timed, WallFallback
  <2> QED
    BY <2>2 DEF Start
<1>7. x.at <= d.at
  BY <1>2, <1>3, <1>4, <1>5, <1>6
<1>8. x.at = d.at
  <2>1. x.at \in Nat /\ d.at \in Nat
    BY <1>5, DeclaredFacts
  <2> QED
    BY <1>7, <2>1
<1> QED
  BY <1>2, <1>3, <1>4, <1>5, <1>6, <1>8 DEF Segment

(* What is certain of an owner, as CertainMarkerTrue states it.            *)
Justified(e, d) ==
  \/ \E w \in EventsOf(e) : w.cause = d.cause \/ w.corr \in Names(d.cause)
  \/ /\ ProcOf[d.cause] # e.proc
     /\ (d.pid = None /\ d.start = None) \/ d.pid = PidOf[e.proc]
  \/ /\ ProcOf[d.cause] = e.proc
     /\ \A w \in FirstWrites(e) : OutOfSight(w, d)

LEMMA SegmentIsJustified ==
  ASSUME IInv, \A d \in decls : Truthful(d),
         NEW e \in Effects, NEW group, group = Segment(e.proc, TimeOf(e)),
         NEW n, n # TaskNode, OwnersOf(group) = {n}, \A d \in group : Worth(d) = CERTAIN,
         NEW d \in group
  PROVE  Justified(e, d)
<1>0. \A y \in group : Owners(y) = {n}
  <2> SUFFICES ASSUME NEW y \in group PROVE Owners(y) = {n}
    OBVIOUS
  <2> QED
    BY OwnerOfEach
<1>1. d \in decls /\ e.proc \in Ruled(d)
  BY DEF Segment
<1>2. CASE ProcOf[d.cause] # e.proc
  <2>1. CASE ProcessTargets(d) = {}
    <3>1. d.pid = None /\ d.start = None
      BY <2>1, CertainIsVerified DEF ProcessTargets
    <3> QED
      BY <1>2, <3>1 DEF Justified
  <2>2. CASE ProcessTargets(d) # {}
    <3>1. e.proc \in ProcessTargets(d)
      BY <1>1, <2>2 DEF Ruled, AMBIGUOUS, CERTAIN
    <3>2. d.pid = PidOf[e.proc]
      BY <1>1, <1>2, <3>1, TargetsOfProcesses
    <3> QED
      BY <1>2, <3>2 DEF Justified
  <2> QED
    BY <2>1, <2>2
<1>3. CASE ProcOf[d.cause] = e.proc /\ \A w \in FirstWrites(e) : w.cause # d.cause
  <2>1. ASSUME NEW w \in FirstWrites(e), NEW x \in decls, x.cause = w.cause,
               ~(x.clock # "monotonic" \/ (x.pid = None /\ x.start = None) \/ x.at < d.at)
        PROVE  FALSE
    <3>1. x \in group
      BY <2>1, WriterIsOfTheSegment
    <3>2. Owners(x) = {n} /\ Owners(d) = {n}
      BY <1>0, <3>1
    <3>3. \/ n = ToolNode(x) \/ n = CallNode(x.cause)
      BY <3>2, OwnerTellsTheCause
    <3>4. \/ n = ToolNode(d) \/ n = CallNode(d.cause)
      BY <1>1, <3>2, OwnerTellsTheCause
    <3>5. x.cause = d.cause
      BY <3>3, <3>4 DEF ToolNode, CallNode
    <3> QED
      BY <1>3, <2>1, <3>5
  <2>2. \A w \in FirstWrites(e) : OutOfSight(w, d)
    BY <2>1 DEF OutOfSight
  <2> QED
    BY <1>3, <2>2 DEF Justified
<1>4. CASE \E w \in FirstWrites(e) : w.cause = d.cause
  BY <1>4, FirstWritesAreEvents DEF Justified
<1> QED
  BY <1>2, <1>3, <1>4

LEMMA CorrelationIsJustified ==
  ASSUME IInv, NEW e \in Effects, NEW d \in decls, Truthful(d), e \in Correlated(d)
  PROVE  Justified(e, d)
<1>1. PICK w \in EventsOf(e) : w.corr # None /\ w.corr \in {d.call, d.tool}
  BY DEF Correlated
<1>2. CASE w.corr = d.call
  BY <1>1, <1>2 DEF Truthful, Justified
<1>3. CASE w.corr = d.tool
  <2>1. w.corr = ToolOf[d.cause]
    BY <1>1, <1>3, DeclaredFacts DEF OfItsProcess
  <2>2. w.corr \in {ToolOf[w.cause], w.cause, LogicalOf[w.cause]} /\ w.cause \in Calls
    BY <1>1, WriterFacts DEF WrittenTrue, Names
  <2>3. d.cause \in Calls
    BY DeclaredFacts
  <2>4. w.cause = d.cause
    BY <2>1, <2>2, <2>3, CallAssumption
  <2> QED
    BY <2>4 DEF Justified
<1> QED
  BY <1>1, <1>2, <1>3

LEMMA CertainIsJustified ==
  ASSUME IInv, \A d \in decls : Truthful(d), NEW e \in Effects, NEW k \in EffectClaims(e)
  PROVE  /\ Acceptable(k)
         /\ (k.conf = CERTAIN /\ k.dst # TaskNode) =>
              \E d \in decls : k.dst \in Owners(d) /\ Justified(e, d)
<1> DEFINE byId  == UNION {IdOwners(d) : d \in {x \in decls : e \in Correlated(x)}}
           group == Segment(e.proc, TimeOf(e))
<1>1. k \in IF byId # {} THEN {Claim(e, n, "marker", CERTAIN, {}) : n \in byId}
            ELSE IF group # {} THEN {MarkerClaim(e, group)}
            ELSE WindowClaims(e)
  BY DEF EffectClaims
<1>2. CASE byId # {}
  <2>1. PICK n \in byId : k = Claim(e, n, "marker", CERTAIN, {})
    BY <1>1, <1>2
  <2>2. PICK d \in decls : e \in Correlated(d) /\ n \in Owners(d)
    BY DEF IdOwners
  <2>3. Owners(d) = {n}
    BY <2>2, OneOwner
  <2>4. e # n
    BY <2>3, NodeIsNoEffect
  <2>5. Acceptable(k) /\ k.dst = n
    BY <2>1, <2>4, PlainClaim, PlainIsAcceptable DEF CERTAIN, AMBIGUOUS
  <2>6. Justified(e, d)
    BY <2>2, CorrelationIsJustified
  <2> QED
    BY <2>2, <2>5, <2>6
<1>3. CASE byId = {} /\ group # {}
  <2>1. k = MarkerClaim(e, group) /\ group \in SUBSET decls
    BY <1>1, <1>3 DEF Segment
  <2> HIDE DEF group
  <2>2. Acceptable(k)
    BY <1>3, <2>1, MarkersAreAcceptable
  <2>3. ASSUME k.conf = CERTAIN, k.dst # TaskNode
        PROVE  \E d \in decls : k.dst \in Owners(d) /\ Justified(e, d)
    <3>1. OwnersOf(group) = {k.dst} /\ \A d \in group : Worth(d) = CERTAIN
      BY <1>3, <2>1, <2>3, MarkersAreAcceptable
    <3>2. PICK d \in group : TRUE
      BY <1>3
    <3>3. Owners(d) = {k.dst}
      BY <3>1, OwnerOfEach
    <3>4. group = Segment(e.proc, TimeOf(e))
      BY DEF group
    <3>5. Justified(e, d)
      BY <2>3, <3>1, <3>4, SegmentIsJustified
    <3> QED
      BY <2>1, <3>3, <3>5
  <2> QED
    BY <2>2, <2>3
<1>4. CASE byId = {} /\ group = {}
  BY <1>1, <1>4, WindowsAreAcceptable
<1> QED
  BY <1>2, <1>3, <1>4

(* Whatever the processes and their numbers, the calls, ids, clocks and    *)
(* what is lost: while what is declared is true, an effect is certainly of *)
(* a tool or a call only if that one wrote it or its events say so, or in  *)
(* one of the two ways of being wrong that CertainMarkerTrue names; and    *)
(* what is certain of tools and calls themselves is true.                  *)
THEOREM CertainMarkersAreTrue == Spec => []CertainMarkerTrue
<1>1. IInv => CertainMarkerTrue
  <2> SUFFICES ASSUME IInv PROVE CertainMarkerTrue
    OBVIOUS
  <2>1. TypeOK
    BY DEF IInv
  <2>2. DeclaredIsTrue
    BY DeclaredTrue
  <2>3. ASSUME \A d \in decls : Truthful(d), NEW e \in Effects, NEW k \in EffectClaims(e)
        PROVE  /\ Acceptable(k)
               /\ (k.conf = CERTAIN /\ k.dst # TaskNode) =>
                    \E d \in decls : k.dst \in Owners(d) /\ Justified(e, d)
    BY <2>3, CertainIsJustified
  <2> QED
    BY <2>1, <2>2, <2>3 DEF CertainMarkerTrue, Justified
<1> QED
  BY <1>1, AlwaysIInv, PTL
=============================================================================
