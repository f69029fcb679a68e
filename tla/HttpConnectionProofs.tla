------------------------ MODULE HttpConnectionProofs ------------------------
(***************************************************************************)
(* The way of a response body, for any dialogue, any stream and any        *)
(* limits: of a connection, its types, that every payload is what it says, *)
(* and that every exchange is recorded; of the SSE decoder that reads the  *)
(* payload, that its events are those of the stream however the bytes are  *)
(* cut, that the limits are enforced, and what the verdicts rest on.       *)
(***************************************************************************)
EXTENDS HttpConnection, SseStream, FiniteSetTheorems, FunctionTheorems, SequenceTheorems,
        WellFoundedInduction, NaturalsInduction, TLAPS

(* Induction over the naturals, for a set in place of a formula.           *)
LEMMA Least ==
  ASSUME NEW S \in SUBSET Nat, S # {}
  PROVE  \E x \in S : \A y \in S : x <= y
<1> DEFINE R == OpToRel(<, Nat)
<1>1. IsWellFoundedOn(R, Nat)
  BY NatLessThanWellFounded
<1> HIDE DEF R
<1>2. PICK x \in S : \A y \in S : <<y, x>> \notin R
  BY <1>1, WFMin
<1>3. \A y \in S : ~(y < x)
  BY <1>2 DEF R, OpToRel
<1> QED
  BY <1>3

LEMMA Induction ==
  ASSUME NEW T, 0 \in T, \A n \in Nat : n \in T => n + 1 \in T
  PROVE  \A n \in Nat : n \in T
<1> SUFFICES ASSUME Nat \ T # {} PROVE FALSE
  OBVIOUS
<1>1. PICK m \in Nat \ T : \A y \in Nat \ T : m <= y
  BY Least
<1>2. m # 0 /\ m - 1 \in Nat
  OBVIOUS
<1>3. m - 1 \in T
  BY <1>1, <1>2
<1> QED
  BY <1>2, <1>3

-----------------------------------------------------------------------------
(* Captured(s): the elements of s that are not None, as a function of how  *)
(* much of s has been looked at.                                           *)
Keeps(s, g, m) ==
  g = [n \in 0..m |->
         IF n = 0 THEN <<>>
         ELSE IF s[n] = None THEN g[n-1] ELSE Append(g[n-1], s[n])]

LEMMA KeepsAt ==
  ASSUME NEW s, NEW g, NEW m \in Nat, Keeps(s, g, m)
  PROVE  /\ g[0] = <<>>
         /\ \A n \in 1..m : g[n] = IF s[n] = None THEN g[n-1] ELSE Append(g[n-1], s[n])
<1> DEFINE e(n) == IF n = 0 THEN <<>>
                   ELSE IF s[n] = None THEN g[n-1] ELSE Append(g[n-1], s[n])
<1>1. g = [n \in 0..m |-> e(n)]
  BY DEF Keeps
<1> HIDE DEF e
<1>2. \A n \in 0..m : g[n] = e(n)
  BY <1>1
<1>3. e(0) = <<>>
  BY DEF e
<1>4. ASSUME NEW n \in 1..m
      PROVE  g[n] = IF s[n] = None THEN g[n-1] ELSE Append(g[n-1], s[n])
  <2>1. e(n) = IF s[n] = None THEN g[n-1] ELSE Append(g[n-1], s[n])
    BY DEF e
  <2>2. g[n] = e(n)
    BY <1>2
  <2> QED
    BY <2>1, <2>2, Zenon
<1>5. g[0] = <<>>
  <2>1. g[0] = e(0)
    BY <1>2
  <2> QED
    BY <2>1, <1>3, Zenon
<1> QED
  BY <1>4, <1>5, Zenon

LEMMA KeepsTyped ==
  ASSUME NEW S, NEW s \in Seq(S \cup {None}), NEW m \in Nat, m <= Len(s),
         NEW g, Keeps(s, g, m)
  PROVE  \A n \in 0..m : g[n] \in Seq(S)
<1> DEFINE T == {n \in Nat : n <= m => g[n] \in Seq(S)}
<1>1. 0 \in T
  <2>1. g[0] = <<>>
    BY KeepsAt
  <2>2. g[0] \in Seq(S)
    BY <2>1, EmptySeq, Zenon
  <2> QED
    BY <2>2
<1>2. ASSUME NEW n \in Nat, n \in T PROVE n + 1 \in T
  <2> SUFFICES ASSUME n + 1 <= m PROVE g[n + 1] \in Seq(S)
    OBVIOUS
  <2>1. g[n] \in Seq(S)
    BY <1>2
  <2>2. g[n+1] = IF s[n+1] = None THEN g[n] ELSE Append(g[n], s[n+1])
    BY KeepsAt
  <2>3. s[n+1] \in S \cup {None}
    OBVIOUS
  <2> QED
    BY <2>1, <2>2, <2>3
<1> HIDE DEF T
<1>3. \A n \in Nat : n \in T
  BY <1>1, <1>2, Induction
<1> QED
  BY <1>3 DEF T

LEMMA KeepsExists ==
  ASSUME NEW s, NEW m \in Nat
  PROVE  \E g : Keeps(s, g, m)
<1> DEFINE T == {n \in Nat : \E g : Keeps(s, g, n)}
<1>1. 0 \in T
  <2>1. Keeps(s, [n \in 0..0 |-> <<>>], 0)
    BY DEF Keeps
  <2> QED
    BY <2>1
<1>2. ASSUME NEW n \in Nat, n \in T PROVE n + 1 \in T
  <2>1. PICK g : Keeps(s, g, n)
    BY <1>2
  <2> DEFINE last == IF s[n+1] = None THEN g[n] ELSE Append(g[n], s[n+1])
             h == [k \in 0..(n + 1) |-> IF k = n + 1 THEN last ELSE g[k]]
  <2>2. ASSUME NEW k \in 0..(n + 1)
        PROVE  h[k] = IF k = 0 THEN <<>>
                      ELSE IF s[k] = None THEN h[k-1] ELSE Append(h[k-1], s[k])
    <3>1. CASE k = n + 1
      <4>1. h[k] = last /\ h[k-1] = g[n] /\ k # 0
        BY <3>1
      <4> QED
        BY <3>1, <4>1
    <3>2. CASE k = 0
      <4>1. h[k] = g[0]
        BY <3>2
      <4> HIDE DEF h
      <4> QED
        BY <2>1, <3>2, <4>1, KeepsAt
    <3>3. CASE k \in 1..n
      <4>1. h[k] = g[k] /\ h[k-1] = g[k-1] /\ k # 0
        BY <3>3
      <4> HIDE DEF h
      <4> QED
        BY <2>1, <3>3, <4>1, KeepsAt
    <3> QED
      BY <3>1, <3>2, <3>3
  <2>3. Keeps(s, h, n + 1)
    <3> HIDE DEF last
    <3> QED
      BY <2>2 DEF Keeps
  <2> QED
    BY <2>3
<1> HIDE DEF T
<1>3. m \in T
  BY <1>1, <1>2, Induction
<1> QED
  BY <1>3 DEF T

(* Sequences with the same beginning keep the same of it.                  *)
LEMMA KeepsSame ==
  ASSUME NEW s, NEW t, NEW m \in Nat, NEW l \in Nat, m <= l,
         \A i \in 1..m : s[i] = t[i],
         NEW g, Keeps(s, g, m), NEW h, Keeps(t, h, l)
  PROVE  g[m] = h[m]
<1> DEFINE T == {n \in Nat : n <= m => g[n] = h[n]}
<1>1. 0 \in T
  BY KeepsAt
<1>2. ASSUME NEW n \in Nat, n \in T PROVE n + 1 \in T
  <2> SUFFICES ASSUME n + 1 <= m PROVE g[n + 1] = h[n + 1]
    OBVIOUS
  <2>1. g[n] = h[n] /\ s[n+1] = t[n+1]
    BY <1>2
  <2>2. g[n+1] = IF s[n+1] = None THEN g[n] ELSE Append(g[n], s[n+1])
    BY KeepsAt
  <2>3. h[n+1] = IF t[n+1] = None THEN h[n] ELSE Append(h[n], t[n+1])
    <3>1. n + 1 \in 1..l /\ (n + 1) - 1 = n
      OBVIOUS
    <3> QED
      BY <3>1, KeepsAt
  <2> QED
    BY <2>1, <2>2, <2>3
<1> HIDE DEF T
<1>3. m \in T
  BY <1>1, <1>2, Induction
<1> QED
  BY <1>3 DEF T

LEMMA CapturedIsKept ==
  ASSUME NEW s, Len(s) \in Nat
  PROVE  \E g : Keeps(s, g, Len(s)) /\ Captured(s) = g[Len(s)]
<1>1. Captured(s) = (CHOOSE g : Keeps(s, g, Len(s)))[Len(s)]
  BY DEF Captured, Keeps
<1>2. Keeps(s, CHOOSE g : Keeps(s, g, Len(s)), Len(s))
  BY KeepsExists
<1> QED
  BY <1>1, <1>2

LEMMA CapturedTyped ==
  ASSUME NEW S, NEW s \in Seq(S \cup {None})
  PROVE  Captured(s) \in Seq(S)
<1>1. PICK g : Keeps(s, g, Len(s)) /\ Captured(s) = g[Len(s)]
  BY CapturedIsKept
<1> QED
  BY <1>1, KeepsTyped

LEMMA CapturedEmpty == Captured(<<>>) = <<>>
<1>1. PICK g : Keeps(<<>>, g, 0) /\ Captured(<<>>) = g[0]
  BY CapturedIsKept
<1> QED
  BY <1>1, KeepsAt

LEMMA CapturedAppend ==
  ASSUME NEW S, NEW s \in Seq(S), NEW x \in S
  PROVE  Captured(Append(s, x)) = IF x = None THEN Captured(s) ELSE Append(Captured(s), x)
<1> DEFINE t == Append(s, x)
           n == Len(s)
<1>1. /\ Len(t) = n + 1 /\ n \in Nat /\ t[n + 1] = x
      /\ \A i \in 1..n : t[i] = s[i]
  OBVIOUS
<1> HIDE DEF t, n
<1>2. PICK g : Keeps(s, g, n) /\ Captured(s) = g[n]
  BY <1>1, CapturedIsKept DEF n
<1>3. PICK h : Keeps(t, h, n + 1) /\ Captured(t) = h[n + 1]
  BY <1>1, CapturedIsKept
<1>4. h[n + 1] = IF x = None THEN h[n] ELSE Append(h[n], x)
  BY <1>1, <1>3, KeepsAt
<1>5. g[n] = h[n]
  BY <1>1, <1>2, <1>3, KeepsSame
<1> QED
  BY <1>2, <1>3, <1>4, <1>5 DEF t

(* What is appended is kept whole, if nothing of it is None ...            *)
LEMMA CapturedMore ==
  ASSUME NEW S, NEW s \in Seq(S \cup {None}), NEW t \in Seq(S), None \notin S
  PROVE  Captured(s \o t) = Captured(s) \o t
<1> DEFINE pre(k) == SubSeq(t, 1, k)
           T == {k \in Nat : k <= Len(t) => Captured(s \o pre(k)) = Captured(s) \o pre(k)}
<1>1. Captured(s) \in Seq(S)
  BY CapturedTyped
<1>2. 0 \in T
  <2>1. pre(0) = <<>>
    OBVIOUS
  <2>2. s \o <<>> = s /\ Captured(s) \o <<>> = Captured(s)
    BY <1>1
  <2> QED
    BY <2>1, <2>2
<1>3. ASSUME NEW k \in Nat, k \in T PROVE k + 1 \in T
  <2> SUFFICES ASSUME k + 1 <= Len(t)
               PROVE  Captured(s \o pre(k + 1)) = Captured(s) \o pre(k + 1)
    OBVIOUS
  <2>1. Captured(s \o pre(k)) = Captured(s) \o pre(k)
    BY <1>3
  <2>2. pre(k) \in Seq(S) /\ t[k + 1] \in S
    OBVIOUS
  <2>3. pre(k + 1) = Append(pre(k), t[k + 1])
    OBVIOUS
  <2> HIDE DEF pre
  <2>4. s \o pre(k) \in Seq(S \cup {None})
    BY <2>2
  <2>5. s \o Append(pre(k), t[k + 1]) = Append(s \o pre(k), t[k + 1])
    BY <2>2
  <2>6. Captured(s) \o Append(pre(k), t[k + 1]) = Append(Captured(s) \o pre(k), t[k + 1])
    BY <1>1, <2>2
  <2>7. Captured(Append(s \o pre(k), t[k + 1])) = Append(Captured(s \o pre(k)), t[k + 1])
    <3>1. t[k + 1] # None
      BY <2>2
    <3> QED
      BY <2>2, <2>4, <3>1, CapturedAppend, t[k + 1] \in S \cup {None}
  <2> QED
    BY <2>1, <2>3, <2>5, <2>6, <2>7
<1> HIDE DEF T
<1>4. Len(t) \in T
  <2>1. \A k \in Nat : k \in T
    BY <1>2, <1>3, Induction
  <2>2. Len(t) \in Nat
    OBVIOUS
  <2> QED
    BY <2>1, <2>2
<1>5. pre(Len(t)) = t
  OBVIOUS
<1>6. Len(t) \in Nat
  OBVIOUS
<1> HIDE DEF pre
<1> QED
  BY <1>4, <1>5, <1>6 DEF T

(* ... and not at all, if all of it is None.                               *)
LEMMA CapturedNones ==
  ASSUME NEW S, NEW s \in Seq(S \cup {None}), NEW t \in Seq({None})
  PROVE  Captured(s \o t) = Captured(s)
<1> DEFINE pre(k) == SubSeq(t, 1, k)
           T == {k \in Nat : k <= Len(t) => Captured(s \o pre(k)) = Captured(s)}
<1>2. 0 \in T
  <2>1. pre(0) = <<>>
    OBVIOUS
  <2>2. s \o <<>> = s
    OBVIOUS
  <2> QED
    BY <2>1, <2>2
<1>3. ASSUME NEW k \in Nat, k \in T PROVE k + 1 \in T
  <2> SUFFICES ASSUME k + 1 <= Len(t)
               PROVE  Captured(s \o pre(k + 1)) = Captured(s)
    OBVIOUS
  <2>1. Captured(s \o pre(k)) = Captured(s)
    BY <1>3
  <2>2. pre(k) \in Seq({None}) /\ t[k + 1] = None
    OBVIOUS
  <2>3. pre(k + 1) = Append(pre(k), t[k + 1])
    OBVIOUS
  <2> HIDE DEF pre
  <2>4. s \o pre(k) \in Seq(S \cup {None})
    <3>1. pre(k) \in Seq(S \cup {None})
      BY <2>2
    <3> QED
      BY <3>1
  <2>5. s \o Append(pre(k), t[k + 1]) = Append(s \o pre(k), t[k + 1])
    BY <2>2
  <2>7. Captured(Append(s \o pre(k), t[k + 1])) = Captured(s \o pre(k))
    <3>1. t[k + 1] \in S \cup {None}
      BY <2>2
    <3>2. Captured(Append(s \o pre(k), t[k + 1]))
            = IF t[k + 1] = None THEN Captured(s \o pre(k))
              ELSE Append(Captured(s \o pre(k)), t[k + 1])
      BY <2>4, <3>1, CapturedAppend, Zenon
    <3> QED
      BY <2>2, <3>2
  <2> QED
    BY <2>1, <2>3, <2>5, <2>7
<1> HIDE DEF T
<1>4. Len(t) \in T
  <2>1. \A k \in Nat : k \in T
    BY <1>2, <1>3, Induction
  <2>2. Len(t) \in Nat
    OBVIOUS
  <2> QED
    BY <2>1, <2>2
<1>5. pre(Len(t)) = t
  OBVIOUS
<1>6. Len(t) \in Nat
  OBVIOUS
<1> HIDE DEF pre
<1> QED
  BY <1>4, <1>5, <1>6 DEF T

-----------------------------------------------------------------------------
(* A parser whose draft and whose batch say what they are.                 *)
SoundDraft   == {d \in Req!Draft : Honest(d)}
SoundMessage == {m \in Req!Message : Honest(m)}
SoundParser  ==
  [buf : Seq(Req!Byte), scan : Nat, state : Req!States, draft : SoundDraft, eof : BOOLEAN,
   run : BOOLEAN, batch : Seq(SoundMessage), methods : Seq(Req!Methods), dropped : Nat]

LEMMA Limits == MaxBody \in Nat /\ MaxChunkLine \in Nat /\ MaxPending \in Nat \ {0}
  BY LimitAssumption

(* What does not depend on the direction is the same for both parsers.     *)
LEMMA SameTypes ==
  /\ Resp!Byte = Req!Byte /\ Resp!States = Req!States
  /\ Resp!Message = Req!Message /\ Resp!Parser = Req!Parser
  /\ Resp!NewParser = Req!NewParser /\ Resp!NewDraft = Req!NewDraft
  BY DEF Req!Byte, Resp!Byte, Req!States, Resp!States, Req!Message, Resp!Message,
         Req!Parser, Resp!Parser, Req!Heading, Resp!Heading, Req!Draft, Resp!Draft,
         Req!Methods, Resp!Methods, Req!NewParser, Resp!NewParser,
         Req!NewDraft, Resp!NewDraft, Req!NoHead, Resp!NoHead

LEMMA SoundIsTyped ==
  ASSUME NEW q \in SoundParser
  PROVE  q \in Req!Parser
<1>1. SoundMessage \subseteq Req!Message /\ SoundDraft \subseteq Req!Draft
  BY DEF SoundMessage, SoundDraft
<1>2. q.batch \in Seq(Req!Message)
  BY <1>1, SeqMonotonic DEF SoundParser
<1> QED
  BY <1>1, <1>2 DEF SoundParser, Req!Parser

LEMMA NewIsSound == Req!NewDraft \in SoundDraft /\ Req!NewParser \in SoundParser
<1>1. Req!NewDraft \in SoundDraft
  BY Limits DEF SoundDraft, Req!NewDraft, Req!Draft, Req!NoHead, Req!Heading, Req!Methods, Honest
<1> QED
  BY <1>1 DEF SoundParser, Req!NewParser, Req!States

LEMMA FeedSound ==
  ASSUME NEW q \in SoundParser, NEW bytes \in Seq(Req!Byte)
  PROVE  Req!Feed(q, bytes) \in SoundParser
<1> DEFINE buf == q.buf \o bytes
<1>1. buf \in Seq(Req!Byte)
  BY DEF SoundParser
<1>2. Req!Feed(q, bytes) = IF q.state = "failed" THEN q ELSE [q EXCEPT !.buf = buf, !.run = TRUE]
  BY DEF Req!Feed
<1> HIDE DEF buf
<1> QED
  BY <1>1, <1>2 DEF SoundParser

LEMMA FinishSound ==
  ASSUME NEW q \in SoundParser
  PROVE  Req!Finish(q) \in SoundParser
  BY DEF SoundParser, Req!Finish

LEMMA RegisterSound ==
  ASSUME NEW q \in SoundParser, NEW method \in Req!Methods, Len(q.methods) <= MaxPending
  PROVE  /\ Req!Register(q, method) \in SoundParser
         /\ Len(Req!Register(q, method).methods) <= MaxPending
<1>1. q.methods \in Seq(Req!Methods) /\ q.dropped \in Nat
  BY DEF SoundParser
<1>2. CASE Len(q.methods) = MaxPending
  <2> DEFINE methods == Append(Tail(q.methods), method)
  <2>1. q.methods # <<>>
    BY <1>1, <1>2, Limits
  <2>2. methods \in Seq(Req!Methods) /\ Len(methods) = MaxPending
    <3>1. Tail(q.methods) \in Seq(Req!Methods) /\ Len(Tail(q.methods)) = MaxPending - 1
      BY <1>1, <1>2, <2>1, HeadTailProperties
    <3> QED
      BY <3>1, Limits
  <2>3. Req!Register(q, method) = [q EXCEPT !.methods = methods, !.dropped = q.dropped + 1]
    BY <1>2 DEF Req!Register
  <2> HIDE DEF methods
  <2>4. q.dropped + 1 \in Nat
    BY <1>1
  <2>5. [q EXCEPT !.methods = methods, !.dropped = q.dropped + 1] \in SoundParser
    BY <2>2, <2>4 DEF SoundParser
  <2>6. [q EXCEPT !.methods = methods, !.dropped = q.dropped + 1].methods = methods
    BY DEF SoundParser
  <2> QED
    BY <2>2, <2>3, <2>5, <2>6, Limits
<1>3. CASE Len(q.methods) # MaxPending
  <2> DEFINE methods == Append(q.methods, method)
  <2>1. methods \in Seq(Req!Methods) /\ Len(methods) <= MaxPending
    BY <1>1, <1>3, Limits
  <2>2. Req!Register(q, method) = [q EXCEPT !.methods = methods]
    BY <1>3 DEF Req!Register
  <2> HIDE DEF methods
  <2> QED
    BY <2>1, <2>2 DEF SoundParser
<1> QED
  BY <1>2, <1>3

LEMMA ConsumeSound ==
  ASSUME NEW q \in SoundParser, NEW n \in Nat
  PROVE  Req!Consume(q, n) \in SoundParser
<1> DEFINE buf == SubSeq(q.buf, n + 1, Len(q.buf))
<1>1. buf \in Seq(Req!Byte)
  BY DEF SoundParser
<1>2. Req!Consume(q, n) = [q EXCEPT !.buf = buf]
  BY DEF Req!Consume
<1> HIDE DEF buf
<1> QED
  BY <1>1, <1>2 DEF SoundParser

LEMMA MessageSound ==
  ASSUME NEW q \in SoundParser, NEW complete \in BOOLEAN
  PROVE  Append(q.batch, Req!MessageOf(q.draft, complete)) \in Seq(SoundMessage)
<1>1. Req!MessageOf(q.draft, complete) \in SoundMessage
  BY DEF SoundParser, SoundDraft, SoundMessage, Req!MessageOf, Req!Message, Req!Draft, Honest
<1> QED
  BY <1>1 DEF SoundParser

LEMMA FinalizeSound ==
  ASSUME NEW q \in SoundParser, NEW complete \in BOOLEAN
  PROVE  Req!Finalize(q, complete) \in SoundParser
<1> DEFINE batch == Append(q.batch, Req!MessageOf(q.draft, complete))
<1>1. batch \in Seq(SoundMessage)
  BY MessageSound
<1>2. Req!Finalize(q, complete)
        = [q EXCEPT !.batch = batch, !.draft = Req!NewDraft, !.state = "start"]
  BY DEF Req!Finalize
<1> HIDE DEF batch
<1> QED
  BY <1>1, <1>2, NewIsSound DEF SoundParser, Req!States

LEMMA FailSound ==
  ASSUME NEW q \in SoundParser, NEW emit \in BOOLEAN
  PROVE  Req!Fail(q, emit) \in SoundParser
<1> DEFINE batch == IF emit THEN Append(q.batch, Req!MessageOf(q.draft, FALSE)) ELSE q.batch
<1>1. batch \in Seq(SoundMessage)
  BY MessageSound DEF SoundParser
<1>2. Req!Fail(q, emit)
        = [q EXCEPT !.batch = batch, !.draft = Req!NewDraft, !.state = "failed", !.buf = <<>>]
  BY DEF Req!Fail
<1> HIDE DEF batch
<1>3. [q EXCEPT !.batch = batch, !.draft = Req!NewDraft, !.state = "failed"] \in SoundParser
  BY <1>1, NewIsSound DEF SoundParser, Req!States
<1>4. <<>> \in Seq(Req!Byte)
  BY EmptySeq
<1>5. ASSUME NEW r \in SoundParser PROVE [r EXCEPT !.buf = <<>>] \in SoundParser
  BY <1>4 DEF SoundParser
<1> QED
  BY <1>2, <1>3, <1>5

LEMMA AppendBodySound ==
  ASSUME NEW q \in SoundParser, NEW n \in Nat
  PROVE  Req!AppendBody(q, n) \in SoundParser
<1> DEFINE d   == q.draft
           cut == d.kept + n > MaxBody
           e   == IF d.truncated THEN [d EXCEPT !.got = @ + n]
                  ELSE [d EXCEPT !.got = @ + n, !.truncated = cut,
                                 !.kept = IF cut THEN MaxBody ELSE @ + n]
<1>1. d \in SoundDraft
  BY DEF SoundParser
<1>2. e \in SoundDraft
  <2> HIDE DEF d
  <2>1. d \in Req!Draft /\ d.got \in Nat /\ d.kept \in Nat /\ d.kept <= MaxBody
    BY <1>1 DEF SoundDraft, Req!Draft, Honest
  <2>2. CASE d.truncated
    <3>1. [d EXCEPT !.got = @ + n] \in Req!Draft
      BY <2>1 DEF Req!Draft
    <3>2. Honest([d EXCEPT !.got = @ + n])
      BY <2>1, <2>2 DEF Honest, Req!Draft
    <3> QED
      BY <2>2, <3>1, <3>2 DEF SoundDraft
  <2>3. CASE ~d.truncated
    <3> DEFINE kept == IF cut THEN MaxBody ELSE d.kept + n
    <3>1. kept \in Nat /\ kept <= MaxBody /\ (~cut => kept = d.got + n) /\ d.got + n \in Nat
      BY <1>1, <2>1, <2>3, Limits DEF SoundDraft, Honest
    <3>2. cut \in BOOLEAN
      OBVIOUS
    <3>3. e = [d EXCEPT !.got = d.got + n, !.truncated = cut, !.kept = kept]
      BY <2>3
    <3> HIDE DEF e, cut, kept
    <3>4. e \in Req!Draft /\ e.kept = kept /\ e.got = d.got + n /\ e.truncated = cut
      BY <2>1, <3>1, <3>2, <3>3 DEF Req!Draft
    <3>5. Honest(e)
      <4>1. e.kept <= MaxBody
        BY <3>1, <3>4
      <4>2. ~e.truncated => e.kept = e.got
        BY <3>1, <3>4
      <4> QED
        BY <4>1, <4>2 DEF Honest
    <3> QED
      BY <3>4, <3>5 DEF SoundDraft
  <2> QED
    BY <2>2, <2>3
<1>3. Req!AppendBody(q, n) = [q EXCEPT !.draft = e]
  BY DEF Req!AppendBody, SoundParser
<1> HIDE DEF e
<1> QED
  BY <1>2, <1>3 DEF SoundParser

(* A field of a parser, or of its draft, that changes alone.               *)
LEMMA StateSound ==
  ASSUME NEW q \in SoundParser, NEW state \in Req!States
  PROVE  /\ [q EXCEPT !.state = state] \in SoundParser
         /\ [q EXCEPT !.state = state].draft = q.draft
         /\ [q EXCEPT !.state = state].methods = q.methods
  BY DEF SoundParser

LEMMA DraftSound ==
  ASSUME NEW q \in SoundParser, NEW d \in SoundDraft
  PROVE  /\ [q EXCEPT !.draft = d] \in SoundParser
         /\ [q EXCEPT !.draft = d].draft = d
         /\ [q EXCEPT !.draft = d].methods = q.methods
  BY DEF SoundParser

LEMMA RemainingSound ==
  ASSUME NEW q \in SoundParser, NEW n \in Nat
  PROVE  /\ [q EXCEPT !.draft.remaining = n] \in SoundParser
         /\ [q EXCEPT !.draft.remaining = n].methods = q.methods
<1> DEFINE d == [q.draft EXCEPT !.remaining = n]
<1>1. q.draft \in SoundDraft
  BY DEF SoundParser
<1>2. d \in Req!Draft /\ d.kept = q.draft.kept /\ d.got = q.draft.got
      /\ d.truncated = q.draft.truncated
  BY <1>1 DEF SoundDraft, Req!Draft
<1>3. d \in SoundDraft
  BY <1>1, <1>2 DEF SoundDraft, Honest
<1>4. [q EXCEPT !.draft.remaining = n] = [q EXCEPT !.draft = d]
  BY DEF SoundParser
<1> HIDE DEF d
<1> QED
  BY <1>3, <1>4, DraftSound

LEMMA TrailerSound ==
  ASSUME NEW q \in SoundParser, NEW n \in Nat
  PROVE  /\ [q EXCEPT !.draft.trailer = @ + n] \in SoundParser
         /\ [q EXCEPT !.draft.trailer = @ + n].methods = q.methods
<1> DEFINE d == [q.draft EXCEPT !.trailer = @ + n]
<1>1. q.draft \in SoundDraft
  BY DEF SoundParser
<1>2. d \in Req!Draft /\ d.kept = q.draft.kept /\ d.got = q.draft.got
      /\ d.truncated = q.draft.truncated
  BY <1>1 DEF SoundDraft, Req!Draft
<1>3. d \in SoundDraft
  BY <1>1, <1>2 DEF SoundDraft, Honest
<1>4. [q EXCEPT !.draft.trailer = @ + n] = [q EXCEPT !.draft = d]
  BY DEF SoundParser
<1> HIDE DEF d
<1> QED
  BY <1>3, <1>4, DraftSound

LEMMA HeadSound ==
  ASSUME NEW d \in SoundDraft, NEW h \in Req!Heading, NEW method \in Req!Methods \cup {"unknown"}
  PROVE  [d EXCEPT !.head = h, !.method = method] \in SoundDraft
<1> DEFINE e == [d EXCEPT !.head = h, !.method = method]
<1>1. e \in Req!Draft /\ e.kept = d.kept /\ e.got = d.got /\ e.truncated = d.truncated
  BY DEF SoundDraft, Req!Draft
<1> QED
  BY <1>1 DEF SoundDraft, Honest

LEMMA TruncatedSound ==
  ASSUME NEW d \in SoundDraft, NEW cut \in BOOLEAN
  PROVE  [d EXCEPT !.truncated = @ \/ cut] \in SoundDraft
<1> DEFINE mark == d.truncated \/ cut
           e == [d EXCEPT !.truncated = mark]
<1>1. mark \in BOOLEAN
  OBVIOUS
<1>2. d.truncated => mark
  OBVIOUS
<1> HIDE DEF mark
<1>3. e \in Req!Draft /\ e.kept = d.kept /\ e.got = d.got /\ e.truncated = mark
  BY <1>1 DEF SoundDraft, Req!Draft
<1>4. Honest(e)
  BY <1>2, <1>3 DEF SoundDraft, Honest
<1>5. e \in SoundDraft
  BY <1>3, <1>4 DEF SoundDraft
<1> QED
  BY <1>5 DEF mark

LEMMA MethodsStay ==
  ASSUME NEW q \in SoundParser
  PROVE  /\ \A n \in Nat : Req!Consume(q, n).methods = q.methods
         /\ \A n \in Nat : Req!AppendBody(q, n).methods = q.methods
         /\ \A b \in BOOLEAN : Req!Finalize(q, b).methods = q.methods
         /\ \A b \in BOOLEAN : Req!Fail(q, b).methods = q.methods
         /\ \A bytes : Req!Feed(q, bytes).methods = q.methods
         /\ Req!Finish(q).methods = q.methods
  BY DEF SoundParser, Req!Consume, Req!AppendBody, Req!Finalize, Req!Fail, Req!Feed,
         Req!Finish

(* The operators of the two parsers that do not look at the direction.     *)
LEMMA SameOperators ==
  ASSUME NEW q
  PROVE  /\ \A n : Resp!Consume(q, n) = Req!Consume(q, n)
         /\ \A n : Resp!AppendBody(q, n) = Req!AppendBody(q, n)
         /\ \A b : Resp!Finalize(q, b) = Req!Finalize(q, b)
         /\ \A b : Resp!Fail(q, b) = Req!Fail(q, b)
         /\ \A bytes : Resp!Feed(q, bytes) = Req!Feed(q, bytes)
         /\ \A m : Resp!Register(q, m) = Req!Register(q, m)
         /\ Resp!Finish(q) = Req!Finish(q)
         /\ Resp!Taken(q) = Req!Taken(q)
  BY DEF Req!Consume, Req!AppendBody, Req!Finalize, Req!Fail, Req!Feed, Req!Finish,
         Req!Taken, Req!Register, Req!NewDraft, Req!NoHead, Req!MessageOf,
         Resp!Consume, Resp!AppendBody, Resp!Finalize, Resp!Fail, Resp!Feed, Resp!Finish,
         Resp!Taken, Resp!Register, Resp!NewDraft, Resp!NoHead, Resp!MessageOf

LEMMA SamePlaces ==
  ASSUME NEW b
  PROVE  /\ \A i, kinds : Resp!At(b, i, kinds) = Req!At(b, i, kinds)
         /\ Resp!RawLine(b) = Req!RawLine(b) /\ Resp!LineLen(b) = Req!LineLen(b)
         /\ Resp!HasLine(b) = Req!HasLine(b) /\ Resp!ScanFrom(b) = Req!ScanFrom(b)
         /\ Resp!LF = Req!LF
  BY DEF Req!At, Req!RawLine, Req!LineLen, Req!HasLine, Req!ScanFrom, Req!LF,
         Resp!At, Resp!RawLine, Resp!LineLen, Resp!HasLine, Resp!ScanFrom, Resp!LF

-----------------------------------------------------------------------------
(* The head of a message.                                                  *)
LEMMA RefusedSound ==
  ASSUME NEW q \in SoundParser
  PROVE  /\ [q EXCEPT !.state = "failed", !.buf = <<>>] \in SoundParser
         /\ [q EXCEPT !.state = "failed", !.buf = <<>>].methods = q.methods
<1>1. <<>> \in Seq(Req!Byte) /\ "failed" \in Req!States
  BY EmptySeq DEF Req!States
<1> QED
  BY <1>1 DEF SoundParser

LEMMA FixedBodySound ==
  ASSUME NEW q \in SoundParser, NEW n \in Nat
  PROVE  /\ [q EXCEPT !.state = "fixed_body", !.draft.remaining = n] \in SoundParser
         /\ [q EXCEPT !.state = "fixed_body", !.draft.remaining = n].methods = q.methods
<1> DEFINE r == [q EXCEPT !.state = "fixed_body"]
<1>1. r \in SoundParser /\ r.methods = q.methods
  BY StateSound DEF Req!States
<1>2. [q EXCEPT !.state = "fixed_body", !.draft.remaining = n] = [r EXCEPT !.draft.remaining = n]
  OBVIOUS
<1> HIDE DEF r
<1> QED
  BY <1>1, <1>2, RemainingSound

LEMMA PlanSound ==
  ASSUME NEW q \in SoundParser
  PROVE  /\ Req!PlanBody(q) \in SoundParser /\ Req!PlanBody(q).methods = q.methods
         /\ Resp!PlanBody(q) \in SoundParser /\ Resp!PlanBody(q).methods = q.methods
<1> DEFINE h    == q.draft.head
           done == Req!Finalize(q, TRUE)
           shut == [done EXCEPT !.state = "failed", !.buf = <<>>]
           in(state) == [q EXCEPT !.state = state]
           sized == [q EXCEPT !.state = "fixed_body", !.draft.remaining = h.length]
<1>1. done \in SoundParser /\ done.methods = q.methods
  BY FinalizeSound, MethodsStay
<1>2. shut \in SoundParser /\ shut.methods = q.methods
  <2> HIDE DEF done
  <2> QED
    BY <1>1, RefusedSound
<1>3. /\ in("chunk_size") \in SoundParser /\ in("chunk_size").methods = q.methods
      /\ in("eof_body") \in SoundParser /\ in("eof_body").methods = q.methods
  BY StateSound DEF Req!States
<1>4. sized \in SoundParser /\ sized.methods = q.methods
  <2>1. h.length \in Nat
    BY DEF SoundParser, SoundDraft, Req!Draft, Req!Heading
  <2> QED
    BY <2>1, FixedBodySound
<1>5. Req!PlanBody(q) \in {done, shut, in("chunk_size"), sized, in("eof_body")}
  BY DEF Req!PlanBody
<1>6. Resp!PlanBody(q) \in {done, shut, in("chunk_size"), sized, in("eof_body")}
  <2>1. Resp!Finalize(q, TRUE) = done
    BY SameOperators
  <2> HIDE DEF done
  <2> QED
    BY <2>1 DEF Resp!PlanBody
<1> HIDE DEF done, shut, in, sized
<1> QED
  BY <1>1, <1>2, <1>3, <1>4, <1>5, <1>6

(* A message that ends, or fails, in either direction.                     *)
LEMMA EndsSound ==
  ASSUME NEW q \in SoundParser, NEW b \in BOOLEAN
  PROVE  /\ Req!Fail(q, b) \in SoundParser /\ Req!Fail(q, b).methods = q.methods
         /\ Req!Finalize(q, b) \in SoundParser /\ Req!Finalize(q, b).methods = q.methods
         /\ Resp!Fail(q, b) \in SoundParser /\ Resp!Fail(q, b).methods = q.methods
         /\ Resp!Finalize(q, b) \in SoundParser /\ Resp!Finalize(q, b).methods = q.methods
<1>1. Resp!Fail(q, b) = Req!Fail(q, b) /\ Resp!Finalize(q, b) = Req!Finalize(q, b)
  BY SameOperators, Zenon
<1>2. Req!Fail(q, b).methods = q.methods /\ Req!Finalize(q, b).methods = q.methods
  BY MethodsStay, Zenon
<1>3. Req!Fail(q, b) \in SoundParser /\ Req!Finalize(q, b) \in SoundParser
  BY FailSound, FinalizeSound, Zenon
<1> QED
  BY <1>1, <1>2, <1>3

(* At most the oldest method is taken.                                     *)
Fewer(methods, before) ==
  methods = before \/ (before # <<>> /\ methods = Tail(before))

LEMMA ParsedSound ==
  ASSUME NEW q \in SoundParser, NEW h \in Req!Heading, NEW takes \in BOOLEAN,
         takes => q.methods # <<>>
  PROVE  LET parsed == [q EXCEPT !.draft.head = h,
                                 !.draft.method = IF takes THEN Head(q.methods) ELSE @,
                                 !.methods = IF takes THEN Tail(@) ELSE @]
         IN  /\ parsed \in SoundParser
             /\ parsed.methods = IF takes THEN Tail(q.methods) ELSE q.methods
<1> DEFINE method  == IF takes THEN Head(q.methods) ELSE q.draft.method
           methods == IF takes THEN Tail(q.methods) ELSE q.methods
           d == [q.draft EXCEPT !.head = h, !.method = method]
           parsed == [q EXCEPT !.draft.head = h,
                               !.draft.method = IF takes THEN Head(q.methods) ELSE @,
                               !.methods = IF takes THEN Tail(@) ELSE @]
<1>1. q.draft \in SoundDraft /\ q.methods \in Seq(Req!Methods)
  BY DEF SoundParser
<1>2. method \in Req!Methods \cup {"unknown"} /\ methods \in Seq(Req!Methods)
  <2>1. CASE takes
    <3>1. Head(q.methods) \in Req!Methods /\ Tail(q.methods) \in Seq(Req!Methods)
      BY <1>1, <2>1, HeadTailProperties
    <3> QED
      BY <2>1, <3>1
  <2>2. CASE ~takes
    BY <1>1, <2>2 DEF SoundDraft, Req!Draft
  <2> QED
    BY <2>1, <2>2
<1>3. parsed = [q EXCEPT !.draft = d, !.methods = methods]
  <2>1. parsed = [q EXCEPT !.draft.head = h, !.draft.method = method, !.methods = methods]
    BY DEF SoundParser
  <2> HIDE DEF method, methods
  <2> QED
    BY <2>1 DEF SoundParser
<1>4. d \in SoundDraft
  <2> HIDE DEF method
  <2> QED
    BY <1>1, <1>2, HeadSound
<1> HIDE DEF d, methods
<1>5. /\ [q EXCEPT !.draft = d, !.methods = methods] \in SoundParser
      /\ [q EXCEPT !.draft = d, !.methods = methods].methods = methods
  BY <1>2, <1>4 DEF SoundParser
<1> QED
  BY <1>3, <1>5 DEF methods

LEMMA ReqHeadSound ==
  ASSUME NEW q \in SoundParser, NEW block \in Seq(Req!Byte), NEW terminated \in BOOLEAN
  PROVE  /\ Req!ParseHead(q, block, terminated) \in SoundParser
         /\ Req!ParseHead(q, block, terminated).methods = q.methods
<1> DEFINE h == block[1].head
           parsed == [q EXCEPT !.draft.head = h]
<1>1. Req!Fail(q, FALSE) \in SoundParser /\ Req!Fail(q, FALSE).methods = q.methods
  BY FailSound, MethodsStay
<1>2. CASE ~Req!At(block, 0, <<"s1", "s2">>) \/ h.fault = "start"
  BY <1>1, <1>2 DEF Req!ParseHead
<1>3. CASE Req!At(block, 0, <<"s1", "s2">>) /\ h.fault # "start"
  <2>1. h \in Req!Heading
    <3>1. 1 \in 1..Len(block)
      BY <1>3 DEF Req!At
    <3>2. block[1] \in Req!Byte
      BY <3>1, ElementOfSeq, Zenon
    <3> QED
      BY <3>2 DEF Req!Byte
  <2>2. parsed \in SoundParser /\ parsed.methods = q.methods
    <3> DEFINE d == [q.draft EXCEPT !.head = h, !.method = q.draft.method]
    <3>1. q.draft \in SoundDraft /\ q.draft.method \in Req!Methods \cup {"unknown"}
      BY DEF SoundParser, SoundDraft, Req!Draft
    <3>2. d = [q.draft EXCEPT !.head = h]
      BY <3>1 DEF SoundDraft, Req!Draft
    <3>3. d \in SoundDraft
      BY <2>1, <3>1, HeadSound
    <3>4. parsed = [q EXCEPT !.draft = d]
      BY <3>2
    <3> HIDE DEF d, parsed
    <3> QED
      BY <3>3, <3>4, DraftSound
  <2>3. Req!ParseHead(q, block, terminated) \in
          {Req!Fail(parsed, TRUE), Req!Finalize(parsed, FALSE), Req!Fail(parsed, FALSE),
           Req!PlanBody(parsed)}
    <3>1. [q EXCEPT !.draft.head = h,
                    !.draft.method = IF FALSE THEN Head(q.methods) ELSE @,
                    !.methods = IF FALSE THEN Tail(@) ELSE @] = parsed
      BY DEF SoundParser, SoundDraft, Req!Draft
    <3> QED
      BY <1>3, <3>1 DEF Req!ParseHead
  <2> HIDE DEF parsed
  <2> QED
    BY <2>2, <2>3, EndsSound, PlanSound
<1> QED
  BY <1>2, <1>3

LEMMA RespHeadSound ==
  ASSUME NEW q \in SoundParser, NEW block \in Seq(Req!Byte), NEW terminated \in BOOLEAN
  PROVE  /\ Resp!ParseHead(q, block, terminated) \in SoundParser
         /\ Fewer(Resp!ParseHead(q, block, terminated).methods, q.methods)
<1> DEFINE h == block[1].head
           takes == h.status # "info" /\ q.methods # <<>>
           parsed == [q EXCEPT !.draft.head = h,
                               !.draft.method = IF takes THEN Head(q.methods) ELSE @,
                               !.methods = IF takes THEN Tail(@) ELSE @]
<1>1. Resp!Fail(q, FALSE) \in SoundParser /\ Resp!Fail(q, FALSE).methods = q.methods
  BY EndsSound
<1>2. CASE ~Resp!At(block, 0, <<"s1", "s2">>) \/ h.fault = "start"
  BY <1>1, <1>2 DEF Resp!ParseHead, Fewer
<1>3. CASE Resp!At(block, 0, <<"s1", "s2">>) /\ h.fault # "start"
  <2>1. h \in Req!Heading
    <3>1. 1 \in 1..Len(block)
      BY <1>3 DEF Resp!At
    <3>2. block[1] \in Req!Byte
      BY <3>1, ElementOfSeq, Zenon
    <3> QED
      BY <3>2 DEF Req!Byte
  <2>2. parsed \in SoundParser /\ Fewer(parsed.methods, q.methods)
    <3>1. takes \in BOOLEAN /\ (takes => q.methods # <<>>)
      OBVIOUS
    <3>2. parsed \in SoundParser
          /\ parsed.methods = IF takes THEN Tail(q.methods) ELSE q.methods
      <4> HIDE DEF takes
      <4> QED
        BY <2>1, <3>1, ParsedSound
    <3> QED
      BY <3>1, <3>2 DEF Fewer
  <2>3. Resp!ParseHead(q, block, terminated) \in
          {Resp!Fail(parsed, TRUE), Resp!Finalize(parsed, FALSE), Resp!Fail(parsed, FALSE),
           Resp!PlanBody(parsed)}
    BY <1>3 DEF Resp!ParseHead
  <2> HIDE DEF parsed
  <2> QED
    BY <2>2, <2>3, EndsSound, PlanSound
<1> QED
  BY <1>2, <1>3

-----------------------------------------------------------------------------
(* Where a head and a line end.                                            *)
LEMMA HeadEndIs ==
  ASSUME NEW q \in SoundParser
  PROVE  /\ Req!HeadEnded(q) => Req!HeadEnd(q) \in 0..Len(q.buf)
         /\ Resp!HeadEnded(q) => Resp!HeadEnd(q) \in 0..Len(q.buf)
<1>1. q.scan \in Nat /\ Len(q.buf) \in Nat
  BY DEF SoundParser
<1>2. ASSUME Req!HeadEnded(q) PROVE Req!HeadEnd(q) \in 0..Len(q.buf)
  <2> DEFINE S == {i \in q.scan..Len(q.buf) : Req!EmptyLineAt(q.buf, i)}
  <2>1. S \in SUBSET Nat /\ S # {}
    BY <1>1, <1>2 DEF Req!HeadEnded
  <2> HIDE DEF S
  <2>2. PICK i \in S : \A j \in S : i <= j
    BY <2>1, Least
  <2>3. \A j \in q.scan..(i - 1) : ~Req!EmptyLineAt(q.buf, j)
    BY <1>1, <2>2 DEF S
  <2>4. \E k \in q.scan..Len(q.buf) : /\ Req!EmptyLineAt(q.buf, k)
                                     /\ \A j \in q.scan..(k - 1) : ~Req!EmptyLineAt(q.buf, j)
    BY <2>2, <2>3 DEF S
  <2>5. Req!HeadEnd(q) \in q.scan..Len(q.buf)
    BY <2>4 DEF Req!HeadEnd
  <2> QED
    BY <1>1, <2>5
<1>3. ASSUME Resp!HeadEnded(q) PROVE Resp!HeadEnd(q) \in 0..Len(q.buf)
  <2> DEFINE S == {i \in q.scan..Len(q.buf) : Resp!EmptyLineAt(q.buf, i)}
  <2>1. S \in SUBSET Nat /\ S # {}
    BY <1>1, <1>3 DEF Resp!HeadEnded
  <2> HIDE DEF S
  <2>2. PICK i \in S : \A j \in S : i <= j
    BY <2>1, Least
  <2>3. \A j \in q.scan..(i - 1) : ~Resp!EmptyLineAt(q.buf, j)
    BY <1>1, <2>2 DEF S
  <2>4. \E k \in q.scan..Len(q.buf) : /\ Resp!EmptyLineAt(q.buf, k)
                                     /\ \A j \in q.scan..(k - 1) : ~Resp!EmptyLineAt(q.buf, j)
    BY <2>2, <2>3 DEF S
  <2>5. Resp!HeadEnd(q) \in q.scan..Len(q.buf)
    BY <2>4 DEF Resp!HeadEnd
  <2> QED
    BY <1>1, <2>5
<1> QED
  BY <1>2, <1>3

LEMMA LineIs ==
  ASSUME NEW b \in Seq(Req!Byte), Req!HasLine(b)
  PROVE  Req!LineLen(b) \in 1..Len(b) /\ Req!RawLine(b) \in Seq(Req!Byte)
<1> DEFINE S == {i \in 1..Len(b) : b[i].k = "lf"}
<1>1. S \in SUBSET Nat /\ S # {} /\ Len(b) \in Nat
  BY DEF Req!HasLine
<1> HIDE DEF S
<1>2. PICK i \in S : \A j \in S : i <= j
  BY <1>1, Least
<1>3. \E k \in 1..Len(b) : b[k].k = "lf" /\ \A j \in 1..(k - 1) : b[j].k # "lf"
  BY <1>1, <1>2 DEF S
<1>4. Req!LineLen(b) \in 1..Len(b)
  BY <1>3 DEF Req!LineLen
<1>5. \A n \in 0..Len(b) : SubSeq(b, 1, n) \in Seq(Req!Byte)
  OBVIOUS
<1>6. Req!RawLine(b) \in Seq(Req!Byte)
  <2> DEFINE l == Req!LineLen(b) - 1
             n == IF l > 0 /\ b[l].k = "cr" THEN l - 1 ELSE l
  <2>1. n \in 0..Len(b)
    BY <1>1, <1>4
  <2>2. Req!RawLine(b) = SubSeq(b, 1, n)
    BY DEF Req!RawLine
  <2> HIDE DEF n
  <2> QED
    BY <1>5, <2>1, <2>2
<1> QED
  BY <1>4, <1>6

(* The steps of the loop that change the parser's own bookkeeping.         *)
LEMMA LoopSound ==
  ASSUME NEW q \in SoundParser
  PROVE  /\ \A scan \in Nat : /\ [q EXCEPT !.scan = scan] \in SoundParser
                              /\ [q EXCEPT !.scan = scan].methods = q.methods
                              /\ [q EXCEPT !.run = FALSE, !.scan = scan] \in SoundParser
                              /\ [q EXCEPT !.run = FALSE, !.scan = scan].methods = q.methods
         /\ [q EXCEPT !.run = FALSE] \in SoundParser
         /\ [q EXCEPT !.run = FALSE].methods = q.methods
  BY DEF SoundParser

LEMMA BodySound ==
  ASSUME NEW q \in SoundParser
  PROVE  Req!Taken(q) \in SoundParser /\ Req!Taken(q).methods = q.methods
<1> DEFINE left == q.draft.remaining
           n == IF left < Len(q.buf) THEN left ELSE Len(q.buf)
           r == Req!AppendBody(Req!Consume(q, n), n)
<1>1. left \in Nat /\ Len(q.buf) \in Nat
  BY DEF SoundParser, SoundDraft, Req!Draft
<1>2. n \in Nat /\ left - n \in Nat
  BY <1>1
<1>3. Req!Taken(q) = [r EXCEPT !.draft.remaining = @ - n]
  BY DEF Req!Taken
<1> HIDE DEF n
<1>4. Req!Consume(q, n) \in SoundParser /\ Req!Consume(q, n).methods = q.methods
  BY <1>2, ConsumeSound, MethodsStay
<1>5. r \in SoundParser /\ r.methods = q.methods
  BY <1>2, <1>4, AppendBodySound, MethodsStay
<1>6. r.draft.remaining = left
  <2>1. Req!Consume(q, n).draft = q.draft
    BY DEF Req!Consume, SoundParser
  <2>2. \A c \in SoundParser : Req!AppendBody(c, n).draft.remaining = c.draft.remaining
    BY DEF Req!AppendBody, SoundParser, SoundDraft, Req!Draft
  <2> QED
    BY <1>4, <2>1, <2>2
<1> HIDE DEF r, left
<1>7. [r EXCEPT !.draft.remaining = @ - n] = [r EXCEPT !.draft.remaining = left - n]
  BY <1>6
<1> QED
  BY <1>2, <1>3, <1>5, <1>7, RemainingSound

LEMMA ChunkSound ==
  ASSUME NEW q \in SoundParser, NEW n \in Nat
  PROVE  LET r == [q EXCEPT !.state = "chunk_data", !.draft.remaining = n,
                            !.draft.truncated = @ \/ n > MaxBody]
             s == [q EXCEPT !.state = "chunk_trailer", !.draft.remaining = 0]
         IN  r \in SoundParser /\ r.methods = q.methods
             /\ s \in SoundParser /\ s.methods = q.methods
<1> DEFINE a == [q EXCEPT !.state = "chunk_data"]
           b == [a EXCEPT !.draft.remaining = n]
           d == [b.draft EXCEPT !.truncated = @ \/ n > MaxBody]
           c == [b EXCEPT !.draft = d]
           e == [q EXCEPT !.state = "chunk_trailer"]
<1>1. a \in SoundParser /\ a.methods = q.methods
  BY StateSound DEF Req!States
<1>2. b \in SoundParser /\ b.methods = q.methods
  <2> HIDE DEF a
  <2> QED
    BY <1>1, RemainingSound
<1>3. d \in SoundDraft
  <2>1. (n > MaxBody) \in BOOLEAN
    OBVIOUS
  <2>2. b.draft \in SoundDraft
    BY <1>2 DEF SoundParser
  <2> HIDE DEF b
  <2> QED
    BY <2>1, <2>2, TruncatedSound
<1>4. c \in SoundParser /\ c.methods = q.methods
  <2> HIDE DEF b, d
  <2> QED
    BY <1>2, <1>3, DraftSound
<1>5. [q EXCEPT !.state = "chunk_data", !.draft.remaining = n,
                !.draft.truncated = @ \/ n > MaxBody] = c
  BY DEF SoundParser, SoundDraft, Req!Draft
<1>6. e \in SoundParser /\ e.methods = q.methods
  BY StateSound DEF Req!States
<1>7. [e EXCEPT !.draft.remaining = 0] \in SoundParser
      /\ [e EXCEPT !.draft.remaining = 0].methods = q.methods
  <2> HIDE DEF e
  <2> QED
    BY <1>6, RemainingSound
<1> HIDE DEF c
<1> QED
  BY <1>4, <1>5, <1>7

(* The same for what both parsers do.                                      *)
LEMMA MovedSound ==
  ASSUME NEW q \in SoundParser
  PROVE  /\ \A n \in Nat :
              /\ Req!Consume(q, n) \in SoundParser /\ Req!Consume(q, n).methods = q.methods
              /\ Resp!Consume(q, n) \in SoundParser /\ Resp!Consume(q, n).methods = q.methods
              /\ Req!AppendBody(q, n) \in SoundParser
              /\ Req!AppendBody(q, n).methods = q.methods
              /\ Resp!AppendBody(q, n) \in SoundParser
              /\ Resp!AppendBody(q, n).methods = q.methods
         /\ Req!Taken(q) \in SoundParser /\ Req!Taken(q).methods = q.methods
         /\ Resp!Taken(q) \in SoundParser /\ Resp!Taken(q).methods = q.methods
<1>1. ASSUME NEW n \in Nat
      PROVE  /\ Req!Consume(q, n) \in SoundParser /\ Req!Consume(q, n).methods = q.methods
             /\ Req!AppendBody(q, n) \in SoundParser /\ Req!AppendBody(q, n).methods = q.methods
  BY ConsumeSound, AppendBodySound, MethodsStay
<1>2. /\ \A n : Resp!Consume(q, n) = Req!Consume(q, n)
      /\ \A n : Resp!AppendBody(q, n) = Req!AppendBody(q, n)
      /\ Resp!Taken(q) = Req!Taken(q)
  BY SameOperators, Zenon
<1>3. Req!Taken(q) \in SoundParser /\ Req!Taken(q).methods = q.methods
  BY BodySound
<1> QED
  BY <1>1, <1>2, <1>3

LEMMA LineSound ==
  ASSUME NEW b \in Seq(Req!Byte)
  PROVE  /\ Req!HasLine(b) => Req!LineLen(b) \in Nat /\ Req!RawLine(b) \in Seq(Req!Byte)
         /\ Resp!HasLine(b) => Resp!LineLen(b) \in Nat /\ Resp!RawLine(b) \in Seq(Req!Byte)
<1>1. /\ Resp!RawLine(b) = Req!RawLine(b) /\ Resp!LineLen(b) = Req!LineLen(b)
      /\ Resp!HasLine(b) = Req!HasLine(b)
  BY SamePlaces, Zenon
<1>2. ASSUME Req!HasLine(b)
      PROVE  Req!LineLen(b) \in Nat /\ Req!RawLine(b) \in Seq(Req!Byte)
  BY <1>2, LineIs
<1> QED
  BY <1>1, <1>2

(* One round of the loop of _run, in the request parser ...                *)
LEMMA ReqAdvance ==
  ASSUME client \in SoundParser, Req!Advance
  PROVE  client' \in SoundParser /\ client'.methods = client.methods
<1> DEFINE b == client.buf
<1>0. b \in Seq(Req!Byte) /\ Len(b) \in Nat /\ client.scan \in Nat
  BY DEF SoundParser
<1>1. CASE Req!SkipEmptyLine
  <2>1. \A n \in Nat : Req!Consume(client, n) \in SoundParser /\ Req!Consume(client, n).methods = client.methods
    BY MovedSound
  <2>2. client' = Req!Consume(client, 1) \/ client' = Req!Consume(client, 2)
    BY <1>1 DEF Req!SkipEmptyLine
  <2> QED
    BY <2>1, <2>2
<1>2. CASE Req!AdvanceHead
  <2> DEFINE i == Req!HeadEnd(client)
             n == i + (IF Req!At(b, i, Req!LF) THEN 2 ELSE 4)
             c == Req!Consume(client, n)
             r == [c EXCEPT !.scan = 0]
             block == SubSeq(b, 1, i)
  <2>1. i \in 0..Len(b)
    BY <1>2, HeadEndIs DEF Req!AdvanceHead
  <2>2. n \in Nat /\ block \in Seq(Req!Byte)
    <3>1. n \in Nat
      <4> HIDE DEF i, b
      <4> QED
        BY <1>0, <2>1
    <3>2. \A k \in 0..Len(b) : SubSeq(b, 1, k) \in Seq(Req!Byte)
      <4> HIDE DEF b
      <4>1. ASSUME NEW k \in 0..Len(b) PROVE SubSeq(b, 1, k) \in Seq(Req!Byte)
        BY <1>0
      <4> QED
        BY <4>1
    <3> HIDE DEF i
    <3> QED
      BY <2>1, <3>1, <3>2
  <2>3. client' = Req!Fail(client, FALSE) \/ client' = Req!ParseHead(r, block, TRUE)
    BY <1>2 DEF Req!AdvanceHead
  <2> HIDE DEF n, i, block
  <2>4. c \in SoundParser /\ c.methods = client.methods
    BY <2>2, MovedSound
  <2> HIDE DEF c
  <2>5. r \in SoundParser /\ r.methods = client.methods
    BY <2>4, LoopSound
  <2> HIDE DEF r
  <2>6. CASE client' = Req!Fail(client, FALSE)
    BY <2>6, EndsSound
  <2>7. CASE client' = Req!ParseHead(r, block, TRUE)
    <3>1. client' \in SoundParser /\ client'.methods = r.methods
      BY <2>2, <2>5, <2>7, ReqHeadSound
    <3> QED
      BY <2>5, <3>1
  <2> QED
    BY <2>3, <2>6, <2>7
<1>3. CASE Req!HeadTooLarge
  BY <1>3, EndsSound DEF Req!HeadTooLarge
<1>4. CASE Req!HeadAtEof
  <2> DEFINE c == Req!Consume(client, Len(b))
             h == Req!ParseHead(c, b, FALSE)
  <2>1. c \in SoundParser /\ c.methods = client.methods
    BY <1>0, MovedSound
  <2>2. h \in SoundParser /\ h.methods = client.methods
    <3> HIDE DEF c
    <3> QED
      BY <1>0, <2>1, ReqHeadSound
  <2>3. client' = [h EXCEPT !.run = FALSE]
    BY <1>4 DEF Req!HeadAtEof
  <2> HIDE DEF h
  <2> QED
    BY <2>2, <2>3, LoopSound
<1>5. CASE Req!AdvanceFixedBody
  <2>1. Req!Taken(client) \in SoundParser /\ Req!Taken(client).methods = client.methods
    BY MovedSound
  <2>2. client' = Req!Taken(client) \/ client' = Req!Finalize(Req!Taken(client), TRUE)
    BY <1>5 DEF Req!AdvanceFixedBody
  <2> QED
    BY <2>1, <2>2, EndsSound
<1>6. CASE Req!AdvanceChunkSize
  <2> DEFINE c == Req!Consume(client, Req!LineLen(b))
             raw == Req!RawLine(b)
             n == raw[1].n
             d == [c EXCEPT !.state = "chunk_data", !.draft.remaining = n,
                            !.draft.truncated = @ \/ n > MaxBody]
             e == [c EXCEPT !.state = "chunk_trailer", !.draft.remaining = 0]
  <2>1. Req!LineLen(b) \in Nat /\ raw \in Seq(Req!Byte)
    BY <1>0, <1>6, LineSound DEF Req!AdvanceChunkSize
  <2>2. c \in SoundParser /\ c.methods = client.methods
    BY <2>1, MovedSound
  <2>3. \/ client' = Req!Fail(c, TRUE)
        \/ Req!At(raw, 0, <<"size">>) /\ (client' = e \/ client' = d)
    <3>1. Len(raw) \in Nat /\ MaxChunkLine \in Nat
      BY <2>1, Limits
    <3>2. Len(raw) > MaxChunkLine \/ Len(raw) <= MaxChunkLine
      BY <3>1
    <3>3. client' = CASE Len(raw) > MaxChunkLine -> Req!Fail(c, TRUE)
                   [] Len(raw) <= MaxChunkLine /\ ~Req!At(raw, 0, <<"size">>) -> Req!Fail(c, TRUE)
                   [] OTHER -> IF n = 0 THEN e ELSE d
      BY <1>6 DEF Req!AdvanceChunkSize
    <3> HIDE DEF raw, c, n, d, e
    <3> QED
      BY <3>2, <3>3
  <2> HIDE DEF c
  <2>4. CASE client' = Req!Fail(c, TRUE)
    BY <2>2, <2>4, EndsSound
  <2>5. CASE Req!At(raw, 0, <<"size">>) /\ (client' = e \/ client' = d)
    <3>1. n \in Nat
      <4> HIDE DEF raw
      <4>1. 1 \in 1..Len(raw)
        BY <2>1, <2>5 DEF Req!At
      <4>2. raw[1] \in Req!Byte
        BY <2>1, <4>1, ElementOfSeq, Zenon
      <4> QED
        BY <4>2 DEF Req!Byte
    <3> HIDE DEF n
    <3>2. /\ d \in SoundParser /\ d.methods = c.methods
          /\ e \in SoundParser /\ e.methods = c.methods
      BY <2>2, <3>1, ChunkSound
    <3> QED
      BY <2>2, <2>5, <3>2
  <2> QED
    BY <2>3, <2>4, <2>5
<1>7. CASE Req!AdvanceChunkData
  <2>1. Req!Taken(client) \in SoundParser /\ Req!Taken(client).methods = client.methods
    BY MovedSound
  <2>2. client' = Req!Taken(client) \/ client' = [Req!Taken(client) EXCEPT !.state = "chunk_data_crlf"]
    BY <1>7 DEF Req!AdvanceChunkData
  <2>3. "chunk_data_crlf" \in Req!States
    BY DEF Req!States
  <2> QED
    BY <2>1, <2>2, <2>3, StateSound
<1>8. CASE Req!AdvanceChunkDataCrlf
  <2> DEFINE c(n) == Req!Consume(client, n)
  <2>1. \A n \in Nat : c(n) \in SoundParser /\ c(n).methods = client.methods
    BY MovedSound
  <2>2. \/ client' = Req!Fail(client, TRUE)
        \/ \E n \in {1, 2} : client' = [c(n) EXCEPT !.state = "chunk_size"]
    BY <1>8 DEF Req!AdvanceChunkDataCrlf
  <2>3. "chunk_size" \in Req!States
    BY DEF Req!States
  <2>4. CASE client' = Req!Fail(client, TRUE)
    BY <2>4, EndsSound
  <2>5. ASSUME NEW n \in {1, 2}, client' = [c(n) EXCEPT !.state = "chunk_size"]
        PROVE  client' \in SoundParser /\ client'.methods = client.methods
    <3>1. c(n) \in SoundParser /\ c(n).methods = client.methods
      BY <2>1
    <3> HIDE DEF c
    <3> QED
      BY <2>3, <2>5, <3>1, StateSound
  <2> QED
    BY <2>2, <2>4, <2>5
<1>9. CASE Req!AdvanceChunkTrailer
  <2> DEFINE size == Req!LineLen(b)
             c == Req!Consume(client, size)
             t == [c EXCEPT !.draft.trailer = @ + size]
  <2>1. size \in Nat
    BY <1>0, <1>9, LineSound DEF Req!AdvanceChunkTrailer
  <2>2. client' = Req!Finalize(t, TRUE) \/ client' = Req!Fail(t, TRUE) \/ client' = t
    BY <1>9 DEF Req!AdvanceChunkTrailer
  <2> HIDE DEF size
  <2>3. c \in SoundParser /\ c.methods = client.methods
    BY <2>1, MovedSound
  <2> HIDE DEF c
  <2>4. t \in SoundParser /\ t.methods = client.methods
    BY <2>1, <2>3, TrailerSound
  <2> HIDE DEF t
  <2> QED
    BY <2>2, <2>4, EndsSound
<1>10. CASE Req!LineTooLarge
  BY <1>10, EndsSound DEF Req!LineTooLarge
<1>11. CASE Req!AdvanceEofBody
  <2>1. Req!Consume(client, Len(b)) \in SoundParser
        /\ Req!Consume(client, Len(b)).methods = client.methods
    BY <1>0, MovedSound
  <2>2. client' = Req!AppendBody(Req!Consume(client, Len(b)), Len(b))
    BY <1>11 DEF Req!AdvanceEofBody
  <2> HIDE DEF b
  <2> QED
    BY <1>0, <2>1, <2>2, MovedSound
<1>12. CASE Req!Stop
  <2> DEFINE complete == client.state = "eof_body"
             f == Req!Finalize(client, complete)
             scan == IF client.state = "start" /\ b # <<>> THEN Req!ScanFrom(b) ELSE client.scan
  <2>1. complete \in BOOLEAN /\ scan \in Nat
    BY <1>0 DEF Req!ScanFrom
  <2>2. f \in SoundParser /\ f.methods = client.methods
    <3> HIDE DEF complete
    <3> QED
      BY <2>1, EndsSound
  <2>3. f.scan = client.scan
    BY DEF Req!Finalize, SoundParser
  <2>4. client' = [client EXCEPT !.run = FALSE, !.scan = scan]
        \/ client' = [f EXCEPT !.run = FALSE, !.scan = scan]
    <3> HIDE DEF f
    <3>1. \/ client' = [client EXCEPT !.run = FALSE,
                              !.scan = IF client.state = "start" /\ b # <<>> THEN Req!ScanFrom(b) ELSE @]
          \/ client' = [f EXCEPT !.run = FALSE,
                           !.scan = IF client.state = "start" /\ b # <<>> THEN Req!ScanFrom(b) ELSE @]
      BY <1>12 DEF Req!Stop, f
    <3>2. CASE client' = [client EXCEPT !.run = FALSE,
                              !.scan = IF client.state = "start" /\ b # <<>> THEN Req!ScanFrom(b) ELSE @]
      BY <3>2
    <3>3. CASE client' = [f EXCEPT !.run = FALSE,
                           !.scan = IF client.state = "start" /\ b # <<>> THEN Req!ScanFrom(b) ELSE @]
      BY <2>2, <2>3, <3>3 DEF SoundParser
    <3> QED
      BY <3>1, <3>2, <3>3
  <2> HIDE DEF f, scan
  <2>5. CASE client' = [client EXCEPT !.run = FALSE, !.scan = scan]
    BY <1>0, <2>1, <2>5, LoopSound
  <2>6. CASE client' = [f EXCEPT !.run = FALSE, !.scan = scan]
    BY <2>1, <2>2, <2>6, LoopSound
  <2> QED
    BY <2>4, <2>5, <2>6
<1> QED
  BY <1>1, <1>2, <1>3, <1>4, <1>5, <1>6, <1>7, <1>8, <1>9, <1>10, <1>11, <1>12
     DEF Req!Advance

(* ... and in the response parser.                                         *)
LEMMA RespAdvance ==
  ASSUME server \in SoundParser, Resp!Advance
  PROVE  server' \in SoundParser /\ Fewer(server'.methods, server.methods)
<1> DEFINE b == server.buf
<1>0. b \in Seq(Req!Byte) /\ Len(b) \in Nat /\ server.scan \in Nat
  BY DEF SoundParser
<1>1. CASE Resp!SkipEmptyLine
  <2>1. \A n \in Nat : Resp!Consume(server, n) \in SoundParser /\ Resp!Consume(server, n).methods = server.methods
    BY MovedSound
  <2>2. server' = Resp!Consume(server, 1) \/ server' = Resp!Consume(server, 2)
    BY <1>1 DEF Resp!SkipEmptyLine
  <2> QED
    BY <2>1, <2>2 DEF Fewer
<1>2. CASE Resp!AdvanceHead
  <2> DEFINE i == Resp!HeadEnd(server)
             n == i + (IF Resp!At(b, i, Resp!LF) THEN 2 ELSE 4)
             c == Resp!Consume(server, n)
             r == [c EXCEPT !.scan = 0]
             block == SubSeq(b, 1, i)
  <2>1. i \in 0..Len(b)
    BY <1>2, HeadEndIs DEF Resp!AdvanceHead
  <2>2. n \in Nat /\ block \in Seq(Req!Byte)
    <3>1. n \in Nat
      <4> HIDE DEF i, b
      <4> QED
        BY <1>0, <2>1
    <3>2. \A k \in 0..Len(b) : SubSeq(b, 1, k) \in Seq(Req!Byte)
      <4> HIDE DEF b
      <4>1. ASSUME NEW k \in 0..Len(b) PROVE SubSeq(b, 1, k) \in Seq(Req!Byte)
        BY <1>0
      <4> QED
        BY <4>1
    <3> HIDE DEF i
    <3> QED
      BY <2>1, <3>1, <3>2
  <2>3. server' = Resp!Fail(server, FALSE) \/ server' = Resp!ParseHead(r, block, TRUE)
    BY <1>2 DEF Resp!AdvanceHead
  <2> HIDE DEF n, i, block
  <2>4. c \in SoundParser /\ c.methods = server.methods
    BY <2>2, MovedSound
  <2> HIDE DEF c
  <2>5. r \in SoundParser /\ r.methods = server.methods
    BY <2>4, LoopSound
  <2> HIDE DEF r
  <2>6. CASE server' = Resp!Fail(server, FALSE)
    BY <2>6, EndsSound DEF Fewer
  <2>7. CASE server' = Resp!ParseHead(r, block, TRUE)
    <3>1. server' \in SoundParser /\ Fewer(server'.methods, r.methods)
      BY <2>2, <2>5, <2>7, RespHeadSound
    <3> QED
      BY <2>5, <3>1
  <2> QED
    BY <2>3, <2>6, <2>7
<1>3. CASE Resp!HeadTooLarge
  BY <1>3, EndsSound DEF Resp!HeadTooLarge, Fewer
<1>4. CASE Resp!HeadAtEof
  <2> DEFINE c == Resp!Consume(server, Len(b))
             h == Resp!ParseHead(c, b, FALSE)
  <2>1. c \in SoundParser /\ c.methods = server.methods
    BY <1>0, MovedSound
  <2>2. h \in SoundParser /\ Fewer(h.methods, server.methods)
    <3> HIDE DEF c
    <3> QED
      BY <1>0, <2>1, RespHeadSound
  <2>3. server' = [h EXCEPT !.run = FALSE]
    BY <1>4 DEF Resp!HeadAtEof
  <2> HIDE DEF h
  <2> QED
    BY <2>2, <2>3, LoopSound
<1>5. CASE Resp!AdvanceFixedBody
  <2>1. Resp!Taken(server) \in SoundParser /\ Resp!Taken(server).methods = server.methods
    BY MovedSound
  <2>2. server' = Resp!Taken(server) \/ server' = Resp!Finalize(Resp!Taken(server), TRUE)
    BY <1>5 DEF Resp!AdvanceFixedBody
  <2> QED
    BY <2>1, <2>2, EndsSound DEF Fewer
<1>6. CASE Resp!AdvanceChunkSize
  <2> DEFINE c == Resp!Consume(server, Resp!LineLen(b))
             raw == Resp!RawLine(b)
             n == raw[1].n
             d == [c EXCEPT !.state = "chunk_data", !.draft.remaining = n,
                            !.draft.truncated = @ \/ n > MaxBody]
             e == [c EXCEPT !.state = "chunk_trailer", !.draft.remaining = 0]
  <2>1. Resp!LineLen(b) \in Nat /\ raw \in Seq(Req!Byte)
    BY <1>0, <1>6, LineSound DEF Resp!AdvanceChunkSize
  <2>2. c \in SoundParser /\ c.methods = server.methods
    BY <2>1, MovedSound
  <2>3. \/ server' = Resp!Fail(c, TRUE)
        \/ Resp!At(raw, 0, <<"size">>) /\ (server' = e \/ server' = d)
    <3>1. Len(raw) \in Nat /\ MaxChunkLine \in Nat
      BY <2>1, Limits
    <3>2. Len(raw) > MaxChunkLine \/ Len(raw) <= MaxChunkLine
      BY <3>1
    <3>3. server' = CASE Len(raw) > MaxChunkLine -> Resp!Fail(c, TRUE)
                   [] Len(raw) <= MaxChunkLine /\ ~Resp!At(raw, 0, <<"size">>) -> Resp!Fail(c, TRUE)
                   [] OTHER -> IF n = 0 THEN e ELSE d
      BY <1>6 DEF Resp!AdvanceChunkSize
    <3> HIDE DEF raw, c, n, d, e
    <3> QED
      BY <3>2, <3>3
  <2> HIDE DEF c
  <2>4. CASE server' = Resp!Fail(c, TRUE)
    BY <2>2, <2>4, EndsSound DEF Fewer
  <2>5. CASE Resp!At(raw, 0, <<"size">>) /\ (server' = e \/ server' = d)
    <3>1. n \in Nat
      <4> HIDE DEF raw
      <4>1. 1 \in 1..Len(raw)
        BY <2>1, <2>5 DEF Resp!At
      <4>2. raw[1] \in Req!Byte
        BY <2>1, <4>1, ElementOfSeq, Zenon
      <4> QED
        BY <4>2 DEF Req!Byte
    <3> HIDE DEF n
    <3>2. /\ d \in SoundParser /\ d.methods = c.methods
          /\ e \in SoundParser /\ e.methods = c.methods
      BY <2>2, <3>1, ChunkSound
    <3> QED
      BY <2>2, <2>5, <3>2 DEF Fewer
  <2> QED
    BY <2>3, <2>4, <2>5
<1>7. CASE Resp!AdvanceChunkData
  <2>1. Resp!Taken(server) \in SoundParser /\ Resp!Taken(server).methods = server.methods
    BY MovedSound
  <2>2. server' = Resp!Taken(server) \/ server' = [Resp!Taken(server) EXCEPT !.state = "chunk_data_crlf"]
    BY <1>7 DEF Resp!AdvanceChunkData
  <2>3. "chunk_data_crlf" \in Req!States
    BY DEF Req!States
  <2> QED
    BY <2>1, <2>2, <2>3, StateSound DEF Fewer
<1>8. CASE Resp!AdvanceChunkDataCrlf
  <2> DEFINE c(n) == Resp!Consume(server, n)
  <2>1. \A n \in Nat : c(n) \in SoundParser /\ c(n).methods = server.methods
    BY MovedSound
  <2>2. \/ server' = Resp!Fail(server, TRUE)
        \/ \E n \in {1, 2} : server' = [c(n) EXCEPT !.state = "chunk_size"]
    BY <1>8 DEF Resp!AdvanceChunkDataCrlf
  <2>3. "chunk_size" \in Req!States
    BY DEF Req!States
  <2>4. CASE server' = Resp!Fail(server, TRUE)
    BY <2>4, EndsSound DEF Fewer
  <2>5. ASSUME NEW n \in {1, 2}, server' = [c(n) EXCEPT !.state = "chunk_size"]
        PROVE  server' \in SoundParser /\ Fewer(server'.methods, server.methods)
    <3>1. c(n) \in SoundParser /\ c(n).methods = server.methods
      BY <2>1
    <3> HIDE DEF c
    <3> QED
      BY <2>3, <2>5, <3>1, StateSound DEF Fewer
  <2> QED
    BY <2>2, <2>4, <2>5
<1>9. CASE Resp!AdvanceChunkTrailer
  <2> DEFINE size == Resp!LineLen(b)
             c == Resp!Consume(server, size)
             t == [c EXCEPT !.draft.trailer = @ + size]
  <2>1. size \in Nat
    BY <1>0, <1>9, LineSound DEF Resp!AdvanceChunkTrailer
  <2>2. server' = Resp!Finalize(t, TRUE) \/ server' = Resp!Fail(t, TRUE) \/ server' = t
    BY <1>9 DEF Resp!AdvanceChunkTrailer
  <2> HIDE DEF size
  <2>3. c \in SoundParser /\ c.methods = server.methods
    BY <2>1, MovedSound
  <2> HIDE DEF c
  <2>4. t \in SoundParser /\ t.methods = server.methods
    BY <2>1, <2>3, TrailerSound
  <2> HIDE DEF t
  <2> QED
    BY <2>2, <2>4, EndsSound DEF Fewer
<1>10. CASE Resp!LineTooLarge
  BY <1>10, EndsSound DEF Resp!LineTooLarge, Fewer
<1>11. CASE Resp!AdvanceEofBody
  <2>1. Resp!Consume(server, Len(b)) \in SoundParser
        /\ Resp!Consume(server, Len(b)).methods = server.methods
    BY <1>0, MovedSound
  <2>2. server' = Resp!AppendBody(Resp!Consume(server, Len(b)), Len(b))
    BY <1>11 DEF Resp!AdvanceEofBody
  <2> HIDE DEF b
  <2> QED
    BY <1>0, <2>1, <2>2, MovedSound DEF Fewer
<1>12. CASE Resp!Stop
  <2> DEFINE complete == server.state = "eof_body"
             f == Resp!Finalize(server, complete)
             scan == IF server.state = "start" /\ b # <<>> THEN Resp!ScanFrom(b) ELSE server.scan
  <2>1. complete \in BOOLEAN /\ scan \in Nat
    BY <1>0 DEF Resp!ScanFrom
  <2>2. f \in SoundParser /\ f.methods = server.methods
    <3> HIDE DEF complete
    <3> QED
      BY <2>1, EndsSound
  <2>3. f.scan = server.scan
    BY DEF Resp!Finalize, SoundParser
  <2>4. server' = [server EXCEPT !.run = FALSE, !.scan = scan]
        \/ server' = [f EXCEPT !.run = FALSE, !.scan = scan]
    <3> HIDE DEF f
    <3>1. \/ server' = [server EXCEPT !.run = FALSE,
                              !.scan = IF server.state = "start" /\ b # <<>> THEN Resp!ScanFrom(b) ELSE @]
          \/ server' = [f EXCEPT !.run = FALSE,
                           !.scan = IF server.state = "start" /\ b # <<>> THEN Resp!ScanFrom(b) ELSE @]
      BY <1>12 DEF Resp!Stop, f
    <3>2. CASE server' = [server EXCEPT !.run = FALSE,
                              !.scan = IF server.state = "start" /\ b # <<>> THEN Resp!ScanFrom(b) ELSE @]
      BY <3>2
    <3>3. CASE server' = [f EXCEPT !.run = FALSE,
                           !.scan = IF server.state = "start" /\ b # <<>> THEN Resp!ScanFrom(b) ELSE @]
      BY <2>2, <2>3, <3>3 DEF SoundParser
    <3> QED
      BY <3>1, <3>2, <3>3
  <2> HIDE DEF f, scan
  <2> QED
    BY <2>1, <2>2, <2>4, LoopSound DEF Fewer
<1> QED
  BY <1>1, <1>2, <1>3, <1>4, <1>5, <1>6, <1>7, <1>8, <1>9, <1>10, <1>11, <1>12
     DEF Resp!Advance

-----------------------------------------------------------------------------
(* The columns of the records.                                             *)
RequestColumn  == [i \in 1..Len(records) |-> records[i].request]
ResponseColumn == [i \in 1..Len(records) |-> records[i].response]
FinalColumn(messages) ==
  [i \in 1..Len(messages) |->
     IF messages[i].head.status = "info" THEN None ELSE messages[i]]

LEMMA NoneIsNoMessage == None \notin Req!Message
<1>1. \A m \in Req!Message : m.complete \in BOOLEAN /\ DOMAIN m = {"head", "complete", "got", "kept", "truncated"}
  BY DEF Req!Message
<1>2. DOMAIN None = {"none"}
  BY DEF None
<1> QED
  BY <1>1, <1>2

LEMMA RecordsTyped ==
  ASSUME records \in Seq(Record)
  PROVE  /\ RequestColumn \in Seq(Req!Message \cup {None})
         /\ ResponseColumn \in Seq(Req!Message \cup {None})
         /\ Requests \in Seq(Req!Message) /\ Responses \in Seq(Req!Message)
<1>1. \A i \in 1..Len(records) : records[i] \in Record
  OBVIOUS
<1>2. \A i \in 1..Len(records) : /\ records[i].request \in Req!Message \cup {None}
                                 /\ records[i].response \in Req!Message \cup {None}
  BY <1>1, SameTypes DEF Record
<1>3. /\ RequestColumn \in Seq(Req!Message \cup {None})
      /\ ResponseColumn \in Seq(Req!Message \cup {None})
  BY <1>2 DEF RequestColumn, ResponseColumn
<1>4. Requests = Captured(RequestColumn) /\ Responses = Captured(ResponseColumn)
  BY DEF Requests, Responses, RequestColumn, ResponseColumn
<1> QED
  BY <1>3, <1>4, CapturedTyped

(* One more record.                                                        *)
LEMMA OneMoreRecord ==
  ASSUME records \in Seq(Record), NEW r \in Record, records' = Append(records, r)
  PROVE  /\ records' \in Seq(Record)
         /\ Requests' = IF r.request = None THEN Requests ELSE Append(Requests, r.request)
         /\ Responses' = IF r.response = None THEN Responses ELSE Append(Responses, r.response)
<1>1. records' \in Seq(Record) /\ Len(records') = Len(records) + 1
  OBVIOUS
<1>2. \A i \in 1..Len(records') : records'[i] = IF i = Len(records) + 1 THEN r ELSE records[i]
  OBVIOUS
<1>3. RequestColumn' = Append(RequestColumn, r.request)
      /\ ResponseColumn' = Append(ResponseColumn, r.response)
  BY <1>1, <1>2 DEF RequestColumn, ResponseColumn
<1>4. r.request \in Req!Message \cup {None} /\ r.response \in Req!Message \cup {None}
  BY SameTypes DEF Record
<1>5. /\ Requests = Captured(RequestColumn) /\ Responses = Captured(ResponseColumn)
      /\ Requests' = Captured(RequestColumn') /\ Responses' = Captured(ResponseColumn')
  BY DEF Requests, Responses, RequestColumn, ResponseColumn
<1> QED
  BY <1>1, <1>3, <1>4, <1>5, RecordsTyped, CapturedAppend

LEMMA OneMoreResponse ==
  ASSUME NEW ms \in Seq(Req!Message), NEW m \in Req!Message
  PROVE  Finals(Append(ms, m)) = IF m.head.status = "info" THEN Finals(ms)
                                 ELSE Append(Finals(ms), m)
<1> DEFINE x == IF m.head.status = "info" THEN None ELSE m
<1>1. FinalColumn(ms) \in Seq(Req!Message \cup {None}) /\ x \in Req!Message \cup {None}
  BY DEF FinalColumn
<1>2. FinalColumn(Append(ms, m)) = Append(FinalColumn(ms), x)
  BY DEF FinalColumn
<1>3. /\ Finals(ms) = Captured(FinalColumn(ms))
      /\ Finals(Append(ms, m)) = Captured(FinalColumn(Append(ms, m)))
  BY DEF Finals, FinalColumn
<1>4. m # None
  BY NoneIsNoMessage
<1> HIDE DEF x
<1>5. Captured(Append(FinalColumn(ms), x))
        = IF x = None THEN Captured(FinalColumn(ms)) ELSE Append(Captured(FinalColumn(ms)), x)
  BY <1>1, CapturedAppend
<1> QED
  BY <1>2, <1>3, <1>4, <1>5 DEF x

(* The requests that are left, each with no response.                      *)
LEMMA AllLeftRecorded ==
  ASSUME records \in Seq(Record), pending \in Seq(Req!Message),
         records' = records \o [i \in 1..Len(pending) |-> [request |-> pending[i], response |-> None]]
  PROVE  /\ records' \in Seq(Record)
         /\ Requests' = Requests \o pending
         /\ Responses' = Responses
<1> DEFINE left == [i \in 1..Len(pending) |-> [request |-> pending[i], response |-> None]]
           nones == [i \in 1..Len(pending) |-> None]
<1>1. left \in Seq(Record) /\ Len(left) = Len(pending)
  BY SameTypes DEF Record
<1>2. nones \in Seq({None}) /\ Len(nones) = Len(pending)
  OBVIOUS
<1>3. /\ records' \in Seq(Record) /\ Len(records') = Len(records) + Len(pending)
      /\ \A i \in 1..Len(records') :
           records'[i] = IF i <= Len(records) THEN records[i] ELSE left[i - Len(records)]
  <2> HIDE DEF left
  <2>1. records' = records \o left
    BY DEF left
  <2>2. records \o left \in Seq(Record) /\ Len(records \o left) = Len(records) + Len(left)
    BY <1>1, ConcatProperties
  <2>3. \A i \in 1..Len(records) + Len(left) :
          (records \o left)[i] = IF i <= Len(records) THEN records[i] ELSE left[i - Len(records)]
    BY <1>1, ConcatProperties, Zenon
  <2> QED
    BY <1>1, <2>1, <2>2, <2>3
<1>4. \A i \in 1..Len(pending) : left[i].request = pending[i] /\ left[i].response = None
  OBVIOUS
<1>5. RequestColumn' = RequestColumn \o pending
  <2> HIDE DEF left, nones
  <2> QED
    BY <1>3, <1>4 DEF RequestColumn
<1>6. ResponseColumn' = ResponseColumn \o nones
  <2>1. \A i \in 1..Len(pending) : nones[i] = None
    OBVIOUS
  <2> HIDE DEF left, nones
  <2> QED
    BY <1>2, <1>3, <1>4, <2>1 DEF ResponseColumn
<1>7. /\ Requests = Captured(RequestColumn) /\ Responses = Captured(ResponseColumn)
      /\ Requests' = Captured(RequestColumn') /\ Responses' = Captured(ResponseColumn')
  BY DEF Requests, Responses, RequestColumn, ResponseColumn
<1> HIDE DEF left, nones
<1>8. Captured(RequestColumn \o pending) = Captured(RequestColumn) \o pending
  BY RecordsTyped, NoneIsNoMessage, CapturedMore
<1>9. Captured(ResponseColumn \o nones) = Captured(ResponseColumn)
  BY <1>2, RecordsTyped, CapturedNones
<1> QED
  BY <1>3, <1>5, <1>6, <1>7, <1>8, <1>9

-----------------------------------------------------------------------------
(* The inductive invariant.  What the two parsers hold is honest before it *)
(* is handed over, what was handed over is accounted for, and a connection *)
(* that has closed has nothing left to hand over.                          *)
Placed ==
  /\ dialogue \in DOMAIN Dialogues
  /\ fed \in [client : 0..Len(Talk.client.bytes), server : 0..Len(Talk.server.bytes)]
  /\ phase \in {"open", "ending_client", "ending_server", "closed"}

ParsersSound ==
  /\ client \in SoundParser /\ client.methods = <<>>
  /\ server \in SoundParser /\ Len(server.methods) <= MaxPending

HistorySound ==
  /\ pending \in Seq(Req!Message)
  /\ records \in Seq(Record)
  /\ emitted \in [client : Seq(SoundMessage), server : Seq(SoundMessage)]

ClosedIsQuiet == phase = "closed" => Quiet

IInv == Placed /\ ParsersSound /\ HistorySound /\ ClosedIsQuiet /\ EveryExchangeRecorded

LEMMA SoundMessages ==
  ASSUME NEW ms \in Seq(SoundMessage)
  PROVE  ms \in Seq(Req!Message) /\ \A i \in 1..Len(ms) : Honest(ms[i])
<1>1. SoundMessage \subseteq Req!Message
  BY DEF SoundMessage
<1>2. \A i \in 1..Len(ms) : ms[i] \in SoundMessage
  OBVIOUS
<1> QED
  BY <1>1, <1>2, SeqMonotonic DEF SoundMessage

LEMMA IInvIsTyped == IInv => TypeOK
<1> SUFFICES ASSUME IInv PROVE TypeOK
  OBVIOUS
<1>1. client \in Req!Parser /\ server \in Resp!Parser
  BY SoundIsTyped, SameTypes DEF IInv, ParsersSound
<1>2. emitted \in [client : Seq(Req!Message), server : Seq(Resp!Message)]
  BY SoundMessages, SameTypes DEF IInv, HistorySound
<1> QED
  BY <1>1, <1>2 DEF IInv, Placed, ParsersSound, HistorySound, TypeOK

LEMMA IInvIsHonest == IInv => PayloadHonest
<1> SUFFICES ASSUME IInv, NEW d \in {"client", "server"} PROVE \A i \in 1..Len(emitted[d]) : Honest(emitted[d][i])
  BY DEF PayloadHonest
<1>1. emitted[d] \in Seq(SoundMessage)
  BY DEF IInv, HistorySound
<1> QED
  BY <1>1, SoundMessages

LEMMA InitIInv == Init => IInv
<1> SUFFICES ASSUME Init PROVE IInv
  OBVIOUS
<1>1. Placed
  <2>1. Talk.client.bytes \in Seq(Req!Byte) /\ Talk.server.bytes \in Seq(Req!Byte)
    BY DialogueAssumption DEF Init, Wires, Talk
  <2>2. Len(Talk.client.bytes) \in Nat /\ Len(Talk.server.bytes) \in Nat
    BY <2>1
  <2> QED
    BY <2>2 DEF Init, Placed
<1>2. ParsersSound
  <2>1. client \in SoundParser /\ server \in SoundParser
    BY NewIsSound, SameTypes DEF Init
  <2>2. client.methods = <<>> /\ server.methods = <<>>
    BY SameTypes DEF Init, Req!NewParser
  <2> QED
    BY <2>1, <2>2, Limits DEF ParsersSound
<1>3. HistorySound
  BY DEF Init, HistorySound
<1>4. ClosedIsQuiet
  BY DEF Init, ClosedIsQuiet
<1>5. EveryExchangeRecorded
  <2>1. RequestColumn = <<>> /\ ResponseColumn = <<>> /\ FinalColumn(<<>>) = <<>>
    BY DEF Init, RequestColumn, ResponseColumn, FinalColumn
  <2>2. Requests = <<>> /\ Responses = <<>> /\ Finals(<<>>) = <<>>
    BY <2>1, CapturedEmpty
       DEF Requests, Responses, Finals, RequestColumn, ResponseColumn, FinalColumn
  <2> QED
    BY <2>2 DEF Init, EveryExchangeRecorded
<1> QED
  BY <1>1, <1>2, <1>3, <1>4, <1>5 DEF IInv

-----------------------------------------------------------------------------
(* One lemma for each kind of step.                                        *)

(* The column of nothing that changed is the same.                         *)
LEMMA AccountsStay ==
  ASSUME EveryExchangeRecorded, records' = records, pending' = pending, emitted' = emitted,
         phase' = "closed" => phase = "closed"
  PROVE  EveryExchangeRecorded'
  BY DEF EveryExchangeRecorded, Requests, Responses

LEMMA FeedKeepsIInv == IInv /\ (FeedRequest \/ FeedResponse) => IInv'
<1>1. ASSUME IInv, FeedRequest PROVE IInv'
  <2> DEFINE bytes == Talk.client.bytes
  <2>1. bytes \in Seq(Req!Byte) /\ fed.client \in 0..Len(bytes) /\ Talk' = Talk
    BY <1>1, DialogueAssumption DEF IInv, Placed, FeedRequest, Wires, Talk
  <2>2. PICK to \in (fed.client + 1)..Len(bytes) :
          /\ client' = Req!Feed(client, SubSeq(bytes, fed.client + 1, to))
          /\ fed' = [fed EXCEPT !.client = to]
    BY <1>1 DEF FeedRequest
  <2> HIDE DEF bytes
  <2>3. SubSeq(bytes, fed.client + 1, to) \in Seq(Req!Byte)
    BY <2>1, <2>2
  <2>4. client' \in SoundParser /\ client'.methods = <<>>
    BY <1>1, <2>2, <2>3, FeedSound, MethodsStay DEF IInv, ParsersSound
  <2>5. Placed'
    <3>1. to \in 0..Len(bytes)
      BY <2>1, <2>2
    <3> QED
      BY <1>1, <2>1, <2>2, <3>1 DEF bytes, IInv, Placed, FeedRequest
  <2>6. ClosedIsQuiet' /\ HistorySound' /\ EveryExchangeRecorded'
    BY <1>1, AccountsStay DEF IInv, FeedRequest, ClosedIsQuiet, HistorySound
  <2>7. ParsersSound'
    BY <1>1, <2>4 DEF IInv, ParsersSound, FeedRequest
  <2> QED
    BY <2>5, <2>6, <2>7 DEF IInv
<1>2. ASSUME IInv, FeedResponse PROVE IInv'
  <2> DEFINE bytes == Talk.server.bytes
  <2>1. bytes \in Seq(Req!Byte) /\ fed.server \in 0..Len(bytes) /\ Talk' = Talk
    BY <1>2, DialogueAssumption DEF IInv, Placed, FeedResponse, Wires, Talk
  <2>2. PICK to \in (fed.server + 1)..Len(bytes) :
          /\ server' = Resp!Feed(server, SubSeq(bytes, fed.server + 1, to))
          /\ fed' = [fed EXCEPT !.server = to]
    BY <1>2 DEF FeedResponse
  <2> HIDE DEF bytes
  <2>3. SubSeq(bytes, fed.server + 1, to) \in Seq(Req!Byte)
    BY <2>1, <2>2
  <2>4. server' \in SoundParser /\ server'.methods = server.methods
    <3>1. server \in SoundParser
      BY <1>2 DEF IInv, ParsersSound
    <3>2. server' = Req!Feed(server, SubSeq(bytes, fed.server + 1, to))
      BY <2>2, SameOperators
    <3> QED
      BY <2>3, <3>1, <3>2, FeedSound, MethodsStay
  <2>5. Placed'
    <3>1. to \in 0..Len(bytes)
      BY <2>1, <2>2
    <3> QED
      BY <1>2, <2>1, <2>2, <3>1 DEF bytes, IInv, Placed, FeedResponse
  <2>6. ClosedIsQuiet' /\ HistorySound' /\ EveryExchangeRecorded'
    BY <1>2, AccountsStay DEF IInv, FeedResponse, ClosedIsQuiet, HistorySound
  <2>7. ParsersSound'
    BY <1>2, <2>4 DEF IInv, ParsersSound, FeedResponse
  <2> QED
    BY <2>5, <2>6, <2>7 DEF IInv
<1> QED
  BY <1>1, <1>2

(* The loop runs only while a call has not returned.                       *)
LEMMA AdvanceRuns == (Req!Advance => client.run) /\ (Resp!Advance => server.run)
<1>1. Req!Advance => client.run
  BY DEF Req!Advance, Req!In, Req!SkipEmptyLine, Req!AdvanceHead, Req!HeadTooLarge,
         Req!HeadAtEof, Req!AdvanceFixedBody, Req!AdvanceChunkSize, Req!AdvanceChunkData,
         Req!AdvanceChunkDataCrlf, Req!AdvanceChunkTrailer, Req!LineTooLarge,
         Req!AdvanceEofBody, Req!Stop
<1>2. Resp!Advance => server.run
  BY DEF Resp!Advance, Resp!In, Resp!SkipEmptyLine, Resp!AdvanceHead, Resp!HeadTooLarge,
         Resp!HeadAtEof, Resp!AdvanceFixedBody, Resp!AdvanceChunkSize, Resp!AdvanceChunkData,
         Resp!AdvanceChunkDataCrlf, Resp!AdvanceChunkTrailer, Resp!LineTooLarge,
         Resp!AdvanceEofBody, Resp!Stop
<1> QED
  BY <1>1, <1>2

LEMMA ParseKeepsIInv == IInv /\ (ParseRequest \/ ParseResponse) => IInv'
<1>1. ASSUME IInv, ParseRequest PROVE IInv'
  <2>1. client' \in SoundParser /\ client'.methods = <<>>
    BY <1>1, ReqAdvance DEF IInv, ParsersSound, ParseRequest
  <2>2. phase # "closed"
    BY <1>1, AdvanceRuns DEF IInv, ClosedIsQuiet, Quiet, Returned, ParseRequest
  <2>3. Placed' /\ HistorySound' /\ ClosedIsQuiet' /\ EveryExchangeRecorded'
    BY <1>1, <2>2, AccountsStay
       DEF IInv, Placed, Talk, ParseRequest, HistorySound, ClosedIsQuiet
  <2> QED
    BY <1>1, <2>1, <2>3 DEF IInv, ParsersSound, ParseRequest
<1>2. ASSUME IInv, ParseResponse PROVE IInv'
  <2>1. server' \in SoundParser /\ Fewer(server'.methods, server.methods)
    BY <1>2, RespAdvance DEF IInv, ParsersSound, ParseResponse
  <2>2. Len(server'.methods) <= MaxPending
    <3>1. server.methods \in Seq(Req!Methods) /\ Len(server.methods) <= MaxPending
      BY <1>2 DEF IInv, ParsersSound, SoundParser
    <3> DEFINE methods == server.methods
               after == server'.methods
    <3>2. methods \in Seq(Req!Methods) /\ Len(methods) <= MaxPending /\ Fewer(after, methods)
      BY <2>1, <3>1
    <3> HIDE DEF methods, after
    <3>3. Len(after) <= MaxPending
      BY <3>2, Limits DEF Fewer
    <3> QED
      BY <3>3 DEF after
  <2>3. phase # "closed"
    BY <1>2, AdvanceRuns DEF IInv, ClosedIsQuiet, Quiet, Returned, ParseResponse
  <2>4. Placed' /\ HistorySound' /\ ClosedIsQuiet' /\ EveryExchangeRecorded'
    BY <1>2, <2>3, AccountsStay
       DEF IInv, Placed, Talk, ParseResponse, HistorySound, ClosedIsQuiet
  <2> QED
    BY <1>2, <2>1, <2>2, <2>4 DEF IInv, ParsersSound, ParseResponse
<1> QED
  BY <1>1, <1>2

(* Taking the next message of a batch.                                     *)
LEMMA TakenSound ==
  ASSUME NEW q \in SoundParser, q.batch # <<>>
  PROVE  /\ Head(q.batch) \in SoundMessage
         /\ [q EXCEPT !.batch = Tail(@)] \in SoundParser
<1> DEFINE batch == q.batch
           tail == Tail(q.batch)
<1>1. batch \in Seq(SoundMessage) /\ batch # <<>>
  BY DEF SoundParser
<1>2. Head(batch) \in SoundMessage /\ Tail(batch) \in Seq(SoundMessage)
  <2> HIDE DEF batch, tail
  <2> QED
    BY <1>1
<1>3. tail \in Seq(SoundMessage)
  BY <1>2
<1> HIDE DEF tail
<1>4. [q EXCEPT !.batch = tail] \in SoundParser
  BY <1>3 DEF SoundParser
<1> QED
  BY <1>2, <1>4 DEF tail

LEMMA HandleRequestKeepsIInv == IInv /\ HandleRequest => IInv'
<1> SUFFICES ASSUME IInv, HandleRequest PROVE IInv'
  OBVIOUS
<1> DEFINE m == Head(client.batch)
<1>1. /\ client' = [client EXCEPT !.batch = Tail(@)]
      /\ pending' = Append(pending, m)
      /\ server' = Resp!Register(server, m.head.method)
      /\ emitted' = [emitted EXCEPT !.client = Append(@, m)]
      /\ UNCHANGED <<dialogue, fed, records, phase>>
  BY DEF HandleRequest
<1>2. m \in SoundMessage /\ client' \in SoundParser /\ client'.methods = <<>>
  BY <1>1, TakenSound DEF IInv, ParsersSound, HandleRequest, SoundParser
<1> HIDE DEF m
<1>3. m \in Req!Message /\ m.head.method \in Req!Methods
  BY <1>2 DEF SoundMessage, Req!Message, Req!Heading
<1>4. ParsersSound'
  <2>1. server' = Req!Register(server, m.head.method)
    BY <1>1, SameOperators
  <2>2. server' \in SoundParser /\ Len(server'.methods) <= MaxPending
    BY <1>3, <2>1, RegisterSound DEF IInv, ParsersSound
  <2> QED
    BY <1>2, <2>2 DEF ParsersSound
<1>5. emitted \in [client : Seq(SoundMessage), server : Seq(SoundMessage)]
      /\ pending \in Seq(Req!Message) /\ records \in Seq(Record)
  BY DEF IInv, HistorySound
<1>6. HistorySound'
  <2>1. pending' \in Seq(Req!Message)
    BY <1>1, <1>3, <1>5
  <2>2. Append(emitted.client, m) \in Seq(SoundMessage)
    BY <1>2, <1>5
  <2>3. emitted' \in [client : Seq(SoundMessage), server : Seq(SoundMessage)]
    BY <1>1, <1>5, <2>2
  <2> QED
    BY <1>1, <1>5, <2>1, <2>3 DEF HistorySound
<1>7. phase # "closed"
  BY DEF IInv, HandleRequest, ClosedIsQuiet, Quiet, Returned
<1>8. Placed' /\ ClosedIsQuiet'
  BY <1>1, <1>7 DEF IInv, Placed, Talk, ClosedIsQuiet
<1>9. EveryExchangeRecorded'
  <2>1. Requests' = Requests /\ Responses' = Responses
    BY <1>1 DEF Requests, Responses
  <2>2. emitted'.client = Append(emitted.client, m) /\ emitted'.server = emitted.server
    BY <1>1, <1>5
  <2>3. Requests \in Seq(Req!Message)
    BY <1>5, RecordsTyped
  <2>4. Requests \o Append(pending, m) = Append(Requests \o pending, m)
    BY <1>3, <1>5, <2>3
  <2> QED
    BY <1>1, <1>7, <2>1, <2>2, <2>4 DEF IInv, EveryExchangeRecorded
<1> QED
  BY <1>4, <1>6, <1>8, <1>9 DEF IInv

LEMMA HandleResponseKeepsIInv == IInv /\ HandleResponse => IInv'
<1> SUFFICES ASSUME IInv, HandleResponse PROVE IInv'
  OBVIOUS
<1> DEFINE m == Head(server.batch)
<1>1. /\ server' = [server EXCEPT !.batch = Tail(@)]
      /\ emitted' = [emitted EXCEPT !.server = Append(@, m)]
      /\ UNCHANGED <<dialogue, fed, client, phase>>
  BY DEF HandleResponse
<1>2. \/ m.head.status = "info" /\ UNCHANGED <<pending, records>>
      \/ /\ m.head.status # "info" /\ pending # <<>>
         /\ pending' = Tail(pending)
         /\ records' = Append(records, [request |-> Head(pending), response |-> m])
      \/ /\ m.head.status # "info" /\ pending = <<>> /\ pending' = pending
         /\ records' = Append(records, [request |-> None, response |-> m])
  BY DEF HandleResponse
<1>3. m \in SoundMessage /\ server' \in SoundParser /\ server'.methods = server.methods
  BY <1>1, TakenSound DEF IInv, ParsersSound, HandleResponse, SoundParser
<1> HIDE DEF m
<1>4. m \in Req!Message /\ m # None
  BY <1>3, NoneIsNoMessage DEF SoundMessage
<1>5. emitted \in [client : Seq(SoundMessage), server : Seq(SoundMessage)]
      /\ pending \in Seq(Req!Message) /\ records \in Seq(Record)
  BY DEF IInv, HistorySound
<1>6. emitted' \in [client : Seq(SoundMessage), server : Seq(SoundMessage)]
      /\ emitted'.client = emitted.client /\ emitted'.server = Append(emitted.server, m)
  <2>1. Append(emitted.server, m) \in Seq(SoundMessage)
    BY <1>3, <1>5
  <2> QED
    BY <1>1, <1>5, <2>1
<1>7. phase # "closed"
  BY DEF IInv, HandleResponse, ClosedIsQuiet, Quiet, Returned
<1>8. Placed' /\ ClosedIsQuiet' /\ ParsersSound'
  BY <1>1, <1>3, <1>7 DEF IInv, Placed, Talk, ClosedIsQuiet, ParsersSound
<1>9. Requests \in Seq(Req!Message) /\ Responses \in Seq(Req!Message)
  BY <1>5, RecordsTyped
<1>10. Finals(emitted'.server) = IF m.head.status = "info" THEN Finals(emitted.server)
                                 ELSE Append(Finals(emitted.server), m)
  <2>1. emitted.server \in Seq(Req!Message)
    BY <1>5, SoundMessages
  <2> QED
    BY <1>4, <1>6, <2>1, OneMoreResponse
<1>11. emitted.client = Requests \o pending /\ Finals(emitted.server) = Responses
  BY DEF IInv, EveryExchangeRecorded
<1>12. CASE m.head.status = "info" /\ UNCHANGED <<pending, records>>
  <2>1. HistorySound'
    BY <1>5, <1>6, <1>12 DEF HistorySound
  <2>2. Requests' = Requests /\ Responses' = Responses
    BY <1>12 DEF Requests, Responses
  <2>3. EveryExchangeRecorded'
    BY <1>1, <1>6, <1>7, <1>10, <1>11, <1>12, <2>2 DEF EveryExchangeRecorded
  <2> QED
    BY <1>8, <2>1, <2>3 DEF IInv
<1>13. CASE /\ m.head.status # "info" /\ pending # <<>>
            /\ pending' = Tail(pending)
            /\ records' = Append(records, [request |-> Head(pending), response |-> m])
  <2> DEFINE r == [request |-> Head(pending), response |-> m]
  <2>1. Head(pending) \in Req!Message /\ Tail(pending) \in Seq(Req!Message)
    BY <1>5, <1>13
  <2>2. r \in Record /\ r.request # None /\ r.response # None
        /\ r.request = Head(pending) /\ r.response = m
    BY <1>4, <2>1, SameTypes, NoneIsNoMessage DEF Record
  <2>3. records' = Append(records, r)
    BY <1>13
  <2> HIDE DEF r
  <2>4. /\ records' \in Seq(Record)
        /\ Requests' = Append(Requests, r.request) /\ Responses' = Append(Responses, r.response)
    BY <1>5, <2>2, <2>3, OneMoreRecord
  <2>5. HistorySound'
    BY <1>6, <1>13, <2>1, <2>4 DEF HistorySound
  <2>6. Append(Requests, Head(pending)) \o Tail(pending) = Requests \o pending
    BY <1>5, <1>9, <1>13
  <2>7. EveryExchangeRecorded'
    BY <1>1, <1>6, <1>7, <1>10, <1>11, <1>13, <2>2, <2>4, <2>6 DEF EveryExchangeRecorded
  <2> QED
    BY <1>8, <2>5, <2>7 DEF IInv
<1>14. CASE /\ m.head.status # "info" /\ pending = <<>> /\ pending' = pending
            /\ records' = Append(records, [request |-> None, response |-> m])
  <2> DEFINE r == [request |-> None, response |-> m]
  <2>1. r \in Record /\ r.request = None /\ r.response # None /\ r.response = m
    BY <1>4, SameTypes DEF Record
  <2>2. records' = Append(records, r)
    BY <1>14
  <2> HIDE DEF r
  <2>3. /\ records' \in Seq(Record)
        /\ Requests' = Requests /\ Responses' = Append(Responses, r.response)
    BY <1>5, <2>1, <2>2, OneMoreRecord
  <2>4. HistorySound'
    BY <1>5, <1>6, <1>14, <2>3 DEF HistorySound
  <2>5. EveryExchangeRecorded'
    BY <1>1, <1>6, <1>7, <1>10, <1>11, <1>14, <2>1, <2>3 DEF EveryExchangeRecorded
  <2> QED
    BY <1>8, <2>4, <2>5 DEF IInv
<1> QED
  BY <1>2, <1>12, <1>13, <1>14

LEMMA FinishKeepsIInv == IInv /\ (Finish \/ FinishResponses) => IInv'
<1>1. ASSUME IInv, Finish PROVE IInv'
  <2>1. client' \in SoundParser /\ client'.methods = <<>>
    BY <1>1, FinishSound, MethodsStay DEF IInv, ParsersSound, Finish
  <2>2. Placed' /\ HistorySound' /\ ClosedIsQuiet' /\ EveryExchangeRecorded'
    BY <1>1, AccountsStay DEF IInv, Placed, Talk, Finish, HistorySound, ClosedIsQuiet
  <2> QED
    BY <1>1, <2>1, <2>2 DEF IInv, ParsersSound, Finish
<1>2. ASSUME IInv, FinishResponses PROVE IInv'
  <2>1. server' \in SoundParser /\ server'.methods = server.methods
    BY <1>2, FinishSound, MethodsStay, SameOperators DEF IInv, ParsersSound, FinishResponses
  <2>2. Placed' /\ HistorySound' /\ ClosedIsQuiet' /\ EveryExchangeRecorded'
    BY <1>2, AccountsStay DEF IInv, Placed, Talk, FinishResponses, HistorySound, ClosedIsQuiet
  <2> QED
    BY <1>2, <2>1, <2>2 DEF IInv, ParsersSound, FinishResponses
<1> QED
  BY <1>1, <1>2

LEMMA FlushKeepsIInv == IInv /\ Flush => IInv'
<1> SUFFICES ASSUME IInv, Flush PROVE IInv'
  OBVIOUS
<1>1. pending \in Seq(Req!Message) /\ records \in Seq(Record) /\ pending' = <<>>
  BY DEF IInv, HistorySound, Flush
<1>2. records' \in Seq(Record) /\ Requests' = Requests \o pending /\ Responses' = Responses
  BY <1>1, AllLeftRecorded DEF Flush
<1>3. Placed' /\ ParsersSound' /\ ClosedIsQuiet'
  BY DEF IInv, Placed, Talk, ParsersSound, ClosedIsQuiet, Quiet, Returned, Flush
<1>4. HistorySound'
  BY <1>1, <1>2 DEF IInv, HistorySound, Flush
<1>5. Requests' \o <<>> = Requests'
  <2>1. Requests' \in Seq(Req!Message)
    BY <1>1, <1>2, RecordsTyped
  <2> QED
    BY <2>1
<1>6. EveryExchangeRecorded'
  BY <1>1, <1>2, <1>5 DEF IInv, EveryExchangeRecorded, Flush
<1> QED
  BY <1>3, <1>4, <1>6 DEF IInv

LEMMA StutterKeepsIInv == IInv /\ UNCHANGED vars => IInv'
<1> SUFFICES ASSUME IInv, UNCHANGED vars PROVE IInv'
  OBVIOUS
<1>1. EveryExchangeRecorded'
  BY AccountsStay DEF IInv, vars
<1> QED
  BY <1>1 DEF IInv, vars, Placed, Talk, ParsersSound, HistorySound, ClosedIsQuiet, Quiet, Returned

LEMMA Inductive == IInv /\ [Next]_vars => IInv'
  BY FeedKeepsIInv, ParseKeepsIInv, HandleRequestKeepsIInv, HandleResponseKeepsIInv,
     FinishKeepsIInv, FlushKeepsIInv, StutterKeepsIInv
     DEF Next

LEMMA AlwaysIInv == Spec => []IInv
  BY InitIInv, Inductive, PTL DEF Spec

-----------------------------------------------------------------------------
(* Whatever the peers send, in whatever fragments, and whatever the        *)
(* limits: the two parsers and the reconstructor keep their types, and the *)
(* response parser's queue of methods stays within max_pending_requests.   *)
THEOREM ConnectionTypeCorrect == Spec => []TypeOK
  BY AlwaysIInv, IInvIsTyped, PTL

(* No payload exceeds max_body_bytes, and none that was cut passes for     *)
(* whole: a message not marked as truncated holds all of the body bytes    *)
(* that arrived (_append_body, _finalize, _fail).                          *)
THEOREM PayloadsHonest == Spec => []PayloadHonest
  BY AlwaysIInv, IInvIsHonest, PTL

(* Every request handled is in a record or still waits, in order, every    *)
(* final response is in a record, and closing the connection leaves no     *)
(* request waiting (_handle_message, finish).                              *)
THEOREM NoExchangeLost == Spec => []EveryExchangeRecorded
<1>1. IInv => EveryExchangeRecorded
  BY DEF IInv
<1> QED
  BY <1>1, AlwaysIInv, PTL

-----------------------------------------------------------------------------
(* Sorted(S): a member is in the place the number of smaller ones gives it. *)
Below(S, x) == {y \in S : y < x}

Place(S, x) == Cardinality(Below(S, x))

LEMMA PlaceRises ==
  ASSUME NEW S \in SUBSET Nat, IsFiniteSet(S), NEW x \in S, NEW z \in S
  PROVE  /\ Place(S, x) \in 0..(Cardinality(S) - 1)
         /\ x < z => Place(S, x) < Place(S, z)
         /\ Place(S, x) = Place(S, z) => x = z
<1>1. ASSUME NEW u \in S
      PROVE  /\ IsFiniteSet(Below(S, u)) /\ Place(S, u) \in Nat
             /\ Place(S, u) < Cardinality(S) /\ Cardinality(S) \in Nat
  <2>1. Below(S, u) \in SUBSET S /\ u \notin Below(S, u)
    BY DEF Below
  <2>2. IsFiniteSet(Below(S, u)) /\ Place(S, u) <= Cardinality(S)
        /\ (Cardinality(S) = Place(S, u) => S = Below(S, u))
    BY <2>1, FS_Subset DEF Place
  <2>3. Place(S, u) \in Nat /\ Cardinality(S) \in Nat
    BY <2>2, FS_CardinalityType DEF Place
  <2> QED
    BY <2>1, <2>2, <2>3
<1>2. ASSUME NEW u \in S, NEW w \in S, u < w PROVE Place(S, u) < Place(S, w)
  <2>1. Below(S, u) \in SUBSET Below(S, w) /\ u \in Below(S, w) /\ u \notin Below(S, u)
    <3>1. \A y \in S : y < u => y < w
      BY <1>2
    <3>2. ~(u < u)
      OBVIOUS
    <3> QED
      BY <1>2, <3>1, <3>2 DEF Below
  <2>2. Cardinality(Below(S, u)) <= Cardinality(Below(S, w))
        /\ (Cardinality(Below(S, w)) = Cardinality(Below(S, u)) => Below(S, w) = Below(S, u))
    BY <2>1, <1>1, FS_Subset
  <2>3. Place(S, u) \in Nat /\ Place(S, w) \in Nat
    BY <1>1
  <2> QED
    BY <2>1, <2>2, <2>3 DEF Place
<1>3. Place(S, x) \in Nat /\ Place(S, z) \in Nat
  BY <1>1
<1>4. Place(S, x) < Cardinality(S) /\ Cardinality(S) \in Nat
  BY <1>1
<1>5. x < z => Place(S, x) < Place(S, z)
  BY <1>2
<1>6. z < x => Place(S, z) < Place(S, x)
  BY <1>2
<1> QED
  BY <1>3, <1>4, <1>5, <1>6

LEMMA PlacesTaken ==
  ASSUME NEW S \in SUBSET Nat, IsFiniteSet(S), NEW i \in 1..Cardinality(S)
  PROVE  \E x \in S : Place(S, x) = i - 1
<1> DEFINE n == Cardinality(S)
           f == [x \in S |-> Place(S, x)]
<1>1. n \in Nat
  BY FS_CardinalityType
<1>2. \A x \in S : Place(S, x) \in 0..(n - 1)
  BY PlaceRises
<1>3. f \in [S -> 0..(n - 1)]
  BY <1>2
<1>4. \A x, z \in S : f[x] = f[z] => x = z
  BY PlaceRises
<1>5. f \in Injection(S, 0..(n - 1))
  BY <1>3, <1>4 DEF Injection, IsInjective
<1>6. IsFiniteSet(0..(n - 1)) /\ Cardinality(0..(n - 1)) = n
  <2>1. IsFiniteSet(0..(n - 1))
        /\ Cardinality(0..(n - 1)) = IF 0 > n - 1 THEN 0 ELSE (n - 1) - 0 + 1
    <3>1. 0 \in Int /\ n - 1 \in Int
      BY <1>1
    <3> HIDE DEF n
    <3> QED
      BY <3>1, FS_Interval
  <2> QED
    BY <1>1, <2>1
<1>7. f \in Surjection(S, 0..(n - 1))
  BY <1>5, <1>6, FS_Injection
<1>8. i - 1 \in 0..(n - 1)
  BY <1>1
<1> QED
  BY <1>7, <1>8 DEF Surjection

LEMMA SortedPlaces ==
  ASSUME NEW S \in SUBSET Nat, IsFiniteSet(S), NEW i \in 1..Cardinality(S)
  PROVE  Sorted(S)[i] \in S /\ Place(S, Sorted(S)[i]) = i - 1
<1>1. \E x \in S : Cardinality({y \in S : y < x}) = i - 1
  BY PlacesTaken DEF Place, Below
<1>2. Sorted(S)[i] = CHOOSE x \in S : Cardinality({y \in S : y < x}) = i - 1
  BY DEF Sorted
<1> QED
  BY <1>1, <1>2 DEF Place, Below

(* The first members of a set, if they are a set, are its first in order.   *)
LEMMA SortedFirst ==
  ASSUME NEW T \in SUBSET Nat, IsFiniteSet(T), NEW S \in SUBSET T,
         \A x \in S, y \in T \ S : x < y
  PROVE  /\ IsFiniteSet(S) /\ Cardinality(S) <= Cardinality(T)
         /\ \A i \in 1..Cardinality(S) : i \in 1..Cardinality(T) /\ Sorted(T)[i] = Sorted(S)[i]
<1>1. /\ IsFiniteSet(S) /\ Cardinality(S) <= Cardinality(T)
      /\ Cardinality(S) \in Nat /\ Cardinality(T) \in Nat
  BY FS_Subset, FS_CardinalityType
<1>2. ASSUME NEW i \in 1..Cardinality(S)
      PROVE  i \in 1..Cardinality(T) /\ Sorted(T)[i] = Sorted(S)[i]
  <2>1. i \in 1..Cardinality(T)
    BY <1>1
  <2>2. Sorted(S)[i] \in S /\ Place(S, Sorted(S)[i]) = i - 1
    BY <1>1, SortedPlaces
  <2>3. Sorted(T)[i] \in T /\ Place(T, Sorted(T)[i]) = i - 1
    BY <2>1, SortedPlaces
  <2>4. Below(T, Sorted(S)[i]) = Below(S, Sorted(S)[i])
    <3>1. \A y \in T \ S : ~(y < Sorted(S)[i])
      <4>1. PICK x \in S : x = Sorted(S)[i]
        BY <2>2
      <4>2. \A y \in T \ S : x < y /\ x \in Nat /\ y \in Nat
        OBVIOUS
      <4> QED
        BY <4>1, <4>2
    <3> QED
      BY <3>1 DEF Below
  <2>5. Place(T, Sorted(S)[i]) = i - 1
    BY <2>2, <2>4 DEF Place
  <2> QED
    BY <2>1, <2>2, <2>3, <2>5, PlaceRises
<1> QED
  BY <1>1, <1>2

LEMMA SortedLast ==
  ASSUME NEW S \in SUBSET Nat, IsFiniteSet(S), NEW m \in Nat, \A x \in S : x < m
  PROVE  /\ IsFiniteSet(S \cup {m}) /\ Cardinality(S \cup {m}) = Cardinality(S) + 1
         /\ Cardinality(S) \in Nat
         /\ \A i \in 1..Cardinality(S) : Sorted(S \cup {m})[i] = Sorted(S)[i]
         /\ Sorted(S \cup {m})[Cardinality(S) + 1] = m
<1> DEFINE T == S \cup {m}
           n == Cardinality(S)
<1>1. m \notin S /\ T \in SUBSET Nat /\ S \in SUBSET T
  OBVIOUS
<1>2. IsFiniteSet(T) /\ Cardinality(T) = n + 1 /\ n \in Nat
  BY <1>1, FS_AddElement, FS_CardinalityType
<1>3. \A x \in S, y \in T \ S : x < y
  OBVIOUS
<1>4. \A i \in 1..n : Sorted(T)[i] = Sorted(S)[i]
  BY <1>1, <1>2, <1>3, SortedFirst
<1>5. Sorted(T)[n + 1] = m
  <2>1. n + 1 \in 1..Cardinality(T)
    BY <1>2
  <2>2. Sorted(T)[n + 1] \in T /\ Place(T, Sorted(T)[n + 1]) = (n + 1) - 1
    BY <1>1, <1>2, <2>1, SortedPlaces
  <2>3. Below(T, m) = S
    <3>1. ~(m < m)
      OBVIOUS
    <3> QED
      BY <3>1 DEF Below
  <2>4. Place(T, m) = n
    BY <2>3 DEF Place
  <2>5. Place(T, Sorted(T)[n + 1]) = n
    BY <1>2, <2>2
  <2> HIDE DEF T, n
  <2> QED
    BY <1>1, <1>2, <2>2, <2>4, <2>5, PlaceRises DEF T
<1> QED
  BY <1>2, <1>4, <1>5

LEMMA MaxOf ==
  ASSUME NEW S \in SUBSET Nat, IsFiniteSet(S), S # {}
  PROVE  Max(S) \in S /\ \A y \in S : y <= Max(S)
<1> DEFINE n == Cardinality(S)
<1>1. n \in Nat /\ n # 0
  BY FS_CardinalityType, FS_EmptySet
<1>2. PICK x \in S : Place(S, x) = n - 1
  <2>1. n \in 1..n
    BY <1>1
  <2> QED
    BY <2>1, PlacesTaken
<1>3. ASSUME NEW y \in S PROVE x >= y
  <2>1. ~(x < y)
    <3>1. Place(S, y) \in 0..(n - 1) /\ (x < y => Place(S, x) < Place(S, y))
      BY PlaceRises
    <3> HIDE DEF n
    <3> QED
      BY <1>1, <1>2, <3>1
  <2> QED
    BY <2>1
<1>4. \E z \in S : \A y \in S : z >= y
  BY <1>3
<1>5. Max(S) \in S /\ \A y \in S : Max(S) >= y
  BY <1>4 DEF Max
<1> QED
  BY <1>5

LEMMA MaxIs ==
  ASSUME NEW S \in SUBSET Nat, NEW m \in S, \A y \in S : y <= m
  PROVE  Max(S) = m
<1>1. \A y \in S : m >= y
  OBVIOUS
<1>2. Max(S) \in S /\ \A y \in S : Max(S) >= y
  BY <1>1 DEF Max
<1>3. Max(S) \in Nat /\ m \in Nat /\ Max(S) >= m /\ Max(S) <= m
  BY <1>2
<1> QED
  BY <1>3

LEMMA MinOf ==
  ASSUME NEW S \in SUBSET Nat, S # {}
  PROVE  Min(S) \in S /\ \A y \in S : Min(S) <= y
BY Least DEF Min

-----------------------------------------------------------------------------
(* Lines: functions from some positions to what the lines ending there say. *)
AreLines(lines) ==
  /\ DOMAIN lines \in SUBSET Nat /\ IsFiniteSet(DOMAIN lines)
  /\ lines \in [DOMAIN lines -> Seq(STRING)]

(* more is lines and one more behind them.                                  *)
Grown(lines, e, v, more) ==
  /\ AreLines(lines) /\ e \in Nat /\ v \in Seq(STRING)
  /\ DOMAIN more = DOMAIN lines \cup {e}
  /\ more \in [DOMAIN more -> Seq(STRING)]
  /\ \A x \in DOMAIN lines : x < e /\ more[x] = lines[x]
  /\ more[e] = v

LEMMA GrownAreLines ==
  ASSUME NEW lines, NEW e, NEW v, NEW more, Grown(lines, e, v, more)
  PROVE  AreLines(more) /\ AreLines(lines) /\ e \in Nat /\ e \notin DOMAIN lines
<1>1. IsFiniteSet(DOMAIN lines \cup {e})
  BY FS_AddElement DEF Grown, AreLines
<1>2. e \notin DOMAIN lines
  BY DEF Grown, AreLines
<1> QED
  BY <1>1, <1>2 DEF Grown, AreLines

LEMMA SameLines ==
  ASSUME NEW f, NEW g, NEW S, f = [x \in S |-> f[x]], g = [x \in S |-> g[x]],
         \A x \in S : f[x] = g[x]
  PROVE  f = g
OBVIOUS

LEMMA GrownUpto ==
  ASSUME NEW lines, NEW e, NEW v, NEW more, Grown(lines, e, v, more)
  PROVE  /\ \A x \in DOMAIN lines : Upto(more, x - 1) = Upto(lines, x - 1)
         /\ \A x \in DOMAIN lines : Upto(more, x) = Upto(lines, x)
         /\ Upto(more, e - 1) = lines
         /\ Upto(more, e) = more
<1>1. /\ DOMAIN lines \in SUBSET Nat /\ e \in Nat
      /\ DOMAIN more = DOMAIN lines \cup {e}
      /\ \A x \in DOMAIN lines : x < e /\ more[x] = lines[x]
      /\ lines = [x \in DOMAIN lines |-> lines[x]]
      /\ more = [x \in DOMAIN more |-> more[x]]
  BY DEF Grown, AreLines
<1>2. ASSUME NEW u \in Int, u < e PROVE Upto(more, u) = Upto(lines, u)
  <2>1. ~(e <= u)
    BY <1>1, <1>2
  <2>2. {y \in DOMAIN more : y <= u} = {y \in DOMAIN lines : y <= u}
    BY <1>1, <2>1
  <2>3. \A x \in {y \in DOMAIN lines : y <= u} : more[x] = lines[x]
    BY <1>1
  <2> QED
    BY <2>2, <2>3 DEF Upto
<1>3. \A x \in DOMAIN lines : x \in Int /\ x - 1 \in Int /\ x < e /\ x - 1 < e
  BY <1>1
<1>4. Upto(more, e - 1) = lines
  <2>1. e - 1 \in Int /\ e - 1 < e
    BY <1>1
  <2>2. {y \in DOMAIN lines : y <= e - 1} = DOMAIN lines
    <3>1. \A y \in DOMAIN lines : y \in Nat /\ y < e
      BY <1>1
    <3>2. \A y \in DOMAIN lines : y <= e - 1
      BY <1>1, <3>1
    <3> QED
      BY <3>2
  <2>3. Upto(lines, e - 1) = lines
    BY <1>1, <2>2 DEF Upto
  <2> QED
    BY <2>1, <2>3, <1>2
<1>5. Upto(more, e) = more
  <2>1. {y \in DOMAIN more : y <= e} = DOMAIN more
    BY <1>1
  <2> QED
    BY <1>1, <2>1 DEF Upto
<1> QED
  BY <1>2, <1>3, <1>4, <1>5

LEMMA ValuesGrown ==
  ASSUME NEW lines, NEW e, NEW v, NEW more, Grown(lines, e, v, more),
         NEW at \in SUBSET DOMAIN lines
  PROVE  /\ Values(more, at) = Values(lines, at)
         /\ LastValue(more, at) = LastValue(lines, at)
<1>1. /\ at \in SUBSET Nat /\ IsFiniteSet(at)
      /\ \A x \in at : more[x] = lines[x]
  BY FS_Subset DEF Grown, AreLines
<1>2. \A i \in 1..Cardinality(at) : more[Sorted(at)[i]] = lines[Sorted(at)[i]]
  BY <1>1, SortedPlaces
<1>3. at # {} => Max(at) \in at
  BY <1>1, MaxOf
<1> QED
  BY <1>1, <1>2, <1>3 DEF Values, LastValue

(* Some lines that are not empty.                                           *)
Some(lines, at) == at \in SUBSET DOMAIN lines /\ \A x \in at : lines[x] # <<>>

LEMMA ValuesTypes ==
  ASSUME NEW lines, AreLines(lines), NEW at, Some(lines, at)
  PROVE  /\ Values(lines, at) \in Seq(Seq(STRING))
         /\ Len(Values(lines, at)) = Cardinality(at)
         /\ LastValue(lines, at) \in Seq(STRING) \cup {Null}
<1>1. /\ at \in SUBSET Nat /\ IsFiniteSet(at)
      /\ \A x \in at : lines[x] \in Seq(STRING) /\ lines[x] # <<>>
  BY FS_Subset DEF AreLines, Some
<1>2. \A x \in at : Tail(lines[x]) \in Seq(STRING)
  BY <1>1, HeadTailProperties
<1>3. \A i \in 1..Cardinality(at) : Sorted(at)[i] \in at
  BY <1>1, SortedPlaces
<1>4. Cardinality(at) \in Nat
  BY <1>1, FS_CardinalityType
<1>5. at # {} => Max(at) \in at
  BY <1>1, MaxOf
<1>6. \A i \in 1..Cardinality(at) : Tail(lines[Sorted(at)[i]]) \in Seq(STRING)
  BY <1>2, <1>3
<1>7. Values(lines, at) \in Seq(Seq(STRING)) /\ Len(Values(lines, at)) = Cardinality(at)
  <2>1. Values(lines, at) = [i \in 1..Cardinality(at) |-> Tail(lines[Sorted(at)[i]])]
    BY DEF Values
  <2>2. Values(lines, at) \in [1..Cardinality(at) -> Seq(STRING)]
    BY <1>6, <2>1
  <2> QED
    BY <1>4, <2>2
<1>8. LastValue(lines, at) \in Seq(STRING) \cup {Null}
  BY <1>2, <1>5 DEF LastValue
<1> QED
  BY <1>7, <1>8

(* The data of one line more.                                               *)
ValueOf(v) == Tail(v)

WithData(data, v) == Append(data, Tail(v))

LEMMA ValuesAppend ==
  ASSUME NEW lines, NEW e, NEW v, NEW more, Grown(lines, e, v, more),
         NEW at, Some(lines, at), v # <<>>
  PROVE  /\ Values(more, at \cup {e}) = WithData(Values(lines, at), v)
         /\ LastValue(more, at \cup {e}) = ValueOf(v)
<1>1. /\ at \in SUBSET Nat /\ IsFiniteSet(at)
      /\ \A x \in at : more[x] = lines[x] /\ x < e
      /\ e \in Nat /\ more[e] = v /\ AreLines(lines)
  BY FS_Subset DEF Grown, AreLines, Some
<1> DEFINE n == Cardinality(at)
<1>2. /\ Cardinality(at \cup {e}) = n + 1 /\ n \in Nat
      /\ \A i \in 1..n : Sorted(at \cup {e})[i] = Sorted(at)[i]
      /\ Sorted(at \cup {e})[n + 1] = e
  BY <1>1, SortedLast
<1>3. Values(lines, at) \in Seq(Seq(STRING)) /\ Len(Values(lines, at)) = n
  BY <1>1, ValuesTypes
<1>4. \A i \in 1..n : Sorted(at)[i] \in at
  BY <1>1, SortedPlaces
<1>5. Values(more, at \cup {e}) = Append(Values(lines, at), Tail(v))
  <2> DEFINE b == Append(Values(lines, at), Tail(v))
             a == Values(more, at \cup {e})
  <2>1. a = [i \in 1..(n + 1) |-> Tail(more[Sorted(at \cup {e})[i]])]
    BY <1>2 DEF Values
  <2>2. /\ b \in Seq(Seq(STRING)) /\ Len(b) = n + 1 /\ b[n + 1] = Tail(v)
        /\ \A i \in 1..n : b[i] = Values(lines, at)[i]
    <3>1. Tail(v) \in Seq(STRING)
      BY HeadTailProperties DEF Grown
    <3> HIDE DEF n
    <3> QED
      BY <1>2, <1>3, <3>1
  <2>3. \A i \in 1..n : Values(lines, at)[i] = Tail(lines[Sorted(at)[i]])
    BY DEF Values
  <2>4. \A i \in 1..n : Tail(more[Sorted(at \cup {e})[i]]) = Values(lines, at)[i]
    BY <1>1, <1>2, <1>4, <2>3
  <2>5. Tail(more[Sorted(at \cup {e})[n + 1]]) = Tail(v)
    BY <1>1, <1>2
  <2> HIDE DEF n, a, b
  <2>6. \A i \in 1..(n + 1) : a[i] = b[i]
    <3>1. ASSUME NEW i \in 1..n PROVE a[i] = b[i]
      <4>1. i \in 1..(n + 1)
        BY <1>2
      <4> QED
        BY <2>1, <2>2, <2>4, <4>1
    <3>2. a[n + 1] = b[n + 1]
      <4>1. n + 1 \in 1..(n + 1)
        BY <1>2
      <4> QED
        BY <2>1, <2>2, <2>5, <4>1
    <3> QED
      BY <1>2, <3>1, <3>2
  <2>7. b = [i \in 1..(n + 1) |-> b[i]]
    BY <1>2, <2>2
  <2>8. a = b
    BY <2>1, <2>6, <2>7
  <2> QED
    BY <2>8 DEF a, b
<1>6. Max(at \cup {e}) = e
  <2>1. \A y \in at \cup {e} : y <= e /\ y \in Nat
    BY <1>1
  <2> QED
    BY <1>1, <2>1, MaxIs
<1>7. LastValue(more, at \cup {e}) = ValueOf(v)
  BY <1>1, <1>6 DEF LastValue, ValueOf
<1> QED
  BY <1>5, <1>7 DEF WithData

(* The lines that say what is open.                                         *)
DataAt(lines)  == Block(lines) \cap Named(lines, "data:")
NameAt(lines)  == Block(lines) \cap Named(lines, "event:")
IdAt(lines)    == {e \in Named(lines, "id:") : "NUL" \notin ToSet(Tail(lines[e]))}
RetryAt(lines) == {e \in Named(lines, "retry:") :
                     Tail(lines[e]) # <<>> /\ ToSet(Tail(lines[e])) \subseteq Digits}

IsId(v)    == v[1] = "id:" /\ "NUL" \notin ToSet(Tail(v))
IsRetry(v) == v[1] = "retry:" /\ Tail(v) # <<>> /\ ToSet(Tail(v)) \subseteq Digits

LEMMA OpenIs ==
  ASSUME NEW lines
  PROVE  Open(lines) = [data  |-> Values(lines, DataAt(lines)),
                        event |-> LastValue(lines, NameAt(lines)),
                        id    |-> LastValue(lines, IdAt(lines)),
                        retry |-> LastValue(lines, RetryAt(lines))]
BY DEF Open, DataAt, NameAt, IdAt, RetryAt

LEMMA OpenAt ==
  ASSUME NEW lines
  PROVE  \A at \in {DataAt(lines), NameAt(lines), IdAt(lines), RetryAt(lines)} : Some(lines, at)
BY DEF Some, DataAt, NameAt, IdAt, RetryAt, Block, Named

Event ==
  [data : Seq(Seq(STRING)), event : Seq(STRING) \cup {Null},
   id : Seq(STRING) \cup {Null}, retry : Seq(STRING) \cup {Null}]

LEMMA OpenTyped ==
  ASSUME NEW lines, AreLines(lines)
  PROVE  Open(lines) \in Event
<1>1. /\ Values(lines, DataAt(lines)) \in Seq(Seq(STRING))
      /\ LastValue(lines, NameAt(lines)) \in Seq(STRING) \cup {Null}
      /\ LastValue(lines, IdAt(lines)) \in Seq(STRING) \cup {Null}
      /\ LastValue(lines, RetryAt(lines)) \in Seq(STRING) \cup {Null}
  BY OpenAt, ValuesTypes
<1> QED
  BY <1>1, OpenIs DEF Event

LEMMA AtGrown ==
  ASSUME NEW lines, NEW e, NEW v, NEW more, Grown(lines, e, v, more)
  PROVE  /\ v = <<>> => /\ DataAt(more) = {} /\ NameAt(more) = {}
                        /\ IdAt(more) = IdAt(lines) /\ RetryAt(more) = RetryAt(lines)
         /\ v # <<>> =>
              /\ DataAt(more) = DataAt(lines) \cup (IF v[1] = "data:" THEN {e} ELSE {})
              /\ NameAt(more) = NameAt(lines) \cup (IF v[1] = "event:" THEN {e} ELSE {})
              /\ IdAt(more) = IdAt(lines) \cup (IF IsId(v) THEN {e} ELSE {})
              /\ RetryAt(more) = RetryAt(lines) \cup (IF IsRetry(v) THEN {e} ELSE {})
<1>1. /\ DOMAIN more = DOMAIN lines \cup {e} /\ e \notin DOMAIN lines
      /\ \A x \in DOMAIN lines : x < e /\ ~(e < x) /\ more[x] = lines[x]
      /\ ~(e < e) /\ more[e] = v
  <2>1. \A x \in DOMAIN lines \cup {e} : x \in Nat
    BY DEF Grown, AreLines
  <2>2. \A x \in DOMAIN lines : x < e /\ x # e /\ ~(e < x)
    BY <2>1 DEF Grown
  <2>3. ~(e < e)
    BY <2>1
  <2> QED
    BY <2>2, <2>3 DEF Grown
<1>2. ASSUME NEW name
      PROVE  Named(more, name)
               = Named(lines, name) \cup (IF v # <<>> /\ v[1] = name THEN {e} ELSE {})
  BY <1>1 DEF Named
<1>3. Blanks(more) = Blanks(lines) \cup (IF v = <<>> THEN {e} ELSE {})
  BY <1>1 DEF Blanks
<1>4. v = <<>> => Block(more) = {}
  BY <1>1, <1>3 DEF Block
<1>5. v # <<>> => Block(more) = Block(lines) \cup {e}
  <2>1. Blanks(lines) \subseteq DOMAIN lines
    BY DEF Blanks
  <2> QED
    BY <1>1, <1>3, <2>1 DEF Block
<1>6. \A name : Named(lines, name) \subseteq DOMAIN lines
  BY DEF Named
<1>7. IdAt(more) = IdAt(lines) \cup (IF v # <<>> /\ IsId(v) THEN {e} ELSE {})
  <2>1. \A x \in Named(lines, "id:") : more[x] = lines[x]
    BY <1>1, <1>6
  <2> QED
    BY <1>1, <1>2, <2>1 DEF IdAt, IsId
<1>8. RetryAt(more) = RetryAt(lines) \cup (IF v # <<>> /\ IsRetry(v) THEN {e} ELSE {})
  <2>1. \A x \in Named(lines, "retry:") : more[x] = lines[x]
    BY <1>1, <1>6
  <2> QED
    BY <1>1, <1>2, <2>1 DEF RetryAt, IsRetry
<1>9. Block(lines) \subseteq DOMAIN lines
  BY DEF Block
<1> QED
  BY <1>1, <1>2, <1>4, <1>5, <1>6, <1>7, <1>8, <1>9 DEF DataAt, NameAt

(* What a new line changes of what is open.                                 *)
LEMMA OpenGrown ==
  ASSUME NEW lines, NEW e, NEW v, NEW more, Grown(lines, e, v, more)
  PROVE  /\ v = <<>> => Open(more) = [data |-> <<>>, event |-> Null,
                                     id |-> Open(lines).id, retry |-> Open(lines).retry]
         /\ v # <<>> =>
              Open(more) =
                [data  |-> IF v[1] = "data:" THEN WithData(Open(lines).data, v)
                           ELSE Open(lines).data,
                 event |-> IF v[1] = "event:" THEN ValueOf(v) ELSE Open(lines).event,
                 id    |-> IF IsId(v) THEN ValueOf(v) ELSE Open(lines).id,
                 retry |-> IF IsRetry(v) THEN ValueOf(v) ELSE Open(lines).retry]
<1> DEFINE ats == {DataAt(lines), NameAt(lines), IdAt(lines), RetryAt(lines)}
<1>1. ASSUME NEW at \in ats
      PROVE  /\ Values(more, at) = Values(lines, at)
             /\ LastValue(more, at) = LastValue(lines, at)
             /\ v # <<>> => /\ Values(more, at \cup {e}) = WithData(Values(lines, at), v)
                            /\ LastValue(more, at \cup {e}) = ValueOf(v)
  <2>1. Some(lines, at)
    BY OpenAt
  <2> HIDE DEF ats
  <2>2. /\ Values(more, at) = Values(lines, at)
        /\ LastValue(more, at) = LastValue(lines, at)
    BY <2>1, ValuesGrown DEF Some
  <2>3. ASSUME v # <<>>
        PROVE  /\ Values(more, at \cup {e}) = WithData(Values(lines, at), v)
               /\ LastValue(more, at \cup {e}) = ValueOf(v)
    BY <2>1, <2>3, ValuesAppend
  <2> QED
    BY <2>2, <2>3
<1>2. CASE v = <<>>
  <2>1. Values(more, {}) = <<>> /\ LastValue(more, {}) = Null
    BY FS_EmptySet DEF Values, LastValue
  <2>2. /\ DataAt(more) = {} /\ NameAt(more) = {}
        /\ IdAt(more) = IdAt(lines) /\ RetryAt(more) = RetryAt(lines)
    BY <1>2, AtGrown
  <2>3. LastValue(more, IdAt(lines)) = LastValue(lines, IdAt(lines))
        /\ LastValue(more, RetryAt(lines)) = LastValue(lines, RetryAt(lines))
    BY <1>1
  <2>4. Open(more) = [data |-> <<>>, event |-> Null, id |-> LastValue(lines, IdAt(lines)),
                      retry |-> LastValue(lines, RetryAt(lines))]
    BY <2>1, <2>2, <2>3, OpenIs
  <2>5. Open(lines).id = LastValue(lines, IdAt(lines))
        /\ Open(lines).retry = LastValue(lines, RetryAt(lines))
    BY OpenIs
  <2> QED
    BY <1>2, <2>4, <2>5
<1>3. CASE v # <<>>
  <2>1. /\ DataAt(more) = DataAt(lines) \cup (IF v[1] = "data:" THEN {e} ELSE {})
        /\ NameAt(more) = NameAt(lines) \cup (IF v[1] = "event:" THEN {e} ELSE {})
        /\ IdAt(more) = IdAt(lines) \cup (IF IsId(v) THEN {e} ELSE {})
        /\ RetryAt(more) = RetryAt(lines) \cup (IF IsRetry(v) THEN {e} ELSE {})
    BY <1>3, AtGrown
  <2>2. ASSUME NEW at \in ats
        PROVE  /\ Values(more, at) = Values(lines, at)
               /\ LastValue(more, at) = LastValue(lines, at)
               /\ Values(more, at \cup {e}) = WithData(Values(lines, at), v)
               /\ LastValue(more, at \cup {e}) = ValueOf(v)
    BY <1>1, <1>3
  <2>3. /\ DataAt(lines) \in ats /\ NameAt(lines) \in ats
        /\ IdAt(lines) \in ats /\ RetryAt(lines) \in ats
    OBVIOUS
  <2> HIDE DEF ats
  <2>4. Values(more, DataAt(more))
          = IF v[1] = "data:" THEN WithData(Values(lines, DataAt(lines)), v)
            ELSE Values(lines, DataAt(lines))
    <3>1. CASE v[1] = "data:"
      <4>1. DataAt(more) = DataAt(lines) \cup {e}
        BY <2>1, <3>1
      <4> QED
        BY <2>2, <2>3, <3>1, <4>1
    <3>2. CASE ~(v[1] = "data:")
      <4>1. DataAt(more) = DataAt(lines)
        BY <2>1, <3>2
      <4> QED
        BY <2>2, <2>3, <3>2, <4>1
    <3> QED
      BY <3>1, <3>2
  <2>5. LastValue(more, NameAt(more))
          = IF v[1] = "event:" THEN ValueOf(v)
            ELSE LastValue(lines, NameAt(lines))
    <3>1. CASE v[1] = "event:"
      <4>1. NameAt(more) = NameAt(lines) \cup {e}
        BY <2>1, <3>1
      <4> QED
        BY <2>2, <2>3, <3>1, <4>1
    <3>2. CASE ~(v[1] = "event:")
      <4>1. NameAt(more) = NameAt(lines)
        BY <2>1, <3>2
      <4> QED
        BY <2>2, <2>3, <3>2, <4>1
    <3> QED
      BY <3>1, <3>2
  <2>6. LastValue(more, IdAt(more))
          = IF IsId(v) THEN ValueOf(v)
            ELSE LastValue(lines, IdAt(lines))
    <3>1. CASE IsId(v)
      <4>1. IdAt(more) = IdAt(lines) \cup {e}
        BY <2>1, <3>1
      <4> QED
        BY <2>2, <2>3, <3>1, <4>1
    <3>2. CASE ~IsId(v)
      <4>1. IdAt(more) = IdAt(lines)
        BY <2>1, <3>2
      <4> QED
        BY <2>2, <2>3, <3>2, <4>1
    <3> QED
      BY <3>1, <3>2
  <2>7. LastValue(more, RetryAt(more))
          = IF IsRetry(v) THEN ValueOf(v)
            ELSE LastValue(lines, RetryAt(lines))
    <3>1. CASE IsRetry(v)
      <4>1. RetryAt(more) = RetryAt(lines) \cup {e}
        BY <2>1, <3>1
      <4> QED
        BY <2>2, <2>3, <3>1, <4>1
    <3>2. CASE ~IsRetry(v)
      <4>1. RetryAt(more) = RetryAt(lines)
        BY <2>1, <3>2
      <4> QED
        BY <2>2, <2>3, <3>2, <4>1
    <3> QED
      BY <3>1, <3>2
  <2>8. Open(more) = [data  |-> Values(more, DataAt(more)),
                      event |-> LastValue(more, NameAt(more)),
                      id    |-> LastValue(more, IdAt(more)),
                      retry |-> LastValue(more, RetryAt(more))]
    BY OpenIs
  <2>9. /\ Open(lines).data = Values(lines, DataAt(lines))
        /\ Open(lines).event = LastValue(lines, NameAt(lines))
        /\ Open(lines).id = LastValue(lines, IdAt(lines))
        /\ Open(lines).retry = LastValue(lines, RetryAt(lines))
    BY OpenIs
  <2> QED
    BY <1>3, <2>4, <2>5, <2>6, <2>7, <2>8, <2>9
<1> QED
  BY <1>2, <1>3

LEMMA UptoLines ==
  ASSUME NEW lines, AreLines(lines), NEW c \in Int
  PROVE  /\ AreLines(Upto(lines, c))
         /\ DOMAIN Upto(lines, c) = {x \in DOMAIN lines : x <= c}
         /\ \A x \in DOMAIN lines : x <= c => Upto(lines, c)[x] = lines[x]
         /\ \A d \in Int : d <= c => Upto(Upto(lines, c), d) = Upto(lines, d)
<1>1. DOMAIN lines \in SUBSET Nat /\ IsFiniteSet(DOMAIN lines)
      /\ \A x \in DOMAIN lines : lines[x] \in Seq(STRING)
  BY DEF AreLines
<1>2. DOMAIN Upto(lines, c) = {x \in DOMAIN lines : x <= c}
  BY DEF Upto
<1>3. \A x \in DOMAIN lines : x <= c => Upto(lines, c)[x] = lines[x]
  BY DEF Upto
<1>4. AreLines(Upto(lines, c))
  <2>1. {x \in DOMAIN lines : x <= c} \in SUBSET DOMAIN lines
    OBVIOUS
  <2>2. IsFiniteSet({x \in DOMAIN lines : x <= c})
    BY <1>1, <2>1, FS_Subset
  <2>3. Upto(lines, c) \in [{x \in DOMAIN lines : x <= c} -> Seq(STRING)]
    BY <1>1 DEF Upto
  <2> QED
    BY <1>1, <1>2, <2>2, <2>3 DEF AreLines
<1>5. ASSUME NEW d \in Int, d <= c PROVE Upto(Upto(lines, c), d) = Upto(lines, d)
  <2>1. {y \in {x \in DOMAIN lines : x <= c} : y <= d} = {y \in DOMAIN lines : y <= d}
    <3>1. \A x \in DOMAIN lines : x <= d => x <= c
      BY <1>1, <1>5
    <3> QED
      BY <3>1
  <2>2. \A x \in {y \in DOMAIN lines : y <= d} : Upto(lines, c)[x] = lines[x]
    BY <1>1, <1>3, <1>5
  <2>3. Upto(Upto(lines, c), d) = [x \in {y \in DOMAIN lines : y <= d} |-> Upto(lines, c)[x]]
    BY <1>2, <2>1 DEF Upto
  <2> QED
    BY <2>2, <2>3 DEF Upto
<1> QED
  BY <1>2, <1>3, <1>4, <1>5

LEMMA FullIs ==
  ASSUME NEW lines, AreLines(lines)
  PROVE  /\ Full(lines) \in SUBSET DOMAIN lines /\ Full(lines) \in SUBSET Nat
         /\ IsFiniteSet(Full(lines)) /\ Cardinality(Full(lines)) \in Nat
<1>1. Full(lines) \in SUBSET DOMAIN lines
  BY DEF Full, Blanks
<1> QED
  BY <1>1, FS_Subset, FS_CardinalityType DEF AreLines

LEMMA EventsTyped ==
  ASSUME NEW lines, AreLines(lines)
  PROVE  EventsOf(lines) \in Seq(Event) /\ Len(EventsOf(lines)) = Cardinality(Full(lines))
<1> DEFINE n == Cardinality(Full(lines))
<1>1. n \in Nat /\ Full(lines) \in SUBSET Nat /\ IsFiniteSet(Full(lines))
  BY FullIs
<1>2. ASSUME NEW i \in 1..n
      PROVE  Open(Upto(lines, Sorted(Full(lines))[i] - 1)) \in Event
  <2>1. Sorted(Full(lines))[i] \in Nat
    BY <1>1, SortedPlaces
  <2>2. Sorted(Full(lines))[i] - 1 \in Int
    BY <2>1
  <2> QED
    BY <2>2, UptoLines, OpenTyped
<1>3. EventsOf(lines) = [i \in 1..n |-> Open(Upto(lines, Sorted(Full(lines))[i] - 1))]
  BY DEF EventsOf
<1>4. EventsOf(lines) \in [1..n -> Event]
  <2> HIDE DEF n
  <2> QED
    BY <1>2, <1>3
<1> QED
  BY <1>1, <1>4

(* A prefix of the lines has a prefix of the events.                        *)
LEMMA EventsPrefix ==
  ASSUME NEW lines, AreLines(lines), NEW c \in Int
  PROVE  IsPrefix(EventsOf(Upto(lines, c)), EventsOf(lines))
<1> DEFINE some == Upto(lines, c)
           S == Full(some)
           T == Full(lines)
<1>1. /\ AreLines(some)
      /\ DOMAIN some = {x \in DOMAIN lines : x <= c}
      /\ \A x \in DOMAIN lines : x <= c => some[x] = lines[x]
      /\ \A d \in Int : d <= c => Upto(some, d) = Upto(lines, d)
  BY UptoLines
<1>2. DOMAIN lines \in SUBSET Nat
  BY DEF AreLines
<1> HIDE DEF some
<1>3. \A x \in DOMAIN some : Upto(some, x - 1) = Upto(lines, x - 1)
  <2> SUFFICES ASSUME NEW x \in DOMAIN some PROVE Upto(some, x - 1) = Upto(lines, x - 1)
    OBVIOUS
  <2>1. x - 1 \in Int /\ x - 1 <= c
    BY <1>1, <1>2
  <2> QED
    BY <1>1, <2>1
<1>4. S = {x \in T : x <= c}
  <2>1. Blanks(some) = {x \in Blanks(lines) : x <= c}
    BY <1>1 DEF Blanks
  <2>2. \A x \in Blanks(some) : Upto(some, x - 1) = Upto(lines, x - 1)
    BY <1>3 DEF Blanks
  <2> QED
    BY <2>1, <2>2 DEF Full
<1>5. /\ T \in SUBSET Nat /\ IsFiniteSet(T)
      /\ Len(EventsOf(lines)) = Cardinality(T) /\ EventsOf(lines) \in Seq(Event)
      /\ Len(EventsOf(some)) = Cardinality(S) /\ EventsOf(some) \in Seq(Event)
  BY <1>1, FullIs, EventsTyped
<1>6. S \in SUBSET T /\ \A x \in S, y \in T \ S : x < y
  <2> HIDE DEF S, T
  <2>1. S \in SUBSET T
    BY <1>4
  <2>2. \A x \in S, y \in T \ S : x <= c /\ ~(y <= c) /\ x \in Nat /\ y \in Nat
    BY <1>4, <1>5
  <2> QED
    BY <2>1, <2>2
<1>7. /\ Cardinality(S) <= Cardinality(T)
      /\ \A i \in 1..Cardinality(S) : i \in 1..Cardinality(T) /\ Sorted(T)[i] = Sorted(S)[i]
  <2> HIDE DEF S, T
  <2> QED
    BY <1>5, <1>6, SortedFirst
<1>8. \A i \in 1..Cardinality(S) : EventsOf(some)[i] = EventsOf(lines)[i]
  <2> SUFFICES ASSUME NEW i \in 1..Cardinality(S)
               PROVE  EventsOf(some)[i] = EventsOf(lines)[i]
    OBVIOUS
  <2>1. EventsOf(some)[i] = Open(Upto(some, Sorted(S)[i] - 1))
    BY DEF EventsOf
  <2>2. EventsOf(lines)[i] = Open(Upto(lines, Sorted(T)[i] - 1))
    BY <1>7 DEF EventsOf
  <2>3. Sorted(S)[i] \in S
    BY <1>1, FullIs, SortedPlaces
  <2>4. Sorted(S)[i] \in DOMAIN some
    BY <2>3 DEF Full, Blanks
  <2>5. Sorted(T)[i] = Sorted(S)[i]
    BY <1>7
  <2> HIDE DEF S, T
  <2> QED
    BY <1>3, <2>1, <2>2, <2>4, <2>5
<1>9. SubSeq(EventsOf(some), 1, Cardinality(S)) = SubSeq(EventsOf(lines), 1, Cardinality(S))
  <2>1. Cardinality(S) \in Nat /\ Cardinality(T) \in Nat
    BY <1>1, FullIs
  <2> HIDE DEF S, T
  <2> DEFINE a == SubSeq(EventsOf(some), 1, Cardinality(S))
             b == SubSeq(EventsOf(lines), 1, Cardinality(S))
  <2>2. a = [i \in 1..Cardinality(S) |-> EventsOf(some)[i]]
    BY <1>5, <2>1
  <2>3. b = [i \in 1..Cardinality(S) |-> EventsOf(lines)[i]]
    BY <1>5, <1>7, <2>1
  <2> QED
    BY <1>8, <2>2, <2>3
<1> QED
  BY <1>5, <1>7, <1>9 DEF IsPrefix, some

(* What a new line changes of the events.                                   *)
WithEvent(evs, e) == evs \o <<e>>

LEMMA EventsGrown ==
  ASSUME NEW lines, NEW e, NEW v, NEW more, Grown(lines, e, v, more)
  PROVE  EventsOf(more) =
           IF v = <<>> /\ Open(lines).data # <<>> THEN WithEvent(EventsOf(lines), Open(lines))
           ELSE EventsOf(lines)
<1> DEFINE S == Full(lines)
           T == Full(more)
           n == Cardinality(S)
           ends == v = <<>> /\ Open(lines).data # <<>>
<1>1. AreLines(lines) /\ AreLines(more) /\ e \in Nat /\ e \notin DOMAIN lines
  BY GrownAreLines
<1>2. /\ \A x \in DOMAIN lines : Upto(more, x - 1) = Upto(lines, x - 1)
      /\ Upto(more, e - 1) = lines
  BY GrownUpto
<1>3. Blanks(more) = Blanks(lines) \cup (IF v = <<>> THEN {e} ELSE {})
  BY DEF Blanks, Grown
<1>4. T = S \cup (IF ends THEN {e} ELSE {})
  <2>1. \A x \in Blanks(lines) : Upto(more, x - 1) = Upto(lines, x - 1) /\ x # e
    BY <1>1, <1>2 DEF Blanks
  <2>2. e \notin Blanks(lines)
    BY <1>1 DEF Blanks
  <2> QED
    BY <1>2, <1>3, <2>1, <2>2 DEF Full
<1>5. /\ S \in SUBSET DOMAIN lines /\ S \in SUBSET Nat /\ IsFiniteSet(S) /\ n \in Nat
      /\ EventsOf(lines) \in Seq(Event) /\ Len(EventsOf(lines)) = n
      /\ EventsOf(more) \in Seq(Event) /\ Len(EventsOf(more)) = Cardinality(T)
      /\ Open(lines) \in Event
  BY <1>1, FullIs, EventsTyped, OpenTyped
<1>6. ASSUME NEW i \in 1..n, i \in 1..Cardinality(T), Sorted(T)[i] = Sorted(S)[i]
      PROVE  EventsOf(more)[i] = EventsOf(lines)[i]
  <2>1. EventsOf(more)[i] = Open(Upto(more, Sorted(T)[i] - 1))
    BY <1>6 DEF EventsOf
  <2>2. EventsOf(lines)[i] = Open(Upto(lines, Sorted(S)[i] - 1))
    BY DEF EventsOf
  <2>3. Sorted(S)[i] \in DOMAIN lines
    BY <1>5, SortedPlaces
  <2> HIDE DEF S, T, n
  <2> QED
    BY <1>2, <1>6, <2>1, <2>2, <2>3
<1>7. CASE ~ends
  <2>1. T = S
    BY <1>4, <1>7
  <2> QED
    <3>1. \A i \in 1..n : EventsOf(more)[i] = EventsOf(lines)[i]
      BY <1>6, <2>1
    <3>2. Len(EventsOf(more)) = n
      BY <1>5, <2>1
    <3> HIDE DEF S, T, n, ends
    <3>3. EventsOf(more) = EventsOf(lines)
      BY <1>5, <3>1, <3>2, SeqEqual
    <3> QED
      BY <1>7, <3>3 DEF ends
<1>8. CASE ends
  <2>1. T = S \cup {e}
    BY <1>4, <1>8
  <2>2. \A x \in S : x < e
    BY <1>5 DEF Grown
  <2>3. /\ Cardinality(T) = n + 1
        /\ \A i \in 1..n : Sorted(T)[i] = Sorted(S)[i]
        /\ Sorted(T)[n + 1] = e
    <3> HIDE DEF S, T
    <3> QED
      BY <1>1, <1>5, <2>1, <2>2, SortedLast
  <2>4. EventsOf(more)[n + 1] = Open(lines)
    <3>1. n + 1 \in 1..Cardinality(T)
      BY <1>5, <2>3
    <3>2. EventsOf(more)[n + 1] = Open(Upto(more, Sorted(T)[n + 1] - 1))
      BY <3>1 DEF EventsOf
    <3> HIDE DEF S, T, n
    <3> QED
      BY <1>2, <2>3, <3>2
  <2>5. \A i \in 1..n : EventsOf(more)[i] = EventsOf(lines)[i]
    <3> SUFFICES ASSUME NEW i \in 1..n PROVE EventsOf(more)[i] = EventsOf(lines)[i]
      OBVIOUS
    <3>1. i \in 1..Cardinality(T)
      BY <1>5, <2>3
    <3> QED
      BY <1>6, <2>3, <3>1
  <2> DEFINE b == EventsOf(lines) \o <<Open(lines)>>
  <2>6. /\ b \in Seq(Event) /\ Len(b) = n + 1 /\ b[n + 1] = Open(lines)
        /\ \A i \in 1..n : b[i] = EventsOf(lines)[i]
    <3> HIDE DEF n, S, T
    <3> QED
      BY <1>5
  <2>7. \A i \in 1..(n + 1) : EventsOf(more)[i] = b[i]
    <3> HIDE DEF n, S, T, b
    <3>1. \A i \in 1..(n + 1) : i \in 1..n \/ i = n + 1
      BY <1>5
    <3> QED
      BY <2>4, <2>5, <2>6, <3>1
  <2>8. EventsOf(more) = b
    <3>1. Len(EventsOf(more)) = n + 1
      BY <1>5, <2>3
    <3> HIDE DEF n, S, T, b
    <3> QED
      BY <1>5, <2>6, <2>7, <3>1, SeqEqual
  <2> QED
    BY <1>8, <2>8 DEF WithEvent
<1> QED
  BY <1>7, <1>8

-----------------------------------------------------------------------------
(* A function by recursion on an interval: its equation has a solution.     *)
Follows(g, a, step, n) ==
  g = [k \in 0..n |-> IF k = 0 THEN a ELSE step[<<k, g[k-1]>>]]

LEMMA Recursion ==
  ASSUME NEW V, NEW a \in V, NEW n \in Nat, NEW step \in [(1..n) \X V -> V]
  PROVE  \E g \in [0..n -> V] : Follows(g, a, step, n)
<1> DEFINE T == {m \in Nat : m <= n => \E g \in [0..m -> V] : Follows(g, a, step, m)}
<1>1. 0 \in T
  <2> DEFINE g == [k \in 0..0 |-> a]
  <2>1. g \in [0..0 -> V]
    OBVIOUS
  <2>2. Follows(g, a, step, 0)
    BY DEF Follows
  <2> QED
    BY <2>1, <2>2
<1>2. ASSUME NEW m \in Nat, m \in T PROVE m + 1 \in T
  <2> SUFFICES ASSUME m + 1 <= n
               PROVE  \E g \in [0..(m + 1) -> V] : Follows(g, a, step, m + 1)
    OBVIOUS
  <2>1. PICK g \in [0..m -> V] : Follows(g, a, step, m)
    BY <1>2
  <2> DEFINE b == step[<<m + 1, g[m]>>]
             h == [k \in 0..(m + 1) |-> IF k = m + 1 THEN b ELSE g[k]]
  <2>2. b \in V
    <3>1. <<m + 1, g[m]>> \in (1..n) \X V
      OBVIOUS
    <3> QED
      BY <3>1
  <2>3. h \in [0..(m + 1) -> V]
    <3> HIDE DEF b
    <3> QED
      BY <2>2
  <2>4. \A k \in 0..m : g[k] = IF k = 0 THEN a ELSE step[<<k, g[k-1]>>]
    BY <2>1 DEF Follows
  <2>5. \A k \in 0..(m + 1) : h[k] = IF k = 0 THEN a ELSE step[<<k, h[k-1]>>]
    <3> SUFFICES ASSUME NEW k \in 0..(m + 1)
                 PROVE  h[k] = IF k = 0 THEN a ELSE step[<<k, h[k-1]>>]
      OBVIOUS
    <3>1. CASE k = m + 1
      <4>1. h[k] = b /\ h[k-1] = g[m] /\ k # 0
        BY <3>1
      <4> QED
        BY <3>1, <4>1
    <3>2. CASE k \in 0..m
      <4>1. h[k] = g[k] /\ (k # 0 => h[k-1] = g[k-1])
        BY <3>2
      <4> HIDE DEF h
      <4> QED
        BY <2>4, <3>2, <4>1
    <3> QED
      BY <3>1, <3>2
  <2>6. Follows(h, a, step, m + 1)
    <3> HIDE DEF h
    <3> QED
      BY <2>3, <2>5 DEF Follows
  <2> QED
    BY <2>3, <2>6
<1> HIDE DEF T
<1>3. n \in T
  BY <1>1, <1>2, Induction
<1> QED
  BY <1>3 DEF T

(* The characters of a value can be counted.                                *)
LEMMA CharsIs ==
  ASSUME NEW v \in Seq(STRING)
  PROVE  Chars(v) \in Nat
<1>1. IsFiniteSet(DOMAIN v)
  BY FS_Interval
<1> QED
  BY <1>1, FS_Subset, FS_CardinalityType DEF Chars

(* Size(data): what the lines of an event take.                             *)
Sums(data, g) ==
  g = [n \in 0..Len(data) |-> IF n = 0 THEN 0 ELSE g[n-1] + Chars(data[n]) + 1]

LEMMA SumsAt ==
  ASSUME NEW data, Len(data) \in Nat, NEW g, Sums(data, g)
  PROVE  g[0] = 0 /\ \A n \in 1..Len(data) : g[n] = g[n-1] + Chars(data[n]) + 1
<1> DEFINE e(n) == IF n = 0 THEN 0 ELSE g[n-1] + Chars(data[n]) + 1
<1>1. g = [n \in 0..Len(data) |-> e(n)]
  BY DEF Sums
<1> HIDE DEF e
<1>2. \A n \in 0..Len(data) : g[n] = e(n)
  BY <1>1
<1>3. e(0) = 0
  BY DEF e
<1>4. ASSUME NEW n \in 1..Len(data) PROVE g[n] = g[n-1] + Chars(data[n]) + 1
  <2>1. e(n) = g[n-1] + Chars(data[n]) + 1
    BY DEF e
  <2>2. g[n] = e(n)
    BY <1>2
  <2> QED
    BY <2>1, <2>2, Zenon
<1>5. 0 \in 0..Len(data)
  OBVIOUS
<1> QED
  BY <1>2, <1>3, <1>4, <1>5

LEMMA SizeIsSum ==
  ASSUME NEW data \in Seq(Seq(STRING))
  PROVE  \E g \in [0..Len(data) -> Nat] : Sums(data, g) /\ Size(data) = g[Len(data)]
<1> DEFINE n == Len(data)
           step == [x \in (1..n) \X Nat |-> x[2] + Chars(data[x[1]]) + 1]
<1>1. n \in Nat /\ \A k \in 1..n : Chars(data[k]) \in Nat
  <2>1. n \in Nat /\ \A k \in 1..n : data[k] \in Seq(STRING)
    OBVIOUS
  <2> QED
    BY <2>1, CharsIs
<1>2. step \in [(1..n) \X Nat -> Nat]
  BY <1>1
<1>3. \A k \in 1..n, x \in Nat : step[<<k, x>>] = x + Chars(data[k]) + 1
  OBVIOUS
<1> HIDE DEF step, n
<1>4. PICK g \in [0..n -> Nat] : Follows(g, 0, step, n)
  BY <1>1, <1>2, Recursion
<1>5. \A k \in 1..n : step[<<k, g[k-1]>>] = g[k-1] + Chars(data[k]) + 1
  BY <1>1, <1>3
<1>6. Sums(data, g)
  <2>1. \A k \in 0..n : (IF k = 0 THEN 0 ELSE step[<<k, g[k-1]>>])
                          = IF k = 0 THEN 0 ELSE g[k-1] + Chars(data[k]) + 1
    BY <1>1, <1>5
  <2> QED
    BY <1>4, <2>1 DEF Sums, Follows, n
<1>7. Size(data) = (CHOOSE h : Sums(data, h))[n]
  BY DEF Size, Sums, n
<1> DEFINE f == CHOOSE h : Sums(data, h)
<1>8. Sums(data, f)
  BY <1>6
<1> HIDE DEF f
<1>9. f[0] = 0 /\ \A k \in 1..n : f[k] = f[k-1] + Chars(data[k]) + 1
  BY <1>1, <1>8, SumsAt DEF n
<1>10. \A k \in Nat : k \in 0..n => f[k] \in Nat
  <2> DEFINE T == {k \in Nat : k \in 0..n => f[k] \in Nat}
  <2>1. 0 \in T
    BY <1>9
  <2>2. ASSUME NEW k \in Nat, k \in T PROVE k + 1 \in T
    <3> SUFFICES ASSUME k + 1 \in 0..n PROVE f[k + 1] \in Nat
      OBVIOUS
    <3>1. f[k] \in Nat /\ k + 1 \in 1..n /\ (k + 1) - 1 = k
      BY <1>1, <2>2
    <3>2. f[k + 1] = f[k] + Chars(data[k + 1]) + 1
      BY <1>9, <3>1
    <3> QED
      BY <1>1, <3>1, <3>2
  <2> HIDE DEF T
  <2>3. \A k \in Nat : k \in T
    BY <2>1, <2>2, Induction
  <2> QED
    BY <2>3 DEF T
<1>11. f \in [0..n -> Nat]
  <2>1. f = [k \in 0..n |-> f[k]]
    BY <1>8 DEF Sums, n
  <2>2. \A k \in 0..n : f[k] \in Nat
    BY <1>1, <1>10
  <2> QED
    BY <2>1, <2>2
<1> QED
  BY <1>7, <1>8, <1>11 DEF f, n

LEMMA SizeEmpty == Size(<<>>) = 0
<1>1. <<>> \in Seq(Seq(STRING)) /\ Len(<<>>) = 0
  OBVIOUS
<1>2. PICK g \in [0..Len(<<>>) -> Nat] : Sums(<<>>, g) /\ Size(<<>>) = g[Len(<<>>)]
  BY <1>1, SizeIsSum, Zenon
<1>3. g[0] = 0
  BY <1>1, <1>2, SumsAt
<1> QED
  BY <1>1, <1>2, <1>3

LEMMA SizeAppend ==
  ASSUME NEW data \in Seq(Seq(STRING)), NEW v \in Seq(STRING)
  PROVE  /\ Size(data) \in Nat /\ Size(Append(data, v)) = Size(data) + Chars(v) + 1
<1> DEFINE n == Len(data)
           more == Append(data, v)
<1>1. /\ n \in Nat /\ more \in Seq(Seq(STRING)) /\ Len(more) = n + 1
      /\ \A k \in 1..n : more[k] = data[k]
      /\ more[n + 1] = v
  OBVIOUS
<1>2. PICK g \in [0..n -> Nat] : Sums(data, g) /\ Size(data) = g[n]
  BY SizeIsSum
<1> HIDE DEF more
<1>3. PICK h \in [0..(n + 1) -> Nat] : Sums(more, h) /\ Size(more) = h[n + 1]
  BY <1>1, SizeIsSum
<1>4. g[0] = 0 /\ \A k \in 1..n : g[k] = g[k-1] + Chars(data[k]) + 1
  BY <1>1, <1>2, SumsAt
<1>5. h[0] = 0 /\ \A k \in 1..(n + 1) : h[k] = h[k-1] + Chars(more[k]) + 1
  <2> HIDE DEF n
  <2>1. Len(more) \in Nat /\ Len(more) = n + 1
    BY <1>1
  <2>2. h[0] = 0 /\ \A k \in 1..Len(more) : h[k] = h[k-1] + Chars(more[k]) + 1
    BY <1>3, <2>1, SumsAt
  <2> QED
    BY <2>1, <2>2
<1> HIDE DEF n
<1> DEFINE T == {k \in Nat : k <= n => g[k] = h[k]}
<1>6. 0 \in T
  BY <1>4, <1>5
<1>7. ASSUME NEW k \in Nat, k \in T PROVE k + 1 \in T
  <2> SUFFICES ASSUME k + 1 <= n PROVE g[k + 1] = h[k + 1]
    OBVIOUS
  <2>1. g[k] = h[k] /\ k + 1 \in 1..n /\ k + 1 \in 1..(n + 1) /\ (k + 1) - 1 = k
    BY <1>1, <1>7
  <2>2. g[k + 1] = g[k] + Chars(data[k + 1]) + 1
    BY <1>4, <2>1
  <2>3. h[k + 1] = h[k] + Chars(more[k + 1]) + 1
    BY <1>5, <2>1
  <2>4. more[k + 1] = data[k + 1]
    BY <1>1, <2>1
  <2> QED
    BY <2>1, <2>2, <2>3, <2>4
<1> HIDE DEF T
<1>8. n \in T
  BY <1>1, <1>6, <1>7, Induction
<1>9. g[n] = h[n]
  BY <1>1, <1>8 DEF T
<1>10. h[n + 1] = h[n] + Chars(v) + 1
  <2>1. n + 1 \in 1..(n + 1) /\ (n + 1) - 1 = n
    BY <1>1
  <2> QED
    BY <1>1, <1>5, <2>1
<1>11. g[n] \in Nat
  BY <1>1, <1>2
<1> QED
  BY <1>2, <1>3, <1>9, <1>10, <1>11 DEF more

-----------------------------------------------------------------------------
(* The lines of some bytes.                                                 *)
LEMMA EndsAre ==
  ASSUME NEW b \in Seq(STRING), NEW final \in BOOLEAN
  PROVE  /\ LineEnds(b, final) \in SUBSET (1..Len(b)) /\ LineEnds(b, final) \in SUBSET Nat
         /\ IsFiniteSet(LineEnds(b, final))
<1>1. LineEnds(b, final) \in SUBSET (1..Len(b)) /\ Len(b) \in Nat
  BY DEF LineEnds
<1>2. IsFiniteSet(1..Len(b))
  BY <1>1, FS_Interval
<1> QED
  BY <1>1, <1>2, FS_Subset

(* Where the line that ends at e begins, and where its content does end.    *)
From(ends, e) == Max({0} \cup {x \in ends : x < e}) + 1
To(b, ends, e) ==
  IF b[e] = "LF" /\ e > From(ends, e) /\ b[e-1] = "CR" THEN e - 2 ELSE e - 1
Plain(b, ends, e) == SubSeq(b, From(ends, e), To(b, ends, e))
NoBom(first, plain) ==
  IF first /\ plain # <<>> /\ plain[1] = "BOM" THEN Tail(plain) ELSE plain

LEMMA FromIs ==
  ASSUME NEW ends \in SUBSET Nat, IsFiniteSet(ends), NEW e \in Nat
  PROVE  From(ends, e) \in Nat \ {0} /\ (e > 0 => From(ends, e) <= e)
<1> DEFINE S == {0} \cup {x \in ends : x < e}
<1>1. S \in SUBSET Nat /\ S # {} /\ IsFiniteSet(S)
  <2>1. {x \in ends : x < e} \in SUBSET ends
    OBVIOUS
  <2>2. IsFiniteSet({x \in ends : x < e})
    BY <2>1, FS_Subset
  <2>3. IsFiniteSet({x \in ends : x < e} \cup {0})
    BY <2>2, FS_AddElement
  <2>4. {x \in ends : x < e} \cup {0} = S
    OBVIOUS
  <2>5. S \in SUBSET Nat /\ S # {}
    <3>1. 0 \in S /\ \A x \in S : x \in Nat
      OBVIOUS
    <3> HIDE DEF S
    <3> QED
      BY <3>1
  <2> HIDE DEF S
  <2>6. IsFiniteSet(S)
    BY <2>3, <2>4
  <2> QED
    BY <2>5, <2>6
<1>2. \A x \in S : x \in Nat /\ (e > 0 => x < e)
  OBVIOUS
<1>3. Max(S) \in S
  <2> HIDE DEF S
  <2> QED
    BY <1>1, MaxOf
<1>4. From(ends, e) = Max(S) + 1
  BY DEF From
<1> HIDE DEF S
<1> QED
  BY <1>2, <1>3, <1>4

LEMMA NoBomTyped ==
  ASSUME NEW plain \in Seq(STRING), NEW first \in BOOLEAN
  PROVE  NoBom(first, plain) \in Seq(STRING)
BY HeadTailProperties DEF NoBom

LEMMA LinesAre ==
  ASSUME NEW b \in Seq(STRING), NEW final \in BOOLEAN
  PROVE  /\ AreLines(Lines(b, final)) /\ DOMAIN Lines(b, final) = LineEnds(b, final)
         /\ \A e \in LineEnds(b, final) :
               Lines(b, final)[e] = NoBom(From(LineEnds(b, final), e) = 1,
                                          Plain(b, LineEnds(b, final), e))
<1> DEFINE ends == LineEnds(b, final)
<1>1. ends \in SUBSET (1..Len(b)) /\ ends \in SUBSET Nat /\ IsFiniteSet(ends) /\ Len(b) \in Nat
  BY EndsAre
<1>2. Lines(b, final) = [e \in ends |-> NoBom(From(ends, e) = 1, Plain(b, ends, e))]
  BY DEF Lines, LinesAt, NoBom, From, To, Plain
<1> HIDE DEF ends
<1>3. ASSUME NEW e \in ends
      PROVE  NoBom(From(ends, e) = 1, Plain(b, ends, e)) \in Seq(STRING)
  <2>1. From(ends, e) \in Nat \ {0} /\ From(ends, e) <= e /\ e \in 1..Len(b)
    BY <1>1, FromIs
  <2>2. To(b, ends, e) \in Int /\ To(b, ends, e) <= Len(b)
    BY <1>1, <2>1 DEF To
  <2>3. \A i \in From(ends, e)..To(b, ends, e) : b[i] \in STRING
    BY <1>1, <2>1, <2>2
  <2>4. Plain(b, ends, e) \in Seq(STRING)
    BY <2>1, <2>2, <2>3, SubSeqProperties DEF Plain
  <2>5. (From(ends, e) = 1) \in BOOLEAN
    OBVIOUS
  <2> QED
    BY <2>4, <2>5, NoBomTyped
<1>4. AreLines(Lines(b, final)) /\ DOMAIN Lines(b, final) = ends
  BY <1>1, <1>2, <1>3 DEF AreLines
<1> QED
  BY <1>2, <1>4 DEF ends

(* _next_line finds the next line end, and what its line says.              *)
Buffered(b, c, d) ==
  /\ c \in 0..Len(b)
  /\ d \in Decoder
  /\ d.buf = SubSeq(b, c + 1, Len(b))
  /\ d.scan <= Len(d.buf)
  /\ \A i \in 1..d.scan : d.buf[i] \notin Terminators

Settled(b, final, c) == c \in {0} \cup LineEnds(b, final)

NoneBetween(b, final, c, e) == \A x \in LineEnds(b, final) : ~(c < x /\ x < e)

LEMMA BufferIs ==
  ASSUME NEW b \in Seq(STRING), NEW c, NEW d, Buffered(b, c, d)
  PROVE  /\ Len(b) \in Nat /\ c \in Nat /\ c <= Len(b)
         /\ d.buf \in Seq(STRING) /\ Len(d.buf) = Len(b) - c
         /\ \A i \in 1..(Len(b) - c) : d.buf[i] = b[c + i]
         /\ d.scan \in 0..(Len(b) - c)
<1>1. Len(b) \in Nat /\ c \in Nat /\ c <= Len(b) /\ d.buf \in Seq(STRING) /\ d.scan \in Nat
  BY DEF Buffered, Decoder
<1>2. Len(d.buf) = Len(b) - c /\ \A i \in 1..(Len(b) - c) : d.buf[i] = b[c + i]
  <2>1. d.buf = SubSeq(b, c + 1, Len(b))
    BY DEF Buffered
  <2>2. \A i \in (c + 1)..Len(b) : b[i] \in STRING
    BY <1>1
  <2>3. /\ Len(d.buf) = IF c + 1 <= Len(b) THEN Len(b) - (c + 1) + 1 ELSE 0
        /\ \A i \in 1..(Len(b) - (c + 1) + 1) : d.buf[i] = b[(c + 1) + i - 1]
    BY <1>1, <2>1, <2>2, SubSeqProperties
  <2>4. Len(d.buf) = Len(b) - c
    BY <1>1, <2>3
  <2>5. ASSUME NEW i \in 1..(Len(b) - c) PROVE d.buf[i] = b[c + i]
    <3>1. i \in 1..(Len(b) - (c + 1) + 1) /\ (c + 1) + i - 1 = c + i
      BY <1>1
    <3> QED
      BY <2>3, <3>1
  <2> QED
    BY <2>4, <2>5
<1>3. d.scan \in 0..(Len(b) - c)
  BY <1>1, <1>2 DEF Buffered
<1> QED
  BY <1>1, <1>2, <1>3

LEMMA LineEndIs ==
  ASSUME NEW b \in Seq(STRING), NEW final \in BOOLEAN, NEW i \in 1..Len(b)
  PROVE  /\ i \in LineEnds(b, final) <=>
              \/ b[i] = "LF"
              \/ b[i] = "CR" /\ (IF i < Len(b) THEN b[i+1] # "LF" ELSE final)
         /\ i \in LineEnds(b, final) => b[i] \in Terminators
<1>1. i \in DOMAIN b
  OBVIOUS
<1> QED
  BY <1>1 DEF LineEnds, Terminators

(* The first line behind c, of i - 1 bytes, ends at e.                      *)
LEMMA LineBehind ==
  ASSUME NEW b \in Seq(STRING), NEW final \in BOOLEAN, NEW c, NEW d,
         Buffered(b, c, d), Settled(b, final, c),
         NEW i \in 1..(Len(b) - c), NEW e \in LineEnds(b, final),
         \A k \in 1..(i - 1) : d.buf[k] \notin Terminators,
         \/ e = c + i /\ (d.buf[i] = "CR" \/ d.buf[i] = "LF")
         \/ e = c + i + 1 /\ d.buf[i] = "CR" /\ d.buf[i+1] = "LF" /\ i < Len(b) - c
  PROVE  /\ NoneBetween(b, final, c, e)
         /\ Lines(b, final)[e] = NoBom(c = 0, SubSeq(d.buf, 1, i - 1))
         /\ c < e /\ e <= Len(b)
<1> DEFINE ends == LineEnds(b, final)
<1>1. /\ Len(b) \in Nat /\ c \in Nat /\ c <= Len(b)
      /\ d.buf \in Seq(STRING) /\ Len(d.buf) = Len(b) - c
      /\ \A k \in 1..(Len(b) - c) : d.buf[k] = b[c + k]
  BY BufferIs
<1>2. ends \in SUBSET (1..Len(b)) /\ ends \in SUBSET Nat /\ IsFiniteSet(ends)
  BY EndsAre
<1>3. c < e /\ e <= Len(b) /\ i \in Nat /\ e \in Nat
  BY <1>1, <1>2
<1>4. b[c + i] = d.buf[i] /\ (e = c + i + 1 => b[e] = "LF" /\ b[c + i] = "CR")
  <2>1. b[c + i] = d.buf[i]
    BY <1>1
  <2>2. ASSUME e = c + i + 1 PROVE b[e] = "LF" /\ b[c + i] = "CR"
    <3>1. e # c + i
      BY <1>1, <1>3, <2>2
    <3>2. d.buf[i] = "CR" /\ d.buf[i+1] = "LF" /\ i + 1 \in 1..(Len(b) - c) /\ c + (i + 1) = e
      BY <1>1, <1>3, <3>1
    <3>3. d.buf[i+1] = b[c + (i + 1)]
      BY <1>1, <3>2
    <3> QED
      BY <2>1, <3>2, <3>3
  <2> QED
    BY <2>1, <2>2
<1>5. \A x \in (c + 1)..(c + i - 1) : b[x] \notin Terminators
  <2> SUFFICES ASSUME NEW x \in (c + 1)..(c + i - 1) PROVE b[x] \notin Terminators
    OBVIOUS
  <2>1. x - c \in 1..(i - 1) /\ x - c \in 1..(Len(b) - c) /\ c + (x - c) = x
    BY <1>1
  <2> QED
    BY <1>1, <2>1
<1>6. NoneBetween(b, final, c, e)
  <2> SUFFICES ASSUME NEW x \in ends, c < x, x < e PROVE FALSE
    BY DEF NoneBetween
  <2>1. x \in 1..Len(b) /\ b[x] \in Terminators
    BY <1>2, LineEndIs
  <2>2. ~(x <= c + i - 1)
    BY <1>1, <1>5, <2>1
  <2>3. x = c + i /\ e = c + i + 1
    BY <1>1, <1>3, <2>1, <2>2
  <2>4. b[x] = "CR" /\ b[x + 1] = "LF" /\ x < Len(b)
    BY <1>3, <1>4, <2>3
  <2> QED
    BY <2>1, <2>4, LineEndIs
<1>7. From(ends, e) = c + 1
  <2> DEFINE S == {0} \cup {x \in ends : x < e}
  <2>1. c \in S
    BY <1>3 DEF Settled
  <2>2. \A x \in S : x <= c /\ x \in Nat
    BY <1>1, <1>2, <1>3, <1>6 DEF NoneBetween
  <2>3. S \in SUBSET Nat
    BY <2>2
  <2>4. Max(S) = c
    <3> HIDE DEF S
    <3> QED
      BY <2>1, <2>2, <2>3, MaxIs
  <2> QED
    BY <2>4 DEF From
<1>8. To(b, ends, e) = c + i - 1
  <2>1. CASE e = c + i + 1
    BY <1>1, <1>3, <1>4, <1>7, <2>1 DEF To
  <2>2. CASE e = c + i
    <3>1. CASE i = 1
      BY <1>1, <1>7, <2>2, <3>1 DEF To
    <3>2. CASE i # 1
      <4>1. e - 1 \in (c + 1)..(c + i - 1)
        BY <1>1, <2>2, <3>2
      <4>2. b[e - 1] # "CR"
        BY <1>5, <4>1 DEF Terminators
      <4> QED
        BY <1>1, <2>2, <4>2 DEF To
    <3> QED
      BY <3>1, <3>2
  <2> QED
    BY <2>1, <2>2
<1>9. Plain(b, ends, e) = SubSeq(d.buf, 1, i - 1)
  <2> DEFINE p == SubSeq(b, c + 1, c + i - 1)
             q == SubSeq(d.buf, 1, i - 1)
  <2>1. /\ \A k \in (c + 1)..(c + i - 1) : b[k] \in STRING
        /\ \A k \in 1..(i - 1) : d.buf[k] \in STRING
    BY <1>1, <1>3
  <2>2. /\ p \in Seq(STRING) /\ Len(p) = i - 1
        /\ \A k \in 1..(i - 1) : p[k] = b[c + k]
    <3>1. /\ p \in Seq(STRING)
          /\ Len(p) = IF c + 1 <= c + i - 1 THEN (c + i - 1) - (c + 1) + 1 ELSE 0
          /\ \A k \in 1..((c + i - 1) - (c + 1) + 1) : p[k] = b[(c + 1) + k - 1]
      <4>1. c + 1 \in Int /\ c + i - 1 \in Int
        BY <1>1, <1>3
      <4> QED
        BY <2>1, <4>1, SubSeqProperties
    <3>2. Len(p) = i - 1
      BY <1>1, <1>3, <3>1
    <3>3. ASSUME NEW k \in 1..(i - 1) PROVE p[k] = b[c + k]
      <4>1. k \in 1..((c + i - 1) - (c + 1) + 1) /\ (c + 1) + k - 1 = c + k
        BY <1>1, <1>3
      <4> QED
        BY <3>1, <4>1
    <3> QED
      BY <3>1, <3>2, <3>3
  <2>3. /\ q \in Seq(STRING) /\ Len(q) = i - 1
        /\ \A k \in 1..(i - 1) : q[k] = d.buf[k]
    <3>1. /\ q \in Seq(STRING) /\ Len(q) = IF 1 <= i - 1 THEN (i - 1) - 1 + 1 ELSE 0
          /\ \A k \in 1..((i - 1) - 1 + 1) : q[k] = d.buf[1 + k - 1]
      <4>1. 1 \in Int /\ i - 1 \in Int
        BY <1>3
      <4> QED
        BY <2>1, <4>1, SubSeqProperties
    <3> QED
      BY <1>3, <3>1
  <2>4. \A k \in 1..(i - 1) : p[k] = q[k]
    <3> HIDE DEF p, q
    <3> SUFFICES ASSUME NEW k \in 1..(i - 1) PROVE p[k] = q[k]
      OBVIOUS
    <3>1. k \in 1..(Len(b) - c)
      BY <1>1, <1>3
    <3> QED
      BY <1>1, <2>2, <2>3, <3>1
  <2> HIDE DEF p, q
  <2>5. p = q
    BY <2>2, <2>3, <2>4, SeqEqual
  <2> QED
    BY <1>7, <1>8, <2>5 DEF Plain, p, q
<1>10. Lines(b, final)[e] = NoBom(c = 0, SubSeq(d.buf, 1, i - 1))
  <2>1. Lines(b, final)[e] = NoBom(From(ends, e) = 1, Plain(b, ends, e))
    BY LinesAre
  <2>2. (From(ends, e) = 1) = (c = 0)
    BY <1>1, <1>7
  <2> QED
    BY <1>9, <2>1, <2>2
<1> QED
  BY <1>3, <1>6, <1>10

LEMMA NextLineIs ==
  ASSUME NEW b \in Seq(STRING), NEW final \in BOOLEAN, NEW c, NEW d,
         Buffered(b, c, d), Settled(b, final, c)
  PROVE  LET found == NextLine(d, final)
             e == c + found.consumed
         IN  /\ found.found \in BOOLEAN
             /\ found.found =>
                  /\ found.consumed \in 1..(Len(b) - c) /\ found.line \in Seq(STRING)
                  /\ e \in LineEnds(b, final) /\ NoneBetween(b, final, c, e)
                  /\ Lines(b, final)[e] = NoBom(c = 0, found.line)
             /\ ~found.found =>
                  /\ found.scan \in 0..(Len(b) - c)
                  /\ \A i \in 1..found.scan : d.buf[i] \notin Terminators
                  /\ \A i \in 1..(Len(b) - c - 1) : d.buf[i] \notin Terminators
                  /\ final => found.scan = Len(b) - c
                  /\ \A x \in LineEnds(b, final) : x <= c
<1> DEFINE n == Len(b) - c
           at == {k \in (d.scan + 1)..Len(d.buf) : d.buf[k] \in Terminators}
           i == Min(at)
           found == NextLine(d, final)
<1>1. /\ Len(b) \in Nat /\ c \in Nat /\ c <= Len(b) /\ n \in Nat
      /\ d.buf \in Seq(STRING) /\ Len(d.buf) = n
      /\ \A k \in 1..n : d.buf[k] = b[c + k]
      /\ d.scan \in 0..n
  BY BufferIs
<1>2. found = IF at = {} THEN NoLine(n)
              ELSE IF d.buf[i] = "CR" /\ i = n /\ ~final THEN NoLine(i - 1)
              ELSE IF d.buf[i] = "CR" /\ i < n /\ d.buf[i+1] = "LF" THEN Line(d, i - 1, i + 1)
              ELSE Line(d, i - 1, i)
  BY <1>1 DEF NextLine
<1>3. at = {} => \A k \in 1..n : d.buf[k] \notin Terminators
  <2> SUFFICES ASSUME at = {}, NEW k \in 1..n PROVE d.buf[k] \notin Terminators
    OBVIOUS
  <2>1. CASE k \in 1..d.scan
    BY <2>1 DEF Buffered
  <2>2. CASE k > d.scan
    <3>1. k \in (d.scan + 1)..Len(d.buf)
      BY <1>1, <2>2
    <3> QED
      BY <3>1
  <2> QED
    BY <1>1, <2>1, <2>2
<1>4. at # {} => /\ i \in 1..n /\ d.buf[i] \in Terminators
                 /\ \A k \in 1..(i - 1) : d.buf[k] \notin Terminators
  <2> SUFFICES ASSUME at # {}
               PROVE  /\ i \in 1..n /\ d.buf[i] \in Terminators
                      /\ \A k \in 1..(i - 1) : d.buf[k] \notin Terminators
    OBVIOUS
  <2>1. at \in SUBSET Nat
    BY <1>1
  <2>2. i \in at /\ \A k \in at : i <= k
    <3> HIDE DEF at
    <3> QED
      BY <2>1, MinOf
  <2>3. i \in (d.scan + 1)..n /\ d.buf[i] \in Terminators
    <3> HIDE DEF i
    <3> QED
      BY <1>1, <2>2
  <2>4. ASSUME NEW k \in 1..(i - 1), d.buf[k] \in Terminators PROVE FALSE
    <3> HIDE DEF i
    <3>1. k \in Nat /\ k < i /\ k <= n
      BY <1>1, <2>3
    <3>2. k \notin 1..d.scan
      BY <2>4 DEF Buffered
    <3>3. k \in at
      BY <1>1, <2>4, <3>1, <3>2
    <3> QED
      BY <1>1, <2>2, <2>3, <3>1, <3>3
  <2> HIDE DEF i
  <2> QED
    BY <1>1, <2>3, <2>4
<1>5. LineEnds(b, final) \in SUBSET (1..Len(b))
  BY EndsAre
<1> HIDE DEF at, i, n
<1>6. CASE at = {}
  <2>1. found = [found |-> FALSE, scan |-> n]
    BY <1>2, <1>6 DEF NoLine
  <2>2. \A k \in 1..n : d.buf[k] \notin Terminators
    BY <1>3, <1>6
  <2>3. \A x \in LineEnds(b, final) : x <= c
    <3> SUFFICES ASSUME NEW x \in LineEnds(b, final), c < x PROVE FALSE
      BY <1>1, <1>5
    <3>1. x \in 1..Len(b) /\ b[x] \in Terminators
      BY <1>5, LineEndIs
    <3>2. x - c \in 1..n /\ c + (x - c) = x
      BY <1>1, <3>1 DEF n
    <3> QED
      BY <1>1, <2>2, <3>1, <3>2
  <2>4. n \in 0..n /\ \A k \in 1..(n - 1) : d.buf[k] \notin Terminators
    BY <1>1, <2>2
  <2> HIDE DEF found
  <2> QED
    BY <2>1, <2>2, <2>3, <2>4 DEF found, n
<1>7. CASE at # {} /\ d.buf[i] = "CR" /\ i = n /\ ~final
  <2>1. found = [found |-> FALSE, scan |-> n - 1]
    BY <1>2, <1>7 DEF NoLine
  <2>2. n \in Nat \ {0} /\ \A k \in 1..(n - 1) : d.buf[k] \notin Terminators
    BY <1>1, <1>4, <1>7
  <2>3. \A x \in LineEnds(b, final) : x <= c
    <3> SUFFICES ASSUME NEW x \in LineEnds(b, final), c < x PROVE FALSE
      BY <1>1, <1>5
    <3>1. x \in 1..Len(b) /\ b[x] \in Terminators
      BY <1>5, LineEndIs
    <3>2. x - c \in 1..n /\ c + (x - c) = x
      BY <1>1, <3>1 DEF n
    <3>3. x - c \notin 1..(n - 1)
      BY <1>1, <2>2, <3>1, <3>2
    <3>4. x - c = n /\ x = Len(b)
      BY <1>1, <2>2, <3>1, <3>2, <3>3 DEF n
    <3>5. b[x] = "CR"
      BY <1>1, <1>7, <3>2, <3>4
    <3> QED
      BY <1>1, <1>7, <3>1, <3>4, <3>5, LineEndIs
  <2>4. n - 1 \in 0..n
    BY <2>2
  <2> HIDE DEF found
  <2> QED
    BY <1>7, <2>1, <2>2, <2>3, <2>4 DEF found, n
<1>8. ASSUME at # {}, NEW m \in {i, i + 1}, found = Line(d, i - 1, m), c + m \in LineEnds(b, final),
             \/ m = i
             \/ m = i + 1 /\ d.buf[i] = "CR" /\ d.buf[i+1] = "LF" /\ i < n
      PROVE  /\ found.found /\ found.consumed = m /\ m \in 1..n /\ found.line \in Seq(STRING)
             /\ NoneBetween(b, final, c, c + m)
             /\ Lines(b, final)[c + m] = NoBom(c = 0, found.line)
  <2>1. /\ i \in 1..n /\ d.buf[i] \in Terminators
        /\ \A k \in 1..(i - 1) : d.buf[k] \notin Terminators
    BY <1>4, <1>8
  <2>2. found.found /\ found.consumed = m /\ found.line = SubSeq(d.buf, 1, i - 1)
    <3> HIDE DEF found
    <3> QED
      BY <1>8 DEF Line
  <2>3. m \in 1..n
    BY <1>1, <1>8, <2>1
  <2>4. d.buf[i] = "CR" \/ d.buf[i] = "LF"
    BY <2>1 DEF Terminators
  <2>5. \/ c + m = c + i /\ (d.buf[i] = "CR" \/ d.buf[i] = "LF")
        \/ c + m = c + i + 1 /\ d.buf[i] = "CR" /\ d.buf[i+1] = "LF" /\ i < n
    BY <1>1, <1>8, <2>1, <2>4
  <2>6. NoneBetween(b, final, c, c + m)
        /\ Lines(b, final)[c + m] = NoBom(c = 0, SubSeq(d.buf, 1, i - 1))
    <3> DEFINE e == c + m
    <3>1. e \in LineEnds(b, final)
      BY <1>8
    <3>2. \/ e = c + i /\ (d.buf[i] = "CR" \/ d.buf[i] = "LF")
          \/ e = c + i + 1 /\ d.buf[i] = "CR" /\ d.buf[i+1] = "LF" /\ i < Len(b) - c
      BY <2>5 DEF n
    <3>3. i \in 1..(Len(b) - c)
      BY <2>1 DEF n
    <3>4. \A k \in 1..(i - 1) : d.buf[k] \notin Terminators
      BY <2>1
    <3> HIDE DEF e, found
    <3>5. NoneBetween(b, final, c, e)
          /\ Lines(b, final)[e] = NoBom(c = 0, SubSeq(d.buf, 1, i - 1))
      BY <3>1, <3>2, <3>3, <3>4, LineBehind
    <3> QED
      BY <3>5 DEF e
  <2>7. SubSeq(d.buf, 1, i - 1) \in Seq(STRING)
    BY <1>1, <2>1
  <2> HIDE DEF found
  <2> QED
    BY <2>2, <2>3, <2>6, <2>7
<1>9. CASE at # {} /\ d.buf[i] = "CR" /\ i < n /\ d.buf[i+1] = "LF"
  <2>1. found = Line(d, i - 1, i + 1)
    <3>1. ~(i = n)
      BY <1>1, <1>4, <1>9
    <3> HIDE DEF found
    <3> QED
      BY <1>2, <1>9, <3>1
  <2>2. i + 1 \in 1..n /\ c + (i + 1) \in 1..Len(b)
    BY <1>1, <1>4, <1>9 DEF n
  <2>3. b[c + (i + 1)] = "LF"
    BY <1>1, <1>9, <2>2
  <2>4. c + (i + 1) \in LineEnds(b, final)
    BY <2>2, <2>3, LineEndIs
  <2>5. /\ found.found /\ found.consumed = i + 1 /\ i + 1 \in 1..n /\ found.line \in Seq(STRING)
        /\ NoneBetween(b, final, c, c + (i + 1))
        /\ Lines(b, final)[c + (i + 1)] = NoBom(c = 0, found.line)
    <3> HIDE DEF found
    <3> QED
      BY <1>8, <1>9, <2>1, <2>4
  <2> HIDE DEF found
  <2> QED
    BY <2>4, <2>5 DEF found, n
<1>10. CASE at # {} /\ ~(d.buf[i] = "CR" /\ i < n /\ d.buf[i+1] = "LF")
            /\ ~(d.buf[i] = "CR" /\ i = n /\ ~final)
  <2>1. found = Line(d, i - 1, i)
    <3> HIDE DEF found
    <3> QED
      BY <1>2, <1>10
  <2>2. i \in 1..n /\ c + i \in 1..Len(b) /\ b[c + i] = d.buf[i]
        /\ (d.buf[i] = "CR" \/ d.buf[i] = "LF")
    BY <1>1, <1>4, <1>10 DEF n, Terminators
  <2>3. c + i \in LineEnds(b, final)
    <3>1. CASE i < n
      <4>1. c + i < Len(b) /\ b[(c + i) + 1] = d.buf[i + 1]
        <5>1. i + 1 \in 1..n /\ c + (i + 1) = (c + i) + 1
          BY <1>1, <2>2, <3>1
        <5>2. c + i < Len(b)
          BY <1>1, <2>2, <3>1 DEF n
        <5> QED
          BY <1>1, <5>1, <5>2
      <4> QED
        BY <1>10, <2>2, <3>1, <4>1, LineEndIs
    <3>2. CASE i = n
      <4>1. ~(c + i < Len(b))
        BY <1>1, <3>2 DEF n
      <4> QED
        BY <1>10, <2>2, <3>2, <4>1, LineEndIs
    <3> QED
      BY <1>1, <2>2, <3>1, <3>2
  <2>4. /\ found.found /\ found.consumed = i /\ i \in 1..n /\ found.line \in Seq(STRING)
        /\ NoneBetween(b, final, c, c + i)
        /\ Lines(b, final)[c + i] = NoBom(c = 0, found.line)
    <3> HIDE DEF found
    <3> QED
      BY <1>8, <1>10, <2>1, <2>3
  <2> HIDE DEF found
  <2> QED
    BY <2>3, <2>4 DEF found, n
<1> QED
  BY <1>6, <1>7, <1>9, <1>10

-----------------------------------------------------------------------------
(* What a decoder holds that has processed the lines of b up to c.          *)
Sofar(b, final, c) == Upto(Lines(b, final), c)

Within(evs) == \A i \in DOMAIN evs : ~Oversized(evs[i].data)

Agrees(d, evs, b, final, c) ==
  /\ Buffered(b, c, d) /\ Settled(b, final, c)
  /\ ~d.failed /\ d.bomChecked = (c # 0)
  /\ d.dataLines = Open(Sofar(b, final, c)).data
  /\ d.event = Open(Sofar(b, final, c)).event
  /\ d.id = Open(Sofar(b, final, c)).id
  /\ d.retry = Open(Sofar(b, final, c)).retry
  /\ d.pending = Size(d.dataLines) /\ ~Oversized(d.dataLines)
  /\ evs = EventsOf(Sofar(b, final, c)) /\ Within(evs)

(* One that gave up there.                                                  *)
GaveUp(d, evs, b, final, c) ==
  /\ d \in Decoder /\ d.failed
  /\ c \in LineEnds(b, final)
  /\ evs = EventsOf(Sofar(b, final, c)) /\ Within(evs)
  /\ \/ Oversized(Open(Sofar(b, final, c)).data)
     \/ Len(b) - c > MaxEventBytes

LEMMA SofarLines ==
  ASSUME NEW b \in Seq(STRING), NEW final \in BOOLEAN, NEW c, Settled(b, final, c)
  PROVE  AreLines(Sofar(b, final, c)) /\ c \in Nat
<1>1. c \in Nat
  BY EndsAre DEF Settled
<1>2. c \in Int
  BY <1>1
<1> QED
  BY <1>1, <1>2, LinesAre, UptoLines DEF Sofar

LEMMA NextGrown ==
  ASSUME NEW b \in Seq(STRING), NEW final \in BOOLEAN, NEW c, Settled(b, final, c),
         NEW e \in LineEnds(b, final), c < e, NoneBetween(b, final, c, e)
  PROVE  Grown(Sofar(b, final, c), e, Lines(b, final)[e], Sofar(b, final, e))
<1> DEFINE lines == Lines(b, final)
           ends == LineEnds(b, final)
           less == Sofar(b, final, c)
           more == Sofar(b, final, e)
<1>1. /\ AreLines(lines) /\ DOMAIN lines = ends /\ ends \in SUBSET Nat /\ c \in Nat /\ e \in Nat
  BY LinesAre, EndsAre, SofarLines
<1>2. /\ AreLines(less) /\ AreLines(more)
      /\ DOMAIN less = {x \in ends : x <= c} /\ DOMAIN more = {x \in ends : x <= e}
      /\ \A x \in ends : x <= c => less[x] = lines[x]
      /\ \A x \in ends : x <= e => more[x] = lines[x]
  <2>1. c \in Int /\ e \in Int
    BY <1>1
  <2> HIDE DEF lines, ends
  <2> QED
    BY <1>1, <2>1, UptoLines DEF Sofar, lines
<1>3. \A x \in ends : x <= e <=> (x <= c \/ x = e)
  BY <1>1 DEF NoneBetween
<1>4. \A x \in ends : x <= c => x < e
  BY <1>1
<1> HIDE DEF lines, ends, less, more
<1>5. DOMAIN more = DOMAIN less \cup {e} /\ e \in ends
  BY <1>2, <1>3 DEF ends
<1>6. \A x \in DOMAIN less : x < e /\ more[x] = less[x]
  BY <1>2, <1>3, <1>4
<1>7. more[e] = lines[e] /\ lines[e] \in Seq(STRING)
  BY <1>1, <1>2, <1>5 DEF AreLines
<1>8. more \in [DOMAIN more -> Seq(STRING)]
  BY <1>2 DEF AreLines
<1> QED
  BY <1>1, <1>2, <1>5, <1>6, <1>7, <1>8 DEF Grown, lines, less, more

(* Behind a line end the decoder's buffer is the rest.                      *)
Advanced(d, n) == [Consume(d, n) EXCEPT !.bomChecked = TRUE]

LEMMA AdvancedIs ==
  ASSUME NEW b \in Seq(STRING), NEW final \in BOOLEAN, NEW c, NEW d,
         Buffered(b, c, d), NEW n \in 1..(Len(b) - c), c + n \in LineEnds(b, final)
  PROVE  /\ Buffered(b, c + n, Advanced(d, n)) /\ Settled(b, final, c + n)
         /\ Len(Advanced(d, n).buf) = Len(b) - (c + n)
         /\ Advanced(d, n).bomChecked /\ c + n # 0 /\ c < c + n /\ c + n <= Len(b)
         /\ Advanced(d, n).failed = d.failed
         /\ Advanced(d, n).dataLines = d.dataLines /\ Advanced(d, n).pending = d.pending
         /\ Advanced(d, n).event = d.event /\ Advanced(d, n).id = d.id
         /\ Advanced(d, n).retry = d.retry
<1> DEFINE a == Advanced(d, n)
           rest == SubSeq(d.buf, n + 1, Len(d.buf))
           left == SubSeq(b, (c + n) + 1, Len(b))
<1>1. /\ Len(b) \in Nat /\ c \in Nat /\ c <= Len(b) /\ n \in Nat
      /\ d.buf \in Seq(STRING) /\ Len(d.buf) = Len(b) - c
      /\ \A i \in 1..(Len(b) - c) : d.buf[i] = b[c + i]
  BY BufferIs
<1>2. c + n \in 1..Len(b) /\ c < c + n /\ c + n # 0
  BY <1>1
<1> DEFINE k == Len(b) - (c + n)
<1>3. k \in Nat
  BY <1>1
<1>4. /\ rest \in Seq(STRING) /\ Len(rest) = k
      /\ \A i \in 1..k : rest[i] = d.buf[n + i]
  <2>1. \A i \in (n + 1)..Len(d.buf) : d.buf[i] \in STRING
    BY <1>1
  <2>2. n + 1 \in Int /\ Len(d.buf) \in Int
    BY <1>1
  <2>3. /\ rest \in Seq(STRING)
        /\ Len(rest) = IF n + 1 <= Len(d.buf) THEN Len(d.buf) - (n + 1) + 1 ELSE 0
        /\ \A i \in 1..(Len(d.buf) - (n + 1) + 1) : rest[i] = d.buf[(n + 1) + i - 1]
    BY <2>1, <2>2, SubSeqProperties
  <2> HIDE DEF rest
  <2>4. Len(rest) = k
    BY <1>1, <2>3
  <2>5. ASSUME NEW i \in 1..k PROVE rest[i] = d.buf[n + i]
    <3>1. i \in 1..(Len(d.buf) - (n + 1) + 1) /\ (n + 1) + i - 1 = n + i
      BY <1>1
    <3> QED
      BY <2>3, <3>1
  <2> QED
    BY <2>3, <2>4, <2>5
<1>5. /\ left \in Seq(STRING) /\ Len(left) = k
      /\ \A i \in 1..k : left[i] = b[(c + n) + i]
  <2>1. \A i \in ((c + n) + 1)..Len(b) : b[i] \in STRING
    BY <1>1
  <2>2. (c + n) + 1 \in Int /\ Len(b) \in Int
    BY <1>1
  <2>3. /\ left \in Seq(STRING)
        /\ Len(left) = IF (c + n) + 1 <= Len(b) THEN Len(b) - ((c + n) + 1) + 1 ELSE 0
        /\ \A i \in 1..(Len(b) - ((c + n) + 1) + 1) : left[i] = b[((c + n) + 1) + i - 1]
    BY <2>1, <2>2, SubSeqProperties
  <2> HIDE DEF left
  <2>4. Len(left) = k
    BY <1>1, <2>3
  <2>5. ASSUME NEW i \in 1..k PROVE left[i] = b[(c + n) + i]
    <3>1. i \in 1..(Len(b) - ((c + n) + 1) + 1) /\ ((c + n) + 1) + i - 1 = (c + n) + i
      BY <1>1
    <3> QED
      BY <2>3, <3>1
  <2> QED
    BY <2>3, <2>4, <2>5
<1>6. rest = left
  <2>1. ASSUME NEW i \in 1..k PROVE rest[i] = left[i]
    <3>1. n + i \in 1..(Len(b) - c) /\ c + (n + i) = (c + n) + i
      BY <1>1
    <3> HIDE DEF rest, left
    <3> QED
      BY <1>1, <1>4, <1>5, <3>1
  <2> HIDE DEF rest, left, k
  <2> QED
    BY <1>4, <1>5, <2>1, SeqEqual
<1>7. a = [d EXCEPT !.buf = rest, !.scan = 0, !.bomChecked = TRUE]
  BY DEF Advanced, Consume, Buffered, Decoder
<1>8. d \in Decoder
  BY DEF Buffered
<1> HIDE DEF rest, a, left
<1>9. /\ a \in Decoder /\ a.buf = rest /\ a.scan = 0 /\ a.bomChecked = TRUE
      /\ a.failed = d.failed /\ a.dataLines = d.dataLines /\ a.pending = d.pending
      /\ a.event = d.event /\ a.id = d.id /\ a.retry = d.retry
  BY <1>4, <1>7, <1>8 DEF Decoder
<1>10. Buffered(b, c + n, a)
  <2>1. a.buf = SubSeq(b, (c + n) + 1, Len(b)) /\ Len(a.buf) = k
    BY <1>4, <1>6, <1>9 DEF left
  <2>2. c + n \in 0..Len(b)
    BY <1>1, <1>2
  <2> QED
    BY <1>3, <1>9, <2>1, <2>2 DEF Buffered
<1> QED
  BY <1>1, <1>2, <1>4, <1>9, <1>10 DEF Settled, a

-----------------------------------------------------------------------------
(* What a field of a line does to the decoder, value by value.              *)
LEMMA FieldIs ==
  ASSUME NEW a \in Decoder, NEW v \in Seq(STRING), v # <<>>
  PROVE  LET f == Field(a, v)
         IN  /\ f \in Decoder
             /\ f.buf = a.buf /\ f.scan = a.scan /\ f.failed = a.failed
             /\ f.bomChecked = a.bomChecked
             /\ f.dataLines = IF v[1] = "data:" THEN WithData(a.dataLines, v) ELSE a.dataLines
             /\ f.pending = IF v[1] = "data:" THEN a.pending + Chars(ValueOf(v)) + 1 ELSE a.pending
             /\ f.event = IF v[1] = "event:" THEN ValueOf(v) ELSE a.event
             /\ f.id = IF IsId(v) THEN ValueOf(v) ELSE a.id
             /\ f.retry = IF IsRetry(v) THEN ValueOf(v) ELSE a.retry
<1> DEFINE f == Field(a, v)
           w == Tail(v)
<1>1. w \in Seq(STRING) /\ Chars(w) \in Nat
  BY HeadTailProperties, CharsIs
<1>2. ValueOf(v) = w /\ WithData(a.dataLines, v) = Append(a.dataLines, w)
  BY DEF ValueOf, WithData
<1>3. /\ IsId(v) <=> v[1] = "id:" /\ "NUL" \notin ToSet(w)
      /\ IsRetry(v) <=> v[1] = "retry:" /\ w # <<>> /\ ToSet(w) \subseteq Digits
  BY DEF IsId, IsRetry
<1>4. Append(a.dataLines, w) \in Seq(Seq(STRING)) /\ a.pending + Chars(w) + 1 \in Nat
  BY <1>1 DEF Decoder
<1>5. f = CASE v[1] = "data:" ->
             [a EXCEPT !.dataLines = Append(@, w), !.pending = @ + Chars(w) + 1]
        [] v[1] = "event:" -> [a EXCEPT !.event = w]
        [] v[1] = "id:" /\ "NUL" \notin ToSet(w) -> [a EXCEPT !.id = w]
        [] v[1] = "retry:" /\ w # <<>> /\ ToSet(w) \subseteq Digits ->
             [a EXCEPT !.retry = w]
        [] OTHER -> a
  BY DEF Field
<1> HIDE DEF f, w
<1>6. CASE v[1] = "data:"
  <2>1. f = [a EXCEPT !.dataLines = Append(@, w), !.pending = @ + Chars(w) + 1]
    BY <1>5, <1>6
  <2>2. ~IsId(v) /\ ~IsRetry(v) /\ v[1] # "event:"
    BY <1>3, <1>6
  <2> QED
    BY <1>2, <1>4, <1>6, <2>1, <2>2 DEF Decoder, f
<1>7. CASE v[1] = "event:"
  <2>1. f = [a EXCEPT !.event = w]
    BY <1>5, <1>7
  <2>2. ~IsId(v) /\ ~IsRetry(v) /\ v[1] # "data:"
    BY <1>3, <1>7
  <2> QED
    BY <1>1, <1>2, <1>7, <2>1, <2>2 DEF Decoder, f
<1>8. CASE IsId(v)
  <2>1. f = [a EXCEPT !.id = w]
    BY <1>3, <1>5, <1>8
  <2>2. ~IsRetry(v) /\ v[1] # "data:" /\ v[1] # "event:"
    BY <1>3, <1>8
  <2> QED
    BY <1>1, <1>2, <1>8, <2>1, <2>2 DEF Decoder, f
<1>9. CASE IsRetry(v)
  <2>1. f = [a EXCEPT !.retry = w]
    BY <1>3, <1>5, <1>9
  <2>2. ~IsId(v) /\ v[1] # "data:" /\ v[1] # "event:"
    BY <1>3, <1>9
  <2> QED
    BY <1>1, <1>2, <1>9, <2>1, <2>2 DEF Decoder, f
<1>10. CASE v[1] # "data:" /\ v[1] # "event:" /\ ~IsId(v) /\ ~IsRetry(v)
  <2>1. f = a
    BY <1>3, <1>5, <1>10
  <2> QED
    BY <1>10, <2>1 DEF f
<1> QED
  BY <1>6, <1>7, <1>8, <1>9, <1>10

(* _check_size: what it leaves alone, and when it gives up.                 *)
LEMMA CheckSizeIs ==
  ASSUME NEW d \in Decoder
  PROVE  /\ CheckSize(d) \in Decoder
         /\ d.failed \/ ~TooLarge(d) => CheckSize(d) = d
         /\ ~d.failed /\ TooLarge(d) => CheckSize(d).failed
<1>1. CASE d.failed \/ ~TooLarge(d)
  BY <1>1 DEF CheckSize
<1>2. CASE ~(d.failed \/ ~TooLarge(d))
  <2>1. CheckSize(d) = [d EXCEPT !.failed = TRUE, !.buf = <<>>, !.dataLines = <<>>, !.pending = 0]
    BY <1>2 DEF CheckSize
  <2>2. <<>> \in Seq(STRING) /\ <<>> \in Seq(Seq(STRING))
    OBVIOUS
  <2> DEFINE q == CheckSize(d)
  <2> HIDE DEF q
  <2>3. q = [d EXCEPT !.failed = TRUE, !.buf = <<>>, !.dataLines = <<>>, !.pending = 0]
    BY <2>1 DEF q
  <2>4. q.failed = TRUE
    BY <2>3 DEF Decoder
  <2>5. q \in Decoder
    BY <2>2, <2>3 DEF Decoder
  <2> QED
    BY <1>2, <2>4, <2>5 DEF q
<1> QED
  BY <1>1, <1>2

(* One round of _drain takes the decoder to the next line end.              *)
After(d, evs, b, final, c) == Agrees(d, evs, b, final, c) \/ GaveUp(d, evs, b, final, c)

LEMMA EmptyWithin ==
  /\ ~Oversized(<<>>)
  /\ \A evs \in Seq(Event), e \in Event :
        Within(evs) /\ ~Oversized(e.data) => Within(WithEvent(evs, e))
<1>1. ~Oversized(<<>>)
  BY SizeEmpty, LimitsAssumption DEF Oversized
<1>2. ASSUME NEW evs \in Seq(Event), NEW e \in Event, Within(evs), ~Oversized(e.data)
      PROVE  Within(WithEvent(evs, e))
  <2> DEFINE more == evs \o <<e>>
  <2>1. /\ DOMAIN more = 1..(Len(evs) + 1) /\ DOMAIN evs = 1..Len(evs)
        /\ \A i \in 1..Len(evs) : more[i] = evs[i]
        /\ more[Len(evs) + 1] = e
    OBVIOUS
  <2> HIDE DEF more
  <2>2. \A i \in DOMAIN more : ~Oversized(more[i].data)
    BY <1>2, <2>1 DEF Within
  <2> QED
    BY <2>2 DEF Within, WithEvent, more
<1> QED
  BY <1>1, <1>2

Associates(s, t, u) == (s \o t) \o u = s \o (t \o u)

LEMMA Associative ==
  ASSUME NEW S, NEW s \in Seq(S), NEW t \in Seq(S), NEW u \in Seq(S)
  PROVE  Associates(s, t, u)
<1> DEFINE l == (s \o t) \o u
           r == s \o (t \o u)
<1>1. Len(s) \in Nat /\ Len(t) \in Nat /\ Len(u) \in Nat
  OBVIOUS
<1>2. /\ s \o t \in Seq(S) /\ t \o u \in Seq(S) /\ l \in Seq(S) /\ r \in Seq(S)
      /\ Len(l) = Len(s) + Len(t) + Len(u) /\ Len(r) = Len(s) + Len(t) + Len(u)
  BY ConcatProperties
<1>3. \A i \in 1..Len(l) : l[i] = r[i]
  BY <1>1
<1> HIDE DEF l, r
<1>4. l = r
  BY <1>2, <1>3, SeqEqual
<1> QED
  BY <1>4 DEF Associates, l, r

LEMMA RoundEmpty ==
  ASSUME NEW b \in Seq(STRING), NEW final \in BOOLEAN, NEW c \in Nat, NEW e \in Nat,
         NEW a \in Decoder, NEW es0 \in Seq(Event), NEW es \in Seq(Event),
         NEW less, NEW more, Grown(less, e, <<>>, more),
         less = Sofar(b, final, c), more = Sofar(b, final, e), e # 0,
         Buffered(b, e, a), Settled(b, final, e), ~a.failed, a.bomChecked,
         a.dataLines = Open(less).data, a.event = Open(less).event,
         a.id = Open(less).id, a.retry = Open(less).retry,
         a.pending = Size(a.dataLines), ~Oversized(a.dataLines),
         es0 \o es = EventsOf(less), Within(es0 \o es)
  PROVE  /\ es \o Dispatched(a) \in Seq(Event)
         /\ Agrees(Dispatch(a), es0 \o (es \o Dispatched(a)), b, final, e)
<1> DEFINE q == Dispatch(a)
<1>1. AreLines(less) /\ AreLines(more)
  BY GrownAreLines
<1>2. Open(less) \in Event
  BY <1>1, OpenTyped
<1>3. Open(more) = [data |-> <<>>, event |-> Null, id |-> Open(less).id, retry |-> Open(less).retry]
  BY OpenGrown
<1>4. /\ q \in Decoder /\ q.buf = a.buf /\ q.scan = a.scan /\ q.failed = a.failed
      /\ q.bomChecked = a.bomChecked /\ q.dataLines = <<>> /\ q.event = Null
      /\ q.id = a.id /\ q.retry = a.retry /\ q.pending = Size(<<>>)
  <2>1. CASE a.dataLines = <<>>
    <3>1. q = [a EXCEPT !.event = Null]
      BY <2>1 DEF Dispatch
    <3> HIDE DEF q
    <3> QED
      BY <2>1, <3>1 DEF Decoder
  <2>2. CASE a.dataLines # <<>>
    <3>1. q = [a EXCEPT !.dataLines = <<>>, !.event = Null, !.pending = 0]
      BY <2>2 DEF Dispatch
    <3>2. <<>> \in Seq(Seq(STRING))
      OBVIOUS
    <3> HIDE DEF q
    <3> QED
      BY <3>1, <3>2, SizeEmpty DEF Decoder
  <2> QED
    BY <2>1, <2>2
<1> HIDE DEF q
<1>5. Buffered(b, e, q)
  BY <1>4 DEF Buffered
<1>6. /\ es \o Dispatched(a) \in Seq(Event)
      /\ es0 \o (es \o Dispatched(a)) = EventsOf(more)
      /\ Within(es0 \o (es \o Dispatched(a)))
  <2>1. CASE a.dataLines = <<>>
    <3>1. Dispatched(a) = <<>>
      BY <2>1 DEF Dispatched
    <3>2. es \o Dispatched(a) = es
      BY <3>1
    <3>3. EventsOf(more) = EventsOf(less)
      BY <2>1, EventsGrown
    <3> QED
      BY <3>2, <3>3
  <2>2. CASE a.dataLines # <<>>
    <3> DEFINE o == Open(less)
    <3>1. Dispatched(a) = <<o>>
      <4>1. o = [data |-> o.data, event |-> o.event, id |-> o.id, retry |-> o.retry]
        BY <1>2 DEF Event
      <4> HIDE DEF o
      <4>2. o = [data |-> a.dataLines, event |-> a.event, id |-> a.id, retry |-> a.retry]
        BY <4>1 DEF o
      <4> QED
        BY <2>2, <4>2 DEF Dispatched
    <3>2. o \in Event /\ o.data = a.dataLines
      BY <1>2
    <3>3. EventsOf(more) = WithEvent(EventsOf(less), o)
      BY <2>2, EventsGrown
    <3> HIDE DEF o
    <3>4. es \o <<o>> \in Seq(Event) /\ es0 \o (es \o <<o>>) = (es0 \o es) \o <<o>>
      <4> DEFINE t == <<o>>
      <4>1. t \in Seq(Event)
        BY <3>2
      <4> HIDE DEF t
      <4>2. es \o t \in Seq(Event)
        BY <4>1, ConcatProperties
      <4>3. (es0 \o es) \o t = es0 \o (es \o t)
        <5>1. Associates(es0, es, t)
          BY <4>1, Associative
        <5> QED
          BY <5>1 DEF Associates
      <4> QED
        BY <4>2, <4>3 DEF t
    <3>5. es0 \o (es \o <<o>>) = WithEvent(es0 \o es, o)
      BY <3>4 DEF WithEvent
    <3>6. es0 \o es \in Seq(Event)
      BY ConcatProperties
    <3>7. Within(WithEvent(es0 \o es, o))
      BY <3>2, <3>6, EmptyWithin
    <3> QED
      BY <3>1, <3>3, <3>4, <3>5, <3>7
  <2> QED
    BY <2>1, <2>2
<1>7. ~Oversized(<<>>)
  BY EmptyWithin
<1>8. q.bomChecked = (e # 0)
  BY <1>4 DEF Decoder
<1>9. q.dataLines = Open(more).data /\ q.event = Open(more).event
  BY <1>3, <1>4
<1>10. q.id = Open(more).id /\ q.retry = Open(more).retry
  BY <1>3, <1>4
<1>11. q.pending = Size(q.dataLines) /\ ~Oversized(q.dataLines) /\ ~q.failed
  BY <1>4, <1>7
<1>12. Agrees(q, es0 \o (es \o Dispatched(a)), b, final, e)
  BY <1>5, <1>6, <1>8, <1>9, <1>10, <1>11 DEF Agrees
<1> QED
  BY <1>6, <1>12 DEF q
LEMMA RoundFilled ==
  ASSUME NEW b \in Seq(STRING), NEW final \in BOOLEAN, NEW c \in Nat, NEW e \in LineEnds(b, final),
         NEW a \in Decoder, NEW evs, NEW v \in Seq(STRING), v # <<>>,
         NEW less, NEW more, Grown(less, e, v, more),
         less = Sofar(b, final, c), more = Sofar(b, final, e), e # 0,
         Buffered(b, e, a), Settled(b, final, e), ~a.failed, a.bomChecked,
         a.dataLines = Open(less).data, a.event = Open(less).event,
         a.id = Open(less).id, a.retry = Open(less).retry,
         a.pending = Size(a.dataLines), ~Oversized(a.dataLines),
         evs = EventsOf(less), Within(evs)
  PROVE  /\ v[1] = ":" => Agrees(a, evs, b, final, e)
         /\ v[1] # ":" => After(CheckSize(Field(a, v)), evs, b, final, e)
<1>1. AreLines(less) /\ AreLines(more)
  BY GrownAreLines
<1>2. Open(more) =
        [data  |-> IF v[1] = "data:" THEN WithData(Open(less).data, v) ELSE Open(less).data,
         event |-> IF v[1] = "event:" THEN ValueOf(v) ELSE Open(less).event,
         id    |-> IF IsId(v) THEN ValueOf(v) ELSE Open(less).id,
         retry |-> IF IsRetry(v) THEN ValueOf(v) ELSE Open(less).retry]
  BY OpenGrown
<1>3. evs = EventsOf(more)
  BY EventsGrown
<1>4. ASSUME v[1] = ":" PROVE Agrees(a, evs, b, final, e)
  <2>1. v[1] # "data:" /\ v[1] # "event:" /\ ~IsId(v) /\ ~IsRetry(v)
    BY <1>4 DEF IsId, IsRetry
  <2>2. /\ a.dataLines = Open(more).data /\ a.event = Open(more).event
        /\ a.id = Open(more).id /\ a.retry = Open(more).retry
    BY <1>2, <2>1
  <2>3. a.bomChecked = (e # 0)
    BY DEF Decoder
  <2> QED
    BY <1>3, <2>2, <2>3 DEF Agrees
<1>5. ASSUME v[1] # ":" PROVE After(CheckSize(Field(a, v)), evs, b, final, e)
  <2> DEFINE f == Field(a, v)
  <2>1. /\ f \in Decoder
        /\ f.buf = a.buf /\ f.scan = a.scan /\ f.failed = a.failed
        /\ f.bomChecked = a.bomChecked
        /\ f.dataLines = (IF v[1] = "data:" THEN WithData(a.dataLines, v) ELSE a.dataLines)
        /\ f.pending = (IF v[1] = "data:" THEN a.pending + Chars(ValueOf(v)) + 1 ELSE a.pending)
        /\ f.event = (IF v[1] = "event:" THEN ValueOf(v) ELSE a.event)
        /\ f.id = (IF IsId(v) THEN ValueOf(v) ELSE a.id)
        /\ f.retry = (IF IsRetry(v) THEN ValueOf(v) ELSE a.retry)
    BY FieldIs
  <2> HIDE DEF f
  <2>2. /\ f.dataLines = Open(more).data /\ f.event = Open(more).event
        /\ f.id = Open(more).id /\ f.retry = Open(more).retry
    BY <1>2, <2>1
  <2>3. f.pending = Size(f.dataLines)
    <3>1. CASE v[1] = "data:"
      <4>1. a.dataLines \in Seq(Seq(STRING)) /\ Tail(v) \in Seq(STRING)
        BY HeadTailProperties DEF Decoder
      <4>2. Size(Append(a.dataLines, Tail(v))) = Size(a.dataLines) + Chars(Tail(v)) + 1
        BY <4>1, SizeAppend
      <4> QED
        BY <2>1, <3>1, <4>2 DEF WithData, ValueOf
    <3>2. CASE v[1] # "data:"
      BY <2>1, <3>2
    <3> QED
      BY <3>1, <3>2
  <2>4. Buffered(b, e, f) /\ ~f.failed /\ f.bomChecked = (e # 0)
    BY <2>1 DEF Buffered, Decoder
  <2>5. TooLarge(f) <=> Oversized(f.dataLines) \/ Len(f.buf) > MaxEventBytes
    BY <2>3 DEF TooLarge, Oversized
  <2>6. CASE ~TooLarge(f)
    <3>1. CheckSize(f) = f
      BY <2>1, <2>6, CheckSizeIs
    <3>2. Agrees(f, evs, b, final, e)
      BY <1>3, <2>2, <2>3, <2>4, <2>5, <2>6 DEF Agrees
    <3> QED
      BY <3>1, <3>2 DEF After, f
  <2>7. CASE TooLarge(f)
    <3>1. CheckSize(f) \in Decoder /\ CheckSize(f).failed
      BY <2>1, <2>4, <2>7, CheckSizeIs
    <3>2. Len(f.buf) = Len(b) - e
      BY <2>4, BufferIs
    <3>3. Oversized(Open(more).data) \/ Len(b) - e > MaxEventBytes
      BY <2>2, <2>5, <2>7, <3>2
    <3>4. GaveUp(CheckSize(f), evs, b, final, e)
      BY <1>3, <3>1, <3>3 DEF GaveUp
    <3> QED
      BY <3>4 DEF After, f
  <2> QED
    BY <2>6, <2>7
<1> QED
  BY <1>4, <1>5

Joined(es0, es) == es0 \o es

LEMMA RoundIs ==
  ASSUME NEW b \in Seq(STRING), NEW final \in BOOLEAN, NEW c, NEW d,
         NEW es0 \in Seq(Event), NEW es \in Seq(Event),
         Agrees(d, Joined(es0, es), b, final, c),
         NEW found, found.consumed \in 1..(Len(b) - c), found.line \in Seq(STRING),
         c + found.consumed \in LineEnds(b, final),
         NoneBetween(b, final, c, c + found.consumed),
         Lines(b, final)[c + found.consumed] = NoBom(c = 0, found.line)
  PROVE  LET q == Round([decoder |-> d, events |-> es], found)
         IN  /\ q.events \in Seq(Event) /\ q.decoder \in Decoder
             /\ q = [decoder |-> q.decoder, events |-> q.events]
             /\ After(q.decoder, Joined(es0, q.events), b, final, c + found.consumed)
<1> DEFINE n == found.consumed
           e == c + n
           a == Advanced(d, n)
           v == WithoutBom(d, found.line)
           r == [decoder |-> d, events |-> es]
           q == Round(r, found)
           less == Sofar(b, final, c)
           more == Sofar(b, final, e)
           evs == es0 \o es
<1>1. /\ Buffered(b, c, d) /\ Settled(b, final, c)
      /\ ~d.failed /\ d.bomChecked = (c # 0)
      /\ d.dataLines = Open(less).data /\ d.event = Open(less).event
      /\ d.id = Open(less).id /\ d.retry = Open(less).retry
      /\ d.pending = Size(d.dataLines) /\ ~Oversized(d.dataLines)
      /\ evs = EventsOf(less) /\ Within(evs)
  BY DEF Agrees, Joined
<1>2. c \in Nat /\ e \in Nat
  <2>1. c \in Nat /\ Len(b) \in Nat
    BY <1>1, BufferIs
  <2> QED
    BY <2>1
<1>3. v = Lines(b, final)[e] /\ v \in Seq(STRING)
  <2>1. v = NoBom(c = 0, found.line)
    BY <1>1, <1>2 DEF WithoutBom, NoBom
  <2>2. NoBom(c = 0, found.line) \in Seq(STRING)
    BY NoBomTyped
  <2> QED
    BY <2>1, <2>2
<1>4. /\ Buffered(b, e, a) /\ Settled(b, final, e)
      /\ a.bomChecked /\ e # 0 /\ c < e
      /\ a.failed = d.failed /\ a.dataLines = d.dataLines /\ a.pending = d.pending
      /\ a.event = d.event /\ a.id = d.id /\ a.retry = d.retry
  BY <1>1, AdvancedIs
<1>5. Grown(less, e, v, more)
  BY <1>1, <1>3, <1>4, NextGrown
<1>6. a \in Decoder
  BY <1>4 DEF Buffered
<1>7. q = CASE v = <<>> -> [decoder |-> Dispatch(a), events |-> r.events \o Dispatched(a)]
            [] v # <<>> /\ v[1] = ":" -> [r EXCEPT !.decoder = a]
            [] OTHER -> [r EXCEPT !.decoder = CheckSize(Field(a, v))]
  BY DEF Round, Advanced
<1> HIDE DEF n, e, a, v, less, more, evs, q
<1>8. CASE v = <<>>
  <2>1. q = [decoder |-> Dispatch(a), events |-> es \o Dispatched(a)]
    BY <1>7, <1>8
  <2>2. Grown(less, e, <<>>, more)
    BY <1>5, <1>8
  <2>3. /\ es \o Dispatched(a) \in Seq(Event)
        /\ Agrees(Dispatch(a), es0 \o (es \o Dispatched(a)), b, final, e)
    BY <1>1, <1>2, <1>4, <1>6, <2>2, RoundEmpty DEF less, more, evs
  <2>4. Dispatch(a) \in Decoder
    BY <2>3 DEF Agrees, Buffered
  <2>5. q.decoder = Dispatch(a) /\ q.events = es \o Dispatched(a)
    BY <2>1
  <2>6. After(q.decoder, es0 \o q.events, b, final, e)
    BY <2>3, <2>5 DEF After
  <2>7. q = [decoder |-> q.decoder, events |-> q.events]
    BY <2>1
  <2>8. q.events \in Seq(Event) /\ q.decoder \in Decoder
    BY <2>3, <2>4, <2>5
  <2> QED
    BY <2>6, <2>7, <2>8 DEF Joined, q, e, n, r
<1>9. CASE v # <<>> /\ v[1] = ":"
  <2>1. q = [decoder |-> a, events |-> es]
    BY <1>7, <1>9
  <2>2. Agrees(a, evs, b, final, e)
    BY <1>1, <1>2, <1>3, <1>4, <1>5, <1>6, <1>9, RoundFilled DEF less, more, e, n
  <2> QED
    BY <1>6, <2>1, <2>2 DEF After, Joined, q, e, n, evs
<1>10. CASE v # <<>> /\ v[1] # ":"
  <2>1. q = [decoder |-> CheckSize(Field(a, v)), events |-> es]
    BY <1>7, <1>10
  <2>2. After(CheckSize(Field(a, v)), evs, b, final, e)
    BY <1>1, <1>2, <1>3, <1>4, <1>5, <1>6, <1>10, RoundFilled DEF less, more, e, n
  <2>3. CheckSize(Field(a, v)) \in Decoder
    BY <2>2 DEF After, Agrees, Buffered, GaveUp
  <2> QED
    BY <2>1, <2>2, <2>3 DEF Joined, q, e, n, evs
<1> QED
  BY <1>8, <1>9, <1>10

-----------------------------------------------------------------------------
(* _drain, turn by turn, from a decoder that had processed the lines up to  *)
(* c0.                                                                      *)
Turn(r, final) ==
  LET found == NextLine(r.decoder, final)
  IN  IF r.decoder.failed THEN r
      ELSE IF found.found THEN Round(r, found)
      ELSE [r EXCEPT !.decoder.scan = found.scan]

Running == [decoder : Decoder, events : Seq(Event)]

Reached(r, b, final, es0, c0, c) ==
  /\ r \in Running /\ c \in Nat /\ c0 <= c
  /\ \/ Agrees(r.decoder, Joined(es0, r.events), b, final, c)
     \/ c0 < c /\ GaveUp(r.decoder, Joined(es0, r.events), b, final, c)

Over(r, b, final, c) == r.decoder.failed \/ \A x \in LineEnds(b, final) : x <= c

LEMMA TurnIs ==
  ASSUME NEW b \in Seq(STRING), NEW final \in BOOLEAN, NEW es0 \in Seq(Event), NEW c0 \in Nat,
         NEW r, NEW c, Reached(r, b, final, es0, c0, c)
  PROVE  \E c2 \in Nat :
            /\ Reached(Turn(r, final), b, final, es0, c0, c2)
            /\ Over(r, b, final, c) => Over(Turn(r, final), b, final, c2)
            /\ Over(Turn(r, final), b, final, c2) \/ c < c2
<1> DEFINE d == r.decoder
           es == r.events
           found == NextLine(d, final)
           q == Turn(r, final)
<1>1. /\ d \in Decoder /\ es \in Seq(Event) /\ r = [decoder |-> d, events |-> es]
      /\ c \in Nat /\ c0 <= c
  BY DEF Reached, Running
<1>2. CASE d.failed
  <2>1. q = r
    BY <1>2 DEF Turn
  <2> QED
    BY <1>1, <1>2, <2>1 DEF Over
<1>3. CASE ~d.failed
  <2>1. Agrees(d, Joined(es0, es), b, final, c)
    BY <1>3 DEF Reached, GaveUp
  <2>2. Buffered(b, c, d) /\ Settled(b, final, c)
    BY <2>1 DEF Agrees
  <2> DEFINE e == c + found.consumed
  <2>3. /\ found.found \in BOOLEAN
        /\ found.found =>
             /\ found.consumed \in 1..(Len(b) - c) /\ found.line \in Seq(STRING)
             /\ e \in LineEnds(b, final) /\ NoneBetween(b, final, c, e)
             /\ Lines(b, final)[e] = NoBom(c = 0, found.line)
        /\ ~found.found =>
             /\ found.scan \in 0..(Len(b) - c)
             /\ \A i \in 1..found.scan : d.buf[i] \notin Terminators
             /\ \A x \in LineEnds(b, final) : x <= c
    BY <2>2, NextLineIs
  <2>4. CASE found.found
    <3>1. q = Round([decoder |-> d, events |-> es], found)
      BY <1>1, <1>3, <2>4 DEF Turn
    <3> HIDE DEF q, found, d, es
    <3>2. /\ q.events \in Seq(Event) /\ q.decoder \in Decoder
          /\ q = [decoder |-> q.decoder, events |-> q.events]
          /\ After(q.decoder, Joined(es0, q.events), b, final, e)
      <4>1. /\ found.consumed \in 1..(Len(b) - c) /\ found.line \in Seq(STRING)
            /\ c + found.consumed \in LineEnds(b, final)
            /\ NoneBetween(b, final, c, c + found.consumed)
            /\ Lines(b, final)[c + found.consumed] = NoBom(c = 0, found.line)
        BY <2>3, <2>4
      <4> HIDE DEF e
      <4> DEFINE w == Round([decoder |-> d, events |-> es], found)
      <4>2. /\ w.events \in Seq(Event) /\ w.decoder \in Decoder
            /\ w = [decoder |-> w.decoder, events |-> w.events]
            /\ After(w.decoder, Joined(es0, w.events), b, final, c + found.consumed)
        BY <1>1, <2>1, <4>1, RoundIs
      <4> QED
        BY <3>1, <4>2 DEF e
    <3>3. c < e /\ e \in Nat
      BY <1>1, <2>3, <2>4
    <3>4. Reached(q, b, final, es0, c0, e)
      BY <1>1, <3>2, <3>3 DEF Reached, Running, After
    <3>5. ~Over(r, b, final, c)
      BY <1>1, <1>3, <2>3, <2>4, <3>3 DEF Over, d
    <3> QED
      BY <3>3, <3>4, <3>5 DEF q
  <2>5. CASE ~found.found
    <3>1. q = [r EXCEPT !.decoder.scan = found.scan]
      BY <1>3, <2>5 DEF Turn
    <3> DEFINE d2 == [d EXCEPT !.scan = found.scan]
    <3>2. q = [decoder |-> d2, events |-> es]
      BY <1>1, <3>1
    <3>3. d.buf \in Seq(STRING) /\ Len(d.buf) = Len(b) - c /\ Len(b) \in Nat
      BY <2>2, BufferIs
    <3> HIDE DEF q, found
    <3>4. /\ d2 \in Decoder /\ d2.scan = found.scan /\ d2.buf = d.buf /\ d2.failed = d.failed
          /\ d2.bomChecked = d.bomChecked /\ d2.dataLines = d.dataLines /\ d2.event = d.event
          /\ d2.id = d.id /\ d2.retry = d.retry /\ d2.pending = d.pending
      <4>1. found.scan \in Nat
        BY <1>1, <2>3, <2>5, <3>3
      <4> HIDE DEF d
      <4> QED
        BY <1>1, <4>1 DEF Decoder
    <3> HIDE DEF d2, d, es
    <3>5. Buffered(b, c, d2)
      <4>1. d2.scan <= Len(d2.buf) /\ \A i \in 1..d2.scan : d2.buf[i] \notin Terminators
        BY <1>1, <2>3, <2>5, <3>3, <3>4
      <4> QED
        BY <2>2, <3>4, <4>1 DEF Buffered
    <3>6. Agrees(d2, Joined(es0, es), b, final, c)
      BY <2>1, <2>2, <3>4, <3>5 DEF Agrees
    <3>7. Reached(q, b, final, es0, c0, c)
      BY <1>1, <3>2, <3>4, <3>6 DEF Reached, Running
    <3>8. Over(q, b, final, c)
      BY <2>3, <2>5 DEF Over
    <3> QED
      BY <1>1, <3>7, <3>8 DEF q
  <2> QED
    BY <2>3, <2>4, <2>5
<1> QED
  BY <1>2, <1>3

(* Behind the last line end only the last byte may be a terminator.         *)
LEMMA NoneBehind ==
  ASSUME NEW b \in Seq(STRING), NEW final \in BOOLEAN, NEW c \in Nat,
         \A x \in LineEnds(b, final) : x <= c
  PROVE  \A k \in (c + 1)..(Len(b) - 1) : b[k] \notin Terminators
<1> SUFFICES ASSUME NEW k \in (c + 1)..(Len(b) - 1), b[k] \in Terminators PROVE FALSE
  OBVIOUS
<1>1. Len(b) \in Nat /\ k \in 1..Len(b) /\ k + 1 \in 1..Len(b) /\ k < Len(b) /\ c < k
  OBVIOUS
<1>2. k \notin LineEnds(b, final) /\ k + 1 \notin LineEnds(b, final)
  BY <1>1
<1>3. b[k] # "LF" /\ b[k+1] # "LF"
  BY <1>1, <1>2, LineEndIs
<1>4. b[k] # "CR"
  BY <1>1, <1>2, <1>3, LineEndIs
<1> QED
  BY <1>3, <1>4 DEF Terminators

LEMMA LongRest ==
  ASSUME NEW b \in Seq(STRING), NEW final \in BOOLEAN, NEW c \in Nat,
         \A x \in LineEnds(b, final) : x <= c, Len(b) - c > MaxEventBytes
  PROVE  HasOversizedLine(b)
<1>1. Len(b) \in Nat /\ MaxEventBytes \in Nat \ {0}
  BY LimitsAssumption
<1>2. c + 1 \in DOMAIN b /\ Len(b) \in DOMAIN b /\ Len(b) - (c + 1) >= MaxEventBytes
  BY <1>1
<1>3. \A k \in (c + 1)..(Len(b) - 1) : b[k] \notin Terminators
  BY NoneBehind
<1> QED
  BY <1>2, <1>3 DEF HasOversizedLine
(* What _drain leaves: every line processed, or the reason it gave up.      *)
Reason(b, final, c0, c) ==
  \/ c \in LineEnds(b, final) /\ Oversized(Open(Sofar(b, final, c)).data)
  \/ HasOversizedLine(b)
  \/ c0 < c /\ c \in LineEnds(b, final) /\ Len(b) - c > MaxEventBytes

Finished(d, evs, b, final, c0, c) ==
  \/ Agrees(d, evs, b, final, c) /\ \A x \in LineEnds(b, final) : x <= c
  \/ /\ d.failed /\ Settled(b, final, c)
     /\ evs = EventsOf(Sofar(b, final, c)) /\ Within(evs)
     /\ Reason(b, final, c0, c)

Checked(r) == [r EXCEPT !.decoder = CheckSize(@)]

LEMMA CheckedIs ==
  ASSUME NEW b \in Seq(STRING), NEW final \in BOOLEAN, NEW es0 \in Seq(Event), NEW c0 \in Nat,
         NEW r, NEW c, Reached(r, b, final, es0, c0, c), Over(r, b, final, c)
  PROVE  LET q == Checked(r)
         IN  /\ q \in Running /\ c \in Nat /\ c0 <= c
             /\ Finished(q.decoder, Joined(es0, q.events), b, final, c0, c)
<1> DEFINE d == r.decoder
           evs == Joined(es0, r.events)
           q == Checked(r)
<1>1. /\ d \in Decoder /\ r.events \in Seq(Event) /\ r = [decoder |-> d, events |-> r.events]
      /\ c \in Nat /\ c0 <= c
  BY DEF Reached, Running
<1>2. q = [decoder |-> CheckSize(d), events |-> r.events]
  BY <1>1 DEF Checked
<1>3. CheckSize(d) \in Decoder
  BY <1>1, CheckSizeIs
<1>4. q \in Running /\ q.decoder = CheckSize(d) /\ q.events = r.events
  BY <1>1, <1>2, <1>3 DEF Running
<1> HIDE DEF q, d
<1>5. Finished(CheckSize(d), evs, b, final, c0, c)
  <2>1. CASE d.failed
    <3>1. CheckSize(d) = d
      BY <1>1, <2>1, CheckSizeIs
    <3>2. c0 < c /\ GaveUp(d, evs, b, final, c)
      BY <2>1 DEF Reached, Agrees, d
    <3>3. Settled(b, final, c) /\ Reason(b, final, c0, c)
      BY <3>2 DEF GaveUp, Settled, Reason
    <3> QED
      BY <2>1, <3>1, <3>2, <3>3 DEF Finished, GaveUp
  <2>2. CASE ~d.failed
    <3>1. Agrees(d, evs, b, final, c)
      BY <2>2 DEF Reached, GaveUp, d
    <3>2. \A x \in LineEnds(b, final) : x <= c
      BY <2>2 DEF Over, d
    <3>3. CASE ~TooLarge(d)
      BY <1>1, <3>1, <3>2, <3>3, CheckSizeIs DEF Finished
    <3>4. CASE TooLarge(d)
      <4>1. CheckSize(d).failed
        BY <1>1, <2>2, <3>4, CheckSizeIs
      <4>2. /\ Buffered(b, c, d) /\ Settled(b, final, c)
            /\ d.pending = Size(d.dataLines) /\ ~Oversized(d.dataLines)
            /\ evs = EventsOf(Sofar(b, final, c)) /\ Within(evs)
        BY <3>1 DEF Agrees
      <4>3. Len(d.buf) > MaxEventBytes
        BY <3>4, <4>2 DEF TooLarge, Oversized
      <4>4. Len(b) - c > MaxEventBytes
        BY <4>2, <4>3, BufferIs
      <4>5. HasOversizedLine(b)
        BY <1>1, <3>2, <4>4, LongRest
      <4> QED
        BY <4>1, <4>2, <4>5 DEF Finished, Reason
    <3> QED
      BY <3>3, <3>4
  <2> QED
    BY <2>1, <2>2
<1> QED
  BY <1>1, <1>4, <1>5 DEF q

Turns(d0, final, g) ==
  g = [k \in 0..Len(d0.buf) |-> IF k = 0 THEN [decoder |-> d0, events |-> <<>>]
                                ELSE Turn(g[k-1], final)]

LEMMA DrainIsTurns ==
  ASSUME NEW d0, NEW final
  PROVE  Drain(d0, final) =
           [(CHOOSE h : Turns(d0, final, h))[Len(d0.buf)] EXCEPT !.decoder = CheckSize(@)]
BY DEF Drain, Turns, Turn
LEMMA JoinedEmpty ==
  ASSUME NEW es0 \in Seq(Event)
  PROVE  Joined(es0, <<>>) = es0 /\ <<>> \in Seq(Event)
<1> DEFINE l == es0 \o <<>>
<1>1. /\ l \in Seq(Event) /\ Len(l) = Len(es0)
      /\ \A i \in 1..Len(l) : l[i] = es0[i]
  OBVIOUS
<1> HIDE DEF l
<1>2. l = es0
  BY <1>1, SeqEqual
<1> QED
  BY <1>2 DEF Joined, l

(* k turns from the start the decoder is over, or k bytes further.          *)
Arrived(r, b, final, es0, c0, k) ==
  \E c \in Nat : /\ Reached(r, b, final, es0, c0, c)
                 /\ Over(r, b, final, c) \/ c0 + k <= c

LEMMA DrainIs ==
  ASSUME NEW b \in Seq(STRING), NEW final \in BOOLEAN, NEW es0 \in Seq(Event), NEW c0, NEW d0,
         Agrees(d0, es0, b, final, c0)
  PROVE  \E c \in Nat :
           LET r == Drain(d0, final)
           IN  /\ r \in Running /\ c0 <= c
               /\ Finished(r.decoder, Joined(es0, r.events), b, final, c0, c)
<1> DEFINE n == Len(d0.buf)
           a == [decoder |-> d0, events |-> <<>>]
           V == {r \in Running : \E c \in Nat : Reached(r, b, final, es0, c0, c)}
           step == [x \in (1..n) \X V |-> Turn(x[2], final)]
<1>1. Buffered(b, c0, d0)
  BY DEF Agrees
<1>2. n \in Nat /\ c0 \in Nat /\ c0 + n = Len(b) /\ d0 \in Decoder /\ d0.buf \in Seq(STRING)
  <2>1. Len(b) \in Nat /\ c0 \in Nat /\ c0 <= Len(b) /\ n = Len(b) - c0 /\ d0.buf \in Seq(STRING)
    BY <1>1, BufferIs
  <2> HIDE DEF n
  <2> QED
    BY <1>1, <2>1 DEF Buffered
<1>3. Reached(a, b, final, es0, c0, c0) /\ a \in V
  <2>1. a \in Running /\ a.decoder = d0 /\ Joined(es0, a.events) = es0
    BY <1>2, JoinedEmpty DEF Running
  <2>2. Reached(a, b, final, es0, c0, c0)
    <3> HIDE DEF a
    <3> QED
      BY <1>2, <2>1 DEF Reached
  <2> QED
    BY <1>2, <2>1, <2>2
<1>4. \A r \in V : Turn(r, final) \in V
  <2> SUFFICES ASSUME NEW r \in V PROVE Turn(r, final) \in V
    OBVIOUS
  <2>1. PICK c \in Nat : Reached(r, b, final, es0, c0, c)
    OBVIOUS
  <2>2. PICK c2 \in Nat : Reached(Turn(r, final), b, final, es0, c0, c2)
    BY <1>2, <2>1, TurnIs
  <2>3. Turn(r, final) \in Running
    BY <2>2 DEF Reached
  <2> QED
    BY <2>2, <2>3
<1>5. /\ step \in [(1..n) \X V -> V]
      /\ \A k \in 1..n, r \in V : step[<<k, r>>] = Turn(r, final)
  <2> HIDE DEF V, n
  <2> QED
    BY <1>4
<1> HIDE DEF step, V, a
<1>6. PICK g \in [0..n -> V] : Follows(g, a, step, n)
  <2> HIDE DEF n
  <2> QED
    BY <1>2, <1>3, <1>5, Recursion
<1>7. Turns(d0, final, g)
  <2>1. \A k \in 0..n : (IF k = 0 THEN a ELSE step[<<k, g[k-1]>>])
                          = IF k = 0 THEN a ELSE Turn(g[k-1], final)
    <3> HIDE DEF n
    <3> QED
      BY <1>2, <1>5, <1>6
  <2>2. g = [k \in 0..n |-> IF k = 0 THEN a ELSE Turn(g[k-1], final)]
    <3> HIDE DEF n
    <3> QED
      BY <1>6, <2>1 DEF Follows
  <2> QED
    BY <2>2 DEF Turns, a
<1> DEFINE f == CHOOSE h : Turns(d0, final, h)
<1>8. Turns(d0, final, f)
  BY <1>7
<1> HIDE DEF f
<1>9. f[0] = a /\ \A k \in 1..n : f[k] = Turn(f[k-1], final)
  <2> DEFINE u(k) == IF k = 0 THEN a ELSE Turn(f[k-1], final)
  <2>1. f = [k \in 0..n |-> u(k)]
    BY <1>8 DEF Turns, a
  <2> HIDE DEF u, n
  <2>2. \A k \in 0..n : f[k] = u(k)
    BY <2>1
  <2>3. u(0) = a /\ \A k \in 1..n : u(k) = Turn(f[k-1], final)
    <3>1. u(0) = a
      BY DEF u
    <3>2. ASSUME NEW k \in 1..n PROVE u(k) = Turn(f[k-1], final)
      <4>1. k # 0
        BY <1>2
      <4> QED
        BY <4>1 DEF u
    <3> QED
      BY <3>1, <3>2
  <2>4. 0 \in 0..n /\ \A k \in 1..n : k \in 0..n
    BY <1>2
  <2> QED
    BY <2>2, <2>3, <2>4
<1>10. \A k \in Nat : k \in 0..n => Arrived(f[k], b, final, es0, c0, k)
  <2> DEFINE T == {k \in Nat : k \in 0..n => Arrived(f[k], b, final, es0, c0, k)}
  <2>1. 0 \in T
    BY <1>2, <1>3, <1>9 DEF Arrived
  <2>2. ASSUME NEW k \in Nat, k \in T PROVE k + 1 \in T
    <3> SUFFICES ASSUME k + 1 \in 0..n PROVE Arrived(f[k + 1], b, final, es0, c0, k + 1)
      OBVIOUS
    <3>1. k \in 0..n /\ k + 1 \in 1..n /\ (k + 1) - 1 = k
      BY <1>2
    <3>2. PICK c \in Nat : /\ Reached(f[k], b, final, es0, c0, c)
                           /\ Over(f[k], b, final, c) \/ c0 + k <= c
      BY <2>2, <3>1 DEF Arrived
    <3>3. f[k + 1] = Turn(f[k], final)
      BY <1>9, <3>1
    <3> DEFINE q == Turn(f[k], final)
    <3>4. PICK c2 \in Nat :
            /\ Reached(q, b, final, es0, c0, c2)
            /\ Over(f[k], b, final, c) => Over(q, b, final, c2)
            /\ Over(q, b, final, c2) \/ c < c2
      BY <1>2, <3>2, TurnIs
    <3> HIDE DEF q
    <3>5. Over(q, b, final, c2) \/ c0 + (k + 1) <= c2
      BY <1>2, <3>2, <3>4
    <3> QED
      BY <3>3, <3>4, <3>5 DEF Arrived, q
  <2> HIDE DEF T
  <2>3. \A k \in Nat : k \in T
    BY <2>1, <2>2, Induction
  <2> QED
    BY <2>3 DEF T
<1>11. PICK c \in Nat : /\ Reached(f[n], b, final, es0, c0, c)
                        /\ Over(f[n], b, final, c) \/ c0 + n <= c
  <2> HIDE DEF n
  <2>1. Arrived(f[n], b, final, es0, c0, n)
    BY <1>2, <1>10
  <2> QED
    BY <2>1 DEF Arrived
<1>12. Over(f[n], b, final, c)
  <2>1. \A x \in LineEnds(b, final) : x \in 1..Len(b)
    BY EndsAre
  <2> HIDE DEF n
  <2>2. c0 + n <= c => \A x \in LineEnds(b, final) : x <= c
    BY <1>2, <2>1
  <2> QED
    BY <1>11, <2>2 DEF Over
<1>13. Drain(d0, final) = Checked(f[n])
  BY DrainIsTurns DEF f, Checked
<1> HIDE DEF n
<1>14. LET r == Drain(d0, final)
       IN  /\ r \in Running /\ c0 <= c
           /\ Finished(r.decoder, Joined(es0, r.events), b, final, c0, c)
  BY <1>2, <1>11, <1>12, <1>13, CheckedIs
<1> QED
  BY <1>14

-----------------------------------------------------------------------------
(* More bytes, or the end of the stream, leave the lines that are there.    *)
Continues(b0, b) ==
  /\ b0 \in Seq(STRING) /\ b \in Seq(STRING) /\ Len(b0) <= Len(b)
  /\ \A i \in 1..Len(b0) : b[i] = b0[i]

LEMMA StableEnds ==
  ASSUME NEW b0, NEW b, Continues(b0, b), NEW final \in BOOLEAN, NEW x \in 1..Len(b0)
  PROVE  /\ x \in LineEnds(b0, FALSE) => x \in LineEnds(b, final)
         /\ x \in LineEnds(b, final) /\ x < Len(b0) => x \in LineEnds(b0, FALSE)
<1>1. /\ b0 \in Seq(STRING) /\ b \in Seq(STRING) /\ x \in 1..Len(b) /\ x \in Nat
      /\ Len(b0) \in Nat /\ Len(b) \in Nat /\ Len(b0) <= Len(b) /\ b[x] = b0[x]
      /\ x < Len(b0) => x + 1 \in 1..Len(b0) /\ x < Len(b)
  BY DEF Continues
<1>2. x < Len(b0) => b[x + 1] = b0[x + 1]
  BY <1>1 DEF Continues
<1>3. x \in LineEnds(b0, FALSE) <=>
        \/ b0[x] = "LF"
        \/ b0[x] = "CR" /\ (IF x < Len(b0) THEN b0[x+1] # "LF" ELSE FALSE)
  BY <1>1, LineEndIs
<1>4. x \in LineEnds(b, final) <=>
        \/ b[x] = "LF"
        \/ b[x] = "CR" /\ (IF x < Len(b) THEN b[x+1] # "LF" ELSE final)
  BY <1>1, LineEndIs
<1> QED
  BY <1>1, <1>2, <1>3, <1>4

LEMMA SamePart ==
  ASSUME NEW b0, NEW b, Continues(b0, b), NEW m \in Nat \ {0}, NEW n \in 0..Len(b0)
  PROVE  SubSeq(b, m, n) = SubSeq(b0, m, n)
<1> DEFINE p == SubSeq(b, m, n)
           q == SubSeq(b0, m, n)
<1>1. /\ b0 \in Seq(STRING) /\ b \in Seq(STRING) /\ Len(b0) \in Nat /\ Len(b) \in Nat
      /\ Len(b0) <= Len(b) /\ m \in Int /\ n \in Int
  BY DEF Continues
<1>2. \A i \in m..n : i \in 1..Len(b0) /\ i \in 1..Len(b)
  BY <1>1
<1>3. \A i \in m..n : b[i] \in STRING /\ b0[i] \in STRING /\ b[i] = b0[i]
  BY <1>1, <1>2 DEF Continues
<1>4. /\ p \in Seq(STRING) /\ Len(p) = IF m <= n THEN n - m + 1 ELSE 0
      /\ \A i \in 1..(n - m + 1) : p[i] = b[m + i - 1]
  BY <1>1, <1>3, SubSeqProperties
<1>5. /\ q \in Seq(STRING) /\ Len(q) = IF m <= n THEN n - m + 1 ELSE 0
      /\ \A i \in 1..(n - m + 1) : q[i] = b0[m + i - 1]
  BY <1>1, <1>3, SubSeqProperties
<1> HIDE DEF p, q
<1>6. ASSUME NEW i \in 1..Len(p) PROVE p[i] = q[i]
  <2>1. i \in 1..(n - m + 1) /\ m + i - 1 \in m..n
    BY <1>1, <1>4
  <2> QED
    BY <1>3, <1>4, <1>5, <2>1
<1>7. p = q
  BY <1>4, <1>5, <1>6, SeqEqual
<1> QED
  BY <1>7 DEF p, q

LEMMA SameLine ==
  ASSUME NEW b0, NEW b, Continues(b0, b), NEW ends \in SUBSET Nat, IsFiniteSet(ends),
         NEW ends0 \in SUBSET Nat, IsFiniteSet(ends0), NEW e \in 1..Len(b0),
         \A x \in Nat : x < e => (x \in ends <=> x \in ends0)
  PROVE  /\ From(ends, e) = From(ends0, e)
         /\ Plain(b, ends, e) = Plain(b0, ends0, e)
<1> DEFINE S == {0} \cup {x \in ends : x < e}
           S0 == {0} \cup {x \in ends0 : x < e}
<1>1. S = S0
  OBVIOUS
<1>2. From(ends, e) = From(ends0, e)
  BY <1>1 DEF From
<1> HIDE DEF S, S0
<1> DEFINE m == From(ends0, e)
<1>3. m \in Nat \ {0}
  BY FromIs
<1> HIDE DEF m
<1>4. Len(b0) \in Nat /\ e \in Nat /\ e > 0 /\ e <= Len(b0) /\ b[e] = b0[e]
  BY DEF Continues
<1>5. e > m => b[e - 1] = b0[e - 1]
  <2> SUFFICES ASSUME e > m PROVE b[e - 1] = b0[e - 1]
    OBVIOUS
  <2>1. e - 1 \in 1..Len(b0)
    BY <1>3, <1>4
  <2> QED
    BY <2>1 DEF Continues
<1>6. To(b, ends, e) = To(b0, ends0, e)
  BY <1>2, <1>4, <1>5 DEF To, m
<1>7. To(b0, ends0, e) \in 0..Len(b0)
  <2>1. b0[e] = "LF" /\ e > m /\ b0[e - 1] = "CR" => e - 2 \in 0..Len(b0)
    BY <1>3, <1>4
  <2>2. e - 1 \in 0..Len(b0)
    BY <1>4
  <2> QED
    BY <2>1, <2>2 DEF To, m
<1> DEFINE n == To(b0, ends0, e)
<1> HIDE DEF n
<1>8. SubSeq(b, m, n) = SubSeq(b0, m, n)
  BY <1>3, <1>7, SamePart DEF n
<1>9. Plain(b, ends, e) = Plain(b0, ends0, e)
  BY <1>2, <1>6, <1>8 DEF Plain, m, n
<1> QED
  BY <1>2, <1>9

Kept(b0, b, final, c) ==
  Settled(b, final, c) /\ Sofar(b, final, c) = Sofar(b0, FALSE, c)

LEMMA StableLines ==
  ASSUME NEW b0, NEW b, Continues(b0, b), NEW final \in BOOLEAN,
         NEW c, Settled(b0, FALSE, c)
  PROVE  Kept(b0, b, final, c)
<1> DEFINE ends == LineEnds(b, final)
           ends0 == LineEnds(b0, FALSE)
<1>1. /\ b0 \in Seq(STRING) /\ b \in Seq(STRING) /\ FALSE \in BOOLEAN
      /\ Len(b0) \in Nat /\ Len(b) \in Nat /\ Len(b0) <= Len(b)
  BY DEF Continues
<1>2. /\ ends \in SUBSET (1..Len(b)) /\ ends \in SUBSET Nat /\ IsFiniteSet(ends)
      /\ ends0 \in SUBSET (1..Len(b0)) /\ ends0 \in SUBSET Nat /\ IsFiniteSet(ends0)
  BY <1>1, EndsAre
<1>3. c \in 0..Len(b0) /\ c \in Nat /\ c \in Int /\ (c # 0 => c \in ends0)
  <2>1. c = 0 \/ c \in ends0
    BY DEF Settled
  <2> HIDE DEF ends, ends0
  <2>2. CASE c = 0
    BY <1>1, <2>2
  <2>3. CASE c \in ends0
    <3>1. c \in 1..Len(b0)
      BY <1>2, <2>3
    <3> QED
      BY <1>1, <2>3, <3>1
  <2> QED
    BY <2>1, <2>2, <2>3
<1>4. \A x \in Nat : x <= c => (x \in ends <=> x \in ends0)
  <2> SUFFICES ASSUME NEW x \in Nat, x <= c PROVE x \in ends <=> x \in ends0
    OBVIOUS
  <2>1. CASE x = 0
    <3>1. 0 \notin 1..Len(b) /\ 0 \notin 1..Len(b0)
      OBVIOUS
    <3> QED
      BY <1>2, <2>1, <3>1
  <2>2. CASE x # 0
    <3>1. x \in 1..Len(b0)
      BY <1>1, <1>3, <2>2
    <3>2. /\ x \in ends0 => x \in ends
          /\ x \in ends /\ x < Len(b0) => x \in ends0
      BY <3>1, StableEnds
    <3>3. x < Len(b0) \/ x = c
      BY <1>1, <1>3, <3>1
    <3> QED
      BY <1>3, <2>2, <3>2, <3>3
  <2> QED
    BY <2>1, <2>2
<1>5. Settled(b, final, c)
  <2>1. c = 0 \/ c \in ends
    <3> HIDE DEF ends, ends0
    <3> QED
      BY <1>3, <1>4
  <2> QED
    BY <2>1 DEF Settled
<1> DEFINE lines == Lines(b, final)
           lines0 == Lines(b0, FALSE)
<1>6. DOMAIN lines = ends /\ DOMAIN lines0 = ends0
  BY <1>1, LinesAre
<1>7. \A e \in ends0 : e <= c => lines[e] = lines0[e]
  <2> SUFFICES ASSUME NEW e \in ends0, e <= c PROVE lines[e] = lines0[e]
    OBVIOUS
  <2>1. e \in ends /\ e \in 1..Len(b0)
    BY <1>2, <1>4
  <2>2. \A x \in Nat : x < e => (x \in ends <=> x \in ends0)
    <3> HIDE DEF ends, ends0
    <3>1. e \in Nat
      BY <1>2
    <3>2. \A x \in Nat : x < e => x <= c
      BY <1>3, <3>1
    <3> QED
      BY <1>4, <3>2
  <2>3. /\ lines[e] = NoBom(From(ends, e) = 1, Plain(b, ends, e))
        /\ lines0[e] = NoBom(From(ends0, e) = 1, Plain(b0, ends0, e))
    BY <1>1, <2>1, LinesAre
  <2> HIDE DEF ends, ends0, lines, lines0
  <2>4. From(ends, e) = From(ends0, e) /\ Plain(b, ends, e) = Plain(b0, ends0, e)
    BY <1>2, <2>1, <2>2, SameLine
  <2> QED
    BY <2>3, <2>4
<1>8. Sofar(b, final, c) = Sofar(b0, FALSE, c)
  <2> DEFINE T == {y \in ends : y <= c}
             T0 == {y \in ends0 : y <= c}
  <2>1. T = T0
    BY <1>2, <1>4
  <2>2. Sofar(b, final, c) = [x \in T |-> lines[x]] /\ Sofar(b0, FALSE, c) = [x \in T0 |-> lines0[x]]
    BY <1>6 DEF Sofar, Upto
  <2>3. \A x \in T : lines[x] = lines0[x]
    BY <1>7, <2>1
  <2> HIDE DEF T, T0, lines, lines0
  <2> QED
    BY <2>1, <2>2, <2>3
<1> QED
  BY <1>5, <1>8 DEF Kept
(* A decoder that is up to date, and one that gave up for a reason.         *)
Right(d, evs, b, final) ==
  \E c \in Nat : Agrees(d, evs, b, final, c) /\ \A x \in LineEnds(b, final) : x <= c

Known(b, final, c, w) ==
  \/ c \in LineEnds(b, final) /\ Oversized(Open(Sofar(b, final, c)).data)
  \/ HasOversizedLine(b)
  \/ w > MaxEventBytes

Lost(d, evs, b, final, w) ==
  /\ d \in Decoder /\ d.failed
  /\ \E c \in Nat :
       /\ Settled(b, final, c)
       /\ evs = EventsOf(Sofar(b, final, c)) /\ Within(evs)
       /\ Known(b, final, c, w)

(* d1 is d0 with the bytes by which b continues b0.                         *)
Fed(d0, d1, b0, b) ==
  /\ d1 = [d0 EXCEPT !.buf = d1.buf] /\ d1.buf \in Seq(STRING)
  /\ Len(d1.buf) = Len(d0.buf) + (Len(b) - Len(b0))
  /\ \A i \in 1..Len(d0.buf) : d1.buf[i] = d0.buf[i]
  /\ \A i \in 1..(Len(b) - Len(b0)) : d1.buf[Len(d0.buf) + i] = b[Len(b0) + i]

LEMMA Carried ==
  ASSUME NEW b0, NEW b, Continues(b0, b), NEW final \in BOOLEAN, NEW c, NEW evs,
         NEW d0, NEW d1, Agrees(d0, evs, b0, FALSE, c), Fed(d0, d1, b0, b)
  PROVE  Agrees(d1, evs, b, final, c)
<1>1. /\ b0 \in Seq(STRING) /\ b \in Seq(STRING) /\ Len(b0) \in Nat /\ Len(b) \in Nat
      /\ Len(b0) <= Len(b)
  BY DEF Continues
<1>2. Buffered(b0, c, d0) /\ Settled(b0, FALSE, c)
  BY DEF Agrees
<1>3. /\ c \in Nat /\ c <= Len(b0) /\ d0.buf \in Seq(STRING) /\ Len(d0.buf) = Len(b0) - c
      /\ \A i \in 1..(Len(b0) - c) : d0.buf[i] = b0[c + i]
      /\ d0.scan \in 0..(Len(b0) - c)
  BY <1>1, <1>2, BufferIs
<1>4. d0 \in Decoder /\ d1.buf \in Seq(STRING) /\ d1 = [d0 EXCEPT !.buf = d1.buf]
  BY <1>2 DEF Buffered, Fed
<1>5. /\ d1 \in Decoder /\ d1.scan = d0.scan /\ d1.failed = d0.failed
      /\ d1.bomChecked = d0.bomChecked /\ d1.dataLines = d0.dataLines /\ d1.event = d0.event
      /\ d1.id = d0.id /\ d1.retry = d0.retry /\ d1.pending = d0.pending
  BY <1>4 DEF Decoder
<1>6. Len(d1.buf) = Len(b) - c
  BY <1>1, <1>3 DEF Fed
<1>7. \A i \in 1..(Len(b) - c) : d1.buf[i] = b[c + i]
  <2> SUFFICES ASSUME NEW i \in 1..(Len(b) - c) PROVE d1.buf[i] = b[c + i]
    OBVIOUS
  <2>1. CASE i <= Len(d0.buf)
    <3>1. i \in 1..Len(d0.buf) /\ i \in 1..(Len(b0) - c) /\ c + i \in 1..Len(b0)
      BY <1>1, <1>3, <2>1
    <3>2. d1.buf[i] = d0.buf[i]
      BY <3>1 DEF Fed
    <3>3. b[c + i] = b0[c + i]
      BY <3>1 DEF Continues
    <3> QED
      BY <1>3, <3>1, <3>2, <3>3
  <2>2. CASE i > Len(d0.buf)
    <3> DEFINE k == i - Len(d0.buf)
    <3>1. k \in 1..(Len(b) - Len(b0)) /\ Len(d0.buf) + k = i /\ Len(b0) + k = c + i
      BY <1>1, <1>3, <2>2
    <3> HIDE DEF k
    <3>2. d1.buf[Len(d0.buf) + k] = b[Len(b0) + k]
      BY <3>1 DEF Fed
    <3> QED
      BY <3>1, <3>2
  <2> QED
    BY <1>3, <2>1, <2>2
<1>8. d1.buf = SubSeq(b, c + 1, Len(b))
  <2> DEFINE p == SubSeq(b, c + 1, Len(b))
  <2>1. \A i \in (c + 1)..Len(b) : b[i] \in STRING
    BY <1>1, <1>3
  <2>2. c + 1 \in Int /\ Len(b) \in Int
    BY <1>1, <1>3
  <2>3. /\ p \in Seq(STRING) /\ Len(p) = IF c + 1 <= Len(b) THEN Len(b) - (c + 1) + 1 ELSE 0
        /\ \A i \in 1..(Len(b) - (c + 1) + 1) : p[i] = b[(c + 1) + i - 1]
    BY <2>1, <2>2, SubSeqProperties
  <2> HIDE DEF p
  <2>4. Len(p) = Len(b) - c
    BY <1>1, <1>3, <2>3
  <2>5. ASSUME NEW i \in 1..Len(d1.buf) PROVE d1.buf[i] = p[i]
    <3>1. i \in 1..(Len(b) - (c + 1) + 1) /\ (c + 1) + i - 1 = c + i /\ i \in 1..(Len(b) - c)
      BY <1>1, <1>3, <1>6
    <3> QED
      BY <1>7, <2>3, <3>1
  <2>6. d1.buf = p
    BY <1>4, <1>6, <2>3, <2>4, <2>5, SeqEqual
  <2> QED
    BY <2>6 DEF p
<1>9. Buffered(b, c, d1)
  <2>1. c \in 0..Len(b) /\ d1.scan <= Len(d1.buf)
    BY <1>1, <1>3, <1>5, <1>6
  <2>2. ASSUME NEW i \in 1..d1.scan PROVE d1.buf[i] \notin Terminators
    <3>1. i \in 1..d0.scan /\ i \in 1..Len(d0.buf)
      BY <1>3, <1>5
    <3>2. d1.buf[i] = d0.buf[i]
      BY <3>1 DEF Fed
    <3> QED
      BY <1>2, <3>1, <3>2 DEF Buffered
  <2> QED
    BY <1>5, <1>8, <2>1, <2>2 DEF Buffered
<1>10. Settled(b, final, c) /\ Sofar(b, final, c) = Sofar(b0, FALSE, c)
  <2>1. Kept(b0, b, final, c)
    BY <1>2, StableLines
  <2> QED
    BY <2>1 DEF Kept
<1> QED
  BY <1>5, <1>9, <1>10 DEF Agrees

LEMMA NewEnds ==
  ASSUME NEW b0, NEW b, Continues(b0, b), NEW final \in BOOLEAN, NEW c0 \in Nat,
         \A x \in LineEnds(b0, FALSE) : x <= c0,
         NEW c \in LineEnds(b, final), c0 < c
  PROVE  Len(b0) <= c
<1>1. /\ b0 \in Seq(STRING) /\ b \in Seq(STRING) /\ Len(b0) \in Nat /\ Len(b) \in Nat
  BY DEF Continues
<1>2. c \in 1..Len(b) /\ c \in Nat
  BY <1>1, EndsAre
<1> SUFFICES ASSUME c < Len(b0) PROVE FALSE
  BY <1>1, <1>2
<1>3. c \in 1..Len(b0)
  BY <1>1, <1>2
<1>4. c \in LineEnds(b0, FALSE)
  BY <1>3, StableEnds
<1>5. c <= c0
  BY <1>4, Zenon
<1> QED
  BY <1>2, <1>5

LEMMA DrainStep ==
  ASSUME NEW b0, NEW b, Continues(b0, b), NEW final \in BOOLEAN, NEW evs,
         NEW d0, NEW d1, Right(d0, evs, b0, FALSE), Fed(d0, d1, b0, b),
         NEW w \in Nat, Len(b) - Len(b0) <= w
  PROVE  LET r == Drain(d1, final)
         IN  /\ r \in Running
             /\ \/ Right(r.decoder, Joined(evs, r.events), b, final)
                \/ Lost(r.decoder, Joined(evs, r.events), b, final, w)
<1> DEFINE r == Drain(d1, final)
           more == Joined(evs, r.events)
<1>1. /\ b0 \in Seq(STRING) /\ b \in Seq(STRING) /\ Len(b0) \in Nat /\ Len(b) \in Nat
      /\ FALSE \in BOOLEAN
  BY DEF Continues
<1>2. PICK c0 \in Nat : /\ Agrees(d0, evs, b0, FALSE, c0)
                        /\ \A x \in LineEnds(b0, FALSE) : x <= c0
  BY DEF Right
<1>3. Agrees(d1, evs, b, final, c0)
  BY <1>2, Carried
<1>4. evs \in Seq(Event)
  <2>1. Settled(b0, FALSE, c0) /\ evs = EventsOf(Sofar(b0, FALSE, c0))
    BY <1>2 DEF Agrees
  <2>2. AreLines(Sofar(b0, FALSE, c0))
    BY <1>1, <2>1, SofarLines
  <2> QED
    BY <2>1, <2>2, EventsTyped
<1>5. PICK c \in Nat : r \in Running /\ c0 <= c /\ Finished(r.decoder, more, b, final, c0, c)
  BY <1>1, <1>3, <1>4, DrainIs
<1> HIDE DEF r, more
<1>6. CASE Agrees(r.decoder, more, b, final, c) /\ \A x \in LineEnds(b, final) : x <= c
  <2>1. Right(r.decoder, more, b, final)
    BY <1>6 DEF Right
  <2> QED
    BY <1>5, <2>1 DEF r, more
<1>7. CASE /\ r.decoder.failed /\ Settled(b, final, c)
           /\ more = EventsOf(Sofar(b, final, c)) /\ Within(more)
           /\ Reason(b, final, c0, c)
  <2>1. Known(b, final, c, w)
    <3>1. CASE c0 < c /\ c \in LineEnds(b, final) /\ Len(b) - c > MaxEventBytes
      <4>1. Len(b0) <= c
        BY <1>2, <3>1, NewEnds
      <4>2. MaxEventBytes \in Nat
        BY LimitsAssumption
      <4>3. w > MaxEventBytes
        BY <1>1, <3>1, <4>1, <4>2
      <4> QED
        BY <4>3 DEF Known
    <3> QED
      BY <1>7, <3>1 DEF Reason, Known
  <2>2. r.decoder \in Decoder
    BY <1>5 DEF Running
  <2>3. Lost(r.decoder, more, b, final, w)
    BY <1>7, <2>1, <2>2 DEF Lost
  <2> QED
    BY <1>5, <2>3 DEF r, more
<1> QED
  BY <1>5, <1>6, <1>7 DEF Finished

LEMMA LostStays ==
  ASSUME NEW b0, NEW b, Continues(b0, b), NEW final \in BOOLEAN, NEW d, NEW evs,
         NEW w \in Nat, NEW w2 \in Nat, w <= w2, Lost(d, evs, b0, FALSE, w)
  PROVE  Lost(d, evs, b, final, w2)
<1>1. /\ b0 \in Seq(STRING) /\ b \in Seq(STRING) /\ Len(b0) \in Nat /\ Len(b) \in Nat
      /\ Len(b0) <= Len(b) /\ FALSE \in BOOLEAN /\ MaxEventBytes \in Nat
  BY LimitsAssumption DEF Continues
<1>2. PICK c \in Nat : /\ Settled(b0, FALSE, c)
                       /\ evs = EventsOf(Sofar(b0, FALSE, c)) /\ Within(evs)
                       /\ Known(b0, FALSE, c, w)
  BY DEF Lost
<1>3. Kept(b0, b, final, c)
  BY <1>2, StableLines
<1>4. Settled(b, final, c) /\ evs = EventsOf(Sofar(b, final, c))
  BY <1>2, <1>3 DEF Kept
<1>5. Known(b, final, c, w2)
  <2>1. CASE c \in LineEnds(b0, FALSE) /\ Oversized(Open(Sofar(b0, FALSE, c)).data)
    <3>1. c \in 1..Len(b0)
      BY <1>1, <2>1, EndsAre
    <3>2. c \in LineEnds(b, final)
      BY <2>1, <3>1, StableEnds
    <3> QED
      BY <1>3, <2>1, <3>2 DEF Known, Kept
  <2>2. CASE HasOversizedLine(b0)
    <3>1. PICK i \in DOMAIN b0, j \in DOMAIN b0 :
            j - i >= MaxEventBytes /\ \A k \in i..(j-1) : b0[k] \notin Terminators
      BY <2>2 DEF HasOversizedLine
    <3>2. i \in 1..Len(b0) /\ j \in 1..Len(b0) /\ i \in DOMAIN b /\ j \in DOMAIN b
      BY <1>1
    <3>3. ASSUME NEW k \in i..(j-1) PROVE b[k] \notin Terminators
      <4>1. k \in 1..Len(b0)
        BY <1>1, <3>2
      <4> QED
        BY <3>1, <4>1 DEF Continues
    <3>4. HasOversizedLine(b)
      BY <3>1, <3>2, <3>3 DEF HasOversizedLine
    <3> QED
      BY <3>4 DEF Known
  <2>3. CASE w > MaxEventBytes
    BY <1>1, <2>3 DEF Known
  <2> QED
    BY <1>2, <2>1, <2>2, <2>3 DEF Known
<1>6. d \in Decoder /\ d.failed
  BY DEF Lost
<1> QED
  BY <1>2, <1>4, <1>5, <1>6 DEF Lost

(* The lines of a stream with every line end behind it.                     *)
LEMMA AllSofar ==
  ASSUME NEW b \in Seq(STRING), NEW final \in BOOLEAN, NEW c \in Nat,
         \A x \in LineEnds(b, final) : x <= c
  PROVE  Sofar(b, final, c) = Lines(b, final)
<1> DEFINE lines == Lines(b, final)
           T == {y \in DOMAIN lines : y <= c}
<1>1. DOMAIN lines = LineEnds(b, final) /\ AreLines(lines)
  BY LinesAre
<1>2. T = DOMAIN lines
  BY <1>1
<1>3. lines = [x \in DOMAIN lines |-> lines[x]]
  BY <1>1 DEF AreLines
<1>4. Sofar(b, final, c) = [x \in T |-> lines[x]]
  BY DEF Sofar, Upto
<1> HIDE DEF T, lines
<1> QED
  BY <1>2, <1>3, <1>4 DEF lines

LEMMA RightMeans ==
  ASSUME NEW b \in Seq(STRING), NEW final \in BOOLEAN, NEW d, NEW evs, Right(d, evs, b, final)
  PROVE  /\ d \in Decoder /\ ~d.failed /\ d.scan <= Len(d.buf)
         /\ evs \in Seq(Event) /\ evs = Stream(b, final) /\ Within(evs)
         /\ d.dataLines = Open(Lines(b, final)).data
         /\ final => (d.buf = <<>> <=> (b # <<>> => Last(b) \in Terminators))
<1>1. PICK c \in Nat : Agrees(d, evs, b, final, c) /\ \A x \in LineEnds(b, final) : x <= c
  BY DEF Right
<1>2. /\ Buffered(b, c, d) /\ Settled(b, final, c) /\ ~d.failed
      /\ d.dataLines = Open(Sofar(b, final, c)).data
      /\ evs = EventsOf(Sofar(b, final, c)) /\ Within(evs)
  BY <1>1 DEF Agrees
<1>3. Sofar(b, final, c) = Lines(b, final)
  BY <1>1, AllSofar
<1>4. AreLines(Lines(b, final))
  BY LinesAre
<1>5. evs \in Seq(Event) /\ evs = Stream(b, final)
  BY <1>2, <1>3, <1>4, EventsTyped DEF Stream
<1>6. d \in Decoder /\ d.scan <= Len(d.buf)
  BY <1>2 DEF Buffered
<1>7. /\ Len(b) \in Nat /\ c <= Len(b) /\ d.buf \in Seq(STRING) /\ Len(d.buf) = Len(b) - c
  BY <1>2, BufferIs
<1>8. d.buf = <<>> <=> c = Len(b)
  BY <1>7
<1>9. b # <<>> <=> Len(b) > 0
  BY <1>7
<1>10. ASSUME final, c = Len(b), b # <<>> PROVE Last(b) \in Terminators
  <2>1. c \in LineEnds(b, final) /\ c \in 1..Len(b)
    <3>1. c = 0 \/ c \in LineEnds(b, final)
      BY <1>2 DEF Settled
    <3>2. c # 0
      BY <1>7, <1>9, <1>10
    <3>3. c \in 1..Len(b)
      BY <1>7, <1>10, <3>2
    <3> QED
      BY <3>1, <3>2, <3>3
  <2>2. b[c] \in Terminators
    BY <2>1, LineEndIs
  <2> QED
    BY <1>10, <2>2 DEF Last
<1>11. ASSUME final, b # <<>> => Last(b) \in Terminators PROVE c = Len(b)
  <2>1. CASE b = <<>>
    BY <1>7, <2>1
  <2>2. CASE b # <<>>
    <3> DEFINE n == Len(b)
    <3>1. n \in 1..n /\ n \in 1..Len(b) /\ b[n] \in Terminators /\ ~(n < Len(b))
      BY <1>7, <1>9, <1>11, <2>2 DEF Last
    <3>2. n \in LineEnds(b, final)
      BY <1>11, <3>1, LineEndIs DEF Terminators
    <3> QED
      BY <1>1, <1>7, <3>2
  <2> QED
    BY <2>1, <2>2
<1> QED
  BY <1>2, <1>3, <1>5, <1>6, <1>8, <1>10, <1>11

LEMMA LostMeans ==
  ASSUME NEW b \in Seq(STRING), NEW final \in BOOLEAN, NEW d, NEW evs, NEW w,
         Lost(d, evs, b, final, w)
  PROVE  /\ d \in Decoder /\ d.failed
         /\ evs \in Seq(Event) /\ IsPrefix(evs, Stream(b, final)) /\ Within(evs)
         /\ \/ HasOversizedEvent(Lines(b, final))
            \/ HasOversizedLine(b)
            \/ w > MaxEventBytes
<1>1. PICK c \in Nat : /\ Settled(b, final, c)
                       /\ evs = EventsOf(Sofar(b, final, c)) /\ Within(evs)
                       /\ Known(b, final, c, w)
  BY DEF Lost
<1>2. AreLines(Lines(b, final)) /\ DOMAIN Lines(b, final) = LineEnds(b, final) /\ c \in Int
  BY LinesAre
<1>3. AreLines(Sofar(b, final, c))
  BY <1>1, SofarLines
<1>4. evs \in Seq(Event)
  BY <1>1, <1>3, EventsTyped
<1>5. IsPrefix(evs, Stream(b, final))
  BY <1>1, <1>2, EventsPrefix DEF Stream, Sofar
<1>6. c \in LineEnds(b, final) /\ Oversized(Open(Sofar(b, final, c)).data)
        => HasOversizedEvent(Lines(b, final))
  BY <1>2 DEF HasOversizedEvent, Sofar
<1> QED
  BY <1>1, <1>4, <1>5, <1>6 DEF Lost, Known

(* The decoder at the beginning.                                            *)
LEMMA StartRight == Right(NewDecoder, <<>>, <<>>, FALSE)
<1> DEFINE b == <<>>
           lines == Lines(b, FALSE)
           less == Sofar(b, FALSE, 0)
<1>1. b \in Seq(STRING) /\ Len(b) = 0 /\ FALSE \in BOOLEAN
  OBVIOUS
<1>2. LineEnds(b, FALSE) = {}
  BY DEF LineEnds
<1>3. DOMAIN lines = {} /\ AreLines(lines)
  BY <1>1, <1>2, LinesAre
<1>4. Settled(b, FALSE, 0)
  BY DEF Settled
<1>5. DOMAIN less = {} /\ AreLines(less)
  <2>1. AreLines(less)
    BY <1>1, <1>4, SofarLines
  <2>2. DOMAIN less = {}
    BY <1>3 DEF Sofar, Upto
  <2> QED
    BY <2>1, <2>2
<1> HIDE DEF less, lines
<1>6. /\ DataAt(less) = {} /\ NameAt(less) = {} /\ IdAt(less) = {} /\ RetryAt(less) = {}
  BY <1>5 DEF DataAt, NameAt, IdAt, RetryAt, Block, Named
<1>7. Values(less, {}) = <<>> /\ LastValue(less, {}) = Null
  <2>1. Some(less, {})
    BY DEF Some
  <2>2. Values(less, {}) \in Seq(Seq(STRING)) /\ Len(Values(less, {})) = Cardinality({})
    BY <1>5, <2>1, ValuesTypes
  <2>3. Cardinality({}) = 0
    BY FS_EmptySet
  <2> QED
    BY <2>2, <2>3 DEF LastValue
<1>8. Open(less) = [data |-> <<>>, event |-> Null, id |-> Null, retry |-> Null]
  BY <1>6, <1>7, OpenIs
<1>9. EventsOf(less) = <<>>
  <2>1. Full(less) = {}
    BY <1>5 DEF Full, Blanks
  <2>2. EventsOf(less) \in Seq(Event) /\ Len(EventsOf(less)) = Cardinality(Full(less))
    BY <1>5, EventsTyped
  <2>3. Cardinality({}) = 0
    BY FS_EmptySet
  <2> QED
    BY <2>1, <2>2, <2>3
<1>10. NewDecoder \in Decoder
  <2>1. <<>> \in Seq(STRING) /\ <<>> \in Seq(Seq(STRING)) /\ 0 \in Nat
    OBVIOUS
  <2> QED
    BY <2>1 DEF NewDecoder, Decoder
<1>11. SubSeq(b, 0 + 1, Len(b)) = <<>>
  OBVIOUS
<1>12. Buffered(b, 0, NewDecoder)
  BY <1>1, <1>10, <1>11 DEF Buffered, NewDecoder
<1>13. ~Oversized(<<>>) /\ Size(<<>>) = 0
  BY EmptyWithin, SizeEmpty
<1>14. Within(<<>>)
  BY DEF Within
<1> DEFINE d == NewDecoder
<1>15. /\ ~d.failed /\ d.bomChecked = FALSE /\ d.dataLines = <<>> /\ d.event = Null
       /\ d.id = Null /\ d.retry = Null /\ d.pending = 0
  BY DEF NewDecoder
<1> HIDE DEF d, b
<1>16. /\ d.dataLines = Open(less).data /\ d.event = Open(less).event
       /\ d.id = Open(less).id /\ d.retry = Open(less).retry
  BY <1>8, <1>15
<1>17. /\ d.pending = Size(d.dataLines) /\ ~Oversized(d.dataLines)
       /\ ~d.failed /\ d.bomChecked = (0 # 0)
  BY <1>13, <1>15
<1>18. Agrees(d, <<>>, b, FALSE, 0)
  BY <1>4, <1>9, <1>12, <1>14, <1>16, <1>17 DEF Agrees, d, less
<1> QED
  BY <1>2, <1>18 DEF Right, d, b

-----------------------------------------------------------------------------
(* The inductive invariant: until it gives up the decoder is up to date     *)
(* with the lines received, and the verdicts are about what it holds.       *)
AnalysisRight ==
  finished =>
    \E cut \in BOOLEAN :
      IF stream THEN analysis = Analyze(events, cut, Leftover(decoder))
      ELSE analysis = AnalyzeDocument(Received, cut) \/ analysis = AnalyzeNothing(cut)

Decoded ==
  /\ ~stream => decoder = NewDecoder /\ events = <<>>
  /\ stream => \/ Right(decoder, events, Received, finished)
               \/ Lost(decoder, events, Received, finished, widest)

SseIInv == SseTypeOK /\ widest \in Nat /\ Decoded /\ AnalysisRight

LEMMA PartOf ==
  ASSUME NEW S, NEW s \in Seq(S), NEW n \in 0..Len(s)
  PROVE  /\ Len(SubSeq(s, 1, n)) = n
         /\ \A i \in 1..n : SubSeq(s, 1, n)[i] = s[i]
<1> DEFINE p == SubSeq(s, 1, n)
<1>1. n \in Int /\ 1 \in Int /\ \A i \in 1..n : s[i] \in S
  OBVIOUS
<1>2. /\ Len(p) = IF 1 <= n THEN n - 1 + 1 ELSE 0
      /\ \A i \in 1..(n - 1 + 1) : p[i] = s[1 + i - 1]
  BY <1>1, SubSeqProperties
<1> HIDE DEF p
<1>3. Len(p) = n
  BY <1>1, <1>2
<1>4. ASSUME NEW i \in 1..n PROVE p[i] = s[i]
  <2>1. i \in 1..(n - 1 + 1) /\ 1 + i - 1 = i
    BY <1>1
  <2> QED
    BY <1>2, <2>1
<1> QED
  BY <1>3, <1>4 DEF p

LEMMA PrefixOf ==
  ASSUME NEW s \in Seq(STRING), NEW n \in 0..Len(s)
  PROVE  /\ SubSeq(s, 1, n) \in Seq(STRING) /\ Len(SubSeq(s, 1, n)) = n
         /\ \A i \in 1..n : SubSeq(s, 1, n)[i] = s[i]
<1>1. n \in Int /\ 1 \in Int /\ \A i \in 1..n : s[i] \in STRING
  OBVIOUS
<1>2. SubSeq(s, 1, n) \in Seq(STRING)
  BY <1>1, SubSeqProperties
<1> QED
  BY <1>2, PartOf

LEMMA WholePrefix ==
  ASSUME NEW s \in Seq(STRING)
  PROVE  SubSeq(s, 1, Len(s)) = s
<1> DEFINE p == SubSeq(s, 1, Len(s))
<1>1. Len(s) \in 0..Len(s)
  OBVIOUS
<1>2. p \in Seq(STRING) /\ Len(p) = Len(s) /\ \A i \in 1..Len(s) : p[i] = s[i]
  BY <1>1, PrefixOf
<1> HIDE DEF p
<1>3. p = s
  BY <1>2, SeqEqual
<1> QED
  BY <1>3 DEF p

LEMMA ReceivedIs ==
  ASSUME SseTypeOK
  PROVE  /\ body \in Seq(STRING) /\ Len(body) \in Nat /\ pos \in Nat /\ pos <= Len(body)
         /\ Received \in Seq(STRING) /\ Len(Received) = pos
         /\ \A i \in 1..pos : Received[i] = body[i]
         /\ pos = Len(body) => Received = body
<1>1. body \in Seq(STRING) /\ pos \in 0..Len(body)
  <2>1. body \in Bodies \cup JsonBodies
    BY DEF SseTypeOK
  <2> QED
    BY <2>1, BodiesAssumption DEF SseTypeOK
<1> QED
  BY <1>1, PrefixOf, WholePrefix DEF Received

LEMMA VerdictTyped ==
  ASSUME NEW evs, NEW cut \in BOOLEAN, NEW leftover \in BOOLEAN
  PROVE  LET a == Analyze(evs, cut, leftover)
         IN  /\ a.cut \in BOOLEAN
             /\ a.completion \in {"complete", "truncated", "unknown"}
             /\ a.status \in {"present", "absent", "not_captured", "unparseable"}
<1>1. Verdict(evs, cut \/ leftover) \in {"complete", "truncated", "unknown"}
  BY DEF Verdict
<1>2. \A cs, t, u : U!UsageStatus(cs, t, u) \in {"present", "absent", "not_captured", "unparseable"}
  BY DEF U!UsageStatus
<1> QED
  BY <1>1, <1>2 DEF Analyze

LEMMA DocumentTyped ==
  ASSUME NEW text, NEW cut \in BOOLEAN
  PROVE  \A a \in {AnalyzeDocument(text, cut), AnalyzeNothing(cut)} :
             /\ a.cut \in BOOLEAN
             /\ a.completion \in {"complete", "truncated", "unknown"}
             /\ a.status \in {"present", "absent", "not_captured", "unparseable"}
<1>1. \A cs, t, u : U!UsageStatus(cs, t, u) \in {"present", "absent", "not_captured", "unparseable"}
  BY DEF U!UsageStatus
<1>2. LET a == AnalyzeDocument(text, cut)
      IN  /\ a.cut \in BOOLEAN
          /\ a.completion \in {"complete", "truncated", "unknown"}
          /\ a.status \in {"present", "absent", "not_captured", "unparseable"}
  BY <1>1 DEF AnalyzeDocument
<1>3. LET a == AnalyzeNothing(cut)
      IN  /\ a.cut \in BOOLEAN
          /\ a.completion \in {"complete", "truncated", "unknown"}
          /\ a.status \in {"present", "absent", "not_captured", "unparseable"}
  BY DEF AnalyzeNothing
<1> QED
  BY <1>2, <1>3

LEMMA SseStart == SseInit => SseIInv
<1> SUFFICES ASSUME SseInit PROVE SseIInv
  OBVIOUS
<1>1. /\ stream \in BOOLEAN /\ body \in (IF stream THEN Bodies ELSE JsonBodies)
      /\ pos = 0 /\ decoder = NewDecoder /\ events = <<>> /\ finished = FALSE
      /\ analysis = Null /\ widest = 0
  BY DEF SseInit
<1>2. body \in Seq(STRING)
  <2>1. body \in Bodies \cup JsonBodies
    BY <1>1
  <2> QED
    BY <2>1, BodiesAssumption
<1>3. Received = <<>>
  BY <1>1, <1>2 DEF Received
<1>4. Right(decoder, events, Received, finished)
  BY <1>1, <1>3, StartRight
<1>5. decoder \in Decoder /\ decoder.scan <= Len(decoder.buf)
  <2>1. <<>> \in Seq(STRING) /\ FALSE \in BOOLEAN
    OBVIOUS
  <2>2. Right(NewDecoder, <<>>, <<>>, FALSE)
    BY StartRight
  <2> QED
    BY <1>1, <2>1, <2>2, RightMeans
<1>6. SseTypeOK
  <2>1. pos \in 0..Len(body)
    BY <1>1, <1>2
  <2> QED
    BY <1>1, <1>5, <2>1 DEF SseTypeOK
<1> QED
  BY <1>1, <1>4, <1>6 DEF SseIInv, Decoded, AnalysisRight

(* The bytes of one feed.                                                   *)
LEMMA ReceivedGrows ==
  ASSUME SseTypeOK, NEW n \in Nat, pos + n <= Len(body), pos' = pos + n, body' = body
  PROVE  /\ Continues(Received, Received') /\ Received' \in Seq(STRING)
         /\ Len(Received') - Len(Received) = n
<1>1. /\ body \in Seq(STRING) /\ Len(body) \in Nat /\ pos \in Nat /\ pos <= Len(body)
      /\ Received \in Seq(STRING) /\ Len(Received) = pos
      /\ \A i \in 1..pos : Received[i] = body[i]
  BY ReceivedIs
<1>2. pos + n \in 0..Len(body) /\ Received' = SubSeq(body, 1, pos + n)
  BY <1>1 DEF Received
<1>3. /\ Received' \in Seq(STRING) /\ Len(Received') = pos + n
      /\ \A i \in 1..(pos + n) : Received'[i] = body[i]
  BY <1>1, <1>2, PrefixOf
<1> HIDE DEF Received
<1>4. \A i \in 1..Len(Received) : Received'[i] = Received[i]
  <2> SUFFICES ASSUME NEW i \in 1..Len(Received) PROVE Received'[i] = Received[i]
    OBVIOUS
  <2>1. i \in 1..pos /\ i \in 1..(pos + n)
    BY <1>1
  <2> QED
    BY <1>1, <1>3, <2>1
<1>5. Len(Received) <= Len(Received') /\ Len(Received') - Len(Received) = n
  BY <1>1, <1>3
<1> QED
  BY <1>1, <1>3, <1>4, <1>5 DEF Continues

LEMMA FedBytes ==
  ASSUME SseTypeOK, NEW n \in Nat, pos + n <= Len(body), pos' = pos + n, body' = body
  PROVE  Fed(decoder, [decoder EXCEPT !.buf = @ \o SubSeq(body, pos + 1, pos + n)],
             Received, Received')
<1> DEFINE p == SubSeq(body, pos + 1, pos + n)
           buf == decoder.buf
           d1 == [decoder EXCEPT !.buf = buf \o p]
<1>1. /\ body \in Seq(STRING) /\ Len(body) \in Nat /\ pos \in Nat /\ pos <= Len(body)
      /\ Len(Received) = pos
  BY ReceivedIs
<1>2. Len(Received') - Len(Received) = n
  BY ReceivedGrows
<1>3. decoder \in Decoder /\ buf \in Seq(STRING) /\ Len(buf) \in Nat
  BY DEF SseTypeOK, Decoder
<1>4. /\ p \in Seq(STRING) /\ Len(p) = n
      /\ \A i \in 1..n : p[i] = body[pos + i]
  <2>1. pos + 1 \in Int /\ pos + n \in Int /\ \A i \in (pos + 1)..(pos + n) : body[i] \in STRING
    BY <1>1
  <2>2. /\ p \in Seq(STRING)
        /\ Len(p) = IF pos + 1 <= pos + n THEN (pos + n) - (pos + 1) + 1 ELSE 0
        /\ \A i \in 1..((pos + n) - (pos + 1) + 1) : p[i] = body[(pos + 1) + i - 1]
    BY <2>1, SubSeqProperties
  <2> HIDE DEF p
  <2>3. Len(p) = n
    BY <1>1, <2>2
  <2>4. ASSUME NEW i \in 1..n PROVE p[i] = body[pos + i]
    <3>1. i \in 1..((pos + n) - (pos + 1) + 1) /\ (pos + 1) + i - 1 = pos + i
      BY <1>1
    <3> QED
      BY <2>2, <3>1
  <2> QED
    BY <2>2, <2>3, <2>4
<1>5. \A i \in 1..n : Received'[Len(Received) + i] = body[pos + i]
  <2>1. pos + n \in 0..Len(body) /\ Received' = SubSeq(body, 1, pos + n)
    BY <1>1 DEF Received
  <2>2. \A i \in 1..(pos + n) : Received'[i] = body[i]
    BY <1>1, <2>1, PrefixOf
  <2> SUFFICES ASSUME NEW i \in 1..n PROVE Received'[Len(Received) + i] = body[pos + i]
    OBVIOUS
  <2>3. pos + i \in 1..(pos + n)
    BY <1>1
  <2> QED
    BY <1>1, <2>2, <2>3
<1> HIDE DEF p, buf
<1>6. /\ buf \o p \in Seq(STRING) /\ Len(buf \o p) = Len(buf) + n
      /\ \A i \in 1..Len(buf) : (buf \o p)[i] = buf[i]
      /\ \A i \in 1..n : (buf \o p)[Len(buf) + i] = p[i]
  BY <1>3, <1>4
<1>7. d1.buf = buf \o p /\ d1 = [decoder EXCEPT !.buf = d1.buf]
  BY <1>3 DEF Decoder
<1> HIDE DEF d1
<1>8. \A i \in 1..n : d1.buf[Len(buf) + i] = Received'[Len(Received) + i]
  BY <1>4, <1>5, <1>6, <1>7
<1>9. Fed(decoder, d1, Received, Received')
  <2>1. decoder.buf = buf
    BY DEF buf
  <2> HIDE DEF Received
  <2> QED
    BY <1>2, <1>6, <1>7, <1>8, <2>1 DEF Fed
<1>10. d1 = [decoder EXCEPT !.buf = @ \o SubSeq(body, pos + 1, pos + n)]
  BY DEF d1, p, buf
<1> QED
  BY <1>9, <1>10
LEMMA WiderIs ==
  ASSUME NEW m \in Nat, NEW n \in Nat
  PROVE  Max({m, n}) \in Nat /\ m <= Max({m, n}) /\ n <= Max({m, n})
<1>1. CASE n <= m
  <2>1. Max({m, n}) = m
    BY <1>1, MaxIs
  <2> QED
    BY <1>1, <2>1
<1>2. CASE m <= n
  <2>1. Max({m, n}) = n
    BY <1>2, MaxIs
  <2> QED
    BY <1>2, <2>1
<1> QED
  BY <1>1, <1>2

LEMMA FeedKeeps ==
  ASSUME SseIInv, NEW n \in 1..MaxFragment, Feed(n)
  PROVE  SseIInv'
<1>1. /\ stream /\ ~finished /\ pos + n <= Len(body) /\ pos' = pos + n
      /\ UNCHANGED <<stream, body, finished, analysis>>
  BY DEF Feed
<1>2. SseTypeOK /\ widest \in Nat /\ n \in Nat /\ n >= 1
  BY LimitsAssumption DEF SseIInv
<1>3. /\ Received \in Seq(STRING) /\ Len(Received) = pos /\ body \in Seq(STRING)
      /\ pos \in Nat /\ Len(body) \in Nat
  BY <1>2, ReceivedIs
<1>4. /\ Continues(Received, Received') /\ Received' \in Seq(STRING)
      /\ Len(Received') - Len(Received) = n
  BY <1>1, <1>2, ReceivedGrows
<1>5. finished = FALSE
  BY <1>1, <1>2 DEF SseTypeOK
<1>6. \/ Right(decoder, events, Received, FALSE)
      \/ Lost(decoder, events, Received, FALSE, widest)
  BY <1>1, <1>5 DEF SseIInv, Decoded
<1> DEFINE d1 == [decoder EXCEPT !.buf = @ \o SubSeq(body, pos + 1, pos + n)]
           r == Drain(d1, FALSE)
<1>7. /\ widest' \in Nat
      /\ \/ Right(decoder', events', Received', FALSE)
         \/ Lost(decoder', events', Received', FALSE, widest')
  <2>1. CASE decoder.failed
    <3>1. UNCHANGED <<decoder, events, widest>>
      BY <2>1 DEF Feed
    <3>2. ~Right(decoder, events, Received, FALSE)
      BY <1>3, <2>1, RightMeans
    <3>3. Lost(decoder, events, Received, FALSE, widest)
      BY <1>6, <3>2
    <3> DEFINE b0 == Received
               b == Received'
    <3>4. Continues(b0, b) /\ Lost(decoder, events, b0, FALSE, widest)
      BY <1>4, <3>3
    <3>5. widest <= widest
      BY <1>2
    <3> HIDE DEF b0, b
    <3>6. Lost(decoder, events, b, FALSE, widest)
      BY <1>2, <3>4, <3>5, LostStays
    <3> QED
      BY <1>2, <3>1, <3>6 DEF b
  <2>2. CASE ~decoder.failed
    <3>1. decoder' = r.decoder /\ events' = events \o r.events /\ widest' = Max({widest, n})
      BY <2>2 DEF Feed
    <3>2. Right(decoder, events, Received, FALSE)
      BY <1>6, <2>2 DEF Lost
    <3>3. Fed(decoder, d1, Received, Received')
      BY <1>1, <1>2, FedBytes
    <3>4. widest' \in Nat /\ n <= widest'
      BY <1>2, <3>1, WiderIs
    <3> DEFINE b0 == Received
               b == Received'
               w == widest'
    <3>5. /\ Continues(b0, b) /\ Right(decoder, events, b0, FALSE) /\ Fed(decoder, d1, b0, b)
          /\ w \in Nat /\ Len(b) - Len(b0) <= w
      BY <1>4, <3>2, <3>3, <3>4
    <3> HIDE DEF b0, b, d1, w
    <3>6. \/ Right(r.decoder, Joined(events, r.events), b, FALSE)
          \/ Lost(r.decoder, Joined(events, r.events), b, FALSE, w)
      BY <3>5, DrainStep
    <3>7. events' = Joined(events, r.events)
      BY <3>1 DEF Joined
    <3> HIDE DEF r
    <3> QED
      BY <3>1, <3>4, <3>6, <3>7 DEF b, w
  <2> QED
    BY <2>1, <2>2
<1>8. decoder' \in Decoder /\ (~decoder'.failed => decoder'.scan <= Len(decoder'.buf))
  BY <1>4, <1>7, RightMeans, LostMeans
<1>9. SseTypeOK'
  <2>1. pos' \in 0..Len(body)
    BY <1>1, <1>2, <1>3
  <2> QED
    BY <1>1, <1>2, <1>8, <2>1 DEF SseTypeOK
<1>10. Decoded'
  BY <1>1, <1>5, <1>7 DEF Decoded
<1>11. AnalysisRight'
  BY <1>1 DEF AnalysisRight
<1> QED
  BY <1>7, <1>9, <1>10, <1>11 DEF SseIInv

LEMMA FinishKeeps ==
  ASSUME SseIInv, NEW cut \in BOOLEAN, FinishStream(cut)
  PROVE  SseIInv'
<1> DEFINE r == IF decoder.failed THEN [decoder |-> decoder, events |-> <<>>]
                ELSE Drain(decoder, TRUE)
<1>1. /\ stream /\ ~finished /\ finished' = TRUE
      /\ decoder' = r.decoder /\ events' = events \o r.events
      /\ analysis' = Analyze(events', cut, Leftover(r.decoder))
      /\ UNCHANGED <<stream, body, pos, widest>>
  BY DEF FinishStream
<1>2. SseTypeOK /\ widest \in Nat
  BY DEF SseIInv
<1>3. /\ Received \in Seq(STRING) /\ Len(Received) \in Nat
  BY <1>2, ReceivedIs
<1>4. Received' = Received
  BY <1>1 DEF Received
<1>5. finished = FALSE
  BY <1>1, <1>2 DEF SseTypeOK
<1>6. \/ Right(decoder, events, Received, FALSE)
      \/ Lost(decoder, events, Received, FALSE, widest)
  BY <1>1, <1>5 DEF SseIInv, Decoded
<1> DEFINE b == Received
<1>7. Continues(b, b) /\ b \in Seq(STRING) /\ Len(b) \in Nat
  BY <1>3 DEF Continues
<1> HIDE DEF b
<1>8. \/ Right(decoder', events', b, TRUE)
      \/ Lost(decoder', events', b, TRUE, widest)
  <2>1. CASE decoder.failed
    <3>1. ~Right(decoder, events, b, FALSE)
      BY <1>7, <2>1, RightMeans
    <3>2. Lost(decoder, events, b, FALSE, widest)
      BY <1>6, <3>1 DEF b
    <3>3. widest <= widest
      BY <1>2
    <3>4. Lost(decoder, events, b, TRUE, widest)
      BY <1>2, <1>7, <3>2, <3>3, LostStays
    <3>5. events \in Seq(Event)
      BY <1>7, <3>4, LostMeans
    <3>6. r.decoder = decoder /\ r.events = <<>>
      BY <2>1
    <3>7. decoder' = decoder /\ events' = Joined(events, <<>>)
      BY <1>1, <3>6 DEF Joined
    <3>8. events' = events
      BY <3>5, <3>7, JoinedEmpty
    <3> QED
      BY <3>4, <3>7, <3>8
  <2>2. CASE ~decoder.failed
    <3> DEFINE q == Drain(decoder, TRUE)
    <3>1. Right(decoder, events, b, FALSE)
      BY <1>6, <2>2 DEF Lost, b
    <3>2. decoder \in Decoder /\ decoder.buf \in Seq(STRING)
      BY <1>2 DEF SseTypeOK, Decoder
    <3>3. Fed(decoder, decoder, b, b)
      <4>1. decoder = [decoder EXCEPT !.buf = decoder.buf]
        BY <3>2 DEF Decoder
      <4> QED
        BY <1>7, <3>2, <4>1 DEF Fed
    <3>4. Len(b) - Len(b) <= widest
      BY <1>2, <1>7
    <3>5. \/ Right(q.decoder, Joined(events, q.events), b, TRUE)
          \/ Lost(q.decoder, Joined(events, q.events), b, TRUE, widest)
      BY <1>2, <1>7, <3>1, <3>3, <3>4, DrainStep
    <3>6. r = q
      BY <2>2
    <3> HIDE DEF q, r
    <3>7. decoder' = q.decoder /\ events' = Joined(events, q.events)
      BY <1>1, <3>6 DEF Joined
    <3> QED
      BY <3>5, <3>7
  <2> QED
    BY <2>1, <2>2
<1>9. decoder' \in Decoder /\ (~decoder'.failed => decoder'.scan <= Len(decoder'.buf))
  BY <1>7, <1>8, RightMeans, LostMeans
<1> HIDE DEF r
<1>10. analysis' = Analyze(events', cut, Leftover(decoder'))
  BY <1>1
<1>11. SseTypeOK'
  <2>1. Leftover(decoder') \in BOOLEAN
    BY <1>9 DEF Leftover, Decoder
  <2>2. /\ analysis'.cut \in BOOLEAN
        /\ analysis'.completion \in {"complete", "truncated", "unknown"}
        /\ analysis'.status \in {"present", "absent", "not_captured", "unparseable"}
    BY <1>10, <2>1, VerdictTyped
  <2> QED
    BY <1>1, <1>2, <1>9, <2>2 DEF SseTypeOK
<1>12. Decoded'
  BY <1>1, <1>4, <1>8 DEF Decoded, b
<1>13. AnalysisRight'
  BY <1>1, <1>10 DEF AnalysisRight
<1> QED
  BY <1>1, <1>2, <1>11, <1>12, <1>13 DEF SseIInv
LEMMA SseStep == SseIInv /\ [SseNext]_sseVars => SseIInv'
<1> SUFFICES ASSUME SseIInv, [SseNext]_sseVars PROVE SseIInv'
  OBVIOUS
<1>1. ASSUME NEW n \in 1..MaxFragment, Feed(n) PROVE SseIInv'
  BY <1>1, FeedKeeps
<1>2. ASSUME NEW n \in 1..MaxFragment, Collect(n) PROVE SseIInv'
  <2>1. /\ ~stream /\ ~finished /\ pos + n <= Len(body) /\ pos' = pos + n
        /\ UNCHANGED <<stream, body, decoder, events, finished, analysis, widest>>
    BY <1>2 DEF Collect
  <2>2. SseTypeOK /\ widest \in Nat /\ n \in Nat
    BY LimitsAssumption DEF SseIInv
  <2>3. pos' \in 0..Len(body)
    BY <2>1, <2>2, ReceivedIs
  <2>4. SseTypeOK'
    BY <2>1, <2>2, <2>3 DEF SseTypeOK
  <2>5. Decoded' /\ AnalysisRight'
    BY <2>1 DEF SseIInv, Decoded, AnalysisRight
  <2> QED
    BY <2>1, <2>2, <2>4, <2>5 DEF SseIInv
<1>3. ASSUME NEW cut \in BOOLEAN, FinishStream(cut) PROVE SseIInv'
  BY <1>3, FinishKeeps
<1>4. ASSUME NEW cut \in BOOLEAN, NEW readable \in BOOLEAN, FinishDocument(cut, readable)
      PROVE  SseIInv'
  <2>1. /\ ~stream /\ ~finished /\ finished' = TRUE
        /\ UNCHANGED <<stream, body, pos, decoder, events, widest>>
        /\ \/ analysis' = AnalyzeDocument(Received, cut)
           \/ analysis' = AnalyzeNothing(cut)
    BY <1>4 DEF FinishDocument, Received
  <2>2. SseTypeOK /\ widest \in Nat
    BY DEF SseIInv
  <2>3. Received' = Received
    BY <2>1 DEF Received
  <2>4. /\ analysis'.cut \in BOOLEAN
        /\ analysis'.completion \in {"complete", "truncated", "unknown"}
        /\ analysis'.status \in {"present", "absent", "not_captured", "unparseable"}
    BY <2>1, DocumentTyped
  <2>5. SseTypeOK'
    BY <2>1, <2>2, <2>4 DEF SseTypeOK
  <2>6. Decoded'
    BY <2>1 DEF SseIInv, Decoded
  <2>7. AnalysisRight'
    BY <2>1, <2>3 DEF AnalysisRight
  <2> QED
    BY <2>1, <2>2, <2>5, <2>6, <2>7 DEF SseIInv
<1>5. ASSUME UNCHANGED sseVars PROVE SseIInv'
  <2>1. UNCHANGED <<stream, body, pos, decoder, events, finished, analysis, widest>>
    BY <1>5 DEF sseVars
  <2>2. Received' = Received
    BY <2>1 DEF Received
  <2>3. SseTypeOK' /\ Decoded' /\ AnalysisRight'
    BY <2>1, <2>2 DEF SseIInv, SseTypeOK, Decoded, AnalysisRight
  <2> QED
    BY <2>1, <2>3 DEF SseIInv
<1> QED
  BY <1>1, <1>2, <1>3, <1>4, <1>5 DEF SseNext

LEMMA SseInvariant == SseSpec => []SseIInv
<1>1. SseInit => SseIInv
  BY SseStart
<1>2. SseIInv /\ [SseNext]_sseVars => SseIInv'
  BY SseStep
<1> QED
  BY <1>1, <1>2, PTL DEF SseSpec

(* However a stream is cut into feeds, inside a CRLF or a field included,   *)
(* the decoder of sse.py delivers its events, in order and once each.       *)
THEOREM EventsDelivered == SseSpec => []EventsAreTheStreams
<1>1. ASSUME SseIInv PROVE EventsAreTheStreams
  <2>1. SseTypeOK /\ Received \in Seq(STRING) /\ finished \in BOOLEAN
    BY <1>1, ReceivedIs DEF SseIInv, SseTypeOK
  <2>2. ASSUME stream
        PROVE  /\ IsPrefix(events, Stream(Received, finished))
               /\ ~decoder.failed => events = Stream(Received, finished)
    <3>1. CASE Right(decoder, events, Received, finished)
      <4>1. events \in Seq(Event) /\ events = Stream(Received, finished)
        BY <2>1, <3>1, RightMeans
      <4>2. IsPrefix(events, events)
        BY <4>1 DEF IsPrefix
      <4> QED
        BY <4>1, <4>2
    <3>2. CASE Lost(decoder, events, Received, finished, widest)
      BY <2>1, <3>2, LostMeans
    <3> QED
      BY <1>1, <2>2, <3>1, <3>2 DEF SseIInv, Decoded
  <2> QED
    BY <2>1, <2>2 DEF EventsAreTheStreams
<1> QED
  BY <1>1, SseInvariant, PTL

(* _check_size: no event beyond the limits, in characters, is delivered,    *)
(* and only such an event, a line or a feed beyond them in bytes makes the  *)
(* decoder give up.                                                         *)
THEOREM LimitsHold == SseSpec => []LimitsEnforced
<1>1. ASSUME SseIInv PROVE LimitsEnforced
  <2>1. SseTypeOK /\ Received \in Seq(STRING) /\ finished \in BOOLEAN
    BY <1>1, ReceivedIs DEF SseIInv, SseTypeOK
  <2>2. CASE stream
    <3>1. CASE Right(decoder, events, Received, finished)
      BY <2>1, <3>1, RightMeans DEF LimitsEnforced, Within
    <3>2. CASE Lost(decoder, events, Received, finished, widest)
      <4>1. /\ Within(events)
            /\ \/ HasOversizedEvent(Lines(Received, finished))
               \/ HasOversizedLine(Received)
               \/ widest > MaxEventBytes
        BY <2>1, <3>2, LostMeans
      <4> QED
        BY <4>1 DEF LimitsEnforced, Within
    <3> QED
      BY <1>1, <2>2, <3>1, <3>2 DEF SseIInv, Decoded
  <2>3. CASE ~stream
    <3>1. decoder = NewDecoder /\ events = <<>>
      BY <1>1, <2>3 DEF SseIInv, Decoded
    <3>2. ~decoder.failed
      BY <3>1 DEF NewDecoder
    <3> QED
      BY <3>1, <3>2 DEF LimitsEnforced
  <2> QED
    BY <2>2, <2>3
<1> QED
  BY <1>1, SseInvariant, PTL

LEMMA EndStays ==
  ASSUME NEW evs \in Seq(Event), NEW all \in Seq(Event), IsPrefix(evs, all), ExplicitEnd(evs)
  PROVE  ExplicitEnd(all)
<1> DEFINE n == Len(evs)
<1>1. n \in Nat /\ n <= Len(all) /\ SubSeq(evs, 1, n) = SubSeq(all, 1, n)
  BY DEF IsPrefix
<1>2. n \in 0..Len(evs) /\ n \in 0..Len(all) /\ Len(all) \in Nat
  BY <1>1
<1>3. \A i \in 1..n : SubSeq(evs, 1, n)[i] = evs[i]
  BY <1>2, PartOf
<1>4. \A i \in 1..n : SubSeq(all, 1, n)[i] = all[i]
  BY <1>2, PartOf
<1>5. \A i \in DOMAIN evs : i \in DOMAIN all /\ all[i] = evs[i]
  <2> SUFFICES ASSUME NEW i \in DOMAIN evs PROVE i \in DOMAIN all /\ all[i] = evs[i]
    OBVIOUS
  <2>1. i \in 1..n /\ i \in 1..Len(all)
    BY <1>1, <1>2
  <2> QED
    BY <1>1, <1>3, <1>4, <2>1
<1> QED
  BY <1>5 DEF ExplicitEnd

(* What a cut document is not: an object.                                   *)
LEMMA ObjectIsWhole ==
  ASSUME SseTypeOK, ~stream, IsObject(Received)
  PROVE  pos = Len(body) /\ Received = body
<1>1. /\ body \in JsonBodies /\ Len(body) \in Nat /\ pos \in Nat /\ pos <= Len(body)
      /\ pos = Len(body) => Received = body
  BY ReceivedIs DEF SseTypeOK
<1>2. pos < Len(body) => pos \in 0..(Len(body) - 1)
  BY <1>1
<1>3. ~(pos < Len(body))
  BY <1>1, <1>2, ObjectsAssumption DEF Received, ObjectsAssumption
<1> QED
  BY <1>1, <1>3

(* The decoder at the end: what is left over shows a cut, and only that.    *)
LEMMA LeftoverShows ==
  ASSUME SseIInv, stream, finished
  PROVE  /\ Stream(Received, TRUE) \in Seq(Event)
         /\ ~decoder.failed => /\ events = Stream(Received, TRUE)
                               /\ Leftover(decoder) <=> ~Whole(Received)
         /\ decoder.failed => /\ events \in Seq(Event)
                              /\ IsPrefix(events, Stream(Received, TRUE))
                              /\ Leftover(decoder)
<1>1. SseTypeOK /\ Received \in Seq(STRING) /\ finished = TRUE /\ TRUE \in BOOLEAN
  BY ReceivedIs DEF SseIInv, SseTypeOK
<1> DEFINE b == Received
<1>2. b \in Seq(STRING) /\ (Right(decoder, events, b, TRUE) \/ Lost(decoder, events, b, TRUE, widest))
  BY <1>1 DEF SseIInv, Decoded
<1>3. Stream(b, TRUE) \in Seq(Event)
  <2> HIDE DEF b
  <2> QED
    BY <1>2, LinesAre, EventsTyped DEF Stream
<1>4. ASSUME Right(decoder, events, b, TRUE)
      PROVE  /\ ~decoder.failed /\ events = Stream(b, TRUE)
             /\ Leftover(decoder) <=> ~Whole(b)
  <2> HIDE DEF b
  <2>1. /\ ~decoder.failed /\ events = Stream(b, TRUE)
        /\ decoder.dataLines = Open(Lines(b, TRUE)).data
        /\ decoder.buf = <<>> <=> (b # <<>> => Last(b) \in Terminators)
    BY <1>2, <1>4, RightMeans
  <2> QED
    BY <2>1 DEF Leftover, Whole
<1>5. ASSUME Lost(decoder, events, b, TRUE, widest)
      PROVE  /\ decoder.failed /\ events \in Seq(Event)
             /\ IsPrefix(events, Stream(b, TRUE)) /\ Leftover(decoder)
  <2> HIDE DEF b
  <2>1. decoder.failed /\ events \in Seq(Event) /\ IsPrefix(events, Stream(b, TRUE))
    BY <1>2, <1>5, LostMeans
  <2> QED
    BY <2>1 DEF Leftover
<1> QED
  BY <1>2, <1>3, <1>4, <1>5

(* analyze_payload calls a body complete only on the evidence of what       *)
(* arrived, and truncated only where something shows it.                    *)
THEOREM VerdictsHold == SseSpec => []VerdictSound
<1>1. ASSUME SseIInv PROVE VerdictSound
  <2> SUFFICES ASSUME finished
               PROVE  LET arrived == Stream(Received, TRUE)
                          intact == /\ ~analysis.cut /\ ~decoder.failed
                                    /\ stream => Whole(Received)
                      IN  /\ analysis.completion = "complete" =>
                               IF stream
                               THEN ExplicitEnd(arrived) \/ (FinishReason(arrived) /\ intact)
                               ELSE pos = Len(body) /\ intact
                          /\ analysis.completion = "truncated" => ~intact
    BY DEF VerdictSound
  <2>1. SseTypeOK
    BY <1>1 DEF SseIInv
  <2>2. PICK cut \in BOOLEAN :
          IF stream THEN analysis = Analyze(events, cut, Leftover(decoder))
          ELSE analysis = AnalyzeDocument(Received, cut) \/ analysis = AnalyzeNothing(cut)
    BY <1>1 DEF SseIInv, AnalysisRight
  <2>3. CASE stream
    <3> DEFINE arrived == Stream(Received, TRUE)
               left == Leftover(decoder)
               done == ExplicitEnd(events)
               reason == FinishReason(events)
    <3>1. /\ arrived \in Seq(Event)
          /\ ~decoder.failed => /\ events = arrived
                                /\ left <=> ~Whole(Received)
          /\ decoder.failed => /\ events \in Seq(Event)
                               /\ IsPrefix(events, arrived)
                               /\ left
      BY <1>1, <2>3, LeftoverShows
    <3>2. analysis.cut = cut /\ analysis.completion = Verdict(events, cut \/ left)
      BY <2>2, <2>3 DEF Analyze
    <3>3. /\ analysis.completion = "complete" => done \/ (reason /\ ~cut /\ ~left)
          /\ analysis.completion = "truncated" => cut \/ left
      BY <3>2 DEF Verdict
    <3>4. done => ExplicitEnd(arrived)
      <4> HIDE DEF arrived
      <4> QED
        BY <3>1, EndStays
    <3> HIDE DEF left
    <3>5. reason /\ ~cut /\ ~left =>
            FinishReason(arrived) /\ ~analysis.cut /\ ~decoder.failed /\ Whole(Received)
      BY <3>1, <3>2
    <3>6. cut \/ left => analysis.cut \/ decoder.failed \/ ~Whole(Received)
      BY <3>1, <3>2
    <3> HIDE DEF done, reason, arrived
    <3> QED
      BY <2>3, <3>3, <3>4, <3>5, <3>6 DEF arrived
  <2>4. CASE ~stream
    <3>1. ~decoder.failed
      BY <1>1, <2>4 DEF SseIInv, Decoded, NewDecoder
    <3>2. CASE analysis = AnalyzeDocument(Received, cut)
      <4>1. analysis.cut = cut
        BY <3>2 DEF AnalyzeDocument
      <4>2. analysis.completion = "complete" => IsObject(Received) /\ ~cut
        BY <3>2 DEF AnalyzeDocument
      <4>3. analysis.completion = "truncated" => cut
        BY <3>2 DEF AnalyzeDocument
      <4> QED
        BY <2>1, <2>4, <3>1, <4>1, <4>2, <4>3, ObjectIsWhole
    <3>3. CASE analysis = AnalyzeNothing(cut)
      <4>1. analysis.cut = cut /\ analysis.completion = IF cut THEN "truncated" ELSE "unknown"
        BY <3>3 DEF AnalyzeNothing
      <4> QED
        BY <2>4, <4>1
    <3> QED
      BY <2>2, <2>4, <3>2, <3>3
  <2> QED
    BY <2>3, <2>4
<1> QED
  BY <1>1, SseInvariant, PTL

LEMMA NothingMerged == DOMAIN U!Merged(<<>>) = {}
BY DEF U!Merged

(* extract_usage_from_message: usage the provider did send is called absent *)
(* only where nothing shows the cut, or behind an empty usage object.       *)
THEOREM UsageHolds == SseSpec => []UsageSound
<1>1. ASSUME SseIInv PROVE UsageSound
  <2> SUFFICES ASSUME finished
               PROVE  /\ analysis.status = "absent" /\ DOMAIN Sent # {} =>
                           /\ stream
                           /\ \/ pos < Len(body) /\ ~analysis.cut /\ Whole(Received)
                              \/ Containers(events) # <<>>
                      /\ analysis.status = "unparseable" => ~analysis.cut
    BY DEF UsageSound
  <2>1. /\ SseTypeOK /\ Len(body) \in Nat /\ pos \in Nat /\ pos <= Len(body)
        /\ pos = Len(body) => Received = body
    BY <1>1, ReceivedIs DEF SseIInv
  <2>2. PICK cut \in BOOLEAN :
          IF stream THEN analysis = Analyze(events, cut, Leftover(decoder))
          ELSE analysis = AnalyzeDocument(Received, cut) \/ analysis = AnalyzeNothing(cut)
    BY <1>1 DEF SseIInv, AnalysisRight
  <2>3. CASE stream
    <3> DEFINE left == Leftover(decoder)
               found == Containers(events)
    <3>1. /\ ~decoder.failed => /\ events = Stream(Received, TRUE)
                                /\ left <=> ~Whole(Received)
          /\ decoder.failed => left
      BY <1>1, <2>3, LeftoverShows
    <3>2. /\ analysis.cut = cut
          /\ analysis.status = U!UsageStatus(found, cut \/ left, Unparseable(events))
      BY <2>2, <2>3 DEF Analyze
    <3> HIDE DEF left, found
    <3>3. /\ analysis.status = "absent" => /\ DOMAIN U!Merged(found) = {}
                                           /\ found # <<>> \/ (~cut /\ ~left)
          /\ analysis.status = "unparseable" => ~cut
      BY <3>2 DEF U!UsageStatus
    <3>4. ASSUME analysis.status = "absent", DOMAIN Sent # {}, found = <<>>
          PROVE  pos < Len(body) /\ ~analysis.cut /\ Whole(Received)
      <4>1. ~cut /\ ~left /\ ~decoder.failed
        BY <3>1, <3>3, <3>4
      <4>2. ~analysis.cut /\ Whole(Received) /\ events = Stream(Received, TRUE)
        BY <3>1, <3>2, <4>1
      <4>3. pos # Len(body)
        <5> SUFFICES ASSUME pos = Len(body) PROVE FALSE
          OBVIOUS
        <5>1. events = Stream(body, TRUE)
          BY <2>1, <4>2
        <5>2. Sent = U!Merged(found)
          BY <2>3, <5>1 DEF Sent, found
        <5> QED
          BY <3>3, <3>4, <5>2
      <4> QED
        BY <2>1, <4>2, <4>3
    <3> QED
      BY <2>3, <3>2, <3>3, <3>4 DEF found
  <2>4. CASE ~stream
    <3>1. CASE analysis = AnalyzeDocument(Received, cut)
      <4>1. analysis.cut = cut
        BY <3>1 DEF AnalyzeDocument
      <4>2. CASE IsObject(Received)
        <5>1. Received = body
          BY <2>1, <2>4, <4>2, ObjectIsWhole
        <5>2. Sent = U!Merged(Documents[body].containers)
          BY <2>4, <4>2, <5>1 DEF Sent
        <5>3. analysis.status = U!UsageStatus(Documents[body].containers, FALSE, FALSE)
          BY <3>1, <4>2, <5>1 DEF AnalyzeDocument
        <5>4. DOMAIN Sent # {} => analysis.status = "present"
          BY <5>2, <5>3 DEF U!UsageStatus
        <5>5. analysis.status # "unparseable"
          BY <5>3 DEF U!UsageStatus
        <5> QED
          BY <5>4, <5>5
      <4>3. CASE ~IsObject(Received)
        <5>1. analysis.status = U!UsageStatus(<<>>, cut, TRUE)
          BY <3>1, <4>3 DEF AnalyzeDocument
        <5>2. /\ analysis.status # "absent"
              /\ analysis.status = "unparseable" => ~cut
          BY <5>1, NothingMerged DEF U!UsageStatus
        <5> QED
          BY <4>1, <5>2
      <4> QED
        BY <4>2, <4>3
    <3>2. CASE analysis = AnalyzeNothing(cut)
      BY <3>2 DEF AnalyzeNothing
    <3> QED
      BY <2>2, <2>4, <3>1, <3>2
  <2> QED
    BY <2>3, <2>4
<1> QED
  BY <1>1, SseInvariant, PTL
=============================================================================
