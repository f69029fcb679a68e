------------------------- MODULE ReplayIndexProofs -------------------------
(***************************************************************************)
(* For any events, batches, processes and bounds: rows lead back to the    *)
(* ledger lines they were built from, an index that only replays wrote is  *)
(* the image of a prefix of the ledger, verification raises no false       *)
(* alarm, and stored rows are never overwritten.                           *)
(***************************************************************************)
EXTENDS ReplayIndex, FiniteSetTheorems, FunctionTheorems, SequenceTheorems,
        NaturalsInduction, WellFoundedInduction, TLAPS

Line == Version \cup {Bad}

(* What the scan of the first n lines of a file yields, as a set.          *)
Firsts(f, n) == {[ver |-> f[j], line |-> j] : j \in {i \in FirstLines(f) : i <= n}}

(* A state c of the index over a ledger f: one row for each event id, rows *)
(* that lead back to their lines, and, if only replays wrote it, the image *)
(* of a prefix.                                                            *)
OneRowPerId(rows) == \A r, s \in rows : IdOf[r.ver] = IdOf[s.ver] => r = s

Located(c, f) ==
  ~c.strayed => \A r \in c.rows : r.line # NoLine =>
                  r.line <= Len(f) /\ f[r.line] = r.ver

Places(rows) == {[ver |-> r.ver, line |-> r.line] : r \in rows}

Imaged(c, f) ==
  ~c.loose /\ ~c.strayed =>
    \E n \in 0..Len(f) : Places(c.rows) = Firsts(f, n)

StateInv(c, f) ==
  /\ c \in IndexState
  /\ IsFiniteSet(c.rows) /\ OneRowPerId(c.rows) /\ Located(c, f) /\ Imaged(c, f)

(* A verification that began with the index equal to its scan, while       *)
(* nothing is written.                                                     *)
CalmInv(p) ==
  /\ pc[p] \notin {"miscounted", "mismatch"}
  /\ pc[p] \in {"count", "digest"} => Places(db.rows) = Firsts(ledger, scan[p])

IInv ==
  /\ TypeOK
  /\ \A k \in 1..Len(commits) : StateInv(commits[k], ledger)
  /\ \A p \in calm : CalmInv(p)

-----------------------------------------------------------------------------
LEMMA Least ==
  ASSUME NEW S \in SUBSET Nat, S # {}
  PROVE  \E x \in S : \A y \in S : x <= y
<1> DEFINE R == OpToRel(<, Nat)
<1>1. IsWellFoundedOn(R, Nat)
  BY NatLessThanWellFounded
<1> HIDE DEF R
<1>2. PICK x \in S : \A y \in S : <<y, x>> \notin R
  BY <1>1, WFMin
<1>3. \A y \in S : ~(y < x)
  BY <1>2 DEF R, OpToRel
<1> QED
  BY <1>3

LEMMA Induction ==
  ASSUME NEW T, 0 \in T, \A n \in Nat : n \in T => n + 1 \in T
  PROVE  \A n \in Nat : n \in T
<1> SUFFICES ASSUME Nat \ T # {} PROVE FALSE
  OBVIOUS
<1>1. PICK m \in Nat \ T : \A y \in Nat \ T : m <= y
  BY Least
<1>2. m # 0 /\ m - 1 \in Nat
  OBVIOUS
<1>3. m - 1 \in T
  BY <1>1, <1>2
<1> QED
  BY <1>2, <1>3

-----------------------------------------------------------------------------
(* In a finite set with a strict total order every place is taken: for     *)
(* each k there is exactly one element with k - 1 elements before it.      *)
Below(S, R, x) == {y \in S : <<y, x>> \in R}

LEMMA Ranked ==
  ASSUME NEW S, IsFiniteSet(S), NEW R,
         \A a \in S : <<a, a>> \notin R,
         \A a, b, c \in S : <<a, b>> \in R /\ <<b, c>> \in R => <<a, c>> \in R,
         \A a, b \in S : a = b \/ <<a, b>> \in R \/ <<b, a>> \in R
  PROVE  /\ Cardinality(S) \in Nat
         /\ \A k \in 1..Cardinality(S) :
              \E x \in S : Cardinality(Below(S, R, x)) = k - 1
         /\ \A a, b \in S :
              Cardinality(Below(S, R, a)) = Cardinality(Below(S, R, b))
                => a = b
<1> DEFINE n == Cardinality(S)
           place == [x \in S |-> Cardinality(Below(S, R, x)) + 1]
<1>1. n \in Nat
  BY FS_CardinalityType
<1>2. \A x \in S : /\ Below(S, R, x) \subseteq S /\ x \notin Below(S, R, x)
                   /\ IsFiniteSet(Below(S, R, x)) /\ Cardinality(Below(S, R, x)) \in Nat
  <2> SUFFICES ASSUME NEW x \in S
               PROVE  /\ Below(S, R, x) \subseteq S /\ x \notin Below(S, R, x)
                      /\ IsFiniteSet(Below(S, R, x)) /\ Cardinality(Below(S, R, x)) \in Nat
    OBVIOUS
  <2>1. Below(S, R, x) \subseteq S /\ x \notin Below(S, R, x)
    BY DEF Below
  <2> QED
    BY <2>1, FS_Subset, FS_CardinalityType
<1>3. ASSUME NEW T \in SUBSET S, NEW U \in SUBSET T, U # T
      PROVE  Cardinality(U) < Cardinality(T)
  <2>1. IsFiniteSet(T)
    BY FS_Subset
  <2>2. Cardinality(U) <= Cardinality(T) /\ Cardinality(U) # Cardinality(T) /\ IsFiniteSet(U)
    BY <1>3, <2>1, FS_Subset
  <2>3. Cardinality(U) \in Nat /\ Cardinality(T) \in Nat
    BY <2>1, <2>2, FS_CardinalityType
  <2> QED
    BY <2>2, <2>3
<1>4. \A a, b \in S : <<a, b>> \in R => Cardinality(Below(S, R, a)) < Cardinality(Below(S, R, b))
  <2> SUFFICES ASSUME NEW a \in S, NEW b \in S, <<a, b>> \in R
               PROVE  Cardinality(Below(S, R, a)) < Cardinality(Below(S, R, b))
    OBVIOUS
  <2>1. /\ Below(S, R, a) \subseteq Below(S, R, b) /\ a \in Below(S, R, b) /\ a \notin Below(S, R, a)
        /\ Below(S, R, b) \subseteq S
    BY DEF Below
  <2> QED
    BY <1>3, <2>1
<1>5. \A x \in S : Cardinality(Below(S, R, x)) < n
  BY <1>2, <1>3
<1>6. \A a, b \in S : Cardinality(Below(S, R, a)) = Cardinality(Below(S, R, b)) => a = b
  <2> SUFFICES ASSUME NEW a \in S, NEW b \in S,
                      Cardinality(Below(S, R, a)) = Cardinality(Below(S, R, b)), a # b
               PROVE  FALSE
    OBVIOUS
  <2>1. <<a, b>> \in R \/ <<b, a>> \in R
    OBVIOUS
  <2>2. \/ Cardinality(Below(S, R, a)) < Cardinality(Below(S, R, b))
        \/ Cardinality(Below(S, R, b)) < Cardinality(Below(S, R, a))
    BY <1>4, <2>1
  <2> QED
    BY <1>2, <2>2
<1>7. place \in Injection(S, 1..n)
  <2>1. place \in [S -> 1..n]
    BY <1>1, <1>2, <1>5
  <2>2. \A a, b \in S : place[a] = place[b] => a = b
    BY <1>2, <1>6
  <2> QED
    BY <2>1, <2>2 DEF Injection, IsInjective
<1>8. IsFiniteSet(1..n) /\ Cardinality(1..n) = n
  BY <1>1, FS_Interval
<1>9. place \in Surjection(S, 1..n)
  BY <1>7, <1>8, FS_Injection
<1>10. ASSUME NEW k \in 1..n PROVE \E x \in S : Cardinality(Below(S, R, x)) = k - 1
  <2>1. PICK x \in S : place[x] = k
    BY <1>9 DEF Surjection
  <2>2. Cardinality(Below(S, R, x)) + 1 = k
    BY <2>1
  <2> QED
    BY <1>2, <2>2
<1> QED
  BY <1>1, <1>6, <1>10

-----------------------------------------------------------------------------
(* Records: the lines that open an event, in their order.                  *)
Earlier(f, j) == {i \in FirstLines(f) : i < j}

LEMMA NthFirstIs ==
  ASSUME NEW f, Len(f) \in Nat
  PROVE  /\ IsFiniteSet(FirstLines(f)) /\ Cardinality(FirstLines(f)) \in Nat
         /\ FirstLines(f) \subseteq 1..Len(f)
         /\ \A k \in 1..Cardinality(FirstLines(f)) :
              /\ NthFirst(f, k) \in FirstLines(f)
              /\ Cardinality(Earlier(f, NthFirst(f, k))) = k - 1
         /\ \A a, b \in FirstLines(f) :
              Cardinality(Earlier(f, a)) = Cardinality(Earlier(f, b))
                => a = b
         /\ \A j \in FirstLines(f) : \E k \in 1..Cardinality(FirstLines(f)) : NthFirst(f, k) = j
<1> DEFINE S == FirstLines(f)
           n == Cardinality(S)
           R == {p \in S \X S : p[1] < p[2]}
<1>1. S \subseteq 1..Len(f)
  BY DEF FirstLines
<1>2. IsFiniteSet(S) /\ n \in Nat
  <2>1. IsFiniteSet(1..Len(f))
    BY FS_Interval
  <2> QED
    BY <1>1, <2>1, FS_Subset, FS_CardinalityType
<1> HIDE DEF S
<1>3. \A x \in S : Below(S, R, x) = Earlier(f, x)
  BY DEF Below, Earlier, S
<1>4. /\ \A a \in S : <<a, a>> \notin R
      /\ \A a, b, c \in S : <<a, b>> \in R /\ <<b, c>> \in R => <<a, c>> \in R
      /\ \A a, b \in S : a = b \/ <<a, b>> \in R \/ <<b, a>> \in R
  BY <1>1
<1> HIDE DEF R
<1>5. \A k \in 1..n : \E x \in S : Cardinality(Below(S, R, x)) = k - 1
  BY ONLY <1>2, <1>4, Ranked
<1>6. \A k \in 1..n : \E x \in S : Cardinality(Earlier(f, x)) = k - 1
  BY <1>3, <1>5
<1>7. \A a, b \in S : Cardinality(Earlier(f, a)) = Cardinality(Earlier(f, b)) => a = b
  <2>1. \A a, b \in S :
          Cardinality(Below(S, R, a)) = Cardinality(Below(S, R, b))
            => a = b
    BY ONLY <1>2, <1>4, Ranked
  <2> QED
    BY <1>3, <2>1
<1>8. \A k \in 1..n : NthFirst(f, k) \in S /\ Cardinality(Earlier(f, NthFirst(f, k))) = k - 1
  BY <1>6 DEF NthFirst, Earlier, S
<1>9. \A j \in S : \E k \in 1..n : NthFirst(f, k) = j
  <2> SUFFICES ASSUME NEW j \in S PROVE \E k \in 1..n : NthFirst(f, k) = j
    OBVIOUS
  <2>1. Earlier(f, j) \in SUBSET S /\ Earlier(f, j) # S
    BY <1>1 DEF Earlier, S
  <2>2. /\ Cardinality(Earlier(f, j)) <= n /\ Cardinality(Earlier(f, j)) # n
        /\ IsFiniteSet(Earlier(f, j))
    BY <1>2, <2>1, FS_Subset
  <2>3. Cardinality(Earlier(f, j)) \in Nat
    BY <2>2, FS_CardinalityType
  <2> DEFINE r == Cardinality(Earlier(f, j))
  <2>4. PICK k \in 1..n : k - 1 = r
    <3>1. r + 1 \in 1..n /\ (r + 1) - 1 = r
      BY <1>2, <2>2, <2>3
    <3> HIDE DEF r, n
    <3> QED
      BY <3>1
  <2>5. NthFirst(f, k) \in S /\ Cardinality(Earlier(f, NthFirst(f, k))) = r
    BY <1>8, <2>4
  <2>6. NthFirst(f, k) = j
    BY <1>7, <2>5
  <2> QED
    BY <2>6
<1> QED
  BY <1>1, <1>2, <1>7, <1>8, <1>9 DEF S

LEMMA IsSequence ==
  ASSUME NEW S, NEW n \in Nat, NEW s \in [1..n -> S]
  PROVE  s \in Seq(S) /\ Len(s) = n
OBVIOUS

LEMMA RecordsAre ==
  ASSUME NEW f \in Seq(Line)
  PROVE  /\ Len(Records(f)) = Cardinality(FirstLines(f))
         /\ Cardinality(FirstLines(f)) \in Nat
         /\ Records(f) \in Seq([ver : Version, line : Nat])
         /\ \A k \in 1..Len(Records(f)) :
              Records(f)[k] = [ver |-> f[NthFirst(f, k)], line |-> NthFirst(f, k)]
         /\ {Records(f)[k] : k \in 1..Len(Records(f))} = Firsts(f, Len(f))
<1> DEFINE n == Cardinality(FirstLines(f))
           item == [k \in 1..n |-> [ver |-> f[NthFirst(f, k)], line |-> NthFirst(f, k)]]
<1>1. Len(f) \in Nat
  BY LenProperties
<1>2. /\ n \in Nat /\ FirstLines(f) \subseteq 1..Len(f)
      /\ \A k \in 1..n : NthFirst(f, k) \in FirstLines(f)
      /\ \A j \in FirstLines(f) : \E k \in 1..n : NthFirst(f, k) = j
  BY <1>1, NthFirstIs
<1>3. \A j \in FirstLines(f) : f[j] \in Version /\ j \in Nat
  <2> SUFFICES ASSUME NEW j \in FirstLines(f) PROVE f[j] \in Version /\ j \in Nat
    OBVIOUS
  <2>1. f[j] \in Line /\ f[j] # Bad
    BY <1>2, ElementOfSeq DEF FirstLines, FirstOfId
  <2> QED
    BY <1>1, <1>2, <2>1 DEF Line
<1>4. Records(f) = item
  BY DEF Records
<1>5. item \in [1..n -> [ver : Version, line : Nat]]
  BY <1>2, <1>3
<1>6. item \in Seq([ver : Version, line : Nat]) /\ Len(item) = n
  <2> HIDE DEF item, n
  <2> QED
    BY <1>2, <1>5, IsSequence
<1>7. {item[k] : k \in 1..n} = Firsts(f, Len(f))
  <2>1. {i \in FirstLines(f) : i <= Len(f)} = FirstLines(f)
    BY <1>1, <1>2
  <2> QED
    BY <1>2, <2>1 DEF Firsts
<1> QED
  BY <1>2, <1>4, <1>6, <1>7

(* What the scan of a prefix yields depends on the prefix alone.           *)
LEMMA FirstsOfPrefix ==
  ASSUME NEW f, NEW g, NEW n \in Nat, n <= Len(f), n <= Len(g),
         Len(f) \in Nat, Len(g) \in Nat,
         \A j \in 1..n : f[j] = g[j]
  PROVE  Firsts(f, n) = Firsts(g, n)
<1> DEFINE F == {i \in FirstLines(f) : i <= n}
           G == {i \in FirstLines(g) : i <= n}
<1>1. \A j \in 1..n : FirstOfId(f, j) <=> FirstOfId(g, j)
  <2> SUFFICES ASSUME NEW j \in 1..n
               PROVE  FirstOfId(f, j) <=> FirstOfId(g, j)
    OBVIOUS
  <2>1. f[j] = g[j] /\ \A i \in 1..(j - 1) : f[i] = g[i]
    OBVIOUS
  <2> QED
    BY <2>1 DEF FirstOfId
<1>2. F = G /\ F \subseteq 1..n
  BY <1>1 DEF FirstLines
<1>3. \A j \in F : f[j] = g[j]
  BY <1>2
<1> HIDE DEF F, G
<1>4. {[ver |-> f[j], line |-> j] : j \in F} = {[ver |-> g[j], line |-> j] : j \in G}
  BY <1>2, <1>3
<1> QED
  BY <1>4 DEF Firsts, F, G

LEMMA PrefixOfLedger ==
  ASSUME NEW f \in Seq(Line), NEW n \in 0..Len(f)
  PROVE  /\ SubSeq(f, 1, n) \in Seq(Line)
         /\ Len(SubSeq(f, 1, n)) = n
         /\ \A j \in 1..n : SubSeq(f, 1, n)[j] = f[j]
<1>1. Len(f) \in Nat /\ 1 \in Int /\ n \in Int /\ n \in Nat
  BY LenProperties
<1>2. \A j \in 1..n : f[j] \in Line
  <2> SUFFICES ASSUME NEW j \in 1..n PROVE f[j] \in Line
    OBVIOUS
  <2>1. j \in 1..Len(f)
    BY <1>1
  <2> QED
    BY <2>1, ElementOfSeq
<1>3. /\ SubSeq(f, 1, n) \in Seq(Line)
      /\ Len(SubSeq(f, 1, n)) = IF 1 <= n THEN n - 1 + 1 ELSE 0
      /\ \A j \in 1..n - 1 + 1 : SubSeq(f, 1, n)[j] = f[1 + j - 1]
  BY <1>1, <1>2, SubSeqProperties
<1>4. n - 1 + 1 = n /\ (~(1 <= n) => n = 0) /\ \A j \in 1..n : 1 + j - 1 = j
  BY <1>1
<1> QED
  BY <1>3, <1>4

(* The scan of a prefix.                                                   *)
LEMMA ScanIs ==
  ASSUME NEW f \in Seq(Line), NEW n \in 0..Len(f)
  PROVE  LET items == Records(SubSeq(f, 1, n)) IN
         /\ Len(items) \in Nat
         /\ items \in Seq([ver : Version, line : Nat])
         /\ {items[k] : k \in 1..Len(items)} = Firsts(f, n)
<1> DEFINE g == SubSeq(f, 1, n)
<1>1. g \in Seq(Line) /\ Len(g) = n /\ \A j \in 1..n : g[j] = f[j]
  BY PrefixOfLedger
<1> HIDE DEF g
<1>2. /\ Len(Records(g)) \in Nat
      /\ Records(g) \in Seq([ver : Version, line : Nat])
      /\ {Records(g)[k] : k \in 1..Len(Records(g))} = Firsts(g, Len(g))
  BY <1>1, RecordsAre
<1>3. Len(f) \in Nat /\ n \in Nat /\ n <= Len(f)
  BY LenProperties
<1>4. Firsts(g, n) = Firsts(f, n)
  BY <1>1, <1>3, FirstsOfPrefix
<1> QED
  BY <1>1, <1>2, <1>4 DEF g

(* The elements of Firsts.                                                 *)
LEMMA FirstsAre ==
  ASSUME NEW f \in Seq(Line), NEW n \in 0..Len(f)
  PROVE  /\ \A x \in Firsts(f, n) : /\ x.line \in 1..n /\ x.line \in FirstLines(f)
                                    /\ x.ver = f[x.line] /\ x.ver \in Version
                                    /\ x = [ver |-> x.ver, line |-> x.line]
         /\ \A x, y \in Firsts(f, n) : IdOf[x.ver] = IdOf[y.ver] => x = y
         /\ \A m \in 0..n : Firsts(f, m) = {x \in Firsts(f, n) : x.line <= m}
<1>1. Len(f) \in Nat /\ n \in Nat /\ n <= Len(f)
  BY LenProperties
<1>2. ASSUME NEW j \in FirstLines(f), j <= n
      PROVE  /\ j \in 1..n /\ f[j] \in Version
             /\ \A i \in 1..(j - 1) : f[i] # Bad => IdOf[f[i]] # IdOf[f[j]]
  <2>1. j \in 1..Len(f) /\ FirstOfId(f, j)
    BY DEF FirstLines
  <2>2. f[j] \in Line
    BY <2>1, ElementOfSeq
  <2> QED
    BY <1>1, <1>2, <2>1, <2>2 DEF FirstOfId, Line
<1>3. ASSUME NEW i \in FirstLines(f), NEW j \in FirstLines(f), i <= n, j <= n,
             IdOf[f[i]] = IdOf[f[j]]
      PROVE  i = j
  <2>1. f[i] # Bad /\ f[j] # Bad
    BY DEF FirstLines, FirstOfId
  <2>2. i \in 1..n /\ j \in 1..n
    BY <1>2, <1>3
  <2>3. ~(i < j) /\ ~(j < i)
    BY <1>2, <1>3, <2>1, <2>2
  <2> QED
    BY <2>2, <2>3
<1>4. ASSUME NEW x \in Firsts(f, n)
      PROVE  /\ x.line \in 1..n /\ x.line \in FirstLines(f) /\ x.line <= n
             /\ x.ver = f[x.line] /\ x.ver \in Version
             /\ x = [ver |-> x.ver, line |-> x.line]
  <2>1. PICK j \in FirstLines(f) : j <= n /\ x = [ver |-> f[j], line |-> j]
    BY DEF Firsts
  <2> QED
    BY <1>2, <2>1
<1>5. ASSUME NEW x \in Firsts(f, n), NEW y \in Firsts(f, n), IdOf[x.ver] = IdOf[y.ver]
      PROVE  x = y
  <2>1. x.line = y.line
    BY <1>3, <1>4, <1>5
  <2> QED
    BY <1>4, <2>1
<1>6. ASSUME NEW m \in 0..n
      PROVE  Firsts(f, m) = {x \in Firsts(f, n) : x.line <= m}
  <2>1. \A j \in FirstLines(f) : j <= m => j <= n
    <3>1. FirstLines(f) \subseteq Nat
      BY DEF FirstLines
    <3> QED
      BY <1>1, <3>1
  <2> QED
    BY <2>1 DEF Firsts
<1> QED
  BY <1>4, <1>5, <1>6

-----------------------------------------------------------------------------
(* An index that is the image of a scan has its count and its digest.      *)
Lower(rows, r) == {s \in rows : Before(s, r)}

LEMMA ImageDigest ==
  ASSUME NEW f \in Seq(Line), NEW rows \in SUBSET Row, IsFiniteSet(rows),
         OneRowPerId(rows), Places(rows) = Firsts(f, Len(f))
  PROVE  /\ InStep(rows, Records(f))
         /\ Cardinality(rows) = Len(Records(f))
         /\ Digest(rows) = Versions(Records(f))
<1> DEFINE S == FirstLines(f)
           n == Cardinality(S)
<1>1. Len(f) \in Nat /\ Len(f) \in 0..Len(f) /\ S \subseteq 1..Len(f)
  BY LenProperties DEF FirstLines
<1>2. \A r \in rows : /\ r.line \in S /\ r.ver = f[r.line]
                      /\ r.line \in Nat /\ r.row \in Nat /\ r.line # NoLine
  <2> SUFFICES ASSUME NEW r \in rows
               PROVE  /\ r.line \in S /\ r.ver = f[r.line]
                      /\ r.line \in Nat /\ r.row \in Nat /\ r.line # NoLine
    OBVIOUS
  <2> DEFINE x == [ver |-> r.ver, line |-> r.line]
  <2>1. x \in Firsts(f, Len(f))
    BY DEF Places
  <2>2. x.line \in FirstLines(f) /\ x.ver = f[x.line] /\ x.line \in 1..Len(f)
    <3> HIDE DEF x
    <3> QED
      BY <1>1, <2>1, FirstsAre
  <2> QED
    BY <1>1, <2>2 DEF Row, NoLine
<1>3. \A j \in S : \E r \in rows : r.line = j
  <2> SUFFICES ASSUME NEW j \in S PROVE \E r \in rows : r.line = j
    OBVIOUS
  <2>1. [ver |-> f[j], line |-> j] \in Places(rows)
    BY <1>1 DEF Firsts
  <2>2. PICK r \in rows : [ver |-> f[j], line |-> j] = [ver |-> r.ver, line |-> r.line]
    BY <2>1 DEF Places
  <2> QED
    BY <2>2
<1>4. \A r, s \in rows : r.line = s.line => r = s
  BY <1>2 DEF OneRowPerId
<1> HIDE DEF S
<1>5. Cardinality(rows) = n
  <2> DEFINE at == [r \in rows |-> r.line]
  <2>1. at \in [rows -> S] /\ \A r, s \in rows : at[r] = at[s] => r = s
    BY <1>2, <1>4
  <2>2. \A j \in S : \E r \in rows : at[r] = j
    BY <1>3
  <2>3. at \in Bijection(rows, S)
    <3> HIDE DEF at
    <3> QED
      BY <2>1, <2>2, Fun_IsBij
  <2>4. ExistsBijection(rows, S)
    BY <2>3 DEF ExistsBijection
  <2> QED
    BY <2>4, FS_Bijection
<1>6. ASSUME NEW r \in rows
      PROVE  Cardinality(Lower(rows, r)) = Cardinality(Earlier(f, r.line))
  <2> DEFINE L == Lower(rows, r)
             E == Earlier(f, r.line)
             at == [s \in L |-> s.line]
  <2>1. \A s \in rows : s \in L <=> s.line < r.line
    BY <1>2, <1>4 DEF Lower, Before
  <2>2. L \subseteq rows
    BY DEF Lower
  <2>3. \A j : j \in E <=> j \in S /\ j < r.line
    BY DEF Earlier, S
  <2> HIDE DEF L, E
  <2>4. at \in [L -> E] /\ \A s, q \in L : at[s] = at[q] => s = q
    BY <1>2, <1>4, <2>1, <2>2, <2>3
  <2>5. \A j \in E : \E s \in L : at[s] = j
    BY <1>3, <2>1, <2>2, <2>3
  <2>6. at \in Bijection(L, E)
    <3> HIDE DEF at
    <3> QED
      BY <2>4, <2>5, Fun_IsBij
  <2>7. ExistsBijection(L, E)
    BY <2>6 DEF ExistsBijection
  <2>8. IsFiniteSet(L)
    BY <2>2, FS_Subset
  <2> QED
    BY <2>7, <2>8, FS_Bijection DEF L, E
<1>7. /\ n \in Nat
      /\ \A k \in 1..n : /\ NthFirst(f, k) \in S
                         /\ Cardinality(Earlier(f, NthFirst(f, k))) = k - 1
      /\ \A a, b \in S : Cardinality(Earlier(f, a)) = Cardinality(Earlier(f, b)) => a = b
  BY <1>1, NthFirstIs DEF S
<1>8. /\ Len(Records(f)) = n
      /\ \A k \in 1..n :
           Records(f)[k] = [ver |-> f[NthFirst(f, k)], line |-> NthFirst(f, k)]
      /\ {Records(f)[k] : k \in 1..n} = Firsts(f, Len(f))
  BY RecordsAre DEF S
<1>9. \A k \in 1..n : NthRow(rows, k).ver = f[NthFirst(f, k)]
  <2> SUFFICES ASSUME NEW k \in 1..n
               PROVE  NthRow(rows, k).ver = f[NthFirst(f, k)]
    OBVIOUS
  <2>1. PICK r \in rows : r.line = NthFirst(f, k)
    BY <1>3, <1>7
  <2>2. Cardinality(Lower(rows, r)) = k - 1
    BY <1>6, <1>7, <2>1
  <2> DEFINE q == NthRow(rows, k)
  <2>3. q \in rows /\ Cardinality(Lower(rows, q)) = k - 1
    BY <2>2 DEF NthRow, Lower
  <2> HIDE DEF q
  <2>4. q.line = NthFirst(f, k)
    <3>1. Cardinality(Earlier(f, q.line)) = Cardinality(Earlier(f, NthFirst(f, k)))
      BY <1>6, <1>7, <2>3
    <3>2. q.line \in S /\ NthFirst(f, k) \in S
      BY <1>2, <1>7, <2>3
    <3> QED
      BY <1>7, <3>1, <3>2
  <2>5. q.ver = f[NthFirst(f, k)]
    BY <1>2, <2>3, <2>4
  <2> QED
    BY <2>5 DEF q
<1>10. Digest(rows) = Versions(Records(f))
  <2>1. Digest(rows) = [k \in 1..n |-> NthRow(rows, k).ver]
    BY <1>5 DEF Digest
  <2>2. Versions(Records(f)) = [k \in 1..n |-> Records(f)[k].ver]
    BY <1>8 DEF Versions
  <2>3. \A k \in 1..n : Records(f)[k].ver = NthRow(rows, k).ver
    BY <1>8, <1>9
  <2> HIDE DEF n
  <2> QED
    BY <2>1, <2>2, <2>3
<1>11. InStep(rows, Records(f))
  BY <1>8 DEF InStep, Places
<1> QED
  BY <1>5, <1>8, <1>10, <1>11

-----------------------------------------------------------------------------
(* index_records.                                                          *)
ItemType == [ver : Version, line : Nat]

LEMMA InsertIs ==
  ASSUME NEW rows \in SUBSET Row, IsFiniteSet(rows), OneRowPerId(rows),
         NEW items \in Seq(ItemType), ~Conflict(rows, items)
  PROVE  /\ rows \subseteq Insert(rows, items) /\ Insert(rows, items) \subseteq Row
         /\ IsFiniteSet(Insert(rows, items)) /\ OneRowPerId(Insert(rows, items))
         /\ \A r \in Insert(rows, items) :
              \/ r \in rows
              \/ /\ \E k \in 1..Len(items) : r.ver = items[k].ver /\ r.line = items[k].line
                 /\ \A s \in rows : IdOf[s.ver] # IdOf[r.ver]
         /\ \A k \in 1..Len(items) : \E r \in Insert(rows, items) : r.ver = items[k].ver
<1> DEFINE K == 1..Len(items)
           new == {k \in K : /\ \A r \in rows : IdOf[r.ver] # IdAt(items, k)
                             /\ \A j \in 1..(k - 1) : IdAt(items, j) # IdAt(items, k)}
           RowId(k) == Cardinality(rows) + Cardinality({j \in new : j <= k})
           row == [k \in new |-> [ver |-> items[k].ver, line |-> items[k].line, row |-> RowId(k)]]
           added == {row[k] : k \in new}
<1>1. Insert(rows, items) = rows \cup added
  BY DEF Insert
<1>2. Len(items) \in Nat /\ IsFiniteSet(K) /\ new \subseteq K
  BY LenProperties, FS_Interval
<1>3. \A k \in K : items[k] \in ItemType
  BY ElementOfSeq
<1>4. IsFiniteSet(new)
  BY <1>2, FS_Subset
<1>5. \A k \in new : RowId(k) \in Nat
  <2> SUFFICES ASSUME NEW k \in new PROVE RowId(k) \in Nat
    OBVIOUS
  <2> DEFINE upto == {j \in new : j <= k}
  <2>1. upto \subseteq new
    OBVIOUS
  <2> HIDE DEF upto, new
  <2>2. IsFiniteSet(upto)
    BY <1>4, <2>1, FS_Subset
  <2>3. Cardinality(upto) \in Nat /\ Cardinality(rows) \in Nat
    BY <2>2, FS_CardinalityType
  <2> QED
    BY <2>3 DEF upto
<1>6. \A k \in new : /\ \A r \in rows : IdOf[r.ver] # IdAt(items, k)
                     /\ \A j \in 1..(k - 1) : IdAt(items, j) # IdAt(items, k)
  OBVIOUS
<1>7. \A k \in K \ new : \/ \E r \in rows : IdOf[r.ver] = IdAt(items, k)
                         \/ \E j \in 1..(k - 1) : IdAt(items, j) = IdAt(items, k)
  OBVIOUS
<1> HIDE DEF RowId, new
<1>8. \A k \in new : /\ row[k].ver = items[k].ver /\ row[k].line = items[k].line
                     /\ row[k] \in Row
  BY <1>2, <1>3, <1>5 DEF ItemType, Row
<1> HIDE DEF row
<1>9. IsFiniteSet(added)
  <2>1. row \in [new -> added] /\ \A x \in added : \E k \in new : row[k] = x
    BY DEF row
  <2>2. row \in Surjection(new, added)
    BY <2>1 DEF Surjection
  <2> QED
    BY <1>4, <2>2, FS_Surjection
<1>10. IsFiniteSet(rows \cup added)
  BY <1>9, FS_Union
<1>11. added \subseteq Row
  BY <1>8
<1>12. OneRowPerId(rows \cup added)
  <2>1. ASSUME NEW r \in rows, NEW s \in added, IdOf[r.ver] = IdOf[s.ver] PROVE FALSE
    BY <1>6, <1>8, <2>1 DEF IdAt
  <2>2. ASSUME NEW r \in added, NEW s \in added, IdOf[r.ver] = IdOf[s.ver] PROVE r = s
    <3>1. PICK j \in new, k \in new : r = row[j] /\ s = row[k]
      OBVIOUS
    <3>2. IdAt(items, j) = IdAt(items, k) /\ j \in Nat /\ k \in Nat /\ j >= 1 /\ k >= 1
      BY <1>2, <1>8, <2>2, <3>1 DEF IdAt
    <3>3. ~(j < k) /\ ~(k < j)
      BY <1>6, <3>2
    <3> QED
      BY <3>1, <3>2, <3>3
  <2> QED
    BY <2>1, <2>2 DEF OneRowPerId
<1>13. \A r \in rows \cup added :
         \/ r \in rows
         \/ /\ \E k \in K : r.ver = items[k].ver /\ r.line = items[k].line
            /\ \A s \in rows : IdOf[s.ver] # IdOf[r.ver]
  <2> SUFFICES ASSUME NEW r \in added
               PROVE  /\ \E k \in K : r.ver = items[k].ver /\ r.line = items[k].line
                      /\ \A s \in rows : IdOf[s.ver] # IdOf[r.ver]
    OBVIOUS
  <2>1. PICK k \in new : r = row[k]
    OBVIOUS
  <2>2. k \in K /\ r.ver = items[k].ver /\ r.line = items[k].line
    BY <1>2, <1>8, <2>1
  <2>3. \A s \in rows : IdOf[s.ver] # IdOf[items[k].ver]
    BY <1>6 DEF IdAt
  <2> QED
    BY <2>2, <2>3
<1>14. ASSUME NEW k \in K PROVE \E r \in rows \cup added : r.ver = items[k].ver
  <2> DEFINE alike == {j \in K : IdAt(items, j) = IdAt(items, k)}
  <2>1. alike \in SUBSET Nat /\ alike # {}
    OBVIOUS
  <2>2. PICK j \in alike : \A i \in alike : j <= i
    BY <2>1, Least
  <2>3. j \in K /\ IdAt(items, j) = IdAt(items, k) /\ j <= k
    BY <2>2
  <2>4. items[j].ver = items[k].ver
    BY <1>2, <2>3 DEF Conflict
  <2>5. CASE j \in new
    BY <1>8, <2>4, <2>5
  <2>6. CASE j \notin new
    <3>1. \A i \in 1..(j - 1) : IdAt(items, i) # IdAt(items, j)
      BY <1>2, <2>2, <2>3
    <3>2. PICK r \in rows : IdOf[r.ver] = IdAt(items, j)
      BY <1>7, <2>3, <2>6, <3>1
    <3>3. r.ver = items[j].ver
      BY <2>3, <3>2 DEF Conflict
    <3> QED
      BY <2>4, <3>3
  <2> QED
    BY <2>5, <2>6
<1> QED
  BY <1>1, <1>10, <1>11, <1>12, <1>13, <1>14

(* The image of a prefix, after a scan of a prefix was written to it, is   *)
(* the image of the longer one.                                            *)
LEMMA ImageGrows ==
  ASSUME NEW f \in Seq(Line), NEW m \in 0..Len(f), NEW n \in 0..Len(f),
         NEW rows \in SUBSET Row, IsFiniteSet(rows), OneRowPerId(rows),
         Places(rows) = Firsts(f, m),
         ~Conflict(rows, Records(SubSeq(f, 1, n)))
  PROVE  \E k \in 0..Len(f) :
           Places(Insert(rows, Records(SubSeq(f, 1, n)))) = Firsts(f, k)
<1> DEFINE items == Records(SubSeq(f, 1, n))
           after == Insert(rows, items)
           k == IF m < n THEN n ELSE m
<1>1. /\ Len(items) \in Nat /\ items \in Seq(ItemType)
      /\ {items[i] : i \in 1..Len(items)} = Firsts(f, n)
  BY ScanIs DEF ItemType
<1>2. Len(f) \in Nat /\ k \in 0..Len(f) /\ m \in 0..k /\ n \in 0..k /\ (k = m \/ k = n)
  BY LenProperties
<1> HIDE DEF items, k
<1>3. /\ rows \subseteq after /\ OneRowPerId(after)
      /\ \A r \in after :
           \/ r \in rows
           \/ /\ \E i \in 1..Len(items) : r.ver = items[i].ver /\ r.line = items[i].line
              /\ \A s \in rows : IdOf[s.ver] # IdOf[r.ver]
      /\ \A i \in 1..Len(items) : \E r \in after : r.ver = items[i].ver
  BY <1>1, InsertIs DEF items
<1>4. /\ \A x \in Firsts(f, k) : x = [ver |-> x.ver, line |-> x.line]
      /\ \A x, y \in Firsts(f, k) : IdOf[x.ver] = IdOf[y.ver] => x = y
      /\ Firsts(f, m) \subseteq Firsts(f, k) /\ Firsts(f, n) \subseteq Firsts(f, k)
  <2>1. /\ Firsts(f, m) = {x \in Firsts(f, k) : x.line <= m}
        /\ Firsts(f, n) = {x \in Firsts(f, k) : x.line <= n}
    BY <1>2, FirstsAre
  <2> QED
    BY <1>2, <2>1, FirstsAre
<1> HIDE DEF after
<1>5. \A r \in after : [ver |-> r.ver, line |-> r.line] \in Firsts(f, k)
  <2> SUFFICES ASSUME NEW r \in after
               PROVE  [ver |-> r.ver, line |-> r.line] \in Firsts(f, k)
    OBVIOUS
  <2>1. CASE r \in rows
    BY <1>4, <2>1 DEF Places
  <2>2. ASSUME NEW i \in 1..Len(items), r.ver = items[i].ver, r.line = items[i].line
        PROVE  [ver |-> r.ver, line |-> r.line] \in Firsts(f, k)
    <3>1. items[i] \in Firsts(f, k)
      BY <1>1, <1>4
    <3> QED
      BY <1>4, <2>2, <3>1
  <2> QED
    BY <1>3, <2>1, <2>2
<1>6. ASSUME NEW x \in Firsts(f, k)
      PROVE  \E r \in after : x = [ver |-> r.ver, line |-> r.line]
  <2>1. \E r \in after : IdOf[r.ver] = IdOf[x.ver]
    <3>1. CASE k = m
      <4>1. PICK r \in rows : x = [ver |-> r.ver, line |-> r.line]
        BY <3>1 DEF Places
      <4> QED
        BY <1>3, <4>1
    <3>2. CASE k = n
      <4>1. PICK i \in 1..Len(items) : x = items[i]
        BY <1>1, <3>2
      <4> QED
        BY <1>3, <4>1
    <3> QED
      BY <1>2, <3>1, <3>2
  <2>2. PICK r \in after : IdOf[r.ver] = IdOf[x.ver]
    BY <2>1
  <2> DEFINE y == [ver |-> r.ver, line |-> r.line]
  <2>3. y \in Firsts(f, k) /\ IdOf[y.ver] = IdOf[x.ver]
    BY <1>5, <2>2
  <2>4. y = x
    <3> HIDE DEF y
    <3> QED
      BY <1>4, <2>3
  <2> QED
    BY <2>4
<1>7. Places(after) = Firsts(f, k)
  BY <1>5, <1>6 DEF Places
<1> QED
  BY <1>2, <1>7 DEF after, items

-----------------------------------------------------------------------------
(* What the ledger's steps do to an index state.                           *)
LEMMA LedgerGrows ==
  ASSUME NEW f \in Seq(Line), NEW v \in Line, NEW c, StateInv(c, f)
  PROVE  /\ Append(f, v) \in Seq(Line) /\ Len(Append(f, v)) = Len(f) + 1
         /\ \A n \in 0..Len(f) : Firsts(f, n) = Firsts(Append(f, v), n)
         /\ StateInv(c, Append(f, v))
<1> DEFINE g == Append(f, v)
<1>1. /\ Len(f) \in Nat /\ g \in Seq(Line) /\ Len(g) = Len(f) + 1
      /\ \A j \in 1..Len(f) : g[j] = f[j]
  BY LenProperties, AppendProperties
<1> HIDE DEF g
<1>2. ASSUME NEW n \in 0..Len(f) PROVE Firsts(f, n) = Firsts(g, n)
  <2>1. n \in Nat /\ n <= Len(f) /\ n <= Len(g) /\ Len(g) \in Nat
    BY <1>1
  <2>2. \A j \in 1..n : f[j] = g[j]
    BY <1>1, <2>1
  <2> QED
    BY <1>1, <2>1, <2>2, FirstsOfPrefix
<1>3. Located(c, g)
  BY <1>1 DEF StateInv, Located, IndexState, Row, NoLine
<1>4. Imaged(c, g)
  <2>1. 0..Len(f) \subseteq 0..Len(g)
    BY <1>1
  <2> QED
    BY <1>2, <2>1 DEF StateInv, Imaged
<1> QED
  BY <1>1, <1>2, <1>3, <1>4 DEF StateInv, g

LEMMA LedgerShrinks ==
  ASSUME NEW f \in Seq(Line), NEW n \in 0..Len(f), NEW c, StateInv(c, f)
  PROVE  StateInv([c EXCEPT !.strayed = @ \/ \E r \in c.rows : r.line > n],
                  SubSeq(f, 1, n))
<1> DEFINE g == SubSeq(f, 1, n)
           beyond == \E r \in c.rows : r.line > n
           d == [c EXCEPT !.strayed = @ \/ beyond]
<1>1. g \in Seq(Line) /\ Len(g) = n /\ \A j \in 1..n : g[j] = f[j]
  BY PrefixOfLedger
<1>2. Len(f) \in Nat /\ n \in Nat /\ n <= Len(f)
  BY LenProperties
<1> HIDE DEF g
<1>3. c \in IndexState /\ \A r \in c.rows : r.line \in Nat
  BY DEF StateInv, IndexState, Row
<1>4. /\ d \in IndexState /\ d.rows = c.rows /\ d.loose = c.loose
      /\ d.strayed = (c.strayed \/ beyond)
  <2> HIDE DEF beyond
  <2>1. (c.strayed \/ beyond) \in BOOLEAN
    BY <1>3 DEF beyond, IndexState
  <2> QED
    BY <1>3, <2>1 DEF IndexState
<1> HIDE DEF d
<1>5. ~d.strayed => ~c.strayed /\ \A r \in c.rows : r.line <= n
  <2>1. ~d.strayed => ~c.strayed /\ ~beyond
    <3> HIDE DEF beyond
    <3> QED
      BY <1>4, Zenon
  <2>2. ~beyond => \A r \in c.rows : r.line <= n
    BY <1>2, <1>3
  <2> QED
    BY <2>1, <2>2
<1> HIDE DEF beyond
<1>6. Located(d, g)
  BY <1>1, <1>2, <1>3, <1>4, <1>5 DEF StateInv, Located, NoLine
<1>7. ASSUME ~d.loose, ~d.strayed
      PROVE  \E m \in 0..Len(g) : Places(d.rows) = Firsts(g, m)
  <2>1. PICK m \in 0..Len(f) : Places(c.rows) = Firsts(f, m)
    BY <1>4, <1>5, <1>7 DEF StateInv, Imaged
  <2>2. ASSUME NEW k \in 0..n PROVE Firsts(f, k) = Firsts(g, k)
    <3>1. \A j \in 1..k : f[j] = g[j]
      BY <1>1, <1>2
    <3> QED
      BY <1>1, <1>2, <3>1, FirstsOfPrefix
  <2>3. CASE m <= n
    <3>1. m \in 0..n
      BY <1>2, <2>1, <2>3
    <3> QED
      BY <1>1, <1>4, <2>1, <2>2, <3>1
  <2>4. CASE n <= m
    <3>1. n \in 0..m
      BY <1>2, <2>1, <2>4
    <3>2. Firsts(f, n) = {x \in Firsts(f, m) : x.line <= n}
      BY <3>1, FirstsAre
    <3>3. \A x \in Places(c.rows) : x.line <= n
      BY <1>5, <1>7 DEF Places
    <3>4. Firsts(f, n) = Firsts(f, m)
      BY <2>1, <3>2, <3>3
    <3>5. n \in 0..n /\ n \in 0..Len(g)
      BY <1>1, <1>2
    <3> QED
      BY <1>4, <2>1, <2>2, <3>4, <3>5
  <2> QED
    BY <1>2, <2>1, <2>3, <2>4
<1>8. StateInv(d, g)
  BY <1>4, <1>6, <1>7 DEF StateInv, Imaged
<1> QED
  BY <1>8 DEF d, g, beyond

(* What one transaction leaves.                                            *)
LEMMA WrittenState ==
  ASSUME NEW f \in Seq(Line), NEW c, StateInv(c, f),
         NEW items \in Seq(ItemType), NEW clear \in BOOLEAN, NEW byReplay \in BOOLEAN,
         \A k \in 1..Len(items) : items[k].line # NoLine =>
           items[k].line <= Len(f) /\ f[items[k].line] = items[k].ver,
         byReplay => \E n \in 0..Len(f) : items = Records(SubSeq(f, 1, n)),
         ~Conflict(Cleared(c.rows, clear), items)
  PROVE  StateInv([rows    |-> Insert(Cleared(c.rows, clear), items),
                   cleared |-> clear,
                   loose   |-> (c.loose /\ ~clear) \/ (~byReplay /\ items # <<>>),
                   strayed |-> c.strayed /\ ~clear], f)
<1> DEFINE rows == Cleared(c.rows, clear)
           after == Insert(rows, items)
           d == [rows |-> after, cleared |-> clear,
                 loose |-> (c.loose /\ ~clear) \/ (~byReplay /\ items # <<>>),
                 strayed |-> c.strayed /\ ~clear]
<1>1. c \in IndexState
  BY DEF StateInv
<1>2. rows \in SUBSET Row /\ IsFiniteSet(rows) /\ OneRowPerId(rows)
  BY FS_EmptySet DEF StateInv, IndexState, Cleared, OneRowPerId
<1>3. (rows = c.rows /\ ~clear) \/ (rows = {} /\ clear)
  BY DEF Cleared
<1> HIDE DEF rows
<1>4. /\ rows \subseteq after /\ after \subseteq Row
      /\ IsFiniteSet(after) /\ OneRowPerId(after)
      /\ \A r \in after :
           \/ r \in rows
           \/ \E k \in 1..Len(items) : r.ver = items[k].ver /\ r.line = items[k].line
  BY <1>2, InsertIs DEF rows
<1> HIDE DEF after
<1>5. /\ d.rows = after /\ d.cleared = clear
      /\ d.loose = ((c.loose /\ ~clear) \/ (~byReplay /\ items # <<>>))
      /\ d.strayed = (c.strayed /\ ~clear)
      /\ d \in IndexState
  BY <1>1, <1>4 DEF IndexState
<1> HIDE DEF d
<1>6. Located(d, f)
  <2> SUFFICES ASSUME ~d.strayed, NEW r \in after, r.line # NoLine
               PROVE  r.line <= Len(f) /\ f[r.line] = r.ver
    BY <1>5 DEF Located
  <2>1. CASE r \in rows
    BY <1>3, <1>5, <2>1 DEF StateInv, Located
  <2>2. CASE r \notin rows
    BY <1>4, <2>2
  <2> QED
    BY <2>1, <2>2
<1>7. ASSUME ~d.loose, ~d.strayed
      PROVE  \E k \in 0..Len(f) : Places(after) = Firsts(f, k)
  <2>1. PICK m \in 0..Len(f) : Places(rows) = Firsts(f, m)
    <3>1. CASE ~clear
      BY <1>3, <1>5, <1>7, <3>1 DEF StateInv, Imaged
    <3>2. CASE clear
      <4>1. Places({}) = {}
        BY DEF Places
      <4>2. Firsts(f, 0) = {}
        BY DEF Firsts, FirstLines
      <4>3. 0 \in 0..Len(f)
        BY LenProperties
      <4> QED
        BY <1>3, <3>2, <4>1, <4>2, <4>3
    <3> QED
      BY <3>1, <3>2
  <2>2. CASE byReplay
    <3>1. PICK n \in 0..Len(f) : items = Records(SubSeq(f, 1, n))
      BY <2>2
    <3>2. ~Conflict(rows, Records(SubSeq(f, 1, n)))
      BY <3>1 DEF rows
    <3> QED
      BY <1>2, <2>1, <3>1, <3>2, ImageGrows DEF after
  <2>3. CASE ~byReplay
    <3>1. items = <<>>
      BY <1>5, <1>7, <2>3
    <3>2. after = rows
      <4>1. Len(items) = 0
        BY <3>1
      <4>2. \A r \in after : r \in rows
        BY <1>4, <4>1
      <4> QED
        BY <1>4, <4>2
    <3> QED
      BY <2>1, <3>2
  <2> QED
    BY <2>2, <2>3
<1>8. StateInv(d, f)
  BY <1>4, <1>5, <1>6, <1>7 DEF StateInv, Imaged
<1> QED
  BY <1>8 DEF d, after, rows

-----------------------------------------------------------------------------
(* The steps of the specification.                                         *)
LEMMA CurrentState ==
  ASSUME IInv
  PROVE  /\ Len(commits) \in Nat /\ Len(commits) \in 1..Len(commits)
         /\ ledger \in Seq(Line) /\ Len(ledger) \in Nat
         /\ StateInv(db, ledger)
<1>1. commits \in Seq(IndexState) /\ commits # <<>> /\ ledger \in Seq(Line)
  BY DEF IInv, TypeOK, Line
<1>2. Len(commits) \in Nat /\ Len(commits) # 0
  BY <1>1, EmptySeq, LenProperties
<1> QED
  BY <1>1, <1>2, LenProperties DEF IInv, db

LEMMA InitHolds == Init => IInv
<1> SUFFICES ASSUME Init PROVE IInv
  OBVIOUS
<1> DEFINE c == [rows |-> {}, cleared |-> FALSE, loose |-> FALSE, strayed |-> FALSE]
<1>1. commits = <<c>> /\ c \in IndexState
  BY DEF Init, IndexState
<1>2. c.rows = {} /\ ~c.strayed
  OBVIOUS
<1> HIDE DEF c
<1>3. commits \in Seq(IndexState) /\ commits # <<>> /\ Len(commits) = 1 /\ commits[1] = c
  BY <1>1
<1>4. ledger = <<>> /\ Len(ledger) = 0 /\ ledger \in Seq(Line)
  BY DEF Init
<1>5. TypeOK
  BY <1>3, <1>4 DEF Init, TypeOK, AtRest, Line
<1>6. StateInv(c, ledger)
  <2>1. Places({}) = {} /\ Firsts(ledger, 0) = {}
    BY <1>4 DEF Places, Firsts, FirstLines
  <2>2. 0 \in 0..Len(ledger)
    BY <1>4
  <2> QED
    BY <1>1, <1>2, <2>1, <2>2, FS_EmptySet
       DEF StateInv, OneRowPerId, Located, Imaged
<1>7. calm = {}
  BY DEF Init
<1> QED
  BY <1>3, <1>5, <1>6, <1>7 DEF IInv

LEMMA AppendLineStep ==
  ASSUME IInv, NEW v \in Version \cup {Bad}, AppendLine(v)
  PROVE  IInv'
<1>1. ledger \in Seq(Line) /\ v \in Line /\ Len(ledger) \in Nat
  BY CurrentState DEF Line
<1>2. /\ ledger' = Append(ledger, v) /\ calm' = {}
      /\ UNCHANGED <<stable, commits, pc, scan, reset>>
  BY DEF AppendLine
<1>3. \A k \in 1..Len(commits) : StateInv(commits[k], ledger')
  BY <1>1, <1>2, LedgerGrows DEF IInv
<1>4. ledger' \in Seq(Version \cup {Bad}) /\ Len(ledger') = Len(ledger) + 1
  BY <1>1, <1>2, AppendProperties DEF Line
<1>5. TypeOK'
  BY <1>1, <1>2, <1>4 DEF IInv, TypeOK
<1> QED
  BY <1>2, <1>3, <1>5 DEF IInv

(* Steps that touch neither the ledger nor the index.                      *)
LEMMA ProcessStep ==
  ASSUME IInv, TypeOK', UNCHANGED <<ledger, commits>>, \A p \in calm' : CalmInv(p)'
  PROVE  IInv'
BY DEF IInv

(* Written by replay or by an index_records call.                          *)
LEMMA CommitStep ==
  ASSUME IInv, NEW items \in Seq(ItemType), NEW clear \in BOOLEAN, NEW byReplay \in BOOLEAN,
         \A k \in 1..Len(items) : items[k].line # NoLine =>
           items[k].line <= Len(ledger) /\ ledger[items[k].line] = items[k].ver,
         byReplay => \E n \in 0..Len(ledger) : items = Records(SubSeq(ledger, 1, n)),
         Commit(items, clear, byReplay), ledger' = ledger
  PROVE  /\ commits' \in Seq(IndexState) /\ commits' # <<>>
         /\ \A k \in 1..Len(commits') : StateInv(commits'[k], ledger')
         /\ calm' = {} \/ UNCHANGED <<commits, calm>>
<1>1. CASE UNCHANGED <<commits, calm>>
  BY <1>1 DEF IInv, TypeOK
<1>2. CASE ~(items = <<>> /\ ~clear)
  <2> DEFINE c == [rows    |-> Insert(Cleared(db.rows, clear), items),
                   cleared |-> clear,
                   loose   |-> (db.loose /\ ~clear) \/ (~byReplay /\ items # <<>>),
                   strayed |-> db.strayed /\ ~clear]
  <2>1. /\ ~Conflict(Cleared(db.rows, clear), items)
        /\ commits' = Append(commits, c) /\ calm' = {}
    BY <1>2 DEF Commit
  <2>2. ledger \in Seq(Line) /\ StateInv(db, ledger)
    BY CurrentState
  <2>3. StateInv(c, ledger)
    BY <2>1, <2>2, WrittenState
  <2> HIDE DEF c
  <2>4. c \in IndexState
    BY <2>3 DEF StateInv
  <2>5. commits \in Seq(IndexState)
    BY DEF IInv, TypeOK
  <2>6. /\ commits' \in Seq(IndexState) /\ commits' # <<>>
        /\ Len(commits') = Len(commits) + 1 /\ Len(commits) \in Nat
        /\ \A k \in 1..Len(commits) : commits'[k] = commits[k]
        /\ commits'[Len(commits) + 1] = c
    BY <2>1, <2>4, <2>5, AppendProperties, LenProperties
  <2>7. \A k \in 1..Len(commits') : StateInv(commits'[k], ledger)
    <3> SUFFICES ASSUME NEW k \in 1..Len(commits') PROVE StateInv(commits'[k], ledger)
      OBVIOUS
    <3>1. k \in 1..Len(commits) \/ k = Len(commits) + 1
      BY <2>6
    <3> QED
      BY <2>3, <2>6, <3>1 DEF IInv
  <2> QED
    BY <2>1, <2>6, <2>7
<1> QED
  BY <1>1, <1>2 DEF Commit

LEMMA WriteStep ==
  ASSUME IInv, NEW items \in Seq(ItemType), NEW clear \in BOOLEAN, NEW byReplay \in BOOLEAN,
         \A k \in 1..Len(items) : items[k].line # NoLine =>
           items[k].line <= Len(ledger) /\ ledger[items[k].line] = items[k].ver,
         byReplay => \E n \in 0..Len(ledger) : items = Records(SubSeq(ledger, 1, n)),
         Commit(items, clear, byReplay), UNCHANGED <<ledger, stable>>,
         pc' \in [Proc -> AtRest \cup {"observe", "write", "count", "digest", "miscounted"}],
         scan' \in [Proc -> 0..Len(ledger)], reset' \in [Proc -> BOOLEAN],
         \A p \in Proc : pc'[p] = "idle" \/ UNCHANGED <<pc[p], scan[p]>>
  PROVE  IInv'
<1>1. /\ commits' \in Seq(IndexState) /\ commits' # <<>>
      /\ \A k \in 1..Len(commits') : StateInv(commits'[k], ledger')
      /\ calm' = {} \/ UNCHANGED <<commits, calm>>
  BY CommitStep
<1>2. TypeOK'
  BY <1>1 DEF IInv, TypeOK
<1>3. \A p \in calm' : CalmInv(p)'
  <2> SUFFICES ASSUME NEW p \in calm, UNCHANGED <<commits, calm>> PROVE CalmInv(p)'
    BY <1>1
  <2>1. p \in Proc /\ CalmInv(p)
    BY DEF IInv, TypeOK
  <2> QED
    BY <2>1 DEF CalmInv, db
<1> QED
  BY <1>1, <1>2, <1>3 DEF IInv

LEMMA IndexEventsStep ==
  ASSUME IInv, NEW events \in Batches, NEW clear \in BOOLEAN, IndexEvents(events, clear)
  PROVE  IInv'
<1> DEFINE items == Items(events)
<1>1. events \in Seq(Version)
  BY VersionAssumption
<1>2. Len(events) \in Nat /\ items \in [1..Len(events) -> ItemType]
  BY <1>1, LenProperties, ElementOfSeq DEF Items, ItemType, NoLine
<1>3. items \in Seq(ItemType) /\ Len(items) = Len(events)
  <2> HIDE DEF items
  <2> QED
    BY <1>2, IsSequence
<1>4. \A k \in 1..Len(items) : items[k].line = NoLine
  BY <1>3 DEF Items
<1>5. /\ Commit(items, clear, FALSE)
      /\ UNCHANGED <<ledger, stable, pc, scan, reset>>
  BY DEF IndexEvents
<1> HIDE DEF items
<1> QED
  BY <1>3, <1>4, <1>5, WriteStep DEF IInv, TypeOK

LEMMA IndexRecordStep ==
  ASSUME IInv, NEW j \in 1..Len(ledger), IndexRecord(j)
  PROVE  IInv'
<1> DEFINE item == [ver |-> ledger[j], line |-> j]
           items == <<item>>
<1>1. ledger[j] \in Line /\ ledger[j] # Bad /\ Len(ledger) \in Nat
  BY CurrentState, ElementOfSeq DEF IndexRecord
<1>2. item \in ItemType
  BY <1>1 DEF Line, ItemType
<1>3. /\ Commit(items, FALSE, FALSE)
      /\ UNCHANGED <<ledger, stable, pc, scan, reset>>
  BY DEF IndexRecord
<1>4. item.line <= Len(ledger) /\ ledger[item.line] = item.ver
  BY <1>1
<1> HIDE DEF item
<1>5. items \in Seq(ItemType) /\ Len(items) = 1 /\ items[1] = item
  BY <1>2
<1>6. \A k \in 1..Len(items) : items[k] = item
  BY <1>5
<1> HIDE DEF items
<1> QED
  BY <1>3, <1>4, <1>5, <1>6, WriteStep DEF IInv, TypeOK

(* What a process's scan yields leads back to its lines.                   *)
LEMMA ScannedIs ==
  ASSUME IInv, NEW p \in Proc
  PROVE  /\ scan[p] \in 0..Len(ledger)
         /\ Scanned(p) = Records(SubSeq(ledger, 1, scan[p]))
         /\ Scanned(p) \in Seq(ItemType) /\ Len(Scanned(p)) \in Nat
         /\ {Scanned(p)[k] : k \in 1..Len(Scanned(p))} = Firsts(ledger, scan[p])
         /\ \A k \in 1..Len(Scanned(p)) :
              /\ Scanned(p)[k].line <= Len(ledger)
              /\ ledger[Scanned(p)[k].line] = Scanned(p)[k].ver
<1>1. scan[p] \in 0..Len(ledger) /\ ledger \in Seq(Line) /\ Len(ledger) \in Nat
  BY CurrentState DEF IInv, TypeOK
<1>2. Scanned(p) = Records(SubSeq(ledger, 1, scan[p]))
  BY DEF Scanned
<1>3. /\ Scanned(p) \in Seq(ItemType) /\ Len(Scanned(p)) \in Nat
      /\ {Scanned(p)[k] : k \in 1..Len(Scanned(p))} = Firsts(ledger, scan[p])
  BY <1>1, <1>2, ScanIs DEF ItemType
<1>4. \A k \in 1..Len(Scanned(p)) : Scanned(p)[k] \in Firsts(ledger, scan[p])
  BY <1>3
<1>5. \A x \in Firsts(ledger, scan[p]) : x.line <= Len(ledger) /\ ledger[x.line] = x.ver
  <2>1. \A x \in Firsts(ledger, scan[p]) : x.line \in 1..scan[p] /\ x.ver = ledger[x.line]
    BY <1>1, FirstsAre
  <2> QED
    BY <1>1, <2>1
<1> QED
  BY <1>1, <1>2, <1>3, <1>4, <1>5

LEMMA ReplayWriteStep ==
  ASSUME IInv, NEW p \in Proc, ReplayWrite(p)
  PROVE  IInv'
<1>1. /\ Commit(Scanned(p), reset[p], TRUE) /\ UNCHANGED <<ledger, stable>>
      /\ pc' = [pc EXCEPT ![p] = "idle"] /\ scan' = [scan EXCEPT ![p] = 0]
      /\ reset' = [reset EXCEPT ![p] = FALSE]
  BY DEF ReplayWrite, Done
<1>2. /\ pc' \in [Proc -> AtRest \cup {"observe", "write", "count", "digest", "miscounted"}]
      /\ scan' \in [Proc -> 0..Len(ledger)] /\ reset' \in [Proc -> BOOLEAN]
      /\ \A q \in Proc : pc'[q] = "idle" \/ UNCHANGED <<pc[q], scan[q]>>
      /\ reset[p] \in BOOLEAN
  BY <1>1, CurrentState DEF IInv, TypeOK, AtRest
<1>3. /\ Scanned(p) \in Seq(ItemType)
      /\ \A k \in 1..Len(Scanned(p)) :
           /\ Scanned(p)[k].line <= Len(ledger)
           /\ ledger[Scanned(p)[k].line] = Scanned(p)[k].ver
      /\ \E n \in 0..Len(ledger) : Scanned(p) = Records(SubSeq(ledger, 1, n))
  BY ScannedIs
<1> DEFINE items == Scanned(p)
<1>4. items \in Seq(ItemType) /\ Commit(items, reset[p], TRUE)
  BY Zenon, <1>1, <1>3
<1>5. \A k \in 1..Len(items) : items[k].line # NoLine =>
        items[k].line <= Len(ledger) /\ ledger[items[k].line] = items[k].ver
  BY Zenon, <1>3
<1>6. \E n \in 0..Len(ledger) : items = Records(SubSeq(ledger, 1, n))
  BY Zenon, <1>3
<1> HIDE DEF items
<1>7. UNCHANGED <<ledger, stable>>
  BY <1>1
<1> QED
  BY Zenon, <1>2, <1>4, <1>5, <1>6, <1>7, WriteStep

LEMMA ReplayStep ==
  ASSUME IInv, NEW p \in Proc,
         \/ \E clear \in BOOLEAN : ReplayScan(p, clear)
         \/ ObserveAll(p) \/ ReplayRollback(p)
  PROVE  IInv'
<1>1. Len(ledger) \in Nat /\ TypeOK
  BY CurrentState DEF IInv
<1>2. /\ UNCHANGED <<ledger, stable, commits, calm>>
      /\ \A q \in Proc : q # p => UNCHANGED <<pc[q], scan[q]>>
      /\ pc'[p] \in {"observe", "write", "raised", "idle"}
      /\ TypeOK'
  <2>1. ASSUME NEW clear \in BOOLEAN, ReplayScan(p, clear) PROVE <1>2
    BY <1>1, <2>1 DEF ReplayScan, TypeOK, AtRest
  <2>2. CASE ObserveAll(p) /\ pc' = [pc EXCEPT ![p] = "write"] /\ UNCHANGED <<scan, reset>>
    BY <1>1, <2>2 DEF ObserveAll, TypeOK, AtRest
  <2>3. CASE ObserveAll(p) /\ Done(p, "raised")
    BY <1>1, <2>3 DEF ObserveAll, Done, TypeOK, AtRest
  <2>4. CASE ReplayRollback(p)
    BY <1>1, <2>4 DEF ReplayRollback, Done, TypeOK, AtRest
  <2>5. ObserveAll(p) => \/ Done(p, "raised")
                         \/ pc' = [pc EXCEPT ![p] = "write"] /\ UNCHANGED <<scan, reset>>
    BY DEF ObserveAll
  <2> QED
    BY <2>1, <2>2, <2>3, <2>4, <2>5
<1>3. \A q \in calm : CalmInv(q)'
  <2> SUFFICES ASSUME NEW q \in calm PROVE CalmInv(q)'
    OBVIOUS
  <2>1. q \in Proc /\ CalmInv(q)
    BY DEF IInv, TypeOK
  <2>2. CASE q = p
    BY <1>2, <2>2 DEF CalmInv
  <2>3. CASE q # p
    BY <1>2, <2>1, <2>3 DEF CalmInv, db
  <2> QED
    BY <2>2, <2>3
<1> QED
  BY <1>2, <1>3, ProcessStep

LEMMA VerifyScanStep ==
  ASSUME IInv, NEW p \in Proc, VerifyScan(p)
  PROVE  IInv'
<1>1. /\ Len(ledger) \in Nat /\ ledger \in Seq(Line) /\ TypeOK
      /\ UNCHANGED <<ledger, stable, commits, reset>>
      /\ scan' = [scan EXCEPT ![p] = Len(ledger)]
      /\ pc' = [pc EXCEPT ![p] = "count"]
      /\ calm' = IF InStep(db.rows, Records(ledger)) THEN calm \cup {p} ELSE calm \ {p}
  BY CurrentState DEF IInv, VerifyScan
<1>2. TypeOK'
  BY <1>1 DEF TypeOK
<1>3. \A q \in calm' : CalmInv(q)'
  <2> SUFFICES ASSUME NEW q \in calm' PROVE CalmInv(q)'
    OBVIOUS
  <2>1. CASE q = p
    <3>1. InStep(db.rows, Records(ledger))
      BY <1>1, <2>1
    <3>2. Places(db.rows) = Firsts(ledger, Len(ledger))
      BY <1>1, <3>1, RecordsAre DEF InStep, Places
    <3>3. pc'[p] = "count" /\ scan'[p] = Len(ledger)
      BY <1>1 DEF TypeOK
    <3> QED
      BY <1>1, <2>1, <3>2, <3>3 DEF CalmInv, db
  <2>2. CASE q # p
    <3>1. q \in Proc /\ CalmInv(q) /\ UNCHANGED <<pc[q], scan[q]>>
      BY <1>1, <2>2 DEF IInv, TypeOK
    <3> QED
      BY <1>1, <3>1 DEF CalmInv, db
  <2> QED
    BY <2>1, <2>2
<1> QED
  BY <1>1, <1>2, <1>3, ProcessStep

(* An index equal to a process's scan has its count and its digest.        *)
LEMMA ScanAgrees ==
  ASSUME IInv, NEW p \in Proc, Places(db.rows) = Firsts(ledger, scan[p])
  PROVE  /\ Cardinality(db.rows) = Len(Scanned(p))
         /\ Digest(db.rows) = Versions(Scanned(p))
<1> DEFINE g == SubSeq(ledger, 1, scan[p])
<1>1. scan[p] \in 0..Len(ledger) /\ ledger \in Seq(Line) /\ Len(ledger) \in Nat
  BY CurrentState, ScannedIs
<1>2. g \in Seq(Line) /\ Len(g) = scan[p] /\ \A j \in 1..scan[p] : g[j] = ledger[j]
  BY <1>1, PrefixOfLedger
<1>3. Scanned(p) = Records(g)
  BY DEF Scanned
<1> HIDE DEF g
<1>4. Firsts(ledger, scan[p]) = Firsts(g, Len(g))
  BY <1>1, <1>2, FirstsOfPrefix
<1>5. db.rows \in SUBSET Row /\ IsFiniteSet(db.rows) /\ OneRowPerId(db.rows)
  BY CurrentState DEF StateInv, IndexState
<1> QED
  BY <1>2, <1>3, <1>4, <1>5, ImageDigest

LEMMA VerifyCountStep ==
  ASSUME IInv, NEW p \in Proc, VerifyCount(p)
  PROVE  IInv'
<1>1. /\ pc[p] = "count" /\ TypeOK
      /\ UNCHANGED <<ledger, stable, commits, scan, reset, calm>>
      /\ pc' = [pc EXCEPT ![p] =
           IF Cardinality(db.rows) = Len(Scanned(p)) THEN "digest" ELSE "miscounted"]
  BY DEF IInv, VerifyCount
<1>2. TypeOK'
  BY <1>1 DEF TypeOK
<1>3. \A q \in calm' : CalmInv(q)'
  <2> SUFFICES ASSUME NEW q \in calm PROVE CalmInv(q)'
    BY <1>1
  <2>1. q \in Proc /\ CalmInv(q)
    BY DEF IInv, TypeOK
  <2>2. CASE q = p
    <3>1. Places(db.rows) = Firsts(ledger, scan[p])
      BY <1>1, <2>1, <2>2 DEF CalmInv
    <3>2. pc'[p] = "digest"
      BY <1>1, <3>1, ScanAgrees DEF TypeOK
    <3> QED
      BY <1>1, <2>2, <3>1, <3>2 DEF CalmInv, db
  <2>3. CASE q # p
    BY <1>1, <2>1, <2>3 DEF CalmInv, db, TypeOK
  <2> QED
    BY <2>2, <2>3
<1> QED
  BY <1>1, <1>2, <1>3, ProcessStep

LEMMA VerifyDigestStep ==
  ASSUME IInv, NEW p \in Proc, VerifyDigest(p)
  PROVE  IInv'
<1> DEFINE outcome == IF pc[p] = "digest" /\ Digest(db.rows) = Versions(Scanned(p))
                      THEN "idle" ELSE "mismatch"
<1>1. /\ pc[p] \in {"digest", "miscounted"} /\ TypeOK /\ Len(ledger) \in Nat
      /\ UNCHANGED <<ledger, stable, commits, calm>>
      /\ pc' = [pc EXCEPT ![p] = outcome]
      /\ scan' = [scan EXCEPT ![p] = 0]
      /\ reset' = [reset EXCEPT ![p] = FALSE]
  BY CurrentState DEF IInv, VerifyDigest, Done
<1>2. outcome \in {"idle", "mismatch"}
  OBVIOUS
<1>3. TypeOK'
  <2> HIDE DEF outcome
  <2> QED
    BY <1>1, <1>2 DEF TypeOK, AtRest
<1>4. \A q \in calm' : CalmInv(q)'
  <2> SUFFICES ASSUME NEW q \in calm PROVE CalmInv(q)'
    BY <1>1
  <2>1. q \in Proc /\ CalmInv(q)
    BY DEF IInv, TypeOK
  <2>2. CASE q = p
    <3>1. pc[p] = "digest" /\ Places(db.rows) = Firsts(ledger, scan[p])
      BY <1>1, <2>1, <2>2 DEF CalmInv
    <3>2. outcome = "idle"
      BY <3>1, ScanAgrees
    <3>3. pc'[p] = "idle"
      BY <1>1, <3>2 DEF TypeOK
    <3> QED
      BY <2>2, <3>3 DEF CalmInv
  <2>3. CASE q # p
    <3>1. pc'[q] = pc[q] /\ scan'[q] = scan[q]
      BY <1>1, <2>1, <2>3 DEF TypeOK
    <3> QED
      BY <1>1, <2>1, <3>1 DEF CalmInv, db
  <2> QED
    BY <2>2, <2>3
<1> QED
  BY <1>1, <1>3, <1>4, ProcessStep

LEMMA SyncLedgerStep ==
  ASSUME IInv, SyncLedger
  PROVE  IInv'
<1>1. Len(ledger) \in Nat /\ stable' = Len(ledger)
      /\ UNCHANGED <<ledger, commits, pc, scan, reset, calm>>
  BY CurrentState DEF SyncLedger
<1>2. TypeOK'
  BY <1>1 DEF IInv, TypeOK
<1>3. \A q \in calm' : CalmInv(q)'
  BY <1>1 DEF IInv, CalmInv, db
<1> QED
  BY <1>1, <1>2, <1>3, ProcessStep

LEMMA CheckpointStep ==
  ASSUME IInv, Checkpoint
  PROVE  IInv'
<1>1. commits' = <<db>> /\ UNCHANGED <<ledger, stable, pc, scan, reset, calm>>
  BY DEF Checkpoint
<1>2. StateInv(db, ledger) /\ db \in IndexState
  BY CurrentState DEF StateInv
<1>3. /\ commits' \in Seq(IndexState) /\ commits' # <<>>
      /\ Len(commits') = 1 /\ commits'[1] = db
  BY <1>1, <1>2
<1>4. db' = db
  BY <1>3 DEF db
<1>5. TypeOK'
  BY <1>1, <1>3 DEF IInv, TypeOK
<1>6. \A q \in calm' : CalmInv(q)'
  BY <1>1, <1>4 DEF IInv, CalmInv
<1> QED
  BY <1>1, <1>2, <1>3, <1>5, <1>6 DEF IInv

LEMMA PowerLossStep ==
  ASSUME IInv, PowerLoss
  PROVE  IInv'
<1>1. /\ ledger \in Seq(Line) /\ Len(ledger) \in Nat /\ stable \in 0..Len(ledger)
  BY CurrentState DEF IInv, TypeOK
<1>2. PICK n \in stable..Len(ledger), k \in 1..Len(commits) :
        /\ ledger' = SubSeq(ledger, 1, n)
        /\ stable' = n
        /\ commits' = <<[commits[k] EXCEPT
             !.strayed = @ \/ \E r \in commits[k].rows : r.line > n]>>
  BY DEF PowerLoss
<1> DEFINE c == [commits[k] EXCEPT !.strayed = @ \/ \E r \in commits[k].rows : r.line > n]
<1>3. n \in 0..Len(ledger) /\ n \in Nat
  BY <1>1
<1>4. StateInv(commits[k], ledger)
  BY DEF IInv
<1>5. StateInv(c, SubSeq(ledger, 1, n))
  BY <1>1, <1>3, <1>4, LedgerShrinks
<1>6. commits' = <<c>>
  BY <1>2
<1> HIDE DEF c
<1>7. c \in IndexState
  BY <1>5 DEF StateInv
<1>8. /\ commits' \in Seq(IndexState) /\ commits' # <<>>
      /\ Len(commits') = 1 /\ commits'[1] = c
  BY <1>6, <1>7
<1>9. ledger' \in Seq(Line) /\ Len(ledger') = n
  BY <1>1, <1>2, <1>3, PrefixOfLedger
<1>10. /\ pc' = [p \in Proc |-> "idle"] /\ scan' = [p \in Proc |-> 0]
       /\ reset' = [p \in Proc |-> FALSE] /\ calm' = {}
  BY DEF PowerLoss
<1>11. TypeOK'
  BY <1>2, <1>3, <1>8, <1>9, <1>10 DEF TypeOK, AtRest, Line
<1>12. \A i \in 1..Len(commits') : StateInv(commits'[i], ledger')
  <2>1. StateInv(commits'[1], ledger')
    BY <1>2, <1>5, <1>8
  <2>2. \A i \in 1..Len(commits') : i = 1
    BY <1>8
  <2> QED
    BY <2>1, <2>2
<1> QED
  BY <1>10, <1>11, <1>12 DEF IInv

LEMMA Stutter ==
  ASSUME IInv, UNCHANGED vars
  PROVE  IInv'
BY DEF IInv, TypeOK, StateInv, CalmInv, db, vars, OneRowPerId, Located, Imaged

LEMMA StepHolds == IInv /\ [Next]_vars => IInv'
<1> SUFFICES ASSUME IInv, [Next]_vars PROVE IInv'
  OBVIOUS
<1>1. CASE UNCHANGED vars
  BY <1>1, Stutter
<1>2. ASSUME NEW v \in Version \cup {Bad}, AppendLine(v) PROVE IInv'
  BY <1>2, AppendLineStep
<1>3. CASE SyncLedger
  BY <1>3, SyncLedgerStep
<1>4. ASSUME NEW events \in Batches, NEW clear \in BOOLEAN, IndexEvents(events, clear)
      PROVE  IInv'
  BY <1>4, IndexEventsStep
<1>5. ASSUME NEW j \in 1..Len(ledger), IndexRecord(j) PROVE IInv'
  BY <1>5, IndexRecordStep
<1>6. ASSUME NEW p \in Proc,
             \/ \E clear \in BOOLEAN : ReplayScan(p, clear)
             \/ ObserveAll(p) \/ ReplayRollback(p)
      PROVE  IInv'
  BY <1>6, ReplayStep
<1>7. ASSUME NEW p \in Proc, ReplayWrite(p) PROVE IInv'
  BY <1>7, ReplayWriteStep
<1>8. ASSUME NEW p \in Proc, VerifyScan(p) PROVE IInv'
  BY <1>8, VerifyScanStep
<1>9. ASSUME NEW p \in Proc, VerifyCount(p) PROVE IInv'
  BY <1>9, VerifyCountStep
<1>10. ASSUME NEW p \in Proc, VerifyDigest(p) PROVE IInv'
  BY <1>10, VerifyDigestStep
<1>11. CASE Checkpoint
  BY <1>11, CheckpointStep
<1>12. CASE PowerLoss
  BY <1>12, PowerLossStep
<1> QED
  BY <1>1, <1>2, <1>3, <1>4, <1>5, <1>6, <1>7, <1>8, <1>9, <1>10, <1>11, <1>12 DEF Next

LEMMA Invariance == Spec => []IInv
<1> QED
  BY InitHolds, StepHolds, PTL DEF Spec

-----------------------------------------------------------------------------
(* Replay, index_records with the record an append returned and            *)
(* index_events, in any number of processes: no row's ledger_line ever     *)
(* names a line that holds another event, whatever was appended, replayed, *)
(* rolled back or lost since, unless a power loss took the line itself and *)
(* no rebuild followed (index.py: index_records; ledger.py: scan_ledger).  *)
THEOREM RowsAlwaysLocate == Spec => []RowsLocate
<1>1. IInv => RowsLocate
  <2> SUFFICES ASSUME IInv PROVE RowsLocate
    OBVIOUS
  <2>1. TypeOK /\ Located(db, ledger)
    BY CurrentState DEF IInv, StateInv
  <2> QED
    BY <2>1 DEF RowsLocate, Located
<1> QED
  BY Invariance, <1>1, PTL

(* An index that only replays wrote has the content and the digest that a  *)
(* replay of some prefix of the ledger has, although replays of different  *)
(* ages overlap, one with reset_index clears what another inserted, and    *)
(* each inserts only what its own scan saw (replay.py: replay;             *)
(* index.py: rebuild, index_records, digest).                              *)
THEOREM IndexImagesPrefix == Spec => []IndexIsPrefix
<1>1. IInv => IndexIsPrefix
  <2> SUFFICES ASSUME IInv, ~db.loose, ~db.strayed
               PROVE  \E n \in 0..Len(ledger) :
                        /\ Digest(db.rows) = Versions(Records(SubSeq(ledger, 1, n)))
                        /\ InStep(db.rows, Records(SubSeq(ledger, 1, n)))
    BY DEF IndexIsPrefix
  <2>1. /\ ledger \in Seq(Line) /\ Len(ledger) \in Nat
        /\ db.rows \in SUBSET Row /\ IsFiniteSet(db.rows) /\ OneRowPerId(db.rows)
        /\ Imaged(db, ledger)
    BY CurrentState DEF StateInv, IndexState
  <2>2. PICK n \in 0..Len(ledger) : Places(db.rows) = Firsts(ledger, n)
    BY <2>1 DEF Imaged
  <2> DEFINE g == SubSeq(ledger, 1, n)
  <2>3. g \in Seq(Line) /\ Len(g) = n /\ \A j \in 1..n : g[j] = ledger[j]
    BY <2>1, PrefixOfLedger
  <2> HIDE DEF g
  <2>4. Firsts(ledger, n) = Firsts(g, Len(g))
    BY <2>1, <2>3, FirstsOfPrefix
  <2>5. InStep(db.rows, Records(g)) /\ Digest(db.rows) = Versions(Records(g))
    BY <2>1, <2>2, <2>3, <2>4, ImageDigest
  <2> QED
    BY <2>5 DEF g
<1> QED
  BY Invariance, <1>1, PTL

(* verify_against_ledger, which scans, counts and hashes in three separate *)
(* reads, reports no mismatch over an index that equalled the scan and     *)
(* that nothing has written since (replay.py: verify_against_ledger).      *)
THEOREM AlarmsAreReal == Spec => []NoFalseAlarm
<1>1. IInv => NoFalseAlarm
  BY DEF IInv, CalmInv, NoFalseAlarm
<1> QED
  BY Invariance, <1>1, PTL

(* The steps that write the index are transactions.                        *)
LEMMA WritesAre ==
  ASSUME IInv, Next, Len(commits') > Len(commits)
  PROVE  \E items \in Seq(ItemType), clear \in BOOLEAN :
           /\ ~Conflict(Cleared(db.rows, clear), items)
           /\ db'.rows = Insert(Cleared(db.rows, clear), items)
           /\ db'.cleared = clear
           /\ \A p \in Proc : \/ pc'[p] = pc[p]
                              \/ ReplayWrite(p) /\ items = Scanned(p)
<1>1. ASSUME NEW items \in Seq(ItemType), NEW clear \in BOOLEAN,
             NEW byReplay \in BOOLEAN, Commit(items, clear, byReplay)
      PROVE  /\ ~Conflict(Cleared(db.rows, clear), items)
             /\ db'.rows = Insert(Cleared(db.rows, clear), items)
             /\ db'.cleared = clear
  <2> DEFINE c == [rows    |-> Insert(Cleared(db.rows, clear), items),
                   cleared |-> clear,
                   loose   |-> (db.loose /\ ~clear) \/ (~byReplay /\ items # <<>>),
                   strayed |-> db.strayed /\ ~clear]
  <2>1. commits \in Seq(IndexState) /\ Len(commits) \in Nat
    BY CurrentState DEF IInv, TypeOK
  <2>2. commits' # commits
    BY <2>1
  <2>3. ~Conflict(Cleared(db.rows, clear), items) /\ commits' = Append(commits, c)
    BY <1>1, <2>2 DEF Commit
  <2>4. c.rows = Insert(Cleared(db.rows, clear), items) /\ c.cleared = clear
    OBVIOUS
  <2> HIDE DEF c
  <2>5. Len(commits') = Len(commits) + 1 /\ commits'[Len(commits) + 1] = c
    BY <2>1, <2>3
  <2> QED
    BY <2>3, <2>4, <2>5 DEF db
<1>2. ASSUME NEW events \in Batches, NEW clear \in BOOLEAN, IndexEvents(events, clear)
      PROVE  \E items \in Seq(ItemType) : Commit(items, clear, FALSE) /\ pc' = pc
  <2>1. events \in Seq(Version)
    BY VersionAssumption
  <2>2. Len(events) \in Nat /\ Items(events) \in [1..Len(events) -> ItemType]
    BY <2>1, LenProperties, ElementOfSeq DEF Items, ItemType, NoLine
  <2>3. Items(events) \in Seq(ItemType)
    BY <2>2, IsSequence
  <2> QED
    BY <1>2, <2>3 DEF IndexEvents
<1>3. ASSUME NEW j \in 1..Len(ledger), IndexRecord(j)
      PROVE  \E items \in Seq(ItemType) : Commit(items, FALSE, FALSE) /\ pc' = pc
  <2>1. ledger[j] \in Line /\ ledger[j] # Bad /\ Len(ledger) \in Nat
    BY <1>3, CurrentState, ElementOfSeq DEF IndexRecord
  <2>2. [ver |-> ledger[j], line |-> j] \in ItemType
    BY <2>1 DEF Line, ItemType
  <2>3. <<[ver |-> ledger[j], line |-> j]>> \in Seq(ItemType)
    BY <2>2
  <2> QED
    BY <1>3, <2>3 DEF IndexRecord
<1>4. ASSUME NEW p \in Proc, ReplayWrite(p)
      PROVE  /\ Scanned(p) \in Seq(ItemType) /\ reset[p] \in BOOLEAN
             /\ Commit(Scanned(p), reset[p], TRUE)
             /\ \A q \in Proc : q # p => pc'[q] = pc[q]
  BY <1>4, ScannedIs DEF IInv, TypeOK, ReplayWrite, Done
<1>5. \/ \E events \in Batches, clear \in BOOLEAN : IndexEvents(events, clear)
      \/ \E j \in 1..Len(ledger) : IndexRecord(j)
      \/ \E p \in Proc : ReplayWrite(p)
  <2>1. commits' # commits /\ Len(commits) \in Nat /\ Len(commits) > 0
    BY CurrentState
  <2>2. ~(\E v \in Version \cup {Bad} : AppendLine(v)) /\ ~SyncLedger
    BY <2>1 DEF AppendLine, SyncLedger
  <2>3. ~Checkpoint /\ ~PowerLoss
    <3>1. ~(\E c : commits' = <<c>>)
      BY <2>1
    <3>2. Checkpoint => \E c : commits' = <<c>>
      BY DEF Checkpoint
    <3>3. ASSUME PowerLoss PROVE \E c : commits' = <<c>>
      <4>1. PICK k \in 1..Len(commits), n \in stable..Len(ledger) :
              commits' = <<[commits[k] EXCEPT
                !.strayed = @ \/ \E r \in commits[k].rows : r.line > n]>>
        BY <3>3 DEF PowerLoss
      <4> QED
        BY <4>1
    <3> QED
      BY <3>1, <3>2, <3>3
  <2>4. ASSUME NEW p \in Proc
        PROVE  /\ ~(\E clear \in BOOLEAN : ReplayScan(p, clear))
               /\ ~ObserveAll(p) /\ ~ReplayRollback(p)
               /\ ~VerifyScan(p) /\ ~VerifyCount(p) /\ ~VerifyDigest(p)
    BY <2>1 DEF ReplayScan, ObserveAll, ReplayRollback, VerifyScan, VerifyCount, VerifyDigest
  <2> QED
    BY <2>2, <2>3, <2>4 DEF Next
<1> QED
  <2>1. CASE \E events \in Batches, clear \in BOOLEAN : IndexEvents(events, clear)
    <3>1. PICK clear \in BOOLEAN, items \in Seq(ItemType) :
                 Commit(items, clear, FALSE) /\ pc' = pc
      BY <1>2, <2>1
    <3> QED
      BY <1>1, <3>1
  <2>2. CASE \E j \in 1..Len(ledger) : IndexRecord(j)
    <3>1. PICK items \in Seq(ItemType) : Commit(items, FALSE, FALSE) /\ pc' = pc
      BY <1>3, <2>2
    <3> QED
      BY <1>1, <3>1
  <2>3. CASE \E p \in Proc : ReplayWrite(p)
    <3>1. PICK p \in Proc : ReplayWrite(p)
      BY <2>3
    <3> QED
      BY <1>1, <1>4, <3>1
  <2> QED
    BY <1>5, <2>1, <2>2, <2>3

(* A replay that returns has put every event of its scan in the index with *)
(* the content the scan read: ON CONFLICT DO NOTHING never keeps another   *)
(* version in its place (replay.py: replay; index.py: rebuild,             *)
(* index_records, _reject_conflicts).                                      *)
THEOREM ReplaysAreWhole == Spec => BatchIsWhole
<1> DEFINE Whole == \A p \in Proc :
             pc[p] = "write" /\ Len(commits') > Len(commits) /\ pc'[p] = "idle" =>
               \A k \in 1..Len(Scanned(p)) : \E r \in db'.rows : r.ver = Scanned(p)[k].ver
<1>1. IInv /\ [Next]_vars => [Whole]_vars
  <2> SUFFICES ASSUME IInv, Next, NEW p \in Proc,
                      pc[p] = "write", Len(commits') > Len(commits), pc'[p] = "idle",
                      NEW k \in 1..Len(Scanned(p))
               PROVE  \E r \in db'.rows : r.ver = Scanned(p)[k].ver
    OBVIOUS
  <2>1. PICK items \in Seq(ItemType), clear \in BOOLEAN :
          /\ ~Conflict(Cleared(db.rows, clear), items)
          /\ db'.rows = Insert(Cleared(db.rows, clear), items)
          /\ items = Scanned(p)
    <3>1. PICK items \in Seq(ItemType), clear \in BOOLEAN :
            /\ ~Conflict(Cleared(db.rows, clear), items)
            /\ db'.rows = Insert(Cleared(db.rows, clear), items)
            /\ \A q \in Proc : \/ pc'[q] = pc[q]
                               \/ ReplayWrite(q) /\ items = Scanned(q)
      BY WritesAre
    <3>2. items = Scanned(p)
      BY <3>1
    <3> QED
      BY <3>1, <3>2
  <2>2. db.rows \in SUBSET Row /\ IsFiniteSet(db.rows) /\ OneRowPerId(db.rows)
    BY CurrentState DEF StateInv, IndexState
  <2>3. /\ Cleared(db.rows, clear) \in SUBSET Row /\ IsFiniteSet(Cleared(db.rows, clear))
        /\ OneRowPerId(Cleared(db.rows, clear))
    BY <2>2, FS_EmptySet DEF Cleared, OneRowPerId
  <2> QED
    BY <2>1, <2>3, InsertIs
<1> QED
  BY Invariance, <1>1, PTL DEF Spec, BatchIsWhole
=============================================================================
