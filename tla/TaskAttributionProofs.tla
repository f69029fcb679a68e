----------------------- MODULE TaskAttributionProofs -----------------------
(***************************************************************************)
(* When CERTAIN is right: for any process numbers, any machine and any     *)
(* recording of it, of any length and whatever was lost, the engine calls  *)
(* nothing a process or a file of the task that is not one, but for what   *)
(* descends from a process that started in the root's clock tick and for a *)
(* container's process that it took for another one.                       *)
(*                                                                         *)
(* The engine is a function of the recording, so the inductive invariant   *)
(* (Recorded) is only about the machine and its log: events tell the truth *)
(* as far as they go.  The rest is about the engine's operators in one     *)
(* state, and their recursions are followed by induction over Nat, in the  *)
(* form of a set of numbers that holds 0 and, with a number, the next.     *)
(***************************************************************************)
EXTENDS TaskAttribution, FiniteSetTheorems, SequenceTheorems, TLAPS

-----------------------------------------------------------------------------
(* Induction, and the equations of functions defined by recursion.         *)
LEMMA Least ==
  ASSUME NEW S \in SUBSET Nat, S # {}
  PROVE  \E x \in S : \A y \in S : x <= y
<1> DEFINE R == OpToRel(<, Nat)
<1>1. IsWellFoundedOn(R, Nat)
  BY NatLessThanWellFounded
<1> HIDE DEF R
<1>2. PICK x \in S : \A y \in S : <<y, x>> \notin R
  BY <1>1, WFMin
<1>3. \A y \in S : ~(y < x)
  BY <1>2 DEF R, OpToRel
<1> QED
  BY <1>3

LEMMA Induction ==
  ASSUME NEW T, 0 \in T, \A n \in Nat : n \in T => n + 1 \in T
  PROVE  \A n \in Nat : n \in T
<1> SUFFICES ASSUME Nat \ T # {} PROVE FALSE
  OBVIOUS
<1>1. PICK m \in Nat \ T : \A y \in Nat \ T : m <= y
  BY Least
<1>2. m # 0 /\ m - 1 \in Nat
  OBVIOUS
<1>3. m - 1 \in T
  BY <1>1, <1>2
<1> QED
  BY <1>2, <1>3

(* An image of a finite set is finite.                                     *)
LEMMA ImageFinite ==
  ASSUME NEW S, IsFiniteSet(S), NEW f
  PROVE  IsFiniteSet({f[x] : x \in S})
<1> DEFINE T == {f[x] : x \in S}
           g == [x \in S |-> f[x]]
<1>1. g \in Surjection(S, T)
  BY DEF Surjection
<1> QED
  BY <1>1, FS_Surjection

(* A sequence with one more element, or with one changed.                  *)
LEMMA Appended ==
  ASSUME NEW S, NEW s \in Seq(S), NEW x, NEW T, S \subseteq T, x \in T
  PROVE  /\ Append(s, x) \in Seq(T)
         /\ Len(s) \in Nat /\ Len(Append(s, x)) = Len(s) + 1
         /\ \A i \in 1 .. Len(s) : Append(s, x)[i] = s[i]
         /\ Append(s, x)[Len(s) + 1] = x
<1>1. s \in Seq(T)
  BY SeqMonotonic
<1> QED
  BY <1>1, AppendProperties, LenProperties

-----------------------------------------------------------------------------
(* The machine and the recorder.                                           *)

Process == [pid : Pids, parent : 0 .. MaxProcs, tick : Nat, alive : BOOLEAN]

(* Processes are numbered in the order of birth, and no two that live have *)
(* one process number.                                                     *)
LifeInv ==
  /\ life \in Seq(Process)
  /\ Len(life) >= 1
  /\ \A p \in 1 .. Len(life) : life[p].parent < p
  /\ \A p, q \in 1 .. Len(life) :
       life[p].alive /\ life[q].alive /\ life[p].pid = life[q].pid => p = q

(* An event of process `who` names its process number and, if any, its     *)
(* start time.                                                             *)
OfItsProcess(e) ==
  /\ e.who \in 1 .. Len(life)
  /\ e.pid = life[e.who].pid
  /\ e.start \in {None, e.who}

(* A fork event names the two processes, and is told by one of them.       *)
OfItsFork(e) ==
  LET parent == life[e.kid].parent
  IN  /\ e.kid \in 1 .. Len(life)
      /\ parent \in 1 .. Len(life)
      /\ e.ppid = life[parent].pid /\ e.cpid = life[e.kid].pid
      /\ e.ppid # e.cpid
      /\ e.cstart \in {None, e.kid}
      /\ e.who = parent \/ (e.who = e.kid)

Truthful(e) ==
  /\ e.type \in {"process.fork", "file.write"}
  /\ OfItsProcess(e)
  /\ e.type = "process.fork" => OfItsFork(e)

Recorded ==
  /\ LifeInv
  /\ root \in 0 .. Len(life)
  /\ began \in 0 .. Len(log)
  /\ log \in Seq(Range(log))
  /\ setup \in Setups
  /\ \A e \in Range(log) : Truthful(e)

LEMMA InitRecorded == Init => Recorded
<1> SUFFICES ASSUME Init PROVE Recorded
  OBVIOUS
<1>1. Min(Pids) \in Pids
  BY Least, TaskAssumption DEF Min
<1>2. life \in Seq(Process)
  BY <1>1, TaskAssumption DEF Init, Process
<1>3. Len(life) = 1 /\ life[1].parent = 0
  BY DEF Init
<1>4. Len(log) = 0 /\ log \in Seq(Range(log)) /\ Range(log) = {}
  BY DEF Init, Range
<1> QED
  BY <1>2, <1>3, <1>4 DEF Init, Recorded, LifeInv

(* What was true of the old processes stays true: nobody changes the       *)
(* number or the parent of a process.                                      *)
LEMMA TruthStays ==
  ASSUME NEW e, Truthful(e), LifeInv, Len(life) \in Nat, Len(life') \in Nat,
         Len(life) <= Len(life'),
         \A p \in 1 .. Len(life) : /\ life'[p].pid = life[p].pid
                                   /\ life'[p].parent = life[p].parent
  PROVE  Truthful(e)'
<1>1. OfItsProcess(e)'
  BY DEF Truthful, OfItsProcess
<1>2. ASSUME e.type = "process.fork" PROVE OfItsFork(e)'
  <2>1. OfItsFork(e)
    BY <1>2 DEF Truthful
  <2> QED
    BY <2>1 DEF OfItsFork
<1> QED
  BY <1>1, <1>2 DEF Truthful

(* The log after what a recorder made of a step.                           *)
LEMMA RecordGrows ==
  ASSUME Recorded, NEW records, Record(records),
         \A r \in records : r = <<>> \/ \E e : r = <<e>> /\ Truthful(e)',
         \A e \in Range(log) : Truthful(e)'
  PROVE  /\ log' \in Seq(Range(log)')
         /\ Len(log) <= Len(log') /\ Len(log) \in Nat /\ Len(log') \in Nat
         /\ \A e \in Range(log)' : Truthful(e)'
<1>1. PICK r \in records : log' = log \o r
  BY DEF Record
<1>2. log \in Seq(Range(log))
  BY DEF Recorded
<1>3. CASE r = <<>>
  BY <1>1, <1>2, <1>3
<1>4. ASSUME NEW e, r = <<e>>, Truthful(e)'
      PROVE  /\ log' \in Seq(Range(log)')
             /\ Len(log) <= Len(log') /\ Len(log) \in Nat /\ Len(log') \in Nat
             /\ \A f \in Range(log)' : Truthful(f)'
  <2>1. log' = Append(log, e)
    BY <1>1, <1>2, <1>4
  <2>2. /\ Len(log') = Len(log) + 1 /\ Len(log) \in Nat
        /\ \A i \in 1 .. Len(log) : log'[i] = log[i]
        /\ log'[Len(log) + 1] = e
        /\ DOMAIN log' = 1 .. Len(log')
    BY <1>2, <2>1, Appended, LenProperties
  <2>3. \A f \in Range(log)' : f \in Range(log) \/ f = e
    BY <1>2, <2>2, LenProperties DEF Range
  <2>4. Range(log) \subseteq Range(log)' /\ e \in Range(log)'
    BY <1>2, <2>2, LenProperties DEF Range
  <2>5. log' \in Seq(Range(log)')
    BY <1>2, <2>1, <2>4, Appended
  <2> QED
    BY <1>4, <2>2, <2>3, <2>5
<1> QED
  BY <1>1, <1>3, <1>4

LEMMA ForkRecordIs ==
  ASSUME NEW p, NEW kid, NEW pid, NEW r \in ForkRecords(p, kid, pid)
  PROVE  \/ r = <<>>
         \/ \E s \in {p, None}, c \in {kid, None} :
               r = <<Fork(life[p].pid, s, life[p].pid, pid, c, p, kid)>>
         \/ r = <<Fork(pid, kid, life[p].pid, pid, kid, kid, kid)>>
BY DEF ForkRecords, Fork

LEMMA BornRecorded ==
  ASSUME Recorded, NEW p \in DOMAIN life, NEW pid \in Pids,
         Born(p, pid, ForkRecords)
  PROVE  /\ LifeInv' /\ Len(life') = Len(life) + 1
         /\ log' \in Seq(Range(log)')
         /\ Len(log) <= Len(log') /\ Len(log) \in Nat /\ Len(log') \in Nat
         /\ \A e \in Range(log)' : Truthful(e)'
<1> DEFINE kid == Len(life) + 1
<1>1. /\ life \in Seq(Process) /\ Last(life) \in Process
      /\ Len(life) \in Nat /\ DOMAIN life = 1 .. Len(life)
  BY LenProperties, ElementOfSeq DEF Recorded, LifeInv, Last
<1>0. PICK tick \in NextTicks :
        life' = Append(life, [pid |-> pid, parent |-> p, tick |-> tick, alive |-> TRUE])
  BY DEF Born
<1> DEFINE new == [pid |-> pid, parent |-> p, tick |-> tick, alive |-> TRUE]
<1>2. /\ life' = Append(life, new) /\ life[p].alive
      /\ Len(life) < MaxProcs /\ pid \in FreePids
      /\ Record(ForkRecords(p, kid, pid))
  BY <1>0 DEF Born, Alive, NextPids
<1>3. new \in Process
  <2>1. tick \in Nat
    BY <1>1 DEF NextTicks, Process
  <2> QED
    BY <1>1, <1>2, <2>1, TaskAssumption DEF Process
<1>4. /\ life' \in Seq(Process)
      /\ Len(life') = kid /\ life'[kid] = new
      /\ \A q \in 1 .. Len(life) : life'[q] = life[q]
  BY <1>1, <1>2, <1>3, Appended
<1>5. \A q \in 1 .. Len(life) : life[q].alive => life[q].pid # pid
  BY <1>1, <1>2 DEF FreePids, Alive
<1> HIDE DEF new
<1>6. LifeInv'
  <2>1. new.parent = p /\ new.pid = pid /\ new.alive
    BY DEF new
  <2>2. \A q \in 1 .. kid : q \in 1 .. Len(life) \/ (q = kid /\ life'[q] = new)
    BY <1>1, <1>4
  <2>4. \A q \in 1 .. kid : life'[q].parent < q
    BY <1>1, <1>4, <2>1, <2>2 DEF Recorded, LifeInv
  <2>3. \A q, r \in 1 .. kid :
          life'[q].alive /\ life'[r].alive /\ life'[q].pid = life'[r].pid => q = r
    BY <1>1, <1>4, <1>5, <2>1, <2>2 DEF Recorded, LifeInv
  <2> QED
    BY <1>1, <1>4, <2>3, <2>4 DEF LifeInv
<1>7. \A e \in Range(log) : Truthful(e)'
  <2>1. Len(life) \in Nat /\ Len(life') \in Nat /\ Len(life) <= Len(life') /\ LifeInv
    BY <1>1, <1>4 DEF Recorded
  <2> QED
    BY <1>4, <2>1, TruthStays DEF Recorded
<1>8. ASSUME NEW r \in ForkRecords(p, kid, pid)
      PROVE  r = <<>> \/ \E e : r = <<e>> /\ Truthful(e)'
  <2> DEFINE ppid == life[p].pid
  <2>1. /\ life'[kid].pid = pid /\ life'[kid].parent = p /\ life'[p].pid = life[p].pid
        /\ life[p].pid # pid /\ p \in 1 .. Len(life')
        /\ kid \in 1 .. Len(life')
    BY <1>1, <1>2, <1>4, <1>5 DEF new
  <2> HIDE DEF kid
  <2>2. \A s \in {p, None}, c \in {kid, None} :
          \A e : e = Fork(life[p].pid, s, life[p].pid, pid, c, p, kid) => Truthful(e)'
    BY <2>1 DEF Truthful, OfItsProcess, OfItsFork, Fork
  <2>3. \A e : e = Fork(pid, kid, life[p].pid, pid, kid, kid, kid) => Truthful(e)'
    BY <2>1 DEF Truthful, OfItsProcess, OfItsFork, Fork
  <2>4. CASE r = <<>>
    BY <2>4
  <2>5. ASSUME NEW s \in {p, None}, NEW c \in {kid, None},
               r = <<Fork(ppid, s, ppid, pid, c, p, kid)>>
        PROVE  \E e : r = <<e>> /\ Truthful(e)'
    BY <2>2, <2>5
  <2>6. ASSUME r = <<Fork(pid, kid, ppid, pid, kid, kid, kid)>>
        PROVE  \E e : r = <<e>> /\ Truthful(e)'
    BY <2>3, <2>6
  <2> QED
    BY <2>4, <2>5, <2>6, ForkRecordIs
<1> QED
  BY <1>2, <1>4, <1>6, <1>7, <1>8, RecordGrows

LEMMA ForkRecorded ==
  ASSUME Recorded, NEW p \in DOMAIN life, NEW pid \in Pids, ForkProcess(p, pid)
  PROVE  Recorded'
<1>1. Born(p, pid, ForkRecords) /\ UNCHANGED <<root, began, setup>>
  BY DEF ForkProcess
<1>2. Len(life) \in Nat
  BY DEF Recorded, LifeInv
<1> QED
  BY <1>1, <1>2, BornRecorded DEF Recorded

LEMMA StartRecorded ==
  ASSUME Recorded, NEW p \in DOMAIN life, NEW pid \in Pids, StartTask(p, pid)
  PROVE  Recorded'
<1>1. /\ Born(p, pid, ForkRecords) /\ UNCHANGED setup
      /\ root' = Len(life) + 1 /\ began' = Len(log)
  BY DEF StartTask
<1>2. Len(life) \in Nat
  BY DEF Recorded, LifeInv
<1> QED
  BY <1>1, <1>2, BornRecorded DEF Recorded

LEMMA WriteRecorded ==
  ASSUME Recorded, NEW p \in DOMAIN life, WriteFile(p)
  PROVE  Recorded'
<1>1. UNCHANGED <<life, root, began, setup>>
  BY DEF WriteFile
<1>2. Record({<<Plain("file.write", life[p].pid, s, p)>> : s \in {p, None}})
  BY DEF WriteFile
<1>3. p \in 1 .. Len(life)
  BY DEF Recorded, LifeInv
<1>4. \A e : Truthful(e)' <=> Truthful(e)
  BY <1>1 DEF Truthful, OfItsProcess, OfItsFork
<1>5. \A s \in {p, None} : Truthful(Plain("file.write", life[p].pid, s, p))
  BY <1>3 DEF Truthful, OfItsProcess, Plain
<1> HIDE DEF None
<1>6. /\ log' \in Seq(Range(log)')
      /\ Len(log) <= Len(log') /\ Len(log) \in Nat /\ Len(log') \in Nat
      /\ \A e \in Range(log)' : Truthful(e)'
  <2> DEFINE records == {<<Plain("file.write", life[p].pid, s, p)>> : s \in {p, None}}
  <2>1. \A r \in records : r = <<>> \/ \E e : r = <<e>> /\ Truthful(e)'
    BY <1>4, <1>5
  <2>2. \A e \in Range(log) : Truthful(e)'
    BY <1>4 DEF Recorded
  <2> HIDE DEF records
  <2> QED
    BY <1>2, <2>1, <2>2, RecordGrows DEF records
<1> QED
  BY <1>1, <1>6 DEF Recorded, LifeInv

LEMMA ExitRecorded ==
  ASSUME Recorded, NEW p \in DOMAIN life, Exit(p)
  PROVE  Recorded'
<1>1. /\ life' = [life EXCEPT ![p].alive = FALSE]
      /\ UNCHANGED <<root, began, log, setup>>
  BY DEF Exit
<1>2. /\ life \in Seq(Process)
      /\ Len(life) \in Nat /\ DOMAIN life = 1 .. Len(life)
      /\ life[p] \in Process
  BY LenProperties, ElementOfSeq DEF Recorded, LifeInv
<1> DEFINE ended == [life[p] EXCEPT !.alive = FALSE]
<1>3. /\ life' \in Seq(Process)
      /\ Len(life') = Len(life)
      /\ \A q \in 1 .. Len(life) : /\ life'[q].pid = life[q].pid
                                   /\ life'[q].parent = life[q].parent
                                   /\ life'[q].alive => life[q].alive
  <2>1. /\ ended \in Process /\ ended.pid = life[p].pid
        /\ ended.parent = life[p].parent /\ ended.alive = FALSE
    BY <1>2 DEF Process
  <2>2. life' = [life EXCEPT ![p] = ended]
    BY <1>1
  <2> HIDE DEF ended
  <2>3. /\ life' \in Seq(Process) /\ Len(life') = Len(life)
        /\ \A q \in 1 .. Len(life) : life'[q] = IF q = p THEN ended ELSE life[q]
    BY <1>2, <2>1, <2>2, ExceptSeq
  <2> QED
    BY <2>1, <2>3
<1>4. LifeInv'
  BY <1>2, <1>3 DEF Recorded, LifeInv
<1>5. \A e \in Range(log) : Truthful(e)'
  <2>1. Len(life) <= Len(life') /\ LifeInv
    BY <1>2, <1>3 DEF Recorded
  <2> QED
    BY <1>2, <1>3, <2>1, TruthStays DEF Recorded
<1> QED
  BY <1>1, <1>3, <1>4, <1>5 DEF Recorded, Range

LEMMA NextRecorded == Recorded /\ [Next]_vars => Recorded'
<1> SUFFICES ASSUME Recorded, [Next]_vars PROVE Recorded'
  OBVIOUS
<1>1. CASE UNCHANGED vars
  BY <1>1 DEF vars, Recorded, LifeInv, Truthful, OfItsProcess, OfItsFork, Range
<1>2. ASSUME NEW p \in DOMAIN life, NEW pid \in Pids, ForkProcess(p, pid)
      PROVE  Recorded'
  BY <1>2, ForkRecorded
<1>3. ASSUME NEW p \in DOMAIN life, NEW pid \in Pids, StartTask(p, pid)
      PROVE  Recorded'
  BY <1>3, StartRecorded
<1>4. ASSUME NEW p \in DOMAIN life, WriteFile(p) PROVE Recorded'
  BY <1>4, WriteRecorded
<1>5. ASSUME NEW p \in DOMAIN life, Exit(p) PROVE Recorded'
  BY <1>5, ExitRecorded
<1> QED
  BY <1>1, <1>2, <1>3, <1>4, <1>5 DEF Next

LEMMA AlwaysRecorded == Spec => []Recorded
BY InitRecorded, NextRecorded, PTL DEF Spec

-----------------------------------------------------------------------------
(* What the descendants of r are.  The recursion of DescendsFrom has a      *)
(* solution, the least set that holds r and, with a process, its children.  *)
LEMMA SameTruth ==
  ASSUME NEW r, NEW w, NEW D, NEW p, NEW q,
         (p = r \/ (q # 0 /\ w[q])) <=> p \in D
  PROVE  (p = r \/ (q # 0 /\ w[q])) = (p \in D)
<1>1. CASE p \in D
  BY <1>1, Zenon
<1>2. CASE p \notin D
  BY <1>2
<1> QED
  BY <1>1, <1>2

LEMMA DescentEquation ==
  ASSUME Recorded, NEW r
  PROVE  \A p \in DOMAIN life :
           DescendsFrom(r)[p] =
             (\/ p = r
              \/ life[p].parent # 0 /\ DescendsFrom(r)[life[p].parent])
<1> DEFINE Closed(S) == /\ r \in DOMAIN life => r \in S
                        /\ \A q \in DOMAIN life : life[q].parent \in S => q \in S
           D == {p \in DOMAIN life :
                   \A S \in SUBSET DOMAIN life : Closed(S) => p \in S}
           Of(m, p) == \/ p = r
                       \/ life[p].parent # 0 /\ m[life[p].parent]
           w == [p \in DOMAIN life |-> p \in D]
<1>1. /\ DOMAIN life = 1 .. Len(life) /\ Len(life) \in Nat
      /\ \A p \in DOMAIN life : life[p] \in Process
  BY LenProperties, ElementOfSeq DEF Recorded, LifeInv
<1>2. \A p \in DOMAIN life : life[p].parent # 0 => life[p].parent \in DOMAIN life
  BY <1>1 DEF Recorded, LifeInv, Process
<1>3. D \subseteq DOMAIN life /\ Closed(D)
  OBVIOUS
<1>4. ASSUME NEW p \in D
      PROVE  p = r \/ (life[p].parent # 0 /\ life[p].parent \in D)
  <2>1. SUFFICES ASSUME p # r, life[p].parent \notin D PROVE FALSE
    BY <1>1, <1>3
  <2>2. Closed(D \ {p})
    BY <1>3, <2>1
  <2>3. p \in D \ {p}
    <3> HIDE DEF Closed
    <3> QED
      BY <1>3, <2>2
  <2> QED
    BY <2>3
<1>5. ASSUME NEW p \in DOMAIN life,
             p = r \/ (life[p].parent # 0 /\ life[p].parent \in D)
      PROVE  p \in D
  BY <1>3, <1>5
<1>6. \A p \in DOMAIN life : w[p] = Of(w, p)
  <2> SUFFICES ASSUME NEW p \in DOMAIN life PROVE w[p] = Of(w, p)
    OBVIOUS
  <2> HIDE DEF D
  <2>1. w[p] = (p \in D)
    OBVIOUS
  <2>2. life[p].parent # 0 => w[life[p].parent] = (life[p].parent \in D)
    BY <1>2
  <2> HIDE DEF w
  <2>3. Of(w, p) <=> p \in D
    <3>1. p \in D => Of(w, p)
      BY <1>4, <2>2
    <3>2. Of(w, p) => p \in D
      BY <1>5, <2>2
    <3> QED
      BY <3>1, <3>2
  <2>4. Of(w, p) = (p \in D)
    BY <2>3, SameTruth
  <2> QED
    BY <2>1, <2>4, Zenon
<1>7. w = [p \in DOMAIN life |-> Of(w, p)]
  BY <1>6, Zenon
<1> HIDE DEF w
<1>8. DescendsFrom(r) = [p \in DOMAIN life |-> Of(DescendsFrom(r), p)]
  <2> DEFINE P(m) == m = [p \in DOMAIN life |-> Of(m, p)]
  <2>1. DescendsFrom(r) = CHOOSE m : P(m)
    BY DEF DescendsFrom
  <2>2. P(w)
    BY <1>7
  <2> HIDE DEF P
  <2>3. P(DescendsFrom(r))
    BY <2>1, <2>2
  <2> QED
    BY <2>3 DEF P
<1> QED
  BY <1>8, Zenon

LEMMA OwnDescendant ==
  ASSUME Recorded, NEW r \in 1 .. Len(life)
  PROVE  DescendsFrom(r)[r]
<1>1. DOMAIN life = 1 .. Len(life)
  BY LenProperties DEF Recorded, LifeInv
<1> QED
  BY <1>1, DescentEquation, Zenon

LEMMA ChildDescends ==
  ASSUME Recorded, NEW r,
         NEW p \in 1 .. Len(life), life[p].parent \in 1 .. Len(life),
         DescendsFrom(r)[life[p].parent]
  PROVE  DescendsFrom(r)[p]
<1>1. DOMAIN life = 1 .. Len(life) /\ Len(life) \in Nat
  BY LenProperties DEF Recorded, LifeInv
<1>2. life[p].parent # 0
  BY <1>1
<1> QED
  BY <1>1, <1>2, DescentEquation, Zenon

(* The processes that the engine may claim for the task: its own, and the   *)
(* ones below a process that started in the root's tick.                    *)
Claimed(p) == Member[p] \/ TickTwin(p)

LEMMA LikeRootIsClaimed ==
  ASSUME Recorded, root # 0, NEW n, n.start \in 0 .. Len(life),
         StartedLikeRoot(n)
  PROVE  n.start \in 1 .. Len(life) /\ Claimed(n.start)
<1>1. DOMAIN life = 1 .. Len(life) /\ Len(life) \in Nat
  BY LenProperties DEF Recorded, LifeInv
<1>2. n.start \in 1 .. Len(life) /\ SameTick(n.start, root)
  BY <1>1 DEF StartedLikeRoot, None
<1>3. DescendsFrom(n.start)[n.start]
  BY <1>2, OwnDescendant
<1> QED
  BY <1>1, <1>2, <1>3 DEF Claimed, Member, TickTwin

LEMMA RootStartsLikeItself ==
  ASSUME root # 0, NEW n, n.start = root
  PROVE  StartedLikeRoot(n)
BY DEF StartedLikeRoot, SameTick, None

LEMMA ChildIsClaimed ==
  ASSUME Recorded, NEW p \in 1 .. Len(life), life[p].parent \in 1 .. Len(life),
         Claimed(life[p].parent)
  PROVE  Claimed(p)
<1>1. CASE Member[life[p].parent]
  BY <1>1, ChildDescends DEF Claimed, Member
<1>2. ASSUME NEW r \in DOMAIN life \ {root}, SameTick(r, root),
             DescendsFrom(r)[life[p].parent]
      PROVE  Claimed(p)
  BY <1>2, ChildDescends DEF Claimed, TickTwin
<1> QED
  BY <1>1, <1>2 DEF Claimed, TickTwin

-----------------------------------------------------------------------------
(* The nodes and the claims of _build_lineage_edges.                        *)

(* Some recording of the machine; the log is one.                           *)
Recording(evs) ==
  evs \in Seq(Range(evs)) /\ \A e \in Range(evs) : Truthful(e)

LEMMA LogIsRecording == Recorded => Recording(log)
BY DEF Recorded, Recording

NodeType == [pid : Nat, start : Nat]
ClaimType == [src : NodeType, dst : NodeType,
              basis : {"lineage", "run_id", "container"},
              conf : Confidences, others : SUBSET NodeType]

(* A node is about a process number of the machine, and with a start time   *)
(* about one process of that number.                                        *)
GoodNode(n) ==
  /\ n \in NodeType
  /\ n.pid \in Pids /\ n.start \in 0 .. Len(life)
  /\ n.start # None => life[n.start].pid = n.pid

(* A claim of lineage that is certain leads from a process to its parent.   *)
LineageClaim(c) ==
  /\ c \in ClaimType /\ c.basis = "lineage"
  /\ GoodNode(c.src) /\ GoodNode(c.dst) /\ c.dst \notin c.others
  /\ c.conf = CERTAIN => /\ c.src.start # None /\ c.dst.start # None
                         /\ life[c.src.start].parent = c.dst.start

Within(c, nodes) ==
  c.src \in nodes /\ c.dst \in nodes /\ c.others \subseteq nodes

GraphInv(evs, g) ==
  /\ IsFiniteSet(g.nodes) /\ IsFiniteSet(g.claims)
  /\ Aggregated(evs) \subseteq g.nodes
  /\ \A n \in g.nodes : GoodNode(n)
  /\ \A c \in g.claims : LineageClaim(c) /\ Within(c, g.nodes)

LEMMA NodeIsGood ==
  ASSUME Recorded, NEW pid \in Pids, NEW start \in 0 .. Len(life),
         start # None => life[start].pid = pid
  PROVE  GoodNode(Node(pid, start))
<1>1. Len(life) \in Nat
  BY LenProperties DEF Recording, Recorded, LifeInv
<1>2. pid \in Nat /\ start \in Nat
  BY <1>1, TaskAssumption
<1> QED
  BY <1>2 DEF GoodNode, Node, NodeType

LEMMA SelfIsGood ==
  ASSUME Recorded, NEW evs, Recording(evs),
         NEW e \in Range(evs)
  PROVE  GoodNode(Self(e))
<1>1. /\ Len(life) \in Nat /\ DOMAIN life = 1 .. Len(life)
      /\ \A p \in DOMAIN life : life[p] \in Process
  BY LenProperties, ElementOfSeq DEF Recording, Recorded, LifeInv
<1>2. Truthful(e)
  BY DEF Recording, Recorded
<1>3. /\ e.pid \in Pids /\ e.start \in 0 .. Len(life)
      /\ e.start # None => life[e.start].pid = e.pid
  BY <1>1, <1>2 DEF Truthful, OfItsProcess, None, Process
<1> QED
  BY <1>3, NodeIsGood DEF Self

(* Among good nodes there is a first one.                                   *)
LEMMA MinimalNode ==
  ASSUME Recorded, NEW S, S # {}, \A n \in S : GoodNode(n)
  PROVE  \E n \in S : \A m \in S : NodeRank(n) <= NodeRank(m)
<1> DEFINE above(n) == NodeRank(n) + Len(life)
           R == {above(n) : n \in S}
<1>1. Len(life) \in Nat
  BY LenProperties DEF Recording, Recorded, LifeInv
<1>2. ASSUME NEW n \in S PROVE NodeRank(n) \in Int /\ above(n) \in Nat
  <2>1. n.pid \in Nat /\ n.start \in 0 .. Len(life) /\ MaxProcs \in Nat
    BY TaskAssumption DEF GoodNode
  <2> DEFINE byPid == n.pid * (MaxProcs + 1)
  <2>2. byPid \in Nat
    BY <2>1
  <2> HIDE DEF byPid
  <2>3. NodeRank(n) = IF setup.ascending THEN byPid + n.start
                      ELSE byPid + MaxProcs - n.start
    BY DEF NodeRank, byPid
  <2> QED
    BY <1>1, <2>1, <2>2, <2>3
<1>3. R \in SUBSET Nat /\ R # {}
  BY <1>2
<1>4. PICK r \in R : \A q \in R : r <= q
  BY <1>3, Least
<1>5. PICK n \in S : r = above(n)
  BY <1>4
<1>6. \A m \in S : above(n) <= above(m)
  BY <1>4, <1>5
<1>7. ASSUME NEW m \in S PROVE NodeRank(n) <= NodeRank(m)
  <2>1. NodeRank(n) \in Int /\ NodeRank(m) \in Int
    BY <1>2
  <2>2. NodeRank(n) + Len(life) <= NodeRank(m) + Len(life)
    BY <1>6
  <2> QED
    BY <1>1, <2>1, <2>2
<1> QED
  BY <1>7

LEMMA LookupIsExact ==
  ASSUME NEW nodes, NEW pid, NEW start, start # None
  PROVE  /\ Lookup(nodes, pid, start).main = Node(pid, start)
         /\ Lookup(nodes, pid, start).others = {}
BY DEF Lookup

LEMMA LookupIsGood ==
  ASSUME Recorded, NEW nodes, \A n \in nodes : GoodNode(n),
         NEW pid \in Pids, NEW start \in 0 .. Len(life),
         start # None => life[start].pid = pid
  PROVE  /\ GoodNode(Lookup(nodes, pid, start).main)
         /\ Lookup(nodes, pid, start).others \subseteq nodes
<1> DEFINE siblings == {n \in nodes : n.pid = pid}
           first == CHOOSE n \in siblings :
                      \A m \in siblings : NodeRank(n) <= NodeRank(m)
           found == Lookup(nodes, pid, start)
<1>1. found = IF start # None \/ siblings = {}
              THEN [main |-> Node(pid, start), others |-> {}]
              ELSE [main |-> first, others |-> siblings \ {first}]
  BY DEF Lookup
<1>2. CASE start # None \/ siblings = {}
  BY <1>1, <1>2, NodeIsGood
<1>3. CASE start = None /\ siblings # {}
  <2>1. first \in siblings
    BY <1>3, MinimalNode
  <2> HIDE DEF first
  <2> QED
    BY <1>1, <1>3, <2>1
<1> QED
  BY <1>2, <1>3

(* What a fork event tells of the two processes, to one who reads it as     *)
(* the builder does.                                                        *)
LEMMA ForkIsRead ==
  ASSUME Recorded, NEW evs, Recording(evs),
         NEW e \in Range(evs), e.type = "process.fork"
  PROVE  /\ e.ppid \in Pids /\ e.cpid \in Pids
         /\ ParentStart(e) \in 0 .. Len(life) /\ e.cstart \in 0 .. Len(life)
         /\ ParentStart(e) # None => life[ParentStart(e)].pid = e.ppid
         /\ e.cstart # None => life[e.cstart].pid = e.cpid
         /\ ParentStart(e) # None /\ e.cstart # None =>
              life[e.cstart].parent = ParentStart(e)
<1>1. /\ Len(life) \in Nat /\ DOMAIN life = 1 .. Len(life)
      /\ \A p \in DOMAIN life : life[p] \in Process
  BY LenProperties, ElementOfSeq DEF Recording, Recorded, LifeInv
<1>2. OfItsProcess(e) /\ OfItsFork(e)
  BY DEF Recording, Recorded, Truthful
<1>3. /\ e.kid \in 1 .. Len(life) /\ life[e.kid].parent \in 1 .. Len(life)
      /\ e.ppid = life[life[e.kid].parent].pid /\ e.cpid = life[e.kid].pid
      /\ e.cstart \in {0, e.kid}
      /\ e.who = life[e.kid].parent \/ e.who = e.kid
      /\ e.ppid # e.cpid
  BY <1>2 DEF OfItsFork, None
<1>4. ParentStart(e) \in {0, life[e.kid].parent}
  BY <1>2, <1>3 DEF OfItsProcess, ParentStart, None
<1> QED
  BY <1>1, <1>3, <1>4 DEF Process, None

LEMMA ForkClaimsAreGood ==
  ASSUME Recorded, NEW evs, Recording(evs),
         NEW e \in Range(evs), e.type = "process.fork",
         NEW nodes, \A n \in nodes : GoodNode(n), IsFiniteSet(nodes)
  PROVE  LET parent == Lookup(nodes, e.ppid, ParentStart(e))
             seen   == nodes \cup {parent.main}
             child  == Lookup(seen, e.cpid, e.cstart)
             all    == seen \cup {child.main}
             claims == ForkClaims(e, parent, child)
         IN  /\ IsFiniteSet(all) /\ IsFiniteSet(claims)
             /\ \A n \in all : GoodNode(n)
             /\ \A c \in claims : LineageClaim(c) /\ Within(c, all)
<1> DEFINE parent == Lookup(nodes, e.ppid, ParentStart(e))
           seen   == nodes \cup {parent.main}
           child  == Lookup(seen, e.cpid, e.cstart)
           all    == seen \cup {child.main}
           claims == ForkClaims(e, parent, child)
           other  == parent.others \cup child.others
           left(c) == other \ {c, parent.main}
           srcs   == {d \in {child.main} \cup child.others : left(d) # {}}
           sure   == Claim(child.main, parent.main, "lineage",
                           ForkConfidence(e), {})
           doubt(c) == Claim(c, parent.main, "lineage", AMBIGUOUS, left(c))
<1>1. /\ GoodNode(parent.main) /\ parent.others \subseteq nodes
      /\ ParentStart(e) # None => parent.main = Node(e.ppid, ParentStart(e))
  <2>1. /\ e.ppid \in Pids /\ ParentStart(e) \in 0 .. Len(life)
        /\ ParentStart(e) # None => life[ParentStart(e)].pid = e.ppid
    BY ForkIsRead
  <2>2. GoodNode(parent.main) /\ parent.others \subseteq nodes
    BY <2>1, LookupIsGood
  <2>3. ParentStart(e) # None => parent.main = Node(e.ppid, ParentStart(e))
    BY LookupIsExact
  <2> QED
    BY <2>2, <2>3
<1> HIDE DEF parent
<1>2. \A n \in seen : GoodNode(n)
  BY <1>1
<1>3. /\ GoodNode(child.main) /\ child.others \subseteq seen
      /\ e.cstart # None => child.main = Node(e.cpid, e.cstart)
  <2> HIDE DEF seen
  <2>1. /\ e.cpid \in Pids /\ e.cstart \in 0 .. Len(life)
        /\ e.cstart # None => life[e.cstart].pid = e.cpid
    BY ForkIsRead
  <2>2. GoodNode(child.main) /\ child.others \subseteq seen
    BY <1>2, <2>1, LookupIsGood
  <2>3. e.cstart # None => child.main = Node(e.cpid, e.cstart)
    BY LookupIsExact
  <2> QED
    BY <2>2, <2>3
<1> HIDE DEF child
<1>4. IsFiniteSet(all) /\ \A n \in all : GoodNode(n)
  BY <1>2, <1>3, FS_AddElement
<1>5. other \subseteq all /\ srcs \subseteq all
  BY <1>1, <1>3
<1>6. claims = IF other = {} THEN {sure} ELSE {doubt(c) : c \in srcs}
  BY DEF ForkClaims
<1> HIDE DEF claims
<1>7. LineageClaim(sure) /\ Within(sure, all)
  <2>1. ForkConfidence(e) \in {PROBABLE, CERTAIN}
    BY DEF ForkConfidence
  <2>2. ASSUME ForkConfidence(e) = CERTAIN
        PROVE  /\ child.main.start # None /\ parent.main.start # None
               /\ life[child.main.start].parent = parent.main.start
    <3>1. e.cstart # None /\ ParentStart(e) # None
      BY <2>2 DEF ForkConfidence, CERTAIN, PROBABLE
    <3>2. child.main.start = e.cstart /\ parent.main.start = ParentStart(e)
      BY <1>1, <1>3, <3>1 DEF Node
    <3> QED
      BY <3>1, <3>2, ForkIsRead
  <2> QED
    BY <1>1, <1>3, <2>1, <2>2
       DEF LineageClaim, Within, ClaimType, GoodNode, Claim, Confidences,
           UNKNOWN, AMBIGUOUS, PROBABLE, CERTAIN
<1>8. ASSUME NEW c \in srcs
      PROVE  LineageClaim(doubt(c)) /\ Within(doubt(c), all)
  <2>1. GoodNode(c) /\ left(c) \in SUBSET NodeType /\ left(c) \subseteq all
    BY <1>4, <1>5 DEF GoodNode
  <2>2. c \in all /\ parent.main \in all
    BY <1>5
  <2> HIDE DEF left, all, srcs
  <2> QED
    BY <1>1, <2>1, <2>2
       DEF LineageClaim, Within, ClaimType, GoodNode, Claim, Confidences,
           UNKNOWN, AMBIGUOUS, PROBABLE, CERTAIN
<1>9. IsFiniteSet(claims)
  <2>1. IsFiniteSet(srcs)
    BY <1>4, <1>5, FS_Subset
  <2> DEFINE f == [c \in srcs |-> doubt(c)]
             img == {f[c] : c \in srcs}
  <2>2. img = {doubt(c) : c \in srcs}
    OBVIOUS
  <2>3. IsFiniteSet(img)
    <3> HIDE DEF f, srcs
    <3> QED
      BY <2>1, ImageFinite
  <2> HIDE DEF img
  <2> QED
    BY <1>6, <2>2, <2>3, FS_Singleton
<1>10. \A c \in claims : LineageClaim(c) /\ Within(c, all)
  <2> HIDE DEF sure, doubt, srcs, all, other
  <2> QED
    BY <1>6, <1>7, <1>8
<1> QED
  BY <1>4, <1>9, <1>10 DEF claims, parent, child

(* The graph before the first event, and what one event makes of it.        *)
Unlinked(evs) ==
  [nodes |-> Aggregated(evs), claims |-> {},
   from |-> [n \in Aggregated(evs) |->
               Min({j \in DOMAIN evs : Self(evs[j]) = n})]]

Linked(evs, before, i) ==
  LET e      == evs[i]
      parent == Lookup(before.nodes, e.ppid, ParentStart(e))
      seen   == before.nodes \cup {parent.main}
      child  == Lookup(seen, e.cpid, e.cstart)
      nodes  == seen \cup {child.main}
  IN  IF e.type # "process.fork" THEN before
      ELSE [nodes |-> nodes,
            claims |-> before.claims \cup ForkClaims(e, parent, child),
            from |-> [n \in nodes |->
                        IF n \in before.nodes THEN before.from[n] ELSE i]]

LEMMA LineageEquation ==
  ASSUME NEW evs, Len(evs) \in Nat
  PROVE  \E built :
           /\ built = [i \in 0 .. Len(evs) |->
                         IF i = 0 \/ ~setup.lineage THEN Unlinked(evs)
                         ELSE Linked(evs, built[i - 1], i)]
           /\ Lineage(evs) = built[Len(evs)]
<1> DEFINE Solves(f, k) == f = [i \in 0 .. k |->
                                  IF i = 0 \/ ~setup.lineage THEN Unlinked(evs)
                                  ELSE Linked(evs, f[i - 1], i)]
           T == {k \in Nat : \E f : Solves(f, k)}
           built == CHOOSE f : Solves(f, Len(evs))
<1>1. 0 \in T
  <2>1. Solves([i \in 0 .. 0 |-> Unlinked(evs)], 0)
    OBVIOUS
  <2> QED
    BY <2>1
<1>2. ASSUME NEW k \in Nat, k \in T PROVE k + 1 \in T
  <2>1. PICK f : Solves(f, k)
    BY <1>2
  <2> DEFINE g == [i \in 0 .. k + 1 |->
                     IF i = 0 \/ ~setup.lineage THEN Unlinked(evs)
                     ELSE Linked(evs, f[i - 1], i)]
  <2>2. \A i \in 0 .. k : g[i] = f[i]
    BY <2>1
  <2>3. \A i \in 0 .. k + 1 : i = 0 \/ g[i - 1] = f[i - 1]
    <3> HIDE DEF g
    <3> QED
      BY <2>2
  <2>4. \A i \in 0 .. k + 1 :
          g[i] = IF i = 0 \/ ~setup.lineage THEN Unlinked(evs)
                 ELSE Linked(evs, g[i - 1], i)
    BY <2>3, Zenon
  <2>5. DOMAIN g = 0 .. k + 1 /\ g = [i \in DOMAIN g |-> g[i]]
    OBVIOUS
  <2> HIDE DEF g
  <2>6. Solves(g, k + 1)
    BY <2>4, <2>5, Zenon
  <2> HIDE DEF Solves
  <2> QED
    BY <2>6
<1>3. Len(evs) \in T
  <2> HIDE DEF T
  <2> QED
    BY <1>1, <1>2, Induction
<1>4. Lineage(evs) = built[Len(evs)]
  BY DEF Lineage, Linked, Unlinked
<1> HIDE DEF Solves
<1>5. Solves(built, Len(evs))
  BY <1>3
<1> HIDE DEF built
<1> QED
  BY <1>4, <1>5 DEF Solves

LEMMA AggregatedIsGood ==
  ASSUME Recorded, NEW evs, Recording(evs)
  PROVE  IsFiniteSet(Aggregated(evs)) /\ \A n \in Aggregated(evs) : GoodNode(n)
<1>1. Len(evs) \in Nat /\ DOMAIN evs = 1 .. Len(evs)
  BY LenProperties DEF Recording, Recorded
<1> DEFINE f == [i \in DOMAIN evs |-> Self(evs[i])]
           img == {f[i] : i \in DOMAIN evs}
<1>2. IsFiniteSet(DOMAIN evs)
  BY <1>1, FS_Interval
<1>3. Aggregated(evs) = img
  BY DEF Aggregated, Range
<1> HIDE DEF f
<1>4. IsFiniteSet(Aggregated(evs))
  BY <1>2, <1>3, ImageFinite
<1> QED
  BY <1>4, SelfIsGood DEF Aggregated

LEMMA LinkedIsGood ==
  ASSUME Recorded, NEW evs, Recording(evs), NEW g, GraphInv(evs, g),
         NEW i \in 1 .. Len(evs)
  PROVE  GraphInv(evs, Linked(evs, g, i))
<1> DEFINE e      == evs[i]
           parent == Lookup(g.nodes, e.ppid, ParentStart(e))
           seen   == g.nodes \cup {parent.main}
           child  == Lookup(seen, e.cpid, e.cstart)
           all    == seen \cup {child.main}
           claims == ForkClaims(e, parent, child)
           next   == Linked(evs, g, i)
<1>1. e \in Range(evs)
  BY DEF Range
<1>2. CASE e.type # "process.fork"
  BY <1>2 DEF Linked
<1>3. CASE e.type = "process.fork"
  <2>1. /\ IsFiniteSet(all) /\ IsFiniteSet(claims)
        /\ \A n \in all : GoodNode(n)
        /\ \A c \in claims : LineageClaim(c) /\ Within(c, all)
    <3>1. \A n \in g.nodes : GoodNode(n)
      BY DEF GraphInv
    <3>2. IsFiniteSet(g.nodes)
      BY DEF GraphInv
    <3> HIDE DEF e
    <3> QED
      BY <1>1, <1>3, <3>1, <3>2, ForkClaimsAreGood
  <2>2. next.nodes = all /\ next.claims = g.claims \cup claims
    BY <1>3 DEF Linked
  <2>3. g.nodes \subseteq all
    OBVIOUS
  <2> HIDE DEF next, all, claims
  <2>4. IsFiniteSet(next.claims)
    BY <2>1, <2>2, FS_Union DEF GraphInv
  <2>5. \A c \in next.claims : LineageClaim(c) /\ Within(c, next.nodes)
    BY <2>1, <2>2, <2>3 DEF GraphInv, Within
  <2>6. GraphInv(evs, next)
    BY <2>1, <2>2, <2>3, <2>4, <2>5 DEF GraphInv
  <2> QED
    BY <2>6 DEF next
<1> QED
  BY <1>2, <1>3

LEMMA LineageIsGood ==
  ASSUME Recorded, NEW evs, Recording(evs)
  PROVE  GraphInv(evs, Lineage(evs))
<1>1. Len(evs) \in Nat /\ DOMAIN evs = 1 .. Len(evs)
  BY LenProperties DEF Recording, Recorded
<1>2. PICK built :
        /\ built = [i \in 0 .. Len(evs) |->
                      IF i = 0 \/ ~setup.lineage THEN Unlinked(evs)
                      ELSE Linked(evs, built[i - 1], i)]
        /\ Lineage(evs) = built[Len(evs)]
  BY <1>1, LineageEquation
<1>3. \A i \in 0 .. Len(evs) :
        built[i] = IF i = 0 \/ ~setup.lineage THEN Unlinked(evs)
                   ELSE Linked(evs, built[i - 1], i)
  BY <1>2
<1>4. GraphInv(evs, Unlinked(evs))
  <2>1. Unlinked(evs).nodes = Aggregated(evs) /\ Unlinked(evs).claims = {}
    BY DEF Unlinked
  <2> QED
    BY <2>1, AggregatedIsGood, FS_EmptySet DEF GraphInv
<1>5. ASSUME NEW g, GraphInv(evs, g), NEW i \in 1 .. Len(evs)
      PROVE  GraphInv(evs, Linked(evs, g, i))
  BY <1>5, LinkedIsGood
<1> DEFINE T == {i \in Nat : i <= Len(evs) => GraphInv(evs, built[i])}
<1>6. 0 \in T
  BY <1>1, <1>3, <1>4
<1>7. ASSUME NEW i \in Nat, i \in T PROVE i + 1 \in T
  BY <1>1, <1>3, <1>4, <1>5, <1>7
<1>8. \A i \in Nat : i \in T
  <2> HIDE DEF T
  <2> QED
    BY <1>6, <1>7, Induction
<1>9. GraphInv(evs, built[Len(evs)])
  BY <1>1, <1>8
<1> QED
  BY <1>2, <1>9

-----------------------------------------------------------------------------
(* Paths.  Walk is Reachable of edges that are strong enough.               *)
Walk(strong, n) ==
  LET step[i \in 0 .. Cardinality(strong)] ==
        IF i = 0 THEN {n}
        ELSE LET near == step[i - 1]
             IN  near \cup {e.dst : e \in {x \in strong : x.src \in near}}
  IN  step[Cardinality(strong)]

LEMMA ReachableIsWalk ==
  \A edges, n, c : Reachable(edges, n, c) = Walk({e \in edges : e.conf >= c}, n)
BY DEF Reachable, Walk

Onward(strong, near) == near \cup {e.dst : e \in {x \in strong : x.src \in near}}

LEMMA WalkEquation ==
  ASSUME NEW strong, NEW n, Cardinality(strong) \in Nat
  PROVE  \E step :
           /\ step = [i \in 0 .. Cardinality(strong) |->
                        IF i = 0 THEN {n} ELSE Onward(strong, step[i - 1])]
           /\ Walk(strong, n) = step[Cardinality(strong)]
<1> DEFINE N == Cardinality(strong)
           Solves(f, k) == f = [i \in 0 .. k |->
                                  IF i = 0 THEN {n} ELSE Onward(strong, f[i - 1])]
           T == {k \in Nat : \E f : Solves(f, k)}
           step == CHOOSE f : Solves(f, N)
<1>1. 0 \in T
  <2>1. Solves([i \in 0 .. 0 |-> {n}], 0)
    OBVIOUS
  <2> QED
    BY <2>1
<1>2. ASSUME NEW k \in Nat, k \in T PROVE k + 1 \in T
  <2>1. PICK f : Solves(f, k)
    BY <1>2
  <2> DEFINE g == [i \in 0 .. k + 1 |->
                     IF i = 0 THEN {n} ELSE Onward(strong, f[i - 1])]
  <2>2. \A i \in 0 .. k : g[i] = f[i]
    <3>1. \A i \in 0 .. k :
            f[i] = IF i = 0 THEN {n} ELSE Onward(strong, f[i - 1])
      BY <2>1
    <3>2. \A i \in 0 .. k + 1 :
            g[i] = IF i = 0 THEN {n} ELSE Onward(strong, f[i - 1])
      OBVIOUS
    <3> HIDE DEF g
    <3> QED
      BY <3>1, <3>2
  <2>3. \A i \in 0 .. k + 1 : i = 0 \/ g[i - 1] = f[i - 1]
    <3> HIDE DEF g
    <3> QED
      BY <2>2
  <2>4. \A i \in 0 .. k + 1 :
          g[i] = IF i = 0 THEN {n} ELSE Onward(strong, g[i - 1])
    BY <2>3, Zenon
  <2>5. DOMAIN g = 0 .. k + 1 /\ g = [i \in DOMAIN g |-> g[i]]
    OBVIOUS
  <2> HIDE DEF g
  <2>6. Solves(g, k + 1)
    BY <2>4, <2>5, Zenon
  <2> HIDE DEF Solves
  <2> QED
    BY <2>6
<1>3. N \in T
  <2> HIDE DEF T
  <2> QED
    BY <1>1, <1>2, Induction
<1>4. Walk(strong, n) = step[N]
  BY DEF Walk, Onward
<1> HIDE DEF Solves
<1>5. Solves(step, N)
  BY <1>3
<1> HIDE DEF step
<1> QED
  BY <1>4, <1>5 DEF Solves

(* No path leads into nodes that only they themselves lead to.              *)
LEMMA NotReached ==
  ASSUME NEW edges, IsFiniteSet(edges), NEW n, NEW c, NEW G, n \notin G,
         \A e \in edges : e.conf >= c /\ e.dst \in G => e.src \in G
  PROVE  \A m \in Reachable(edges, n, c) : m \notin G
<1> DEFINE strong == {e \in edges : e.conf >= c}
           N == Cardinality(strong)
<1>1. N \in Nat
  BY FS_Subset, FS_CardinalityType
<1>2. \A e \in strong : e.dst \in G => e.src \in G
  OBVIOUS
<1>3. Reachable(edges, n, c) = Walk(strong, n)
  BY ReachableIsWalk
<1> HIDE DEF strong
<1>4. PICK step : /\ step = [i \in 0 .. N |->
                               IF i = 0 THEN {n} ELSE Onward(strong, step[i - 1])]
                  /\ Walk(strong, n) = step[N]
  BY <1>1, WalkEquation
<1>5. \A i \in 0 .. N :
        step[i] = IF i = 0 THEN {n} ELSE Onward(strong, step[i - 1])
  BY <1>4
<1> DEFINE T == {i \in Nat : i <= N => \A m \in step[i] : m \notin G}
<1>6. 0 \in T
  BY <1>1, <1>5
<1>7. ASSUME NEW i \in Nat, i \in T PROVE i + 1 \in T
  <2>1. SUFFICES ASSUME i + 1 <= N PROVE \A m \in step[i + 1] : m \notin G
    OBVIOUS
  <2>2. step[i + 1] = Onward(strong, step[i])
    BY <1>1, <1>5, <2>1
  <2>3. \A m \in step[i] : m \notin G
    BY <1>1, <1>7, <2>1
  <2> QED
    BY <1>2, <2>2, <2>3 DEF Onward
<1>8. \A i \in Nat : i \in T
  <2> HIDE DEF T
  <2> QED
    BY <1>6, <1>7, Induction
<1>9. \A m \in step[N] : m \notin G
  <2>1. N \in T
    BY <1>1, <1>8
  <2> QED
    BY <1>1, <2>1
<1> QED
  BY <1>3, <1>4, <1>9

LEMMA MaxConfidence ==
  ASSUME NEW S \in SUBSET Confidences, S # {}
  PROVE  Max(S) \in S /\ \A c \in S : c <= Max(S)
<1>1. S \subseteq 0 .. 3
  BY DEF Confidences, UNKNOWN, CERTAIN
<1>2. \E m \in S : \A c \in S : m >= c
  <2>1. CASE 3 \in S
    BY <1>1, <2>1
  <2>2. CASE 3 \notin S /\ 2 \in S
    BY <1>1, <2>2
  <2>3. CASE 3 \notin S /\ 2 \notin S /\ 1 \in S
    BY <1>1, <2>3
  <2>4. CASE 3 \notin S /\ 2 \notin S /\ 1 \notin S
    <3>1. \A c \in S : c = 0
      BY <1>1, <2>4
    <3> QED
      BY <3>1
  <2> QED
    BY <2>1, <2>2, <2>3, <2>4
<1>3. Max(S) \in S /\ \A c \in S : Max(S) >= c
  BY <1>2 DEF Max
<1> QED
  BY <1>1, <1>3

(* What Best answers about one target, or several.                          *)
LEMMA BestIs ==
  ASSUME NEW edges, NEW n, NEW targets
  PROVE  LET best == Best(edges, n, targets)
         IN  /\ best.conf \in Confidences /\ best.targets \subseteq targets
             /\ best.found => Reachable(edges, n, best.conf) \cap targets # {}
             /\ best.conf = UNKNOWN \/ best.found
             /\ \A c \in Confidences :
                  best.found /\ Reachable(edges, n, c) \cap targets # {} =>
                    c <= best.conf
<1> DEFINE reached(c) == Reachable(edges, n, c) \cap targets
           S == {c \in Confidences : reached(c) # {}}
           best == Best(edges, n, targets)
<1>1. UNKNOWN \in Confidences
  BY DEF Confidences, UNKNOWN, CERTAIN
<1>2. CASE reached(UNKNOWN) = {}
  <2>1. best = [found |-> FALSE, conf |-> UNKNOWN, targets |-> {}]
    BY <1>2 DEF Best
  <2> QED
    BY <1>1, <2>1
<1>3. CASE reached(UNKNOWN) # {}
  <2>1. best = [found |-> TRUE, conf |-> Max(S), targets |-> reached(Max(S))]
    BY <1>3 DEF Best
  <2>2. Max(S) \in S /\ \A c \in S : c <= Max(S)
    BY <1>1, <1>3, MaxConfidence
  <2> QED
    BY <2>1, <2>2
<1> QED
  BY <1>2, <1>3

-----------------------------------------------------------------------------
(* Edges.  Merged is EdgesOf with the limit and the order that the builder  *)
(* gives it.                                                                *)
FirstNodes(S) ==
  {x \in S : Cardinality({y \in S : NodeRank(y) < NodeRank(x)}) < Kept}

SameAs(claims, c) == {d \in claims : SameEdge(c, d)}

MergedEdge(claims, c) ==
  LET same == SameAs(claims, c)
      top  == Strongest(same)
  IN  [c EXCEPT !.conf = top,
                !.others = IF top = AMBIGUOUS
                           THEN FirstNodes(UNION {d.others : d \in same})
                           ELSE {}]

Merged(claims) == {MergedEdge(claims, c) : c \in claims}

LEMMA EdgesAreMerged ==
  \A claims : EdgesOf(claims, Kept, NodeRank) = Merged(claims)
BY DEF EdgesOf, EdgeOf, FirstOf, Merged, MergedEdge, FirstNodes, SameAs

(* Behind each edge is a claim as sure as the edge is.                      *)
LEMMA EdgeHasClaim ==
  ASSUME NEW claims \in SUBSET ClaimType, NEW e \in Merged(claims)
  PROVE  \E d \in claims :
           /\ d.src = e.src /\ d.dst = e.dst /\ d.basis = e.basis
           /\ d.conf = e.conf
           /\ e.conf = AMBIGUOUS =>
                e.others = FirstNodes(UNION {f.others : f \in SameAs(claims, d)})
<1>1. PICK c \in claims : e = MergedEdge(claims, c)
  BY DEF Merged
<1> DEFINE same == SameAs(claims, c)
           confs == {d.conf : d \in same}
<1>2. c \in same /\ same \subseteq claims
  BY DEF SameAs, SameEdge
<1>3. confs \in SUBSET Confidences /\ confs # {}
  BY <1>2 DEF ClaimType
<1>4. PICK d \in same : d.conf = Max(confs)
  <2> HIDE DEF same
  <2> QED
    BY <1>3, MaxConfidence
<1>5. SameEdge(c, d)
  BY DEF SameAs
<1>6. SameAs(claims, d) = same
  BY <1>5 DEF SameAs, SameEdge
<1> HIDE DEF same
<1>7. /\ e.src = c.src /\ e.dst = c.dst /\ e.basis = c.basis
      /\ e.conf = Strongest(same)
      /\ Strongest(same) = AMBIGUOUS =>
           e.others = FirstNodes(UNION {f.others : f \in same})
  BY <1>1 DEF MergedEdge, same, ClaimType
<1>8. Strongest(same) = Max(confs)
  BY DEF Strongest
<1> QED
  BY <1>2, <1>4, <1>5, <1>6, <1>7, <1>8 DEF SameEdge

LEMMA MergedFinite ==
  ASSUME NEW claims, IsFiniteSet(claims)
  PROVE  IsFiniteSet(Merged(claims))
<1> DEFINE f == [c \in claims |-> MergedEdge(claims, c)]
           img == {f[c] : c \in claims}
<1>1. Merged(claims) = img
  BY DEF Merged
<1> HIDE DEF f
<1> QED
  BY <1>1, ImageFinite

(* At least one candidate is kept.                                          *)
LEMMA OneIsKept == Kept \in Nat /\ 0 < Kept
<1> DEFINE limit == MaxCandidates - 1
<1>1. limit \in Int
  BY TaskAssumption
<1> HIDE DEF limit
<1>2. \E m \in {1, limit} : \A k \in {1, limit} : m >= k
  BY <1>1
<1>3. Max({1, limit}) \in {1, limit} /\ Max({1, limit}) >= 1
  BY <1>2 DEF Max
<1> QED
  BY <1>1, <1>3 DEF Kept, limit

(* The first ones of some nodes are some of them.                           *)
LEMMA FirstNodesExist ==
  ASSUME Recorded, NEW S, S # {}, \A n \in S : GoodNode(n)
  PROVE  FirstNodes(S) # {} /\ FirstNodes(S) \subseteq S
<1>1. PICK n \in S : \A m \in S : NodeRank(n) <= NodeRank(m)
  BY MinimalNode
<1>2. \A m \in S : NodeRank(m) \in Int
  <2> SUFFICES ASSUME NEW m \in S PROVE NodeRank(m) \in Int
    OBVIOUS
  <2> DEFINE byPid == m.pid * (MaxProcs + 1)
  <2>1. m.pid \in Nat /\ m.start \in Nat /\ MaxProcs \in Nat
    BY TaskAssumption DEF GoodNode, NodeType
  <2>2. byPid \in Nat
    BY <2>1
  <2>3. NodeRank(m) = IF setup.ascending THEN byPid + m.start
                      ELSE byPid + MaxProcs - m.start
    BY DEF NodeRank
  <2> HIDE DEF byPid
  <2> QED
    BY <2>1, <2>2, <2>3
<1>3. {y \in S : NodeRank(y) < NodeRank(n)} = {}
  BY <1>1, <1>2
<1>4. Cardinality({y \in S : NodeRank(y) < NodeRank(n)}) < Kept
  BY <1>3, FS_EmptySet, OneIsKept
<1> QED
  BY <1>4 DEF FirstNodes

(* An ambiguous edge leaves at least two candidates, if no claim behind it  *)
(* had to be given up.                                                      *)
LEMMA DoubtHasCandidates ==
  ASSUME Recorded, NEW claims \in SUBSET ClaimType,
         NEW nodes, IsFiniteSet(nodes), \A n \in nodes : GoodNode(n),
         \A c \in claims : c.dst \notin c.others /\ c.others \subseteq nodes,
         \A c \in claims : Acceptable(c),
         NEW e \in Merged(claims), e.conf = AMBIGUOUS
  PROVE  Cardinality({e.dst} \cup e.others) > 1
<1>1. PICK d \in claims :
        /\ d.src = e.src /\ d.dst = e.dst /\ d.basis = e.basis
        /\ d.conf = e.conf
        /\ e.others = FirstNodes(UNION {f.others : f \in SameAs(claims, d)})
  BY EdgeHasClaim
<1> DEFINE all == UNION {f.others : f \in SameAs(claims, d)}
<1>2. d.others # {}
  BY <1>1 DEF Acceptable
<1>3. d \in SameAs(claims, d)
  BY DEF SameAs, SameEdge
<1>4. all # {} /\ all \subseteq nodes /\ e.dst \notin all
  BY <1>1, <1>2, <1>3 DEF SameAs, SameEdge
<1> HIDE DEF all
<1>5. e.others = FirstNodes(all)
  BY <1>1 DEF all
<1>6. e.others # {} /\ e.others \subseteq all
  BY <1>4, <1>5, FirstNodesExist
<1>7. PICK x \in e.others : x # e.dst
  BY <1>4, <1>6
<1> DEFINE two == {e.dst, x}
           set == {e.dst} \cup e.others
<1>8. IsFiniteSet(set)
  BY <1>4, <1>6, FS_Subset, FS_AddElement
<1>9. Cardinality(two) = 2
  <2>1. IsFiniteSet({e.dst}) /\ Cardinality({e.dst}) = 1 /\ x \notin {e.dst}
    BY <1>7, FS_Singleton
  <2>2. two = {e.dst} \cup {x}
    OBVIOUS
  <2>3. Cardinality({e.dst} \cup {x}) = Cardinality({e.dst}) + 1
    BY <2>1, FS_AddElement
  <2> QED
    BY <2>1, <2>2, <2>3
<1>10. two \subseteq set
  OBVIOUS
<1> HIDE DEF two, set
<1>11. Cardinality(set) \in Nat /\ Cardinality(two) <= Cardinality(set)
  BY <1>8, <1>10, FS_Subset, FS_CardinalityType
<1>12. Cardinality(set) > 1
  BY <1>9, <1>11
<1> QED
  BY <1>12 DEF set

-----------------------------------------------------------------------------
(* Owners.  Ours are the nodes that may lead to the task for certain: those *)
(* of the processes it may claim, and those that no start time tells apart. *)
Ours == {n \in NodeType : n = Container \/ n.start = None \/ Claimed(n.start)}
Descendants == {n \in NodeType : n.start # None /\ Claimed(n.start)}

LEMMA CertainClimb ==
  ASSUME Recorded, NEW c, LineageClaim(c), c.conf = CERTAIN,
         Claimed(c.dst.start)
  PROVE  c.src \in Descendants
<1>1. /\ GoodNode(c.src) /\ GoodNode(c.dst)
      /\ c.src.start # None /\ c.dst.start # None
      /\ life[c.src.start].parent = c.dst.start
  BY DEF LineageClaim
<1>2. Len(life) \in Nat
  BY LenProperties DEF Recording, Recorded, LifeInv
<1>3. c.src.start \in 1 .. Len(life) /\ c.dst.start \in 1 .. Len(life)
  BY <1>1, <1>2 DEF GoodNode, None
<1>4. Claimed(c.src.start)
  BY <1>1, <1>3, ChildIsClaimed
<1> QED
  BY <1>1, <1>4 DEF Descendants, GoodNode

LEMMA RootPathIsBest ==
  ASSUME NEW g, NEW n
  PROVE  RootPath(g, n) = Best(Merged(g.claims), n,
                               {m \in g.nodes : StartedLikeRoot(m)} \ {n})
BY DEF RootPath, EdgesOf, EdgeOf, FirstOf, Merged, MergedEdge, FirstNodes, SameAs

LEMMA RootPathIsTrue ==
  ASSUME Recorded, NEW evs, Recording(evs),
         root # 0, NEW g, GraphInv(evs, g), NEW n \in g.nodes
  PROVE  /\ RootPath(g, n).conf \in Confidences
         /\ RootPath(g, n).conf = CERTAIN => n \in Descendants
<1> DEFINE edges == Merged(g.claims)
           targets == {m \in g.nodes : StartedLikeRoot(m)} \ {n}
           best == Best(edges, n, targets)
<1>1. RootPath(g, n) = best
  BY RootPathIsBest
<1>2. /\ best.conf \in Confidences
      /\ best.found => Reachable(edges, n, best.conf) \cap targets # {}
      /\ best.conf = UNKNOWN \/ best.found
  <2> HIDE DEF edges, targets
  <2> QED
    BY BestIs
<1> HIDE DEF best
<1>3. ASSUME best.conf = CERTAIN, n \notin Descendants PROVE FALSE
  <2>1. Reachable(edges, n, CERTAIN) \cap targets # {}
    BY <1>2, <1>3 DEF UNKNOWN, CERTAIN
  <2>2. IsFiniteSet(edges)
    BY MergedFinite DEF GraphInv
  <2>3. g.claims \in SUBSET ClaimType
    BY DEF GraphInv, LineageClaim
  <2>4. ASSUME NEW e \in edges, e.conf >= CERTAIN, e.dst \in Descendants
        PROVE  e.src \in Descendants
    <3>1. PICK d \in g.claims : /\ d.src = e.src /\ d.dst = e.dst
                                /\ d.conf = e.conf
      BY <2>3, EdgeHasClaim
    <3>2. d.conf = CERTAIN
      BY <2>3, <2>4, <3>1 DEF ClaimType, Confidences, UNKNOWN, CERTAIN
    <3>3. LineageClaim(d)
      BY DEF GraphInv
    <3>4. Claimed(d.dst.start)
      BY <2>4, <3>1 DEF Descendants
    <3> QED
      BY <3>1, <3>2, <3>3, <3>4, CertainClimb
  <2>5. \A m \in Reachable(edges, n, CERTAIN) : m \notin Descendants
    <3> HIDE DEF edges
    <3> QED
      BY <1>3, <2>2, <2>4, NotReached
  <2>6. targets \subseteq Descendants
    <3>1. \A m \in g.nodes : GoodNode(m) /\ m \in NodeType
      BY DEF GraphInv, GoodNode
    <3> QED
      BY <3>1, LikeRootIsClaimed DEF Descendants, StartedLikeRoot, GoodNode
  <2> QED
    BY <2>1, <2>5, <2>6
<1> QED
  BY <1>1, <1>2, <1>3

(* The cgroup of a process of the task is that of its root.                 *)
LEMMA CgroupIsTrue ==
  ASSUME Recorded, NEW evs, Recording(evs),
         NEW n \in NodeType, CgroupMatches(evs, n)
  PROVE  n \in Ours
<1>1. PICK e \in Range(evs) : Self(e) = n /\ Member[e.who] = TRUE
  BY DEF CgroupMatches
<1>2. e.start \in {None, e.who}
  BY DEF Recording, Recorded, Truthful, OfItsProcess
<1>3. n.start = e.start
  BY <1>1 DEF Self, Node
<1> QED
  BY <1>1, <1>2, <1>3 DEF Ours, Claimed

LEMMA NodesOfTask ==
  /\ Task \in NodeType /\ Container \in NodeType
  /\ Task.start = None /\ Task # Container
  /\ Task \in Ours /\ Container \in Ours
BY DEF Task, Container, Node, NodeType, None, Ours

LEMMA OwnerClaimIsTrue ==
  ASSUME Recorded, NEW evs, Recording(evs),
         root # 0, NEW g, GraphInv(evs, g), NEW n \in g.nodes
  PROVE  LET c == OwnerClaim(evs, g, n)
         IN  /\ c \in ClaimType /\ c.src = n /\ c.dst = Task
             /\ c.others = {}
             /\ c.conf = CERTAIN => n \in Ours
<1> DEFINE up == RootPath(g, n)
           c == OwnerClaim(evs, g, n)
           owned(basis, conf) == Claim(n, Task, basis, conf, {})
<1>1. n \in NodeType
  BY DEF GraphInv, GoodNode
<1>2. up.conf \in Confidences /\ (up.conf = CERTAIN => n \in Ours)
  BY RootPathIsTrue DEF Descendants, Ours
<1>3. StartedLikeRoot(n) => n \in Ours
  BY <1>1, LikeRootIsClaimed DEF Ours, GraphInv, GoodNode
<1>4. PICK conf \in Confidences, basis \in {"lineage", "run_id"} :
        /\ c = owned(basis, conf)
        /\ conf = CERTAIN => n \in Ours
  <2>1. CASE setup.lineage /\ StartedLikeRoot(n)
    <3>1. c = owned("lineage", CERTAIN)
      BY <2>1 DEF OwnerClaim
    <3> QED
      BY <1>3, <2>1, <3>1 DEF Confidences, UNKNOWN, CERTAIN
  <2>2. CASE setup.lineage /\ ~StartedLikeRoot(n) /\ up.found
    <3>1. c = owned("lineage", up.conf)
      BY <2>2 DEF OwnerClaim
    <3> QED
      BY <1>2, <3>1
  <2>3. CASE ~(setup.lineage /\ StartedLikeRoot(n))
             /\ ~(setup.lineage /\ ~StartedLikeRoot(n) /\ up.found)
    <3> DEFINE weak == IF g.from[n] <= began THEN UNKNOWN ELSE PROBABLE
               conf == IF CgroupMatches(evs, n) THEN CERTAIN ELSE weak
    <3>1. c = owned("run_id", conf)
      BY <2>3 DEF OwnerClaim
    <3>2. weak \in {UNKNOWN, PROBABLE}
      OBVIOUS
    <3>3. conf \in Confidences /\ (conf = CERTAIN => n \in Ours)
      BY <1>1, <3>2, CgroupIsTrue DEF Confidences, UNKNOWN, PROBABLE, CERTAIN
    <3> HIDE DEF conf
    <3> QED
      BY <3>1, <3>3
  <2> QED
    BY <2>1, <2>2, <2>3
<1> HIDE DEF c
<1>5. owned(basis, conf) = [src |-> n, dst |-> Task, basis |-> basis,
                            conf |-> conf, others |-> {}]
  BY DEF Claim
<1>6. c \in ClaimType /\ c.src = n /\ c.dst = Task /\ c.others = {} /\ c.conf = conf
  BY <1>1, <1>4, <1>5, NodesOfTask DEF ClaimType
<1> QED
  BY <1>4, <1>6 DEF c

(* The one node of the container's process number is that of its process,   *)
(* if it was not misread.                                                   *)
LEMMA SoleSibling ==
  ASSUME NEW nodes, IsFiniteSet(nodes), Resolved, ~Misread(nodes),
         NEW n \in nodes, n.pid = HostPid,
         ~(Cardinality({m \in nodes : m.pid = HostPid}) > 1)
  PROVE  n.start \in {root, None}
<1> DEFINE siblings == {m \in nodes : m.pid = HostPid}
<1>1. n \in siblings /\ IsFiniteSet(siblings) /\ ~(Cardinality(siblings) > 1)
  BY FS_Subset
<1> HIDE DEF siblings
<1>2. siblings = {n}
  <2> SUFFICES ASSUME NEW m \in siblings, m # n PROVE FALSE
    BY <1>1
  <2>1. IsFiniteSet({n}) /\ Cardinality({n}) = 1 /\ m \notin {n}
    BY FS_Singleton
  <2>2. Cardinality({n} \cup {m}) = Cardinality({n}) + 1
    BY <2>1, FS_AddElement
  <2>3. {n} \cup {m} \subseteq siblings
    BY <1>1
  <2>4. Cardinality({n} \cup {m}) <= Cardinality(siblings)
    BY <1>1, <2>3, FS_Subset
  <2>5. Cardinality(siblings) \in Nat
    BY <1>1, FS_CardinalityType
  <2> DEFINE size == Cardinality(siblings)
  <2>6. size \in Nat /\ ~(size > 1) /\ 1 + 1 <= size
    BY Zenon, <1>1, <2>1, <2>2, <2>4, <2>5
  <2> HIDE DEF size
  <2> QED
    BY <2>6
<1> QED
  BY <1>2 DEF Misread, siblings

LEMMA ContainerClaimsAreTrue ==
  ASSUME Recorded, NEW evs, Recording(evs),
         NEW g, GraphInv(evs, g), NEW n \in g.nodes,
         NEW c \in ContainerClaims(evs, g, n)
  PROVE  /\ c \in ClaimType /\ c.src = n /\ c.dst = Container
         /\ c.others = {}
         /\ c.conf = CERTAIN /\ Resolved /\ ~Misread(g.nodes) => n \in Ours
<1> DEFINE siblings == {m \in g.nodes : m.pid = HostPid}
           conf == IF n \in siblings /\ Cardinality(siblings) > 1
                   THEN PROBABLE ELSE CERTAIN
<1>1. /\ n \in siblings \/ CgroupMatches(evs, n)
      /\ c = Claim(n, Container, "container", conf, {})
  BY DEF ContainerClaims
<1>2. conf \in {PROBABLE, CERTAIN} /\ n \in NodeType
  BY DEF GraphInv, GoodNode
<1>3. c = [src |-> n, dst |-> Container, basis |-> "container",
           conf |-> conf, others |-> {}]
  BY <1>1 DEF Claim
<1>4. ASSUME conf = CERTAIN, Resolved, ~Misread(g.nodes) PROVE n \in Ours
  <2>1. CASE CgroupMatches(evs, n)
    BY <1>2, <2>1, CgroupIsTrue
  <2>2. CASE n \in siblings
    <3>1. ~(Cardinality(siblings) > 1)
      BY <1>4, <2>2 DEF PROBABLE, CERTAIN
    <3>2. n.pid = HostPid /\ IsFiniteSet(g.nodes)
      BY <2>2 DEF GraphInv
    <3>4. n.start \in {root, None}
      BY <1>4, <3>1, <3>2, SoleSibling
    <3>5. n.start = root => Claimed(n.start)
      BY <1>4, RootStartsLikeItself, LikeRootIsClaimed
         DEF Resolved, GraphInv, GoodNode
    <3> QED
      BY <1>2, <3>4, <3>5 DEF Ours
  <2> QED
    BY <1>1, <2>1, <2>2
<1> HIDE DEF conf
<1>5. c \in ClaimType /\ c.src = n /\ c.dst = Container /\ c.others = {} /\ c.conf = conf
  BY <1>2, <1>3, NodesOfTask
     DEF ClaimType, Confidences, UNKNOWN, PROBABLE, CERTAIN
<1> QED
  BY <1>4, <1>5

(* All claims about processes, of a graph of the log.                       *)
LEMMA ProcessClaimsAreTrue ==
  ASSUME Recorded, NEW evs, Recording(evs),
         NEW g, GraphInv(evs, g), NEW c \in ProcessClaims(evs, g)
  PROVE  /\ c \in ClaimType
         /\ c.dst \notin c.others /\ c.others \subseteq g.nodes
         /\ c.conf = CERTAIN /\ c.dst \in Ours /\ ~Misread(g.nodes) =>
              c.src \in Ours
<1>1. CASE c \in g.claims
  <2>1. LineageClaim(c) /\ c.others \subseteq g.nodes
    BY <1>1 DEF GraphInv, Within
  <2>2. ASSUME c.conf = CERTAIN, c.dst \in Ours PROVE c.src \in Ours
    <3>1. c.dst.start # None /\ c.dst.pid \in Pids
      BY <2>1, <2>2 DEF LineageClaim, GoodNode
    <3>2. c.dst # Container
      BY <3>1, TaskAssumption DEF Container, Node
    <3>3. Claimed(c.dst.start)
      BY <2>2, <3>1, <3>2 DEF Ours
    <3>4. c.src \in Descendants
      BY <2>1, <2>2, <3>3, CertainClimb
    <3> QED
      BY <3>4 DEF Descendants, Ours
  <2> QED
    BY <2>1, <2>2 DEF LineageClaim
<1>2. ASSUME root # 0, NEW n \in g.nodes, c = OwnerClaim(evs, g, n)
      PROVE  /\ c \in ClaimType /\ c.src = n /\ c.others = {}
             /\ c.conf = CERTAIN => n \in Ours
  BY <1>2, OwnerClaimIsTrue
<1>3. ASSUME c = Claim(Container, Task, "container", CERTAIN, {})
      PROVE  c \in ClaimType /\ c.others = {} /\ c.src \in Ours
  <2>1. c = [src |-> Container, dst |-> Task, basis |-> "container",
             conf |-> CERTAIN, others |-> {}]
    BY <1>3 DEF Claim
  <2> QED
    BY <2>1, NodesOfTask DEF ClaimType, Confidences, UNKNOWN, CERTAIN
<1>4. ASSUME Resolved, NEW n \in g.nodes, c \in ContainerClaims(evs, g, n)
      PROVE  /\ c \in ClaimType /\ c.src = n /\ c.others = {}
             /\ c.conf = CERTAIN /\ ~Misread(g.nodes) => n \in Ours
  BY <1>4, ContainerClaimsAreTrue
<1>5. \/ c \in g.claims
      \/ root # 0 /\ \E n \in g.nodes : c = OwnerClaim(evs, g, n)
      \/ Resolved /\ c = Claim(Container, Task, "container", CERTAIN, {})
      \/ Resolved /\ \E n \in g.nodes : c \in ContainerClaims(evs, g, n)
  BY DEF ProcessClaims
<1> QED
  BY <1>1, <1>2, <1>3, <1>4, <1>5

LEMMA ProcessClaimsFinite ==
  ASSUME NEW evs, NEW g, IsFiniteSet(g.nodes), IsFiniteSet(g.claims)
  PROVE  IsFiniteSet(ProcessClaims(evs, g))
<1> DEFINE f == [n \in g.nodes |-> OwnerClaim(evs, g, n)]
           owners == {f[n] : n \in g.nodes}
           h == [n \in g.nodes |-> ContainerClaims(evs, g, n)]
           sets == {h[n] : n \in g.nodes}
           link == Claim(Container, Task, "container", CERTAIN, {})
<1>1. owners = {OwnerClaim(evs, g, n) : n \in g.nodes}
  OBVIOUS
<1>2. sets = {ContainerClaims(evs, g, n) : n \in g.nodes}
  OBVIOUS
<1>3. \A s \in sets : IsFiniteSet(s)
  <2>1. \A n \in g.nodes : IsFiniteSet(ContainerClaims(evs, g, n))
    <3> SUFFICES ASSUME NEW n \in g.nodes
                 PROVE  IsFiniteSet(ContainerClaims(evs, g, n))
      OBVIOUS
    <3>1. PICK c : ContainerClaims(evs, g, n) \in {{c}, {}}
      BY DEF ContainerClaims
    <3>2. IsFiniteSet({c}) /\ IsFiniteSet({})
      BY FS_EmptySet, FS_Singleton
    <3> QED
      BY <3>1, <3>2
  <2> QED
    BY <1>2, <2>1
<1>4. IsFiniteSet(owners) /\ IsFiniteSet(sets)
  <2> HIDE DEF f, h
  <2> QED
    BY ImageFinite
<1> HIDE DEF owners, sets
<1>5. IsFiniteSet(UNION sets)
  BY <1>3, <1>4, FS_UNION
<1>6. IsFiniteSet({link}) /\ IsFiniteSet({})
  BY FS_Singleton, FS_EmptySet
<1>7. IsFiniteSet({link} \cup UNION sets)
  BY <1>5, <1>6, FS_Union
<1> DEFINE A == g.claims \cup (IF root = 0 THEN {} ELSE owners)
           B == IF ~Resolved THEN {} ELSE {link} \cup UNION sets
<1>8. ProcessClaims(evs, g) = A \cup B
  BY <1>1, <1>2 DEF ProcessClaims
<1>9. IsFiniteSet(A)
  BY <1>4, <1>6, FS_Union
<1>10. IsFiniteSet(B)
  BY <1>6, <1>7
<1> HIDE DEF A, B
<1>11. IsFiniteSet(A \cup B)
  BY <1>9, <1>10, FS_Union
<1> QED
  BY <1>8, <1>11

-----------------------------------------------------------------------------
(* Answers.                                                                 *)
ClaimsOf(evs, g) == ProcessClaims(evs, g)
GraphEdges(evs, g) == Merged(ClaimsOf(evs, g))
Answer(evs, g, n) == Best(GraphEdges(evs, g), n, {Task})

(* With one task no node has two owners.                                    *)
LEMMA AnswerIsBest ==
  ASSUME NEW evs, NEW g, NEW n
  PROVE  /\ Attribution(GraphEdges(evs, g), n, {Task}).conf = Answer(evs, g, n).conf
         /\ Answer(evs, g, n).conf \in Confidences
         /\ Answer(evs, g, n).conf = UNKNOWN \/ Answer(evs, g, n).found
         /\ Answer(evs, g, n).found =>
              Task \in Reachable(GraphEdges(evs, g), n, Answer(evs, g, n).conf)
         /\ \A c \in Confidences :
              /\ Answer(evs, g, n).found
              /\ Task \in Reachable(GraphEdges(evs, g), n, c)
              => c <= Answer(evs, g, n).conf
<1> DEFINE edges == GraphEdges(evs, g)
           best == Answer(evs, g, n)
<1>1. /\ best.conf \in Confidences /\ best.targets \subseteq {Task}
      /\ best.found => Reachable(edges, n, best.conf) \cap {Task} # {}
      /\ best.conf = UNKNOWN \/ best.found
      /\ \A c \in Confidences :
           best.found /\ Reachable(edges, n, c) \cap {Task} # {} =>
             c <= best.conf
  BY BestIs DEF Answer
<1>2. ~(Cardinality(best.targets) > 1)
  <2>1. best.targets = {} \/ best.targets = {Task}
    BY <1>1
  <2>2. Cardinality({Task}) = 1
    BY FS_Singleton
  <2>3. best.targets = {} => Cardinality(best.targets) = 0
    BY FS_EmptySet
  <2> HIDE DEF best
  <2> QED
    BY <2>1, <2>2, <2>3
<1>3. Attribution(edges, n, {Task}).conf = best.conf
  BY <1>2 DEF Attribution, Answer
<1> QED
  BY <1>1, <1>3

LEMMA GraphEdgesFinite ==
  ASSUME NEW evs, NEW g, GraphInv(evs, g)
  PROVE  IsFiniteSet(GraphEdges(evs, g))
<1>1. IsFiniteSet(ClaimsOf(evs, g))
  BY ProcessClaimsFinite DEF GraphInv, ClaimsOf
<1> QED
  BY <1>1, MergedFinite DEF GraphEdges

(* Only what is ours is certain.                                            *)
LEMMA CertainAnswerIsTrue ==
  ASSUME Recorded, NEW evs, Recording(evs),
         NEW g, GraphInv(evs, g), ~Misread(g.nodes), NEW n \in g.nodes,
         Answer(evs, g, n).conf = CERTAIN, n.start # None
  PROVE  Claimed(n.start)
<1> DEFINE edges == GraphEdges(evs, g)
<1>1. Task \in Reachable(edges, n, CERTAIN)
  BY AnswerIsBest DEF UNKNOWN, CERTAIN
<1>2. IsFiniteSet(edges)
  BY GraphEdgesFinite
<1>3. ClaimsOf(evs, g) \in SUBSET ClaimType
  BY ProcessClaimsAreTrue DEF ClaimsOf
<1>4. ASSUME NEW e \in edges, e.conf >= CERTAIN, e.dst \in Ours
      PROVE  e.src \in Ours
  <2>1. PICK d \in ClaimsOf(evs, g) : /\ d.src = e.src /\ d.dst = e.dst
                                 /\ d.conf = e.conf
    BY <1>3, EdgeHasClaim DEF GraphEdges
  <2>2. d.conf = CERTAIN
    BY <1>3, <1>4, <2>1 DEF ClaimType, Confidences, UNKNOWN, CERTAIN
  <2> QED
    BY <1>4, <2>1, <2>2, ProcessClaimsAreTrue DEF ClaimsOf
<1>5. n \in Ours
  <2> SUFFICES ASSUME n \notin Ours PROVE FALSE
    OBVIOUS
  <2> HIDE DEF edges
  <2>1. \A m \in Reachable(edges, n, CERTAIN) : m \notin Ours
    BY <1>2, <1>4, NotReached
  <2> QED
    BY <1>1, <2>1, NodesOfTask
<1>6. n # Container
  BY TaskAssumption DEF GraphInv, GoodNode, Container, Node
<1> QED
  BY <1>5, <1>6 DEF Ours

(* An answer is only ambiguous because an edge is.                          *)
LEMMA DoubtHasEdge ==
  ASSUME Recorded, NEW evs, Recording(evs), NEW g, GraphInv(evs, g), NEW n,
         Answer(evs, g, n).conf = AMBIGUOUS
  PROVE  \E e \in GraphEdges(evs, g) : e.conf = AMBIGUOUS
<1> DEFINE edges == GraphEdges(evs, g)
<1> SUFFICES ASSUME \A e \in edges : e.conf # AMBIGUOUS PROVE FALSE
  OBVIOUS
<1>1. ClaimsOf(evs, g) \in SUBSET ClaimType
  BY ProcessClaimsAreTrue DEF ClaimsOf
<1>2. \A e \in edges : e.conf \in Confidences
  BY <1>1, EdgeHasClaim DEF GraphEdges, ClaimType
<1>3. {e \in edges : e.conf >= AMBIGUOUS} = {e \in edges : e.conf >= PROBABLE}
  BY <1>2 DEF Confidences, UNKNOWN, AMBIGUOUS, PROBABLE, CERTAIN
<1>4. Reachable(edges, n, AMBIGUOUS) = Reachable(edges, n, PROBABLE)
  BY <1>3, ReachableIsWalk
<1>5. Answer(evs, g, n).found /\ Task \in Reachable(edges, n, AMBIGUOUS)
  BY AnswerIsBest DEF UNKNOWN, AMBIGUOUS
<1>6. PROBABLE \in Confidences
  BY DEF Confidences, UNKNOWN, PROBABLE, CERTAIN
<1>7. PROBABLE <= AMBIGUOUS
  BY <1>4, <1>5, <1>6, AnswerIsBest
<1> QED
  BY <1>7 DEF PROBABLE, AMBIGUOUS

(* What Analysis is made of.                                                *)
Confident(evs, g) == [n \in g.nodes |-> Attribution(GraphEdges(evs, g), n, {Task}).conf]

LEMMA AnalysisIs ==
  ASSUME NEW evs
  PROVE  Analysis(evs) =
           LET g == Lineage(evs)
               writer == {Self(e) : e \in {x \in Range(evs) : x.type = "file.write"}}
           IN  [answers   |-> \A c \in ClaimsOf(evs, g) : Acceptable(c),
                doubts    |-> Ambiguities(GraphEdges(evs, g)),
                misread   |-> Misread(g.nodes),
                processes |-> Confident(evs, g),
                files     |-> [n \in writer |->
                                 Compose(EffectConfidence(n), Confident(evs, g)[n])]]
BY DEF Analysis, EdgesOf, EdgeOf, FirstOf,
       Confident, GraphEdges, ClaimsOf, Merged, MergedEdge, FirstNodes, SameAs

LEMMA TypesAreRight == Recorded => TypeOK
<1> SUFFICES ASSUME Recorded PROVE TypeOK
  OBVIOUS
<1>1. life \in Seq([pid : Pids, parent : 0 .. MaxProcs, tick : Nat, alive : BOOLEAN])
  BY DEF Recorded, LifeInv, Process
<1>2. root \in 0 .. Len(life) /\ began \in 0 .. Len(log)
  BY DEF Recorded
<1>3. \A n \in Lineage(log).nodes :
        /\ n.pid \in Pids /\ n.start \in 0 .. Len(life)
        /\ n.start # None => life[n.start].pid = n.pid
  BY LineageIsGood, LogIsRecording DEF GraphInv, GoodNode
<1> QED
  BY <1>1, <1>2, <1>3 DEF TypeOK

LEMMA RecordedIsTrue == Recorded => CertainIsTrue
<1> SUFFICES ASSUME Recorded PROVE CertainIsTrue
  OBVIOUS
<1> DEFINE g == Lineage(log)
           a == Analysis(log)
           answers == \A c \in ClaimsOf(log, g) : Acceptable(c)
           writer == {Self(e) : e \in {x \in Range(log) : x.type = "file.write"}}
<1>1. GraphInv(log, g)
  BY LineageIsGood, LogIsRecording
<1>2. /\ a.answers = answers
      /\ a.doubts = Ambiguities(GraphEdges(log, g))
      /\ a.misread = Misread(g.nodes)
      /\ a.processes = Confident(log, g)
      /\ a.files = [n \in writer |->
                      Compose(EffectConfidence(n), Confident(log, g)[n])]
  <2> DEFINE files == [n \in writer |->
                         Compose(EffectConfidence(n), Confident(log, g)[n])]
  <2>1. a = [answers |-> answers, doubts |-> Ambiguities(GraphEdges(log, g)),
             misread |-> Misread(g.nodes), processes |-> Confident(log, g),
             files |-> files]
    BY AnalysisIs
  <2> HIDE DEF a, g, files, answers
  <2>2. a.answers = answers
    BY <2>1
  <2>3. a.misread = Misread(g.nodes)
    BY <2>1
  <2>4. /\ a.doubts = Ambiguities(GraphEdges(log, g)) /\ a.processes = Confident(log, g)
        /\ a.files = files
    BY <2>1
  <2> QED
    BY <2>2, <2>3, <2>4 DEF files
<1> HIDE DEF a, g
<1>3. /\ DOMAIN Confident(log, g) = g.nodes
      /\ \A n \in g.nodes : Confident(log, g)[n] = Answer(log, g, n).conf
  BY AnswerIsBest DEF Confident
<1>4. ASSUME answers PROVE DoubtIsListed(a)
  <2>1. ASSUME NEW n \in g.nodes, Answer(log, g, n).conf = AMBIGUOUS
        PROVE  a.doubts # {}
    <3>1. PICK e \in GraphEdges(log, g) : e.conf = AMBIGUOUS
      BY <1>1, <2>1, DoubtHasEdge, LogIsRecording
    <3>2. [of |-> e.src, candidates |-> {e.dst} \cup e.others]
            \in Ambiguities(GraphEdges(log, g))
      BY <3>1 DEF Ambiguities
    <3>3. a.doubts = Ambiguities(GraphEdges(log, g))
      BY <1>2
    <3> QED
      BY Zenon, <3>2, <3>3
  <2>2. ASSUME NEW e \in GraphEdges(log, g), e.conf = AMBIGUOUS
        PROVE  Cardinality({e.dst} \cup e.others) > 1
    <3>1. ClaimsOf(log, g) \in SUBSET ClaimType
      BY <1>1, ProcessClaimsAreTrue, LogIsRecording DEF ClaimsOf
    <3>2. IsFiniteSet(g.nodes) /\ \A n \in g.nodes : GoodNode(n)
      BY <1>1 DEF GraphInv
    <3>3. \A c \in ClaimsOf(log, g) : c.dst \notin c.others /\ c.others \subseteq g.nodes
      BY <1>1, ProcessClaimsAreTrue, LogIsRecording DEF ClaimsOf
    <3> QED
      BY <1>4, <2>2, <3>1, <3>2, <3>3, DoubtHasCandidates DEF GraphEdges
  <2>3. \A d \in a.doubts : Cardinality(d.candidates) > 1
    BY <1>2, <2>2 DEF Ambiguities
  <2> QED
    BY <1>2, <1>3, <2>1, <2>3 DEF DoubtIsListed
<1>5. ASSUME ~Misread(g.nodes), NEW n \in g.nodes, n.start # None,
             Confident(log, g)[n] = CERTAIN
      PROVE  Claimed(n.start)
  BY <1>1, <1>3, <1>5, CertainAnswerIsTrue, LogIsRecording
<1>6. ASSUME ~Misread(g.nodes), NEW e \in Range(log), e.type = "file.write",
             a.files[Self(e)] = CERTAIN
      PROVE  Claimed(e.who)
  <2> DEFINE n == Self(e)
  <2>1. n \in writer /\ n \in g.nodes
    BY <1>1, <1>6 DEF GraphInv, Aggregated
  <2>2. a.files[n] = Compose(EffectConfidence(n), Confident(log, g)[n])
    BY <1>2, <2>1
  <2>3. Confident(log, g)[n] \in Confidences
    BY <1>3, <2>1, AnswerIsBest
  <2>4. n.start # None /\ Confident(log, g)[n] = CERTAIN
    BY <1>6, <2>2, <2>3
       DEF Compose, EffectConfidence, Confidences, UNKNOWN, PROBABLE, CERTAIN
  <2>5. Claimed(n.start)
    BY <1>5, <1>6, <2>1, <2>4
  <2>6. n.start = e.start /\ e.start \in {None, e.who}
    BY DEF Self, Node, Recorded, Truthful, OfItsProcess
  <2> QED
    BY <2>4, <2>5, <2>6
<1> QED
  BY <1>2, <1>3, <1>4, <1>5, <1>6, TypesAreRight DEF CertainIsTrue, Claimed, a

(* CERTAIN is wrong in two named cases only (graph.py:721 _lookup_process,  *)
(* :888 _build_process_owner_edges): whichever process numbers the machine  *)
(* hands out and reuses, however many processes start in one clock tick,    *)
(* whatever the recorder lost or captured without a start time, and in      *)
(* whatever order, a process that the engine calls certainly the task's     *)
(* descends from the task's root or from a process of the root's very tick, *)
(* and so does every process behind a file that it calls certainly the      *)
(* task's, unless a container's process was taken for another of its        *)
(* number; a doubtful answer has a listed ambiguity behind it, with at      *)
(* least two candidates.                                                    *)
THEOREM CertaintyIsTrue == Spec => []CertainIsTrue
BY AlwaysRecorded, RecordedIsTrue, PTL

-----------------------------------------------------------------------------
(* The other direction: nothing that was captured is wasted.  Reachable     *)
(* goes as many rounds as there are edges, and that is enough: each round   *)
(* that is not the last finds a node, and there are no more nodes to find   *)
(* than edges that lead to one.                                             *)
LEMMA WalkIsClosed ==
  ASSUME NEW strong, IsFiniteSet(strong), NEW n
  PROVE  /\ n \in Walk(strong, n)
         /\ Onward(strong, Walk(strong, n)) = Walk(strong, n)
<1> DEFINE N == Cardinality(strong)
           f == [e \in strong |-> e.dst]
           ends == {f[e] : e \in strong}
           all == ends \cup {n}
<1>1. N \in Nat
  BY FS_CardinalityType
<1>2. ends = {e.dst : e \in strong}
  OBVIOUS
<1>3. IsFiniteSet(ends) /\ Cardinality(ends) <= N
  <2>1. f \in Surjection(strong, ends)
    BY DEF Surjection
  <2> HIDE DEF f, ends
  <2> QED
    BY <2>1, FS_Surjection
<1> HIDE DEF ends
<1>4. IsFiniteSet(all) /\ Cardinality(all) \in Nat /\ Cardinality(all) <= N + 1
  <2>1. IsFiniteSet(all)
        /\ Cardinality(all) = IF n \in ends THEN Cardinality(ends)
                              ELSE Cardinality(ends) + 1
    BY <1>3, FS_AddElement
  <2>2. Cardinality(ends) \in Nat
    BY <1>3, FS_CardinalityType
  <2> HIDE DEF all
  <2> QED
    BY <1>1, <1>3, <2>1, <2>2
<1>5. PICK step : /\ step = [i \in 0 .. N |->
                               IF i = 0 THEN {n} ELSE Onward(strong, step[i - 1])]
                  /\ Walk(strong, n) = step[N]
  BY <1>1, WalkEquation
<1>6. \A i \in 0 .. N :
        step[i] = IF i = 0 THEN {n} ELSE Onward(strong, step[i - 1])
  BY <1>5
<1>7. \A near \in SUBSET all :
        near \subseteq Onward(strong, near) /\ Onward(strong, near) \subseteq all
  BY <1>2 DEF Onward
<1> DEFINE Grown(i) == /\ step[i] \subseteq all /\ n \in step[i]
                      /\ \/ Onward(strong, step[i]) = step[i]
                         \/ Cardinality(step[i]) >= i + 1
           T == {i \in Nat : i <= N => Grown(i)}
<1> HIDE DEF all
<1>8. 0 \in T
  <2>1. step[0] = {n} /\ Cardinality({n}) = 1
    BY <1>1, <1>6, FS_Singleton
  <2> QED
    BY <2>1 DEF all
<1>9. ASSUME NEW i \in Nat, i \in T PROVE i + 1 \in T
  <2>1. SUFFICES ASSUME i + 1 <= N PROVE Grown(i + 1)
    OBVIOUS
  <2>2. Grown(i) /\ step[i + 1] = Onward(strong, step[i])
    BY <1>1, <1>6, <1>9, <2>1
  <2>3. step[i] \subseteq step[i + 1] /\ step[i + 1] \subseteq all
    BY <1>7, <2>2
  <2>4. CASE step[i + 1] = step[i]
    BY <2>2, <2>3, <2>4
  <2>5. CASE step[i + 1] # step[i]
    <3> DEFINE a == step[i]
               b == step[i + 1]
    <3>1. IsFiniteSet(b) /\ Cardinality(b) \in Nat
      BY <1>4, <2>3, FS_Subset, FS_CardinalityType
    <3>2. /\ IsFiniteSet(a) /\ Cardinality(a) \in Nat
          /\ Cardinality(a) <= Cardinality(b)
          /\ Cardinality(b) # Cardinality(a)
      <4> HIDE DEF a, b
      <4>1. a \in SUBSET b /\ a # b
        BY <2>3, <2>5 DEF a, b
      <4> QED
        BY <3>1, <4>1, FS_Subset, FS_CardinalityType
    <3>3. Cardinality(a) >= i + 1
      BY <2>2, <2>5
    <3>4. Cardinality(b) >= i + 1 + 1
      <4> HIDE DEF a, b
      <4> QED
        BY <3>1, <3>2, <3>3
    <3> QED
      BY <2>2, <2>3, <3>4
  <2> QED
    BY <2>4, <2>5
<1>10. Grown(N)
  <2>1. \A i \in Nat : i \in T
    <3> HIDE DEF T
    <3> QED
      BY <1>8, <1>9, Induction
  <2>2. N \in T
    BY <1>1, <2>1
  <2> QED
    BY <1>1, <2>2
<1>11. CASE Cardinality(step[N]) >= N + 1
  <2> DEFINE s == step[N]
  <2>1. s \in SUBSET all
    BY <1>10
  <2> HIDE DEF s
  <2>2. /\ IsFiniteSet(s) /\ Cardinality(s) <= Cardinality(all)
        /\ Cardinality(s) \in Nat
        /\ Cardinality(all) = Cardinality(s) => all = s
    BY <1>4, <2>1, FS_Subset, FS_CardinalityType
  <2>3. Cardinality(s) >= N + 1
    BY <1>11 DEF s
  <2>4. all = s
    BY <1>1, <1>4, <2>2, <2>3
  <2>5. Onward(strong, s) = s
    BY <1>7, <2>4
  <2> QED
    BY <1>5, <1>10, <2>5 DEF s
<1> QED
  BY <1>5, <1>10, <1>11

LEMMA ReachableIsClosed ==
  ASSUME NEW edges, IsFiniteSet(edges), NEW n, NEW c
  PROVE  /\ n \in Reachable(edges, n, c)
         /\ \A e \in edges :
              e.conf >= c /\ e.src \in Reachable(edges, n, c) =>
                e.dst \in Reachable(edges, n, c)
<1> DEFINE strong == {e \in edges : e.conf >= c}
           all == Walk(strong, n)
<1>1. IsFiniteSet(strong)
  BY FS_Subset
<1>2. Reachable(edges, n, c) = all
  BY ReachableIsWalk
<1> HIDE DEF strong
<1>3. n \in all /\ Onward(strong, all) = all
  BY <1>1, WalkIsClosed
<1> HIDE DEF all
<1>4. \A e \in strong : e.src \in all => e.dst \in Onward(strong, all)
  BY DEF Onward
<1> QED
  BY <1>2, <1>3, <1>4 DEF strong

LEMMA BestIsCertain ==
  ASSUME NEW edges, IsFiniteSet(edges), NEW n, NEW targets,
         \A e \in edges : e.conf \in Confidences,
         NEW m \in targets, m \in Reachable(edges, n, CERTAIN)
  PROVE  Best(edges, n, targets).found /\ Best(edges, n, targets).conf = CERTAIN
<1> DEFINE R == Reachable(edges, n, UNKNOWN)
           G == (targets \cup {e.src : e \in edges}) \ R
           S == {c \in Confidences : Reachable(edges, n, c) \cap targets # {}}
<1>1. \A e \in edges : e.conf >= UNKNOWN
  BY DEF Confidences, UNKNOWN, CERTAIN
<1>2. n \in R /\ \A e \in edges : e.src \in R => e.dst \in R
  BY <1>1, ReachableIsClosed
<1> HIDE DEF R
<1>3. n \notin G /\ \A e \in edges : e.dst \in G => e.src \in G
  BY <1>2
<1>4. m \notin G
  <2> HIDE DEF G
  <2> QED
    BY <1>3, NotReached
<1>5. R \cap targets # {}
  BY <1>4
<1>6. CERTAIN \in S /\ S \in SUBSET Confidences
  BY DEF Confidences, UNKNOWN, CERTAIN
<1>7. Max(S) = CERTAIN
  <2>1. Max(S) \in S /\ CERTAIN <= Max(S)
    <3> HIDE DEF S
    <3> QED
      BY <1>6, MaxConfidence
  <2>2. Max(S) \in Confidences
    BY <2>1
  <2> HIDE DEF S
  <2> QED
    BY <2>1, <2>2 DEF Confidences, UNKNOWN, CERTAIN
<1> QED
  BY <1>5, <1>7 DEF Best, R

LEMMA ClaimHasEdge ==
  ASSUME NEW claims \in SUBSET ClaimType, NEW c \in claims, c.conf = CERTAIN
  PROVE  \E e \in Merged(claims) :
           e.src = c.src /\ e.dst = c.dst /\ e.conf = CERTAIN
<1> DEFINE same == SameAs(claims, c)
           confs == {d.conf : d \in same}
           e == MergedEdge(claims, c)
<1>1. c \in same /\ same \subseteq claims
  BY DEF SameAs, SameEdge
<1>2. confs \in SUBSET Confidences /\ CERTAIN \in confs
  BY <1>1 DEF ClaimType
<1>3. Max(confs) \in Confidences /\ CERTAIN <= Max(confs)
  <2> HIDE DEF confs
  <2> QED
    BY <1>2, MaxConfidence
<1>4. Max(confs) = CERTAIN
  <2> HIDE DEF confs
  <2> QED
    BY <1>3 DEF Confidences, UNKNOWN, CERTAIN
<1>5. /\ e.src = c.src /\ e.dst = c.dst /\ e.conf = Strongest(same)
  BY DEF MergedEdge, ClaimType
<1>6. Strongest(same) = Max(confs)
  BY DEF Strongest
<1> QED
  BY <1>4, <1>5, <1>6 DEF Merged

(* A fork that was captured in full is a certain claim of the graph.        *)
Full(e) == /\ e.type = "process.fork" /\ e.who = life[e.kid].parent
           /\ e.start = e.who /\ e.cstart = e.kid

FullClaim(e) == Claim(Node(life[e.kid].pid, e.kid),
                      Node(life[life[e.kid].parent].pid, life[e.kid].parent),
                      "lineage", CERTAIN, {})

LEMMA FullForkIsLinked ==
  ASSUME Recorded, NEW evs, Recording(evs),
         NEW i \in 1 .. Len(evs), Full(evs[i]), NEW g
  PROVE  FullClaim(evs[i]) \in Linked(evs, g, i).claims
<1>1. Len(evs) \in Nat /\ DOMAIN evs = 1 .. Len(evs)
  BY LenProperties DEF Recording, Recorded
<1> DEFINE e      == evs[i]
           p      == life[e.kid].parent
           parent == Lookup(g.nodes, e.ppid, ParentStart(e))
           seen   == g.nodes \cup {parent.main}
           child  == Lookup(seen, e.cpid, e.cstart)
           claims == ForkClaims(e, parent, child)
<1>2. e \in Range(evs)
  BY <1>1 DEF Range
<1>3. OfItsFork(e) /\ OfItsProcess(e)
  BY <1>2 DEF Recording, Recorded, Truthful, Full
<1>4. Len(life) \in Nat
  BY LenProperties DEF Recording, Recorded, LifeInv
<1>5. /\ e.pid = e.ppid /\ e.ppid = life[p].pid /\ e.cpid = life[e.kid].pid
      /\ e.start = p /\ e.cstart = e.kid /\ p # None /\ e.kid # None
  BY <1>3, <1>4 DEF OfItsFork, OfItsProcess, Full, None
<1>6. ParentStart(e) = p
  BY <1>5 DEF ParentStart
<1>7. ForkConfidence(e) = CERTAIN
  BY <1>5, <1>6 DEF ForkConfidence
<1>8. parent.main = Node(life[p].pid, p) /\ parent.others = {}
  <2> DEFINE start == ParentStart(e)
  <2>1. start # None /\ start = p
    BY <1>5, <1>6
  <2> HIDE DEF start
  <2>2. parent.main = Node(e.ppid, start) /\ parent.others = {}
    <3>1. parent = Lookup(g.nodes, e.ppid, start)
      BY Zenon DEF start
    <3> HIDE DEF parent, p, e
    <3> QED
      BY <2>1, <3>1, LookupIsExact
  <2> HIDE DEF parent, p
  <2> QED
    BY <1>5, <2>1, <2>2
<1>9. child.main = Node(life[e.kid].pid, e.kid) /\ child.others = {}
  <2>1. child.main = Node(e.cpid, e.cstart) /\ child.others = {}
    BY <1>5, LookupIsExact
  <2> HIDE DEF child
  <2> QED
    BY <1>5, <2>1
<1>10. claims = {FullClaim(e)}
  <2> HIDE DEF parent, child
  <2>1. claims = {Claim(child.main, parent.main, "lineage", ForkConfidence(e), {})}
    BY <1>8, <1>9 DEF ForkClaims
  <2> QED
    BY <1>7, <1>8, <1>9, <2>1 DEF FullClaim
<1>11. Linked(evs, g, i).claims = g.claims \cup claims
  BY DEF Linked, Full
<1> QED
  BY <1>10, <1>11

LEMMA LinkedGrows ==
  \A evs, g, i : /\ g.nodes \subseteq Linked(evs, g, i).nodes
                 /\ g.claims \subseteq Linked(evs, g, i).claims
BY DEF Linked

(* What an event adds stays.                                                *)
LEMMA LineageHolds ==
  ASSUME NEW evs, Len(evs) \in Nat, setup.lineage, NEW k \in 1 .. Len(evs)
  PROVE  \E g : /\ Linked(evs, g, k).nodes \subseteq Lineage(evs).nodes
                /\ Linked(evs, g, k).claims \subseteq Lineage(evs).claims
<1>1. PICK built :
        /\ built = [i \in 0 .. Len(evs) |->
                      IF i = 0 \/ ~setup.lineage THEN Unlinked(evs)
                      ELSE Linked(evs, built[i - 1], i)]
        /\ Lineage(evs) = built[Len(evs)]
  BY LineageEquation
<1>2. \A i \in 1 .. Len(evs) : built[i] = Linked(evs, built[i - 1], i)
  BY <1>1
<1> DEFINE T == {i \in Nat : k <= i /\ i <= Len(evs) =>
                               /\ built[k].nodes \subseteq built[i].nodes
                               /\ built[k].claims \subseteq built[i].claims}
<1>3. 0 \in T
  OBVIOUS
<1>4. ASSUME NEW i \in Nat, i \in T PROVE i + 1 \in T
  <2>1. SUFFICES ASSUME k <= i + 1, i + 1 <= Len(evs), k # i + 1
                 PROVE  /\ built[k].nodes \subseteq built[i + 1].nodes
                        /\ built[k].claims \subseteq built[i + 1].claims
    OBVIOUS
  <2>2. built[i + 1] = Linked(evs, built[i], i + 1)
    BY <1>2, <2>1
  <2>3. /\ built[k].nodes \subseteq built[i].nodes
        /\ built[k].claims \subseteq built[i].claims
    BY <1>4, <2>1
  <2> QED
    BY <2>2, <2>3, LinkedGrows
<1>5. Len(evs) \in T
  <2> HIDE DEF T
  <2> QED
    BY <1>3, <1>4, Induction
<1>6. built[k] = Linked(evs, built[k - 1], k)
  BY <1>2
<1>7. /\ built[k].nodes \subseteq built[Len(evs)].nodes
      /\ built[k].claims \subseteq built[Len(evs)].claims
  BY <1>5
<1>8. Lineage(evs) = built[Len(evs)]
  BY <1>1
<1> HIDE DEF T
<1> QED
  BY <1>6, <1>7, <1>8

LEMMA FullForkIsClaimed ==
  ASSUME Recorded, NEW evs, Recording(evs), setup.lineage,
         NEW e \in Range(evs), Full(e)
  PROVE  FullClaim(e) \in Lineage(evs).claims
<1>1. Len(evs) \in Nat /\ DOMAIN evs = 1 .. Len(evs)
  BY LenProperties DEF Recording
<1>2. PICK k \in 1 .. Len(evs) : e = evs[k]
  BY <1>1 DEF Range
<1> QED
  BY <1>1, <1>2, LineageHolds, FullForkIsLinked

(* The processes below the root whose forks were all captured in full.      *)
ForkCaptured(p) ==
  \E e \in Range(log) :
    /\ e.type = "process.fork" /\ e.kid = p
    /\ e.who = life[p].parent
    /\ e.start = e.who /\ e.cstart = p

LEMMA SameTrace ==
  ASSUME NEW w, NEW D, NEW p, NEW q,
         (p = root \/ (q # 0 /\ w[q] /\ ForkCaptured(p))) <=> p \in D
  PROVE  (p = root \/ (q # 0 /\ w[q] /\ ForkCaptured(p))) = (p \in D)
<1>1. CASE p \in D
  BY <1>1, Zenon
<1>2. CASE p \notin D
  BY <1>2
<1> QED
  BY <1>1, <1>2

LEMMA TraceStep ==
  ASSUME Recorded, NEW p \in TracedFromRoot
  PROVE  /\ p \in 1 .. Len(life)
         /\ \/ p = root
            \/ /\ life[p].parent # 0 /\ life[p].parent \in TracedFromRoot
               /\ ForkCaptured(p)
<1> DEFINE E == {q \in DOMAIN life : ForkCaptured(q)}
           Closed(S) ==
             /\ root \in DOMAIN life => root \in S
             /\ \A q \in E : life[q].parent \in S => q \in S
           D == {q \in DOMAIN life :
                   \A S \in SUBSET DOMAIN life : Closed(S) => q \in S}
           Of(m, q) == \/ q = root
                       \/ /\ life[q].parent # 0 /\ m[life[q].parent]
                          /\ ForkCaptured(q)
           w == [q \in DOMAIN life |-> q \in D]
           P(m) == m = [q \in DOMAIN life |-> Of(m, q)]
           traced == CHOOSE m : P(m)
<1>1. /\ DOMAIN life = 1 .. Len(life) /\ Len(life) \in Nat
      /\ \A q \in DOMAIN life : life[q] \in Process
  BY LenProperties, ElementOfSeq DEF Recorded, LifeInv
<1>2. \A q \in DOMAIN life : life[q].parent # 0 => life[q].parent \in DOMAIN life
  BY <1>1 DEF Recorded, LifeInv, Process
<1>3. D \subseteq DOMAIN life /\ Closed(D)
  OBVIOUS
<1>4. ASSUME NEW q \in D
      PROVE  q = root \/ (life[q].parent # 0 /\ life[q].parent \in D /\ q \in E)
  <2>1. SUFFICES ASSUME q # root, ~(life[q].parent \in D /\ q \in E) PROVE FALSE
    BY <1>1, <1>3
  <2>2. Closed(D \ {q})
    BY <1>3, <2>1
  <2>3. q \in D \ {q}
    <3> HIDE DEF Closed
    <3> QED
      BY <1>3, <2>2
  <2> QED
    BY <2>3
<1>5. \A q \in DOMAIN life : w[q] = Of(w, q)
  <2> SUFFICES ASSUME NEW q \in DOMAIN life PROVE w[q] = Of(w, q)
    OBVIOUS
  <2>5. ForkCaptured(q) <=> q \in E
    OBVIOUS
  <2> HIDE DEF D, E
  <2>1. w[q] = (q \in D)
    OBVIOUS
  <2>2. life[q].parent # 0 => w[life[q].parent] = (life[q].parent \in D)
    BY <1>2
  <2> HIDE DEF w
  <2>3. Of(w, q) <=> q \in D
    <3>1. q \in D => Of(w, q)
      BY <1>4, <2>2, <2>5
    <3>2. Of(w, q) => q \in D
      BY <1>3, <2>2, <2>5
    <3> QED
      BY <3>1, <3>2
  <2>4. Of(w, q) = (q \in D)
    BY <2>3, SameTrace
  <2> QED
    BY <2>1, <2>4, Zenon
<1>6. P(w)
  BY <1>5, Zenon
<1>7. TracedFromRoot = {q \in DOMAIN life : traced[q]}
  BY DEF TracedFromRoot, ForkCaptured
<1> HIDE DEF P
<1>8. P(traced)
  BY <1>6
<1> HIDE DEF traced
<1>9. \A q \in DOMAIN life : traced[q] = Of(traced, q)
  BY <1>8, Zenon DEF P
<1>10. p \in DOMAIN life /\ traced[p]
  BY <1>7
<1>11. Of(traced, p)
  BY <1>9, <1>10, Zenon
<1> QED
  BY <1>1, <1>2, <1>7, <1>10, <1>11

LEMMA TracedReachesRoot ==
  ASSUME Recorded, setup.lineage, root # 0, NEW n \in Lineage(log).nodes,
         n.start \in TracedFromRoot
  PROVE  LET g == Lineage(log)
             edges == Merged(g.claims)
         IN  \E m \in g.nodes : /\ m.start = root
                                /\ m \in Reachable(edges, n, CERTAIN)
<1> DEFINE g == Lineage(log)
           edges == Merged(g.claims)
           R == Reachable(edges, n, CERTAIN)
           S == {q \in TracedFromRoot : \E m \in g.nodes : m.start = q /\ m \in R}
<1>1. GraphInv(log, g)
  BY LineageIsGood, LogIsRecording
<1>2. g.claims \in SUBSET ClaimType /\ IsFiniteSet(edges)
  BY <1>1, MergedFinite DEF GraphInv, LineageClaim
<1> HIDE DEF g
<1>3. n \in R /\ \A e \in edges : e.conf >= CERTAIN /\ e.src \in R => e.dst \in R
  <2> HIDE DEF edges
  <2> QED
    BY <1>2, ReachableIsClosed
<1> HIDE DEF R
<1>4. S # {} /\ S \in SUBSET Nat
  <2>1. n.start \in S
    BY <1>3 DEF g
  <2>2. Len(life) \in Nat
    BY LenProperties DEF Recorded, LifeInv
  <2> QED
    BY <2>1, <2>2, TraceStep
<1>5. PICK q \in S : \A r \in S : q <= r
  <2> HIDE DEF S
  <2> QED
    BY <1>4, Least
<1>6. PICK m \in g.nodes : m.start = q /\ m \in R
  BY <1>5
<1>7. ASSUME q # root PROVE FALSE
  <2> DEFINE p == life[q].parent
  <2>1. /\ q \in 1 .. Len(life) /\ p # 0 /\ p \in TracedFromRoot
        /\ ForkCaptured(q)
    BY <1>5, <1>7, TraceStep
  <2>2. p \in 1 .. Len(life)
    BY <2>1, TraceStep
  <2>3. PICK e \in Range(log) : Full(e) /\ e.kid = q
    BY <2>1 DEF ForkCaptured, Full
  <2> DEFINE c == FullClaim(e)
  <2>4. c \in g.claims
    BY <2>3, FullForkIsClaimed, LogIsRecording DEF g
  <2>5. /\ c.src = Node(life[q].pid, q) /\ c.dst = Node(life[p].pid, p)
        /\ c.conf = CERTAIN
    BY <2>3 DEF FullClaim, Claim
  <2> HIDE DEF c
  <2>6. m = c.src
    <3>1. m \in NodeType /\ m.pid = life[q].pid /\ m.start = q
      <4>1. GoodNode(m)
        BY <1>1, <1>6 DEF GraphInv
      <4>2. Len(life) \in Nat
        BY LenProperties DEF Recorded, LifeInv
      <4> QED
        BY <1>6, <2>1, <4>1, <4>2 DEF GoodNode, None
    <3> QED
      BY <2>5, <3>1 DEF Node, NodeType
  <2>7. PICK f \in edges : f.src = c.src /\ f.dst = c.dst /\ f.conf = CERTAIN
    BY <1>2, <2>4, <2>5, ClaimHasEdge
  <2>8. c.dst \in R
    BY <1>3, <1>6, <2>6, <2>7 DEF CERTAIN
  <2>9. c.dst \in g.nodes /\ c.dst.start = p
    BY <1>1, <2>4, <2>5 DEF GraphInv, Within, Node
  <2>10. p \in S
    BY <2>1, <2>8, <2>9
  <2>11. p < q
    <3>1. Len(life) \in Nat
      BY LenProperties DEF Recorded, LifeInv
    <3> QED
      BY <2>1, <3>1 DEF Recorded, LifeInv
  <2> HIDE DEF S
  <2> QED
    BY <1>5, <2>1, <2>2, <2>10, <2>11
<1> QED
  BY <1>6, <1>7 DEF g, R

LEMMA RootReachedIsCertain ==
  ASSUME Recorded, NEW evs, Recording(evs), setup.lineage, root # 0,
         NEW g, GraphInv(evs, g), NEW n \in g.nodes,
         NEW m \in g.nodes, StartedLikeRoot(m),
         m \in Reachable(Merged(g.claims), n, CERTAIN)
  PROVE  Answer(evs, g, n).conf = CERTAIN
<1> DEFINE claims == ClaimsOf(evs, g)
           edges == GraphEdges(evs, g)
           up == RootPath(g, n)
           c == OwnerClaim(evs, g, n)
<1>1. c \in claims
  BY DEF ProcessClaims, ClaimsOf
<1>2. /\ claims \in SUBSET ClaimType /\ IsFiniteSet(edges)
      /\ \A e \in edges : e.conf \in Confidences
  <2>1. claims \in SUBSET ClaimType
    BY ProcessClaimsAreTrue DEF ClaimsOf
  <2> QED
    BY <2>1, GraphEdgesFinite, EdgeHasClaim DEF GraphEdges, ClaimType
<1>3. c.src = n /\ c.dst = Task /\ c.conf = CERTAIN
  <2>1. c.src = n /\ c.dst = Task
    BY OwnerClaimIsTrue
  <2>2. CASE StartedLikeRoot(n)
    BY <2>2 DEF OwnerClaim, Claim
  <2>3. CASE ~StartedLikeRoot(n)
    <3> DEFINE targets == {q \in g.nodes : StartedLikeRoot(q)} \ {n}
               best == Best(Merged(g.claims), n, targets)
    <3>1. m \in targets
      BY <2>3
    <3>2. g.claims \in SUBSET ClaimType /\ IsFiniteSet(Merged(g.claims))
      BY MergedFinite DEF GraphInv, LineageClaim
    <3>3. \A e \in Merged(g.claims) : e.conf \in Confidences
      BY <3>2, EdgeHasClaim DEF ClaimType
    <3> HIDE DEF targets
    <3>4. best.found /\ best.conf = CERTAIN
      BY <3>1, <3>2, <3>3, BestIsCertain
    <3>5. up = best
      BY RootPathIsBest DEF targets
    <3>6. up.found /\ up.conf = CERTAIN
      BY <3>4, <3>5
    <3>7. c = Claim(n, Task, "lineage", up.conf, {})
      BY <2>3, <3>6 DEF OwnerClaim
    <3> QED
      BY <3>6, <3>7 DEF Claim
  <2> QED
    BY <2>1, <2>2, <2>3
<1>4. PICK e \in edges : e.src = n /\ e.dst = Task /\ e.conf = CERTAIN
  <2> HIDE DEF c, claims
  <2>1. \E e \in Merged(claims) : e.src = c.src /\ e.dst = c.dst /\ e.conf = CERTAIN
    BY <1>1, <1>2, <1>3, ClaimHasEdge
  <2> QED
    BY <1>3, <2>1 DEF GraphEdges, claims
<1> HIDE DEF edges
<1>5. Task \in Reachable(edges, n, CERTAIN)
  <2>1. n \in Reachable(edges, n, CERTAIN)
    BY <1>2, ReachableIsClosed
  <2> QED
    BY <1>2, <1>4, <2>1, ReachableIsClosed DEF CERTAIN
<1>6. Best(edges, n, {Task}).conf = CERTAIN
  BY <1>2, <1>5, BestIsCertain
<1> QED
  BY <1>6 DEF Answer, edges

LEMMA RecordedIsTraced == Recorded => TracedIsCertain
<1> SUFFICES ASSUME Recorded, setup.lineage, root # 0,
                    NEW n \in DOMAIN Analysis(log).processes,
                    n.start \in TracedFromRoot
             PROVE  Analysis(log).processes[n] = CERTAIN
  BY DEF TracedIsCertain
<1> DEFINE g == Lineage(log)
<1>1. GraphInv(log, g) /\ Recording(log)
  BY LineageIsGood, LogIsRecording
<1>2. Analysis(log).processes = Confident(log, g)
  BY AnalysisIs
<1>3. n \in g.nodes
  BY <1>2 DEF Confident
<1>4. PICK m \in g.nodes : /\ m.start = root
                           /\ m \in Reachable(Merged(g.claims), n, CERTAIN)
  BY <1>3, TracedReachesRoot
<1> HIDE DEF g
<1>5. Analysis(log).processes[n] = Answer(log, g, n).conf
  BY <1>2, <1>3, AnswerIsBest DEF Confident
<1>6. StartedLikeRoot(m)
  BY <1>4, RootStartsLikeItself
<1> QED
  BY <1>1, <1>3, <1>4, <1>5, <1>6, RootReachedIsCertain

(* Nothing that was captured is wasted (graph.py:851 _root_path): with the  *)
(* fork of every process from the task's root down to it in the log, told   *)
(* by the parent and with both start times, a process belongs to the task   *)
(* for certain, whatever else the log holds about its number or its         *)
(* relatives.  That the number of edges bounds the rounds of the search is  *)
(* the part that no small instance shows.                                   *)
THEOREM TracedAreCertain == Spec => []TracedIsCertain
BY AlwaysRecorded, RecordedIsTraced, PTL

-----------------------------------------------------------------------------
(* More events take nothing back.  What is certain in a graph, its nodes    *)
(* with a start time and its claims of that strength, was named by single   *)
(* events, and a longer recording has those too.                            *)
Named(evs, n) ==
  \/ n \in Aggregated(evs)
  \/ \E e \in Range(evs) :
       /\ e.type = "process.fork"
       /\ n \in {Node(e.ppid, ParentStart(e)), Node(e.cpid, e.cstart)}

LEMMA LookupIsOld ==
  ASSUME Recorded, NEW nodes, \A n \in nodes : GoodNode(n), NEW pid,
         Lookup(nodes, pid, None).main.start # None
  PROVE  Lookup(nodes, pid, None).main \in nodes
<1> DEFINE siblings == {n \in nodes : n.pid = pid}
           first == CHOOSE n \in siblings :
                      \A m \in siblings : NodeRank(n) <= NodeRank(m)
           found == Lookup(nodes, pid, None)
<1>1. found = IF siblings = {} THEN [main |-> Node(pid, None), others |-> {}]
              ELSE [main |-> first, others |-> siblings \ {first}]
  BY DEF Lookup
<1>2. CASE siblings = {}
  <2>1. found.main.start = None
    BY <1>1, <1>2 DEF Node
  <2> QED
    BY <2>1
<1>3. CASE siblings # {}
  <2>1. first \in siblings
    BY <1>3, MinimalNode
  <2> HIDE DEF first
  <2> QED
    BY <1>1, <1>3, <2>1
<1> QED
  BY <1>2, <1>3

(* Where all nodes with a start time are named and all certain claims come  *)
(* from a fork captured in full.                                            *)
Sourced(evs, g) ==
  /\ \A n \in g.nodes : n.start # None => Named(evs, n)
  /\ \A c \in g.claims : c.conf = CERTAIN =>
       \E e \in Range(evs) : Full(e) /\ c = FullClaim(e)

LEMMA CertainForkIsFull ==
  ASSUME Recorded, NEW evs, Recording(evs), NEW e \in Range(evs),
         e.type = "process.fork", NEW nodes, NEW seen,
         NEW c \in ForkClaims(e, Lookup(nodes, e.ppid, ParentStart(e)),
                              Lookup(seen, e.cpid, e.cstart)),
         c.conf = CERTAIN
  PROVE  Full(e) /\ c = FullClaim(e)
<1> DEFINE parent == Lookup(nodes, e.ppid, ParentStart(e))
           child == Lookup(seen, e.cpid, e.cstart)
           all == parent.others \cup child.others
<1>1. /\ all = {}
      /\ c = Claim(child.main, parent.main, "lineage", ForkConfidence(e), {})
  BY DEF ForkClaims, Claim, AMBIGUOUS, CERTAIN
<1> HIDE DEF parent, child
<1>2. ForkConfidence(e) = CERTAIN
  BY <1>1 DEF Claim
<1>3. e.cstart # None /\ ParentStart(e) # None /\ e.ppid = e.pid
  BY <1>2 DEF ForkConfidence, PROBABLE, CERTAIN
<1>4. OfItsProcess(e) /\ OfItsFork(e)
  BY DEF Recording, Truthful
<1>5. e.start = e.who /\ ParentStart(e) = e.start
  BY <1>3, <1>4 DEF OfItsProcess, ParentStart
<1>6. /\ e.cstart = e.kid /\ e.who = life[e.kid].parent
      /\ e.ppid = life[life[e.kid].parent].pid /\ e.cpid = life[e.kid].pid
  BY <1>3, <1>4 DEF OfItsFork, OfItsProcess
<1>7. /\ parent.main = Node(e.ppid, ParentStart(e))
      /\ child.main = Node(e.cpid, e.cstart)
  BY <1>3, LookupIsExact DEF parent, child
<1> QED
  BY <1>1, <1>2, <1>5, <1>6, <1>7 DEF Full, FullClaim

LEMMA LineageIsSourced ==
  ASSUME Recorded, NEW evs, Recording(evs)
  PROVE  Sourced(evs, Lineage(evs))
<1>1. Len(evs) \in Nat /\ DOMAIN evs = 1 .. Len(evs)
  BY LenProperties DEF Recording
<1>2. PICK built :
        /\ built = [i \in 0 .. Len(evs) |->
                      IF i = 0 \/ ~setup.lineage THEN Unlinked(evs)
                      ELSE Linked(evs, built[i - 1], i)]
        /\ Lineage(evs) = built[Len(evs)]
  BY <1>1, LineageEquation
<1>3. \A i \in 0 .. Len(evs) :
        built[i] = IF i = 0 \/ ~setup.lineage THEN Unlinked(evs)
                   ELSE Linked(evs, built[i - 1], i)
  BY <1>2
<1>4. Sourced(evs, Unlinked(evs)) /\ GraphInv(evs, Unlinked(evs))
  <2>1. /\ Unlinked(evs).nodes = Aggregated(evs)
        /\ Unlinked(evs).claims = {}
    BY DEF Unlinked
  <2> QED
    BY <2>1, AggregatedIsGood, FS_EmptySet DEF Sourced, Named, GraphInv
<1>5. ASSUME NEW g, GraphInv(evs, g), Sourced(evs, g), NEW i \in 1 .. Len(evs)
      PROVE  Sourced(evs, Linked(evs, g, i))
  <2> DEFINE e      == evs[i]
             parent == Lookup(g.nodes, e.ppid, ParentStart(e))
             seen   == g.nodes \cup {parent.main}
             child  == Lookup(seen, e.cpid, e.cstart)
             next   == Linked(evs, g, i)
  <2>1. e \in Range(evs)
    BY <1>1 DEF Range
  <2>2. CASE e.type # "process.fork"
    BY <1>5, <2>2 DEF Linked
  <2>3. CASE e.type = "process.fork"
    <3>1. /\ next.nodes = seen \cup {child.main}
          /\ next.claims = g.claims \cup ForkClaims(e, parent, child)
      BY <2>3 DEF Linked
    <3>2. \A n \in g.nodes : GoodNode(n)
      BY <1>5 DEF GraphInv
    <3>3. parent.main.start # None =>
            parent.main \in g.nodes \/ parent.main = Node(e.ppid, ParentStart(e))
      BY <3>2, LookupIsOld, LookupIsExact
    <3>4. GoodNode(parent.main)
      <4>1. /\ e.ppid \in Pids /\ ParentStart(e) \in 0 .. Len(life)
            /\ ParentStart(e) # None => life[ParentStart(e)].pid = e.ppid
        BY <2>1, <2>3, ForkIsRead
      <4> QED
        BY <3>2, <4>1, LookupIsGood
    <3>5. child.main.start # None =>
            child.main \in seen \/ child.main = Node(e.cpid, e.cstart)
      <4>1. \A n \in seen : GoodNode(n)
        BY <3>2, <3>4
      <4> HIDE DEF seen
      <4>2. e.cstart # None => child.main = Node(e.cpid, e.cstart)
        BY LookupIsExact
      <4>3. e.cstart = None /\ child.main.start # None => child.main \in seen
        BY <4>1, LookupIsOld
      <4> QED
        BY <4>2, <4>3
    <3>6. \A n \in next.nodes : n.start # None => Named(evs, n)
      <4>1. \A n \in {Node(e.ppid, ParentStart(e)), Node(e.cpid, e.cstart)} :
              Named(evs, n)
        BY <2>1, <2>3 DEF Named
      <4> HIDE DEF next, parent, child, e
      <4> QED
        BY <1>5, <3>1, <3>3, <3>5, <4>1 DEF Sourced
    <3>7. \A c \in next.claims : c.conf = CERTAIN =>
            \E f \in Range(evs) : Full(f) /\ c = FullClaim(f)
      <4>1. \A c \in ForkClaims(e, parent, child) :
              c.conf = CERTAIN => Full(e) /\ c = FullClaim(e)
        <5> HIDE DEF seen, e
        <5> QED
          BY <2>1, <2>3, CertainForkIsFull
      <4> HIDE DEF next, parent, child, e
      <4> QED
        BY <1>5, <2>1, <3>1, <4>1 DEF Sourced
    <3> QED
      BY <3>6, <3>7 DEF Sourced
  <2> QED
    BY <2>2, <2>3
<1>6. ASSUME NEW g, GraphInv(evs, g), NEW i \in 1 .. Len(evs)
      PROVE  GraphInv(evs, Linked(evs, g, i))
  BY <1>6, LinkedIsGood
<1> DEFINE T == {i \in Nat : i <= Len(evs) => /\ GraphInv(evs, built[i])
                                              /\ Sourced(evs, built[i])}
<1>7. 0 \in T
  BY <1>1, <1>3, <1>4
<1>8. ASSUME NEW i \in Nat, i \in T PROVE i + 1 \in T
  BY <1>1, <1>3, <1>4, <1>5, <1>6, <1>8
<1>9. Len(evs) \in T
  <2> HIDE DEF T
  <2> QED
    BY <1>1, <1>7, <1>8, Induction
<1>10. Sourced(evs, built[Len(evs)])
  BY <1>1, <1>9
<1> QED
  BY <1>2, <1>10

LEMMA NamedIsNode ==
  ASSUME Recorded, NEW evs, Recording(evs), setup.lineage,
         NEW n, n.start # None, Named(evs, n)
  PROVE  n \in Lineage(evs).nodes
<1>1. Len(evs) \in Nat /\ DOMAIN evs = 1 .. Len(evs)
  BY LenProperties DEF Recording
<1>2. CASE n \in Aggregated(evs)
  BY <1>2, LineageIsGood DEF GraphInv
<1>3. ASSUME NEW e \in Range(evs), e.type = "process.fork",
             n \in {Node(e.ppid, ParentStart(e)), Node(e.cpid, e.cstart)}
      PROVE  n \in Lineage(evs).nodes
  <2>1. PICK k \in 1 .. Len(evs) : e = evs[k]
    BY <1>1 DEF Range
  <2>2. PICK g : Linked(evs, g, k).nodes \subseteq Lineage(evs).nodes
    BY <1>1, LineageHolds
  <2> DEFINE parent == Lookup(g.nodes, e.ppid, ParentStart(e))
             seen   == g.nodes \cup {parent.main}
             child  == Lookup(seen, e.cpid, e.cstart)
  <2>3. /\ parent.main \in Linked(evs, g, k).nodes
        /\ child.main \in Linked(evs, g, k).nodes
    BY <1>3, <2>1 DEF Linked
  <2> HIDE DEF seen
  <2>4. n = parent.main \/ n = child.main
    <3>1. CASE n = Node(e.ppid, ParentStart(e))
      <4>1. ParentStart(e) # None
        BY <3>1 DEF Node
      <4> QED
        BY <3>1, <4>1, LookupIsExact
    <3>2. CASE n = Node(e.cpid, e.cstart)
      <4>1. e.cstart # None
        BY <3>2 DEF Node
      <4>2. child.main = Node(e.cpid, e.cstart)
        BY <4>1, LookupIsExact
      <4> QED
        BY <3>2, <4>2
    <3> QED
      BY <1>3, <3>1, <3>2
  <2> QED
    BY <2>2, <2>3, <2>4
<1> QED
  BY <1>2, <1>3 DEF Named

LEMMA PathsCompose ==
  ASSUME NEW edges, IsFiniteSet(edges), NEW c, NEW n,
         NEW m \in Reachable(edges, n, c), NEW r \in Reachable(edges, m, c)
  PROVE  r \in Reachable(edges, n, c)
<1> DEFINE R == Reachable(edges, n, c)
           G == ({r} \cup {e.src : e \in edges}) \ R
<1>1. \A e \in edges : e.conf >= c /\ e.src \in R => e.dst \in R
  BY ReachableIsClosed
<1>2. m \in R
  OBVIOUS
<1> HIDE DEF R
<1>3. m \notin G /\ \A e \in edges : e.conf >= c /\ e.dst \in G => e.src \in G
  BY <1>1, <1>2
<1>4. r \notin G
  <2> HIDE DEF G
  <2> QED
    BY <1>3, NotReached
<1> QED
  BY <1>4 DEF R

(* The process nodes from which certain edges of g lead to the root's, or   *)
(* to one that the engine cannot tell from it.                              *)
Rooted(g, n) ==
  \E r \in g.nodes : /\ StartedLikeRoot(r)
                     /\ r \in Reachable(Merged(g.claims), n, CERTAIN)

LEMMA RootedClimbs ==
  ASSUME NEW g, IsFiniteSet(g.claims), g.claims \in SUBSET ClaimType,
         NEW c \in g.claims, c.conf = CERTAIN, Rooted(g, c.dst)
  PROVE  Rooted(g, c.src)
<1> DEFINE edges == Merged(g.claims)
<1>1. IsFiniteSet(edges)
  BY MergedFinite
<1>2. PICK e \in edges : e.src = c.src /\ e.dst = c.dst /\ e.conf = CERTAIN
  BY ClaimHasEdge
<1> HIDE DEF edges
<1>3. c.dst \in Reachable(edges, c.src, CERTAIN)
  BY <1>1, <1>2, ReachableIsClosed DEF CERTAIN
<1> QED
  BY <1>1, <1>3, PathsCompose DEF Rooted, edges

(* What follows is about a recording and a longer one.                      *)
Longer(less, more) ==
  Recording(less) /\ Recording(more) /\ Range(less) \subseteq Range(more)

LEMMA NodesStay ==
  ASSUME Recorded, setup.lineage, NEW less, NEW more, Longer(less, more),
         NEW n \in Lineage(less).nodes, n.start # None
  PROVE  n \in Lineage(more).nodes
<1>1. Named(less, n)
  BY LineageIsSourced DEF Longer, Sourced
<1>2. Named(more, n)
  BY <1>1 DEF Longer, Named, Aggregated
<1> QED
  BY <1>2, NamedIsNode DEF Longer

LEMMA ClaimsStay ==
  ASSUME Recorded, setup.lineage, NEW less, NEW more, Longer(less, more),
         NEW c \in Lineage(less).claims, c.conf = CERTAIN
  PROVE  c \in Lineage(more).claims
<1>1. PICK e \in Range(less) : Full(e) /\ c = FullClaim(e)
  BY LineageIsSourced DEF Longer, Sourced
<1> QED
  BY <1>1, FullForkIsClaimed DEF Longer

(* A certain way up to the root stays one.                                  *)
LEMMA RootedStays ==
  ASSUME Recorded, setup.lineage, root # 0,
         NEW less, NEW more, Longer(less, more),
         NEW n \in Lineage(less).nodes,
         RootPath(Lineage(less), n).conf = CERTAIN
  PROVE  n.start # None /\ Rooted(Lineage(more), n)
<1> DEFINE g == Lineage(less)
           h == Lineage(more)
           edges == Merged(g.claims)
           targets == {q \in g.nodes : StartedLikeRoot(q)} \ {n}
           G == {q \in NodeType : q.start # None /\ Rooted(h, q)}
<1>1. GraphInv(less, g) /\ GraphInv(more, h)
  BY LineageIsGood DEF Longer
<1>2. \A c \in g.claims : c.conf = CERTAIN => c \in h.claims
  BY ClaimsStay
<1>3. \A q \in g.nodes : q.start # None => q \in h.nodes
  BY NodesStay
<1> HIDE DEF g, h
<1>4. IsFiniteSet(edges) /\ g.claims \in SUBSET ClaimType
      /\ IsFiniteSet(h.claims) /\ h.claims \in SUBSET ClaimType
  BY <1>1, MergedFinite DEF GraphInv, LineageClaim
<1>5. Reachable(edges, n, CERTAIN) \cap targets # {}
  <2>1. Best(edges, n, targets).conf = CERTAIN
    BY RootPathIsBest DEF g
  <2> HIDE DEF targets, edges
  <2> QED
    BY <2>1, BestIs DEF UNKNOWN, CERTAIN
<1>6. ASSUME NEW e \in edges, e.conf >= CERTAIN, e.dst \in G PROVE e.src \in G
  <2>1. PICK d \in g.claims : d.src = e.src /\ d.dst = e.dst /\ d.conf = e.conf
    BY <1>4, EdgeHasClaim
  <2>2. d.conf = CERTAIN
    BY <1>4, <1>6, <2>1 DEF ClaimType, Confidences, UNKNOWN, CERTAIN
  <2>3. d \in h.claims /\ LineageClaim(d)
    BY <1>1, <1>2, <2>2 DEF GraphInv
  <2>4. Rooted(h, d.src)
    BY <1>4, <1>6, <2>1, <2>2, <2>3, RootedClimbs
  <2> QED
    BY <2>1, <2>2, <2>3, <2>4 DEF LineageClaim, GoodNode
<1>7. targets \subseteq G
  <2> SUFFICES ASSUME NEW q \in targets PROVE q \in G
    OBVIOUS
  <2>1. q \in g.nodes /\ StartedLikeRoot(q) /\ q.start # None
    BY DEF StartedLikeRoot
  <2>2. q \in h.nodes /\ q \in NodeType
    BY <1>1, <1>3, <2>1 DEF GraphInv, GoodNode
  <2>3. q \in Reachable(Merged(h.claims), q, CERTAIN)
    BY <1>4, MergedFinite, ReachableIsClosed
  <2> QED
    BY <2>1, <2>2, <2>3 DEF Rooted
<1>8. n \in G
  <2> SUFFICES ASSUME n \notin G PROVE FALSE
    OBVIOUS
  <2> HIDE DEF G, edges
  <2>1. \A m \in Reachable(edges, n, CERTAIN) : m \notin G
    BY <1>4, <1>6, NotReached
  <2> HIDE DEF targets
  <2> QED
    BY <1>5, <1>7, <2>1
<1> QED
  BY <1>8 DEF h

LEMMA CertainStays ==
  ASSUME Recorded, setup.lineage, root # 0, ~setup.cgroups,
         NEW less, NEW more, Longer(less, more),
         ~Misread(Lineage(less).nodes),
         NEW n \in Lineage(less).nodes, n.start # None,
         Answer(less, Lineage(less), n).conf = CERTAIN
  PROVE  /\ n \in Lineage(more).nodes
         /\ Answer(more, Lineage(more), n).conf = CERTAIN
<1> DEFINE g == Lineage(less)
           h == Lineage(more)
           claims == ClaimsOf(less, g)
           edges == GraphEdges(less, g)
           G == {q \in NodeType : \/ q = Container \/ q.start = None
                                  \/ q \in g.nodes /\ Rooted(h, q)}
<1>1. /\ GraphInv(less, g) /\ GraphInv(more, h)
      /\ Recording(less) /\ Recording(more)
  BY LineageIsGood DEF Longer
<1>2. \A c \in g.claims : c.conf = CERTAIN => c \in h.claims
  BY ClaimsStay
<1>3. \A q \in g.nodes : q.start # None => q \in h.nodes
  BY NodesStay
<1>4. \A q \in g.nodes : RootPath(g, q).conf = CERTAIN =>
                           q.start # None /\ Rooted(h, q)
  BY RootedStays
<1>5. /\ ~Misread(g.nodes) /\ n \in g.nodes
      /\ Answer(less, g, n).conf = CERTAIN
  OBVIOUS
<1> HIDE DEF g, h
<1>6. /\ claims \in SUBSET ClaimType /\ IsFiniteSet(edges)
      /\ IsFiniteSet(h.claims) /\ h.claims \in SUBSET ClaimType
      /\ g.nodes \subseteq NodeType
  BY <1>1, ProcessClaimsAreTrue, GraphEdgesFinite
     DEF GraphInv, LineageClaim, GoodNode, ClaimsOf
<1>7. \A q \in g.nodes : StartedLikeRoot(q) => Rooted(h, q) /\ q \in G
  <2> SUFFICES ASSUME NEW q \in g.nodes, StartedLikeRoot(q)
               PROVE  Rooted(h, q) /\ q \in G
    OBVIOUS
  <2>1. q \in h.nodes
    BY <1>3 DEF StartedLikeRoot
  <2>2. q \in Reachable(Merged(h.claims), q, CERTAIN)
    BY <1>6, MergedFinite, ReachableIsClosed
  <2> QED
    BY <1>6, <2>1, <2>2 DEF Rooted
<1>8. ASSUME NEW d \in claims, d.conf = CERTAIN, d.dst \in G
      PROVE  d.src \in G
  <2>1. CASE d \in g.claims
    <3>1. d \in h.claims /\ LineageClaim(d) /\ Within(d, g.nodes)
      BY <1>1, <1>2, <1>8, <2>1 DEF GraphInv
    <3>2. d.dst # Container /\ d.dst.start # None
      BY <1>8, <3>1, TaskAssumption DEF LineageClaim, GoodNode, Container, Node
    <3>3. Rooted(h, d.dst)
      BY <1>8, <3>2
    <3>4. Rooted(h, d.src)
      BY <1>6, <1>8, <3>1, <3>3, RootedClimbs
    <3> QED
      BY <1>6, <3>1, <3>4 DEF Within
  <2>2. ASSUME NEW q \in g.nodes, d = OwnerClaim(less, g, q)
        PROVE  d.src \in G
    <3> DEFINE up == RootPath(g, q)
    <3>1. d.src = q
      BY <1>1, <2>2, OwnerClaimIsTrue
    <3>2. CASE StartedLikeRoot(q)
      BY <1>7, <3>1, <3>2
    <3>3. CASE ~StartedLikeRoot(q) /\ up.found
      <4>1. d = Claim(q, Task, "lineage", up.conf, {})
        BY <2>2, <3>3 DEF OwnerClaim
      <4>2. up.conf = CERTAIN
        BY <1>8, <4>1 DEF Claim
      <4> QED
        BY <1>4, <1>6, <3>1, <4>2
    <3>4. CASE ~StartedLikeRoot(q) /\ ~up.found
      <4> DEFINE weak == IF g.from[q] <= began THEN UNKNOWN ELSE PROBABLE
      <4>1. d = Claim(q, Task, "run_id", weak, {})
        BY <2>2, <3>4 DEF OwnerClaim, CgroupMatches
      <4>2. weak \in {UNKNOWN, PROBABLE}
        OBVIOUS
      <4>3. d.conf = weak
        BY <4>1 DEF Claim
      <4> HIDE DEF weak
      <4> QED
        BY <1>8, <4>2, <4>3 DEF UNKNOWN, PROBABLE, CERTAIN
    <3> QED
      BY <3>2, <3>3, <3>4
  <2>3. CASE d = Claim(Container, Task, "container", CERTAIN, {})
    BY <2>3, NodesOfTask DEF Claim
  <2>4. ASSUME Resolved, NEW q \in g.nodes, d \in ContainerClaims(less, g, q)
        PROVE  d.src \in G
    <3> DEFINE siblings == {m \in g.nodes : m.pid = HostPid}
               conf == IF q \in siblings /\ Cardinality(siblings) > 1
                       THEN PROBABLE ELSE CERTAIN
    <3>1. q \in siblings /\ d = Claim(q, Container, "container", conf, {})
      BY <2>4 DEF ContainerClaims, CgroupMatches
    <3>2. d.src = q /\ d.conf = conf
      BY <3>1 DEF Claim
    <3>3. ~(Cardinality(siblings) > 1)
      BY <1>8, <3>1, <3>2 DEF PROBABLE, CERTAIN
    <3>4. q.start \in {root, None}
      BY <1>1, <1>5, <2>4, <3>1, <3>3, SoleSibling DEF GraphInv
    <3> QED
      BY <1>6, <1>7, <3>2, <3>4, RootStartsLikeItself
  <2> QED
    BY <2>1, <2>2, <2>3, <2>4 DEF ClaimsOf, ProcessClaims
<1>9. ASSUME NEW e \in edges, e.conf >= CERTAIN, e.dst \in G PROVE e.src \in G
  <2>1. PICK d \in claims : d.src = e.src /\ d.dst = e.dst /\ d.conf = e.conf
    BY <1>6, EdgeHasClaim DEF GraphEdges
  <2>2. d.conf = CERTAIN
    BY <1>6, <1>9, <2>1 DEF ClaimType, Confidences, UNKNOWN, CERTAIN
  <2> HIDE DEF G
  <2> QED
    BY <1>8, <1>9, <2>1, <2>2
<1>10. Task \in Reachable(edges, n, CERTAIN) /\ Task \in G
  BY <1>5, AnswerIsBest, NodesOfTask DEF UNKNOWN, CERTAIN
<1>11. n \in G
  <2> SUFFICES ASSUME n \notin G PROVE FALSE
    OBVIOUS
  <2> HIDE DEF G, edges
  <2>1. \A m \in Reachable(edges, n, CERTAIN) : m \notin G
    BY <1>6, <1>9, NotReached
  <2> QED
    BY <1>10, <2>1
<1>12. n # Container
  BY <1>1, <1>5, TaskAssumption DEF GraphInv, GoodNode, Container, Node
<1>13. Rooted(h, n) /\ n \in h.nodes
  BY <1>3, <1>5, <1>11, <1>12
<1>14. Answer(more, h, n).conf = CERTAIN
  BY <1>1, <1>13, RootReachedIsCertain DEF Rooted
<1> QED
  BY <1>13, <1>14 DEF h

LEMMA IsASeqOf ==
  ASSUME NEW S, NEW n \in Nat, NEW s \in [1 .. n -> S]
  PROVE  s \in Seq(S)
OBVIOUS

LEMMA RecordedIsStable == Recorded => CertaintyIsStable
<1> DEFINE less == SubSeq(log, 1, Len(log) - 1)
<1> SUFFICES ASSUME Recorded, setup.lineage, root # 0, ~setup.cgroups,
                    began < Len(log), ~Analysis(less).misread,
                    NEW n \in DOMAIN Analysis(less).processes, n.start # None,
                    Analysis(less).processes[n] = CERTAIN
             PROVE  Analysis(log).processes[n] = CERTAIN
  BY DEF CertaintyIsStable
<1>1. Len(log) \in Nat /\ Len(log) >= 1 /\ log \in Seq(Range(log))
  BY LenProperties DEF Recorded
<1>2. /\ less \in Seq(Range(log)) /\ Len(less) = Len(log) - 1
      /\ \A i \in 1 .. Len(less) : less[i] = log[i]
  <2> DEFINE last == Len(log) - 1
  <2>1. 1 \in Int /\ last \in Int /\ last >= 0
    BY <1>1
  <2>2. \A i \in 1 .. last : log[i] \in Range(log)
    <3> SUFFICES ASSUME NEW i \in 1 .. last PROVE log[i] \in Range(log)
      OBVIOUS
    <3>1. i \in 1 .. Len(log)
      BY <1>1
    <3> QED
      BY <1>1, <3>1, ElementOfSeq
  <2>3. last - 1 + 1 = last /\ \A i \in 1 .. last : 1 + i - 1 = i
    BY <2>1
  <2> HIDE DEF last
  <2>4. /\ SubSeq(log, 1, last) \in Seq(Range(log))
        /\ Len(SubSeq(log, 1, last)) = IF 1 <= last THEN last - 1 + 1 ELSE 0
        /\ \A i \in 1 .. last - 1 + 1 : SubSeq(log, 1, last)[i] = log[1 + i - 1]
    BY <2>1, <2>2, SubSeqProperties
  <2>5. Len(SubSeq(log, 1, last)) = last
    BY <2>1, <2>3, <2>4
  <2> QED
    BY <2>3, <2>4, <2>5 DEF last
<1>3. Longer(less, log)
  <2>1. DOMAIN less = 1 .. Len(less) /\ DOMAIN log = 1 .. Len(log)
    BY <1>1, <1>2, LenProperties
  <2> HIDE DEF less
  <2>2. Range(less) \subseteq Range(log)
    BY <1>1, <1>2, <2>1 DEF Range
  <2>3. less \in Seq(Range(less))
    <3>1. less \in [1 .. Len(less) -> Range(log)] /\ Len(less) \in Nat
      BY <1>2, LenProperties
    <3>2. less \in [1 .. Len(less) -> Range(less)]
      BY <3>1 DEF Range
    <3> QED
      BY <3>1, <3>2, IsASeqOf
  <2>4. \A e \in Range(log) : Truthful(e)
    BY DEF Recorded
  <2> QED
    BY <2>2, <2>3, <2>4, LogIsRecording DEF Longer, Recording
<1> HIDE DEF less
<1>4. \A evs : /\ Analysis(evs).misread = Misread(Lineage(evs).nodes)
               /\ Analysis(evs).processes = Confident(evs, Lineage(evs))
  BY AnalysisIs
<1>5. \A evs, g : /\ DOMAIN Confident(evs, g) = g.nodes
                  /\ \A q \in g.nodes :
                       Confident(evs, g)[q] = Answer(evs, g, q).conf
  BY AnswerIsBest DEF Confident
<1>6. /\ n \in Lineage(less).nodes /\ ~Misread(Lineage(less).nodes)
      /\ Answer(less, Lineage(less), n).conf = CERTAIN
  BY <1>4, <1>5
<1>7. /\ n \in Lineage(log).nodes
      /\ Answer(log, Lineage(log), n).conf = CERTAIN
  BY <1>3, <1>6, CertainStays
<1> QED
  BY <1>4, <1>5, <1>7

(* More evidence takes nothing back (graph.py:378, the merging of claims):  *)
(* where lineage decides, a process that was certainly of the task stays    *)
(* so when one more event is captured -- a number used again, a fork with   *)
(* less than it could tell, whatever it is.                                 *)
THEOREM CertaintyStays == Spec => []CertaintyIsStable
BY AlwaysRecorded, RecordedIsStable, PTL
=============================================================================
