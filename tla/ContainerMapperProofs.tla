----------------------- MODULE ContainerMapperProofs -----------------------
(***************************************************************************)
(* For any containers, labels, PIDs, mounts and windows: an answer of the  *)
(* mapper was true when the containers were listed, no container that      *)
(* still runs is given the cgroup of another, and a translated path leads  *)
(* where the kernel leads.                                                 *)
(***************************************************************************)
EXTENDS ContainerMapper, FiniteSetTheorems, SequenceTheorems,
        NaturalsInduction, WellFoundedInduction, TLAPS

-----------------------------------------------------------------------------
(* Natural numbers.                                                        *)
LEMMA Least ==
  ASSUME NEW S \in SUBSET Nat, S # {}
  PROVE  \E x \in S : \A y \in S : x <= y
<1> DEFINE R == OpToRel(<, Nat)
<1>1. IsWellFoundedOn(R, Nat)
  BY NatLessThanWellFounded
<1> HIDE DEF R
<1>2. PICK x \in S : \A y \in S : <<y, x>> \notin R
  BY <1>1, WFMin
<1>3. \A y \in S : ~(y < x)
  BY <1>2 DEF R, OpToRel
<1> QED
  BY <1>3

LEMMA Induction ==
  ASSUME NEW T, 0 \in T, \A n \in Nat : n \in T => n + 1 \in T
  PROVE  \A n \in Nat : n \in T
<1> SUFFICES ASSUME Nat \ T # {} PROVE FALSE
  OBVIOUS
<1>1. PICK m \in Nat \ T : \A y \in Nat \ T : m <= y
  BY Least
<1>2. m # 0 /\ m - 1 \in Nat
  OBVIOUS
<1>3. m - 1 \in T
  BY <1>1, <1>2
<1> QED
  BY <1>2, <1>3

LEMMA MinIs ==
  ASSUME NEW S \in SUBSET Nat, S # {}
  PROVE  Min(S) \in S
BY Least DEF Min

LEMMA Greatest ==
  ASSUME NEW S \in SUBSET Nat, IsFiniteSet(S), S # {}
  PROVE  Max(S) \in S /\ \A y \in S : y <= Max(S)
<1> DEFINE HasMax(U) == U = {} \/ \E x \in U : \A y \in U : y <= x
           T == {k \in Nat : \A U \in SUBSET S : Cardinality(U) = k => HasMax(U)}
<1>1. 0 \in T
  BY FS_Subset, FS_EmptySet
<1>2. ASSUME NEW k \in Nat, k \in T PROVE k + 1 \in T
  <2> SUFFICES ASSUME NEW U \in SUBSET S, Cardinality(U) = k + 1 PROVE HasMax(U)
    OBVIOUS
  <2>1. IsFiniteSet(U) /\ U # {}
    <3>1. Cardinality({}) # k + 1
      BY FS_EmptySet
    <3>2. IsFiniteSet(U)
      BY FS_Subset
    <3> QED
      BY <3>1, <3>2
  <2>2. PICK a \in U : TRUE
    BY <2>1
  <2>3. Cardinality(U \ {a}) = Cardinality(U) - 1
    BY <2>1, <2>2, FS_RemoveElement
  <2>4. HasMax(U \ {a})
    BY <1>2, <2>3
  <2>5. CASE U \ {a} = {}
    BY <2>2, <2>5
  <2>6. CASE \E x \in U \ {a} : \A y \in U \ {a} : y <= x
    <3>1. PICK x \in U \ {a} : \A y \in U \ {a} : y <= x
      BY <2>6
    <3>2. a \in Nat /\ x \in Nat
      BY <2>2
    <3>3. CASE a <= x
      BY <3>1, <3>3
    <3>4. CASE x <= a
      <4>1. \A y \in U : y <= a
        BY <3>1, <3>2, <3>4
      <4> QED
        BY <2>2, <4>1
    <3> QED
      BY <3>2, <3>3, <3>4
  <2> QED
    BY <2>4, <2>5, <2>6
<1>3. Cardinality(S) \in Nat
  BY FS_CardinalityType
<1>4. Cardinality(S) \in T
  <2> HIDE DEF T
  <2> QED
    BY <1>1, <1>2, <1>3, Induction
<1>5. PICK x \in S : \A y \in S : y <= x
  BY <1>4
<1>6. \E z \in S : \A y \in S : z >= y
  BY <1>5
<1> QED
  BY <1>6 DEF Max

LEMMA HostCgroupIs == HostCgroup \in Nat /\ \A c \in Containers : c < HostCgroup
<1>1. Containers \in SUBSET Nat /\ IsFiniteSet(Containers) /\ Containers # {}
  BY ConstantsOk
<1>2. Max(Containers) \in Containers /\ \A c \in Containers : c <= Max(Containers)
  BY <1>1, Greatest
<1>3. Max(Containers) \in Nat
  BY <1>1, <1>2
<1>4. \A c \in Containers : c \in Nat /\ c <= Max(Containers)
  BY <1>1, <1>2
<1> DEFINE m == Max(Containers)
<1> HIDE DEF m
<1>5. m + 1 \in Nat /\ \A c \in Containers : c < m + 1
  BY <1>3, <1>4 DEF m
<1> QED
  BY <1>5 DEF HostCgroup, m

-----------------------------------------------------------------------------
(* The daemon's side: a container's times are in their order, and exactly  *)
(* the running ones have a process, which is in their cgroup.              *)
BoxInv(c) ==
    /\ box[c].created <= now /\ box[c].finished <= now
    /\ box[c].phase \in {"absent", "created"} => box[c].finished = None
    /\ box[c].phase = "running" /\ box[c].run <= 1 => box[c].finished = None
    /\ box[c].phase \in {"absent", "created"} => box[c].run = 0
    /\ box[c].phase \in {"running", "exited"} => box[c].run > 0
    /\ box[c].finished # None => box[c].created <= box[c].finished
    /\ box[c].phase = "running" <=> box[c].pid # None
    /\ box[c].phase = "running" => cgroupOf[box[c].pid] = c
    /\ box[c].phase \in {"exited"} => box[c].finished # None

(* What a snapshot of a container is still worth: its label and its        *)
(* creation for ever, its end if the container was started only once, and  *)
(* its process as long as the container is in the run that was seen.       *)
SnapshotInv(s) ==
    /\ s.id \in listed
    /\ s.labelled = box[s.id].labelled
    /\ s.created = IF s.id \in Undated THEN None ELSE box[s.id].created
    /\ s.finished # None => /\ box[s.id].finished # None
                            /\ \/ box[s.id].run > 1
                               \/ /\ box[s.id].phase \in {"exited", "removed"}
                                  /\ box[s.id].finished = s.finished
    /\ s.pid \in Pids \cup {None}
    /\ s.run \in Nat /\ s.run <= box[s.id].run
    /\ s.pid # None /\ s.run = box[s.id].run =>
          \/ box[s.id].phase = "running" /\ box[s.id].pid = s.pid
          \/ box[s.id].phase \in {"exited", "removed"}
    /\ s.mounts = MountsOf[s.id]

QueryInv ==
    /\ stage = "idle" => listed = {}
    /\ stage \in {"idle", "inspect", "cgroup"} => answer = NoAnswer
    /\ stage \in {"idle", "inspect"} => raw = {}
    /\ stage = "cgroup" => \E r \in raw : raw = {r} /\ r.id \in todo
    /\ stage = "done" => \/ answer = [outcome |-> "error", candidates |-> {}]
                         \/ answer = Verdict(infos) /\ todo = {}
    /\ {i.id : i \in infos} \subseteq listed \ todo
    /\ stage # "idle" /\ answer.outcome # "error" => listed \ todo \subseteq {i.id : i \in infos}
    /\ \A i, j \in infos : i.id = j.id => i = j

IInv ==
    /\ TypeOK
    /\ \A c \in Containers : BoxInv(c)
    /\ \A c \in listed : box[c].phase # "absent"
    /\ QueryInv
    /\ \A r \in raw : SnapshotInv(r)
    /\ \A i \in infos : SnapshotInv(i)
    /\ CgroupOfLiving

LEMMA InitHolds == Init => IInv
<1> SUFFICES ASSUME Init PROVE IInv
  OBVIOUS
<1> USE DEF Init
<1>1. TypeOK
  <2>1. Cardinality(raw) <= 1
    BY FS_EmptySet
  <2> QED
    BY <2>1, ConstantsOk, HostCgroupIs
       DEF TypeOK, Stages, Phases, Nobody, None
<1>2. \A c \in Containers : BoxInv(c)
  BY DEF BoxInv, Nobody, None
<1>3. QueryInv
  BY DEF QueryInv, NoAnswer
<1> QED
  BY <1>1, <1>2, <1>3 DEF IInv, CgroupOfLiving

(* The world's steps.  What the query has read it keeps.                   *)
WorldKeeps ==
    /\ UNCHANGED query
    /\ now <= now' /\ now' \in 1..MaxTime
    /\ box' \in [Containers -> [phase : Phases, labelled : BOOLEAN,
                                pid : Pids \union {None}, run : 0..MaxRuns,
                                created : 0..MaxTime, finished : 0..MaxTime]]
    /\ cgroupOf' \in [Pids -> 0..HostCgroup]
    /\ \A c \in Containers :
         /\ BoxInv(c)'
         /\ box[c].phase # "absent" =>
              /\ box'[c].phase # "absent"
              /\ box'[c].labelled = box[c].labelled
              /\ box'[c].created = box[c].created
         /\ box[c].run <= box'[c].run
         /\ box[c].finished # None => box'[c].finished # None
         /\ box[c].phase \in {"exited", "removed"} =>
              \/ /\ box'[c].phase \in {"exited", "removed"}
                 /\ box'[c].finished = box[c].finished
              \/ box[c].phase = "exited" /\ box'[c].run = box[c].run + 1
         /\ box[c].phase = "running" =>
              /\ box'[c].run = box[c].run
              /\ \/ box'[c].phase = "running" /\ box'[c].pid = box[c].pid
                 \/ box'[c].phase \in {"exited", "removed"}

LEMMA RunIsNat ==
  /\ TypeOK => \A c \in Containers : box[c].run \in Nat
  /\ WorldKeeps => \A c \in Containers : box'[c].run \in Nat
  BY ConstantsOk DEF TypeOK, WorldKeeps

LEMMA WorldIsOrderly ==
  ASSUME TypeOK, \A c \in Containers : BoxInv(c), World
  PROVE  WorldKeeps
<1> USE DEF BoxInv, None, Nobody, Phases
<1>1. CASE Tick
  BY <1>1, ConstantsOk DEF Tick, TypeOK, WorldKeeps, query
<1>2. ASSUME NEW c \in Containers, Create(c) PROVE WorldKeeps
  <2>1. PICK l \in BOOLEAN :
          box' = [box EXCEPT ![c].phase = "created", ![c].labelled = l, ![c].created = now]
    BY <1>2 DEF Create
  <2>2. \A d \in Containers \ {c} : box'[d] = box[d]
    BY <2>1 DEF TypeOK
  <2>3. /\ box'[c].phase = "created" /\ box'[c].labelled = l /\ box'[c].created = now
        /\ box'[c].pid = box[c].pid /\ box'[c].finished = box[c].finished
        /\ box'[c].run = box[c].run
    BY <2>1 DEF TypeOK
  <2>4. now' = now /\ cgroupOf' = cgroupOf /\ UNCHANGED query /\ box[c].phase = "absent"
    BY <1>2 DEF Create, query
  <2>5. now \in 1 .. MaxTime /\ now \in 0 .. MaxTime
    BY ConstantsOk DEF TypeOK
  <2>6. box' \in [Containers -> [phase : Phases, labelled : BOOLEAN,
                                pid : Pids \union {None}, run : 0..MaxRuns,
                                created : 0..MaxTime, finished : 0..MaxTime]]
    <3>1. box[c] \in [phase : Phases, labelled : BOOLEAN, pid : Pids \union {None},
                      run : 0..MaxRuns, created : 0..MaxTime, finished : 0..MaxTime]
      BY DEF TypeOK
    <3> HIDE DEF Phases, BoxInv
    <3>2. [box[c] EXCEPT !.phase = "created", !.labelled = l, !.created = now]
            \in [phase : Phases, labelled : BOOLEAN, pid : Pids \union {None},
                 run : 0..MaxRuns, created : 0..MaxTime, finished : 0..MaxTime]
      BY <2>5, <3>1 DEF Phases
    <3> QED
      BY <2>1, <3>2 DEF TypeOK
  <2>7. BoxInv(c)'
    BY <2>3, <2>4, <2>5
  <2>8. \A d \in Containers \ {c} : BoxInv(d)'
    BY <2>2, <2>4
  <2> QED
    BY <2>2, <2>3, <2>4, <2>5, <2>6, <2>7, <2>8 DEF TypeOK, WorldKeeps
<1>3. ASSUME NEW c \in Containers, Start(c) PROVE WorldKeeps
  BY <1>3, ConstantsOk, HostCgroupIs DEF Start, TypeOK, WorldKeeps, query
<1>4. ASSUME NEW c \in Containers, Exit(c) PROVE WorldKeeps
  BY <1>4, ConstantsOk, HostCgroupIs DEF Exit, TypeOK, WorldKeeps, query
<1>5. ASSUME NEW c \in Containers, RemoveContainer(c) PROVE WorldKeeps
  BY <1>5, ConstantsOk DEF RemoveContainer, TypeOK, WorldKeeps, query
<1>6. ASSUME NEW p \in Pids, HostSpawn(p) PROVE WorldKeeps
  BY <1>6, ConstantsOk, HostCgroupIs DEF HostSpawn, TypeOK, WorldKeeps, query
<1> QED
  BY <1>1, <1>2, <1>3, <1>4, <1>5, <1>6 DEF World

LEMMA WorldStep ==
  ASSUME IInv, World
  PROVE  IInv'
<1>1. WorldKeeps
  BY WorldIsOrderly DEF IInv
<1>2. TypeOK'
  BY <1>1 DEF IInv, TypeOK, WorldKeeps, query
<1>3. \A c \in Containers : BoxInv(c)'
  BY <1>1 DEF WorldKeeps
<1>4. \A c \in listed' : box'[c].phase # "absent"
  BY <1>1 DEF IInv, TypeOK, WorldKeeps, query
<1>5. QueryInv'
  <2>1. UNCHANGED <<stage, window, listed, todo, raw, infos, answer>>
    BY <1>1 DEF WorldKeeps, query
  <2>2. Verdict(infos)' = Verdict(infos)
    BY <2>1 DEF Verdict, Kept, Candidates, Excluded, Uncertain, NoWindow,
                AfterWindow, BeforeWindow, OverBeforeWindow
  <2> QED
    BY <2>1, <2>2 DEF IInv, QueryInv
<1>6. ASSUME NEW s \in raw \cup infos PROVE SnapshotInv(s)'
  <2>1. SnapshotInv(s) /\ s.id \in Containers /\ box[s.id].phase # "absent"
    BY <1>6 DEF IInv, SnapshotInv, TypeOK
  <2>2. box[s.id].run \in Nat /\ box'[s.id].run \in Nat /\ box[s.id].run <= box'[s.id].run
    BY <1>1, <2>1, RunIsNat DEF IInv, WorldKeeps
  <2>3. box[s.id].phase \in {"exited", "removed"} /\ box[s.id].phase = "exited" =>
           box[s.id].run > 0
    BY <2>1 DEF IInv, BoxInv
  <2> QED
    BY <1>1, <2>1, <2>2, <2>3 DEF WorldKeeps, SnapshotInv, query
<1>7. CgroupOfLiving'
  <2> SUFFICES ASSUME NEW i \in infos, i.pid # None,
                      box'[i.id].phase = "running", box'[i.id].run = i.run
               PROVE  i.cgroup \in {None, i.id}
    BY <1>1 DEF CgroupOfLiving, WorldKeeps, query
  <2>1. SnapshotInv(i) /\ i.id \in Containers
    BY DEF IInv, SnapshotInv, TypeOK
  <2>2. box[i.id].phase = "running" /\ box[i.id].run = i.run
    <3>1. box[i.id].run \in Nat /\ box'[i.id].run \in Nat /\ i.run \in Nat
          /\ i.run <= box[i.id].run /\ box[i.id].run <= box'[i.id].run
      BY <1>1, <2>1, RunIsNat DEF IInv, WorldKeeps, SnapshotInv
    <3>2. box[i.id].run = i.run
      BY <3>1
    <3>3. box[i.id].phase # "running" => box[i.id].phase \in {"exited", "removed"}
      BY <2>1, <3>2 DEF SnapshotInv
    <3> QED
      BY <1>1, <2>1, <3>1, <3>2, <3>3 DEF WorldKeeps
  <2> QED
    BY <2>2 DEF IInv, CgroupOfLiving
<1> QED
  BY <1>1, <1>2, <1>3, <1>4, <1>5, <1>6, <1>7 DEF IInv, WorldKeeps, query

-----------------------------------------------------------------------------
(* The query's steps.                                                      *)
LEMMA InSnapshot ==
  ASSUME IInv, Inspect
  PROVE  \E r : /\ raw' = {r} /\ r.id \in todo
                /\ SnapshotInv(r)
                /\ UNCHANGED world /\ UNCHANGED <<window, listed, todo, infos, answer>>
                /\ stage = "inspect" /\ stage' = "cgroup"
<1> DEFINE c == Min(todo)
           r == [id |-> c, labelled |-> box[c].labelled, pid |-> box[c].pid,
                 run |-> box[c].run,
                 created |-> IF c \in Undated THEN None ELSE box[c].created,
                 finished |-> box[c].finished, mounts |-> MountsOf[c]]
<1>1. todo \in SUBSET Nat /\ todo # {} /\ todo \subseteq listed /\ listed \subseteq Containers
  BY ConstantsOk DEF Inspect, IInv, TypeOK
<1>2. c \in todo
  BY <1>1, MinIs
<1>3. /\ raw' = {r} /\ stage = "inspect" /\ stage' = "cgroup"
      /\ UNCHANGED world /\ UNCHANGED <<window, listed, todo, infos, answer>>
      /\ box[c].phase \in {"created", "running", "exited"}
  BY DEF Inspect, Present
<1>4. c \in Containers /\ BoxInv(c)
  BY <1>1, <1>2 DEF IInv
<1> HIDE DEF c
<1>5. box[c].pid \in Pids \cup {None} /\ box[c].run \in Nat /\ box[c].run <= box[c].run
      /\ (box[c].run > 1 \/ box[c].run <= 1)
  BY <1>4, RunIsNat DEF IInv, TypeOK
<1>6. r.id = c /\ SnapshotInv(r)
  BY <1>1, <1>2, <1>3, <1>4, <1>5 DEF SnapshotInv, BoxInv
<1> QED
  BY <1>2, <1>3, <1>6

LEMMA InspectStep ==
  ASSUME IInv, Inspect
  PROVE  IInv'
<1>1. PICK r : /\ raw' = {r} /\ r.id \in todo
               /\ SnapshotInv(r)
               /\ UNCHANGED world /\ UNCHANGED <<window, listed, todo, infos, answer>>
               /\ stage = "inspect" /\ stage' = "cgroup"
  BY InSnapshot
<1>2. TypeOK'
  <2>1. Cardinality({r}) = 1
    BY FS_Singleton
  <2>2. Cardinality(raw') <= 1
    BY <1>1, <2>1
  <2> QED
    BY <1>1, <2>2 DEF IInv, TypeOK, world, Stages
<1>3. QueryInv'
  BY <1>1 DEF IInv, QueryInv
<1>4. \A s : SnapshotInv(s) => SnapshotInv(s)'
  BY <1>1 DEF SnapshotInv, world
<1> QED
  BY <1>1, <1>2, <1>3, <1>4 DEF IInv, BoxInv, CgroupOfLiving, world

LEMMA ErrorStep ==
  ASSUME IInv, stage # "done", Error
  PROVE  IInv'
<1> USE DEF Error, world
<1>1. TypeOK'
  <2>1. Cardinality(raw') <= 1
    BY FS_EmptySet
  <2> QED
    BY <2>1 DEF IInv, TypeOK, Stages
<1>2. QueryInv'
  BY DEF IInv, QueryInv, TypeOK
<1>3. \A s : SnapshotInv(s) => SnapshotInv(s)'
  BY DEF SnapshotInv
<1> QED
  BY <1>1, <1>2, <1>3 DEF IInv, BoxInv, CgroupOfLiving

LEMMA ListStep ==
  ASSUME IInv, ListContainers
  PROVE  IInv'
<1> USE DEF ListContainers, world
<1>1. TypeOK'
  BY DEF IInv, QueryInv, TypeOK, Stages, Present
<1>2. infos = {}
  BY DEF IInv, QueryInv
<1>3. QueryInv'
  BY <1>2 DEF IInv, QueryInv
<1>4. \A c \in listed' : box[c].phase # "absent"
  BY DEF Present
<1> QED
  BY <1>1, <1>2, <1>3, <1>4 DEF IInv, BoxInv, CgroupOfLiving, QueryInv

LEMMA DecideStep ==
  ASSUME IInv, Decide
  PROVE  IInv'
<1> USE DEF Decide, world
<1>1. TypeOK'
  BY DEF IInv, TypeOK, Stages
<1>2. QueryInv'
  <2>1. Verdict(infos)' = Verdict(infos)
    BY DEF Verdict, Kept, Candidates, Excluded, Uncertain, NoWindow,
                AfterWindow, BeforeWindow, OverBeforeWindow
  <2>2. answer.outcome # "error"
    BY DEF IInv, QueryInv, NoAnswer
  <2> QED
    BY <2>1, <2>2 DEF IInv, QueryInv
<1>3. \A s : SnapshotInv(s) => SnapshotInv(s)'
  BY DEF SnapshotInv
<1> QED
  BY <1>1, <1>2, <1>3 DEF IInv, BoxInv, CgroupOfLiving

(* The cgroup is read after the inspect.  If the container still runs the  *)
(* process that was inspected, it ran it all the time in between.          *)
LEMMA EnrichStep ==
  ASSUME IInv, EnrichCgroup
  PROVE  IInv'
<1>0. PICK r \in raw : \E g \in {None, ReadCgroup(r.pid)} :
        /\ infos' = infos \union {Info(r, g)}
        /\ todo' = todo \ {r.id}
  BY DEF EnrichCgroup
<1>1. PICK cgroup \in {None, ReadCgroup(r.pid)} :
        /\ infos' = infos \union {Info(r, cgroup)}
        /\ todo' = todo \ {r.id}
  BY <1>0
<1>2. /\ raw' = {} /\ stage = "cgroup" /\ stage' = "inspect"
      /\ UNCHANGED <<window, listed, answer, now, box, cgroupOf>>
  BY DEF EnrichCgroup, world
<1> DEFINE i == Info(r, cgroup)
<1>3. SnapshotInv(r) /\ r.id \in todo /\ todo \subseteq listed /\ listed \subseteq Containers
  BY <1>2 DEF IInv, QueryInv, TypeOK
<1>4. /\ i.id = r.id /\ i.labelled = r.labelled /\ i.pid = r.pid /\ i.created = r.created
      /\ i.run = r.run
      /\ i.finished = r.finished /\ i.mounts = r.mounts /\ i.cgroup = cgroup
  BY DEF Info
<1> HIDE DEF i
<1>5. SnapshotInv(i)
  BY <1>3, <1>4 DEF SnapshotInv
<1>6. \A s : SnapshotInv(s) => SnapshotInv(s)'
  BY <1>2 DEF SnapshotInv
<1>7. infos' = infos \union {i}
  BY <1>1 DEF i
<1>8. TypeOK'
  <2>1. Cardinality(raw') <= 1
    BY <1>2, FS_EmptySet
  <2> QED
    BY <1>1, <1>2, <1>3, <1>4, <1>7, <2>1 DEF IInv, TypeOK, Stages
<1>9. QueryInv'
  <2>1. i.id \notin {j.id : j \in infos}
    BY <1>3, <1>4 DEF IInv, QueryInv
  <2>2. /\ {j.id : j \in infos'} = {j.id : j \in infos} \cup {i.id}
        /\ listed' \ todo' = (listed \ todo) \cup {i.id}
    BY <1>1, <1>2, <1>3, <1>4, <1>7
  <2>3. \A j, k \in infos' : j.id = k.id => j = k
    BY <1>7, <2>1 DEF IInv, QueryInv
  <2> QED
    BY <1>2, <2>1, <2>2, <2>3 DEF IInv, QueryInv
<1>10. i.pid # None /\ box[i.id].phase = "running" /\ box[i.id].run = i.run
         => i.cgroup \in {None, i.id}
  <2> SUFFICES ASSUME r.pid # None, box[r.id].phase = "running", box[r.id].run = r.run
               PROVE  cgroup \in {None, r.id}
    BY <1>4
  <2>1. box[r.id].pid = r.pid
    BY <1>3 DEF SnapshotInv
  <2> QED
    BY <1>1, <1>3, <2>1 DEF ReadCgroup, IInv, BoxInv
<1>11. CgroupOfLiving'
  BY <1>2, <1>7, <1>10 DEF IInv, CgroupOfLiving
<1>12. \A c \in Containers : BoxInv(c)'
  BY <1>2 DEF IInv, BoxInv
<1>13. \A j \in infos' : SnapshotInv(j)'
  BY <1>5, <1>6, <1>7 DEF IInv
<1>14. \A c \in listed' : box'[c].phase # "absent"
  BY <1>2 DEF IInv
<1> QED
  BY <1>2, <1>8, <1>9, <1>11, <1>12, <1>13, <1>14 DEF IInv

LEMMA StepKeeps ==
  ASSUME IInv, [Next]_vars
  PROVE  IInv'
<1>1. CASE UNCHANGED vars
  <2>1. TypeOK' /\ CgroupOfLiving'
    BY <1>1 DEF vars, IInv, TypeOK, CgroupOfLiving
  <2>2. /\ \A c \in Containers : BoxInv(c)'
        /\ \A c \in listed' : box'[c].phase # "absent"
    BY <1>1 DEF vars, IInv, BoxInv
  <2>3. QueryInv'
    <3>1. Verdict(infos)' = Verdict(infos)
      BY <1>1 DEF vars, Verdict, Kept, Candidates, Excluded, Uncertain, NoWindow,
                  AfterWindow, BeforeWindow, OverBeforeWindow
    <3> QED
      BY <1>1, <3>1 DEF vars, IInv, QueryInv
  <2>4. (\A r \in raw' : SnapshotInv(r)') /\ \A i \in infos' : SnapshotInv(i)'
    BY <1>1 DEF vars, IInv, SnapshotInv
  <2> QED
    BY <2>1, <2>2, <2>3, <2>4 DEF IInv
<1>2. CASE World
  BY <1>2, WorldStep
<1>3. CASE ListContainers
  BY <1>3, ListStep
<1>4. CASE ListFails
  BY <1>4, ErrorStep DEF ListFails
<1>5. CASE Inspect
  BY <1>5, InspectStep
<1>6. CASE EnrichCgroup
  BY <1>6, EnrichStep
<1>7. CASE Decide
  BY <1>7, DecideStep
<1>8. ASSUME NEW c \in Containers, InspectFails(c) PROVE IInv'
  BY <1>8, ErrorStep DEF InspectFails
<1> QED
  BY <1>1, <1>2, <1>3, <1>4, <1>5, <1>6, <1>7, <1>8 DEF Next

LEMMA AlwaysConsistent == Spec => []IInv
<1>1. IInv /\ [Next]_vars => IInv'
  BY StepKeeps
<1> QED
  BY InitHolds, <1>1, PTL DEF Spec

-----------------------------------------------------------------------------
(* A snapshot that is a candidate without a doubt was of a container that  *)
(* lived in the window, one that is no candidate was not: the moments      *)
(* between the list, the inspects and the verdict change neither.          *)
LEMMA SureIsLived ==
  ASSUME IInv, NEW i \in infos, i \in Candidates(infos), ~Uncertain(i)
  PROVE  Lived(i.id)
<1>1. SnapshotInv(i) /\ i.id \in Containers /\ BoxInv(i.id)
  BY DEF IInv, SnapshotInv, TypeOK
<1>2. i.labelled /\ ~Excluded(i)
  BY DEF Candidates
<1>3. box[i.id].created \in Nat /\ box[i.id].finished \in Nat
  <2>1. box[i.id].created \in 0 .. MaxTime /\ box[i.id].finished \in 0 .. MaxTime
    BY <1>1 DEF IInv, TypeOK
  <2> QED
    BY <2>1, ConstantsOk
<1>4. window.after \in Nat /\ window.before \in Nat
  BY ConstantsOk DEF IInv, TypeOK
<1>5. CASE NoWindow
  BY <1>1, <1>2, <1>5 DEF Lived, SnapshotInv, NoWindow
<1>6. CASE ~NoWindow
  <2>1. i.created # None /\ ~BeforeWindow(i) /\ ~AfterWindow(i)
    BY <1>2, <1>6 DEF Uncertain, Excluded
  <2>2. i.created = box[i.id].created
    BY <1>1, <2>1 DEF SnapshotInv
  <2> QED
    BY <1>1, <1>2, <1>3, <1>4, <2>1, <2>2
       DEF Lived, SnapshotInv, BoxInv, BeforeWindow, AfterWindow, None
<1> QED
  BY <1>5, <1>6

LEMMA LivedIsCandidate ==
  ASSUME IInv, NEW i \in infos, Lived(i.id)
  PROVE  i \in Candidates(infos) \/ StartedAgain(i.id)
<1>1. SnapshotInv(i) /\ i.id \in Containers
  BY DEF IInv, SnapshotInv, TypeOK
<1>2. i.labelled
  BY <1>1 DEF Lived, SnapshotInv
<1>3. ASSUME Excluded(i) PROVE StartedAgain(i.id)
  <2>1. i.created # None /\ i.created = box[i.id].created
    BY <1>1, <1>3 DEF SnapshotInv, Excluded
  <2>2. ~AfterWindow(i)
    BY <2>1 DEF Lived, AfterWindow
  <2>3. OverBeforeWindow(i)
    BY <1>3, <2>2 DEF Excluded
  <2>4. /\ i.finished # None /\ i.finished < window.after /\ window.after # None
        /\ box[i.id].created < window.after
    BY <2>1, <2>3 DEF OverBeforeWindow, BeforeWindow
  <2> QED
    BY <1>1, <2>4 DEF SnapshotInv, Lived, StartedAgain
<1> QED
  BY <1>2, <1>3 DEF Candidates

LEMMA InfosFinite == IInv => IsFiniteSet(infos)
<1> SUFFICES ASSUME IInv PROVE IsFiniteSet(infos)
  OBVIOUS
<1> DEFINE ids == {j.id : j \in infos}
           f == [j \in infos |-> j.id]
<1>1. ids \subseteq Containers /\ IsFiniteSet(Containers)
  BY ConstantsOk DEF IInv, TypeOK
<1>2. IsFiniteSet(ids)
  BY <1>1, FS_Subset
<1>3. f \in Injection(infos, ids)
  BY DEF Injection, IsInjective, IInv, QueryInv
<1> HIDE DEF ids, f
<1> QED
  BY <1>2, <1>3, FS_Injection

LEMMA ConsistentIsTrue == IInv => VerdictTrueAtListing
<1> SUFFICES ASSUME IInv PROVE VerdictTrueAtListing
  OBVIOUS
<1> DEFINE lived == {c \in listed : Lived(c)}
           cs == Candidates(infos)
<1>1. ASSUME answer.outcome \in {"mapped", "unmapped"}
      PROVE  answer = Verdict(infos) /\ {i.id : i \in infos} = listed
  <2>1. stage = "done"
    BY <1>1 DEF IInv, TypeOK, Stages, QueryInv, NoAnswer
  <2>2. answer = Verdict(infos) /\ todo = {}
    BY <1>1, <2>1 DEF IInv, QueryInv
  <2> QED
    BY <1>1, <2>1, <2>2 DEF IInv, QueryInv
<1>2. ASSUME NEW c \in lived, {i.id : i \in infos} = listed
      PROVE  (\E i \in cs : i.id = c) \/ StartedAgain(c)
  <2>1. PICK i \in infos : i.id = c
    BY <1>2
  <2> QED
    BY <1>2, <2>1, LivedIsCandidate
<1>3. CASE answer.outcome = "unmapped"
  <2>1. answer = Verdict(infos) /\ {i.id : i \in infos} = listed
    BY <1>1, <1>3
  <2>2. cs = {}
    BY <1>3, <2>1 DEF Verdict
  <2>3. \A c \in lived : StartedAgain(c)
    BY <1>2, <2>1, <2>2
  <2> QED
    BY <1>3, <2>3 DEF VerdictTrueAtListing, IInv
<1>4. CASE answer.outcome = "mapped"
  <2>1. answer = Verdict(infos) /\ {i.id : i \in infos} = listed
    BY <1>1, <1>4
  <2>2. Kept(cs) = cs /\ answer.candidates = cs /\ \A i \in cs : ~Uncertain(i)
    BY <1>4, <2>1 DEF Verdict
  <2>3. \A i \in cs : i \in infos /\ Lived(i.id)
    BY <2>2, SureIsLived DEF Candidates
  <2> DEFINE found == {i.id : i \in answer.candidates}
  <2>4. found \subseteq lived /\ \A c \in lived \ found : StartedAgain(c)
    <3>1. \A i \in cs : i.id \in lived
      BY <2>1, <2>3
    <3>2. \A c \in lived : (\E i \in cs : i.id = c) \/ StartedAgain(c)
      BY <1>2, <2>1
    <3> HIDE DEF lived, cs
    <3> QED
      BY <2>2, <3>1, <3>2
  <2>5. Cardinality(found) = 1
    <3>1. Cardinality(cs) = 1
      BY <1>4, <2>1, <2>2 DEF Verdict
    <3>2. IsFiniteSet(cs)
      BY InfosFinite, FS_Subset DEF Candidates
    <3>3. PICK x : cs = {x}
      BY <3>1, <3>2, FS_Singleton
    <3>4. found = {x.id}
      BY <2>2, <3>3
    <3> QED
      BY <3>4, FS_Singleton
  <2> QED
    BY <1>4, <2>4, <2>5 DEF VerdictTrueAtListing, IInv
<1> QED
  BY <1>3, <1>4 DEF VerdictTrueAtListing, IInv

(* An answer is true of the moment of the list (mapper.py:246 map_label):  *)
(* whatever was created, started, ended, started again or removed between  *)
(* the list, the inspects, the reads of the cgroups and the verdict, the   *)
(* one container of a mapped label was there in the window, and no other   *)
(* was, and none was for an unmapped label: but for containers from before *)
(* the window that were started again.                                     *)
THEOREM MappingIsTrue == Spec => []VerdictTrueAtListing
BY AlwaysConsistent, ConsistentIsTrue, PTL

(* A container that is still in the run it was inspected in does not have  *)
(* another's cgroup (query.py:398 _enrich_cgroup), although PIDs are       *)
(* handed on between an inspect and the read of /proc.                     *)
THEOREM CgroupIsOwn == Spec => []CgroupOfLiving
<1>1. IInv => CgroupOfLiving
  BY DEF IInv
<1> QED
  BY AlwaysConsistent, <1>1, PTL

-----------------------------------------------------------------------------
(* The kernel's walk over a path, one component after the other.           *)
WalkOn(mounts, path, k, w) ==
    StepOnto(mounts,
        IF k = 0 THEN [path |-> <<>>, mount |-> Root, rest |-> <<>>]
        ELSE [path  |-> Append(w[k - 1].path, path[k]),
              mount |-> w[k - 1].mount,
              rest  |-> Append(w[k - 1].rest, path[k])])

LEMMA WalkEquation ==
  ASSUME NEW mounts, NEW path, Len(path) \in Nat
  PROVE  \E w : /\ w = [k \in 0..Len(path) |-> WalkOn(mounts, path, k, w)]
                /\ Walk(mounts, path) = w[Len(path)]
<1> DEFINE N == Len(path)
           Solves(f, n) == f = [k \in 0..n |-> WalkOn(mounts, path, k, f)]
           T == {n \in Nat : \E f : Solves(f, n)}
           walk == CHOOSE f : Solves(f, N)
<1>1. 0 \in T
  <2>1. \A f, g : WalkOn(mounts, path, 0, f) = WalkOn(mounts, path, 0, g)
    BY DEF WalkOn
  <2> DEFINE f == [k \in 0..0 |-> WalkOn(mounts, path, 0, <<>>)]
  <2>2. f = [k \in 0..0 |-> WalkOn(mounts, path, k, f)]
    BY <2>1
  <2> QED
    BY <2>2
<1>2. ASSUME NEW n \in Nat, n \in T PROVE n + 1 \in T
  <2>1. PICK f : Solves(f, n)
    BY <1>2
  <2> DEFINE g == [k \in 0..n + 1 |-> WalkOn(mounts, path, k, f)]
  <2>2. \A k \in 0..n : g[k] = f[k]
    <3>1. \A k \in 0..n : f[k] = WalkOn(mounts, path, k, f)
      BY <2>1
    <3>2. \A k \in 0..n + 1 : g[k] = WalkOn(mounts, path, k, f)
      OBVIOUS
    <3> HIDE DEF g
    <3> QED
      BY <3>1, <3>2
  <2>3. \A k \in 0..n + 1 : k = 0 \/ g[k - 1] = f[k - 1]
    <3> HIDE DEF g
    <3> QED
      BY <2>2
  <2>4. \A k \in 0..n + 1 : WalkOn(mounts, path, k, f) = WalkOn(mounts, path, k, g)
    <3> SUFFICES ASSUME NEW k \in 0..n + 1
                 PROVE  WalkOn(mounts, path, k, f) = WalkOn(mounts, path, k, g)
      OBVIOUS
    <3>1. k = 0 \/ g[k - 1] = f[k - 1]
      BY <2>3
    <3> HIDE DEF g
    <3> QED
      BY <3>1 DEF WalkOn
  <2>5. \A k \in 0..n + 1 : g[k] = WalkOn(mounts, path, k, f)
    OBVIOUS
  <2>6. DOMAIN g = 0..n + 1 /\ g = [k \in DOMAIN g |-> g[k]]
    OBVIOUS
  <2> HIDE DEF g
  <2>7. \A k \in 0..n + 1 : g[k] = WalkOn(mounts, path, k, g)
    BY <2>4, <2>5
  <2>8. Solves(g, n + 1)
    BY <2>6, <2>7, Zenon
  <2> HIDE DEF Solves
  <2> QED
    BY <2>8
<1>3. N \in T
  <2> HIDE DEF T
  <2> QED
    BY <1>1, <1>2, Induction
<1>4. Walk(mounts, path) = walk[N]
  BY DEF Walk, WalkOn
<1> HIDE DEF Solves
<1>5. Solves(walk, N)
  BY <1>3
<1> HIDE DEF walk
<1> QED
  BY <1>4, <1>5 DEF Solves

LEMMA PrefixIs ==
  ASSUME NEW path \in Seq(Names), NEW k \in 0..Len(path)
  PROVE  /\ SubSeq(path, 1, k) \in Seq(Names)
         /\ Len(SubSeq(path, 1, k)) = k
         /\ IsPrefix(SubSeq(path, 1, k), path)
<1> DEFINE front == SubSeq(path, 1, k)
<1>1. Len(path) \in Nat /\ 1 \in Int /\ k \in Int /\ k <= Len(path) /\ k \in Nat
  BY LenProperties
<1>2. \A i \in 1..k : path[i] \in Names
  <2> SUFFICES ASSUME NEW i \in 1..k PROVE path[i] \in Names
    OBVIOUS
  <2>1. i \in 1..Len(path)
    BY <1>1
  <2> QED
    BY <2>1, ElementOfSeq
<1>3. /\ front \in Seq(Names)
      /\ Len(front) = IF 1 <= k THEN k - 1 + 1 ELSE 0
  BY <1>1, <1>2, SubSeqProperties
<1>4. Len(front) = k
  BY <1>1, <1>3
<1>5. SubSeq(front, 1, Len(front)) = front
  BY <1>3, SubSeqFull
<1> QED
  BY <1>1, <1>3, <1>4, <1>5 DEF IsPrefix

LEMMA OneMore ==
  ASSUME NEW path \in Seq(Names), NEW m \in Nat \ {0}, NEW k \in m..Len(path)
  PROVE  Append(SubSeq(path, m, k - 1), path[k]) = SubSeq(path, m, k)
<1>1. Len(path) \in Nat /\ m \in 1..Len(path) /\ k \in Int /\ k - 1 \in Int
  BY LenProperties
<1>2. SubSeq(path, m, k) = SubSeq(path, m, k - 1) \o <<path[k]>>
  BY <1>1, SubSeqRecursiveSecond
<1>3. \A i \in m..k - 1 : path[i] \in Names
  <2> SUFFICES ASSUME NEW i \in m..k - 1 PROVE path[i] \in Names
    OBVIOUS
  <2>1. i \in 1..Len(path)
    BY <1>1
  <2> QED
    BY <2>1, ElementOfSeq
<1>4. SubSeq(path, m, k - 1) \in Seq(Names)
  BY <1>1, <1>3, SubSeqProperties
<1>5. path[k] \in Names
  <2>1. k \in 1..Len(path)
    BY <1>1
  <2> QED
    BY <2>1, ElementOfSeq
<1>6. SubSeq(path, m, k - 1) \o <<path[k]>> = Append(SubSeq(path, m, k - 1), path[k])
  BY <1>4, <1>5, AppendIsConcat
<1> QED
  BY <1>2, <1>6

(* Where exactly one mount is the deepest over a path, the kernel stands   *)
(* on it from its destination on.                                          *)
LEMMA KernelStandsOnWinner ==
  ASSUME NEW mounts, \A m \in mounts : m.destination \in Seq(Names),
         NEW path \in Seq(Names),
         NEW m, Winners(mounts, path) = {m}
  PROVE  /\ Walk(mounts, path).mount = m
         /\ Walk(mounts, path).rest = RelativeTo(path, m.destination)
<1> DEFINE N == Len(path)
           d == Len(m.destination)
           Upto(k) == SubSeq(path, 1, k)
<1>1. N \in Nat
  BY LenProperties
<1>2. /\ m \in mounts /\ m.destination \in Seq(Names) /\ IsPrefix(m.destination, path)
      /\ \A n \in mounts : IsPrefix(n.destination, path) => Len(n.destination) <= d
  BY DEF Winners, Over
<1>3. d \in 0..N /\ m.destination = Upto(d)
  <2>1. d \in Nat
    BY <1>2, LenProperties
  <2>2. d <= N /\ SubSeq(m.destination, 1, d) = Upto(d)
    BY <1>2 DEF IsPrefix
  <2>3. SubSeq(m.destination, 1, d) = m.destination
    BY <1>2, SubSeqFull
  <2> QED
    BY <1>1, <2>1, <2>2, <2>3
<1>4. ASSUME NEW k \in d..N
      PROVE  MountedAt(mounts, Upto(k)) = IF k = d THEN {m} ELSE {}
  <2>1. k \in 0..N
    BY <1>1, <1>3
  <2>2. Len(Upto(k)) = k /\ IsPrefix(Upto(k), path)
    BY <2>1, PrefixIs
  <2>3. ASSUME NEW n \in MountedAt(mounts, Upto(k))
        PROVE  k = d /\ n = m
    <3>1. n \in mounts /\ n.destination = Upto(k)
      BY DEF MountedAt
    <3>2. k = d
      <4>1. Len(n.destination) = k /\ Len(n.destination) <= d
        BY <1>2, <2>2, <3>1
      <4>2. d \in Nat /\ k \in Nat /\ d <= k
        BY <1>1, <1>3
      <4> HIDE DEF d
      <4> QED
        BY <4>1, <4>2
    <3>3. n \in Over(mounts, path)
      BY <2>2, <3>1 DEF Over
    <3>4. \A x \in Over(mounts, path) : Len(x.destination) <= Len(n.destination)
      BY <1>2, <2>2, <3>1, <3>2 DEF Over
    <3>5. n \in Winners(mounts, path)
      BY <3>3, <3>4 DEF Winners
    <3> QED
      BY <3>2, <3>5
  <2>4. k = d => m \in MountedAt(mounts, Upto(k))
    BY <1>2, <1>3 DEF MountedAt
  <2> HIDE DEF Upto, d
  <2> QED
    BY <2>3, <2>4
<1>5. PICK w : /\ w = [k \in 0..N |-> WalkOn(mounts, path, k, w)]
               /\ Walk(mounts, path) = w[N]
  BY <1>1, WalkEquation
<1>6. \A k \in 0..N : w[k] = WalkOn(mounts, path, k, w)
  BY <1>5
<1> HIDE DEF N
<1> DEFINE Bare(k) == IF k = 0 THEN [path |-> <<>>, mount |-> Root, rest |-> <<>>]
                      ELSE [path  |-> Append(w[k - 1].path, path[k]),
                            mount |-> w[k - 1].mount,
                            rest  |-> Append(w[k - 1].rest, path[k])]
<1>7. \A k \in 0..N : w[k] = StepOnto(mounts, Bare(k))
  BY <1>6 DEF WalkOn
<1>8. \A k \in 0..N : w[k].path = Bare(k).path
  <2>1. \A k : StepOnto(mounts, Bare(k)).path = Bare(k).path
    BY DEF StepOnto
  <2> HIDE DEF Bare
  <2> QED
    BY <1>7, <2>1
<1>9. \A k \in Nat : k <= N => w[k].path = Upto(k)
  <2> DEFINE T == {k \in Nat : k <= N => w[k].path = Upto(k)}
  <2>1. 0 \in T
    <3>1. Upto(0) = <<>>
      BY SubSeqEmpty
    <3>2. Bare(0).path = <<>> /\ 0 \in 0..N
      BY <1>1
    <3> HIDE DEF Bare
    <3> QED
      BY <1>8, <3>1, <3>2
  <2>2. ASSUME NEW k \in Nat, k \in T PROVE k + 1 \in T
    <3> SUFFICES ASSUME k + 1 <= N PROVE w[k + 1].path = Upto(k + 1)
      OBVIOUS
    <3>1. w[k].path = Upto(k)
      BY <1>1, <2>2 DEF N
    <3>2. w[k + 1].path = Append(w[k].path, path[k + 1])
      <4>1. k + 1 \in 0..N /\ k + 1 # 0 /\ k + 1 - 1 = k
        BY <1>1
      <4>2. Bare(k + 1).path = Append(w[k].path, path[k + 1])
        BY <4>1
      <4> HIDE DEF Bare
      <4> QED
        BY <1>8, <4>1, <4>2
    <3>3. k + 1 \in 1..Len(path)
      BY <1>1 DEF N
    <3>4. Append(SubSeq(path, 1, k + 1 - 1), path[k + 1]) = SubSeq(path, 1, k + 1)
      BY <3>3, OneMore
    <3>5. k + 1 - 1 = k
      OBVIOUS
    <3> QED
      BY <3>1, <3>2, <3>4, <3>5
  <2> HIDE DEF T
  <2>3. \A k \in Nat : k \in T
    BY <2>1, <2>2, Induction
  <2> QED
    BY <2>3 DEF T
<1>10. \A k \in d..N : MountedAt(mounts, Bare(k).path) = IF k = d THEN {m} ELSE {}
  <2> SUFFICES ASSUME NEW k \in d..N
               PROVE  MountedAt(mounts, Bare(k).path) = IF k = d THEN {m} ELSE {}
    OBVIOUS
  <2>1. k \in 0..N /\ k \in Nat /\ k <= N
    BY <1>1, <1>3 DEF N
  <2>2. Bare(k).path = Upto(k)
    BY <1>8, <1>9, <2>1
  <2> HIDE DEF Bare, Upto, d
  <2> QED
    BY <1>4, <2>2
<1> DEFINE Standing(k) == w[k].mount = m /\ w[k].rest = SubSeq(path, d + 1, k)
<1>11. Standing(d)
  <2>1. MountedAt(mounts, Bare(d).path) = {m}
    BY <1>1, <1>3, <1>10 DEF N
  <2>2. w[d] = [Bare(d) EXCEPT !.mount = m, !.rest = <<>>]
    <3>1. w[d] = StepOnto(mounts, Bare(d))
      BY <1>3, <1>7
    <3>2. (CHOOSE x \in {m} : TRUE) = m
      OBVIOUS
    <3> HIDE DEF Bare, d
    <3> QED
      BY <2>1, <3>1, <3>2 DEF StepOnto
  <2>3. w[d].mount = m /\ w[d].rest = <<>>
    BY <2>2
  <2>4. SubSeq(path, d + 1, d) = <<>>
    BY <1>3, SubSeqEmpty
  <2> QED
    BY <2>3, <2>4
<1>12. ASSUME NEW k \in Nat, d <= k, k + 1 <= N, Standing(k) PROVE Standing(k + 1)
  <2>1. k + 1 \in d..N /\ k + 1 # d /\ k + 1 # 0 /\ k + 1 \in 0..N /\ k + 1 - 1 = k
    BY <1>1, <1>3, <1>12 DEF N
  <2>2. MountedAt(mounts, Bare(k + 1).path) = {}
    BY <1>10, <2>1
  <2>3. w[k + 1] = Bare(k + 1)
    <3> HIDE DEF Bare
    <3> QED
      BY <1>7, <2>1, <2>2 DEF StepOnto
  <2>4. /\ w[k + 1].mount = w[k].mount
        /\ w[k + 1].rest = Append(w[k].rest, path[k + 1])
    BY <2>1, <2>3
  <2>5. d + 1 \in Nat \ {0} /\ k + 1 \in d + 1..Len(path)
    BY <1>1, <1>3, <1>12 DEF N
  <2>6. Append(SubSeq(path, d + 1, k + 1 - 1), path[k + 1]) = SubSeq(path, d + 1, k + 1)
    <3> HIDE DEF d
    <3> QED
      BY <2>5, OneMore
  <2> QED
    BY <1>12, <2>1, <2>4, <2>6
<1>13. Standing(N)
  <2> DEFINE T == {j \in Nat : d + j <= N => Standing(d + j)}
  <2> HIDE DEF Standing, d
  <2>1. 0 \in T
    BY <1>3, <1>11
  <2>2. ASSUME NEW j \in Nat, j \in T PROVE j + 1 \in T
    <3>1. d \in Nat /\ d + (j + 1) = (d + j) + 1 /\ d + j \in Nat /\ d <= d + j
      BY <1>3
    <3> SUFFICES ASSUME d + (j + 1) <= N PROVE Standing(d + (j + 1))
      OBVIOUS
    <3>2. Standing(d + j)
      BY <1>1, <2>2, <3>1 DEF N
    <3> QED
      BY <1>12, <3>1, <3>2
  <2>3. \A j \in Nat : j \in T
    <3> HIDE DEF T
    <3> QED
      BY <2>1, <2>2, Induction
  <2>4. N - d \in Nat /\ d + (N - d) = N /\ N \in Nat
    BY <1>1, <1>3 DEF N
  <2>5. N - d \in T
    BY <2>3, <2>4
  <2> QED
    BY <2>4, <2>5
<1> QED
  BY <1>5, <1>13 DEF RelativeTo, N

LEMMA TranslationIsTheKernels ==
  ASSUME NEW mounts, IsFiniteSet(mounts), \A m \in mounts : m.destination \in Seq(Names),
         NEW path \in Seq(Names)
  PROVE  ContainerToHost(mounts, path) \subseteq KernelFile(mounts, path)
<1> SUFFICES ASSUME NEW file \in ContainerToHost(mounts, path)
             PROVE  file \in KernelFile(mounts, path)
  OBVIOUS
<1>1. PICK m \in Winners(mounts, path) :
        /\ Cardinality(Winners(mounts, path)) = 1 /\ m.type \in HostPathMountTypes
        /\ \E source \in m.source : file = source \o RelativeTo(path, m.destination)
  BY DEF ContainerToHost
<1>2. Winners(mounts, path) = {m}
  <2>1. IsFiniteSet(Winners(mounts, path))
    BY FS_Subset DEF Winners, Over
  <2>2. \E x : Winners(mounts, path) = {x}
    BY <1>1, <2>1, FS_Singleton
  <2> QED
    BY <1>1, <2>2
<1>3. /\ Walk(mounts, path).mount = m
      /\ Walk(mounts, path).rest = RelativeTo(path, m.destination)
  BY <1>2, KernelStandsOnWinner
<1> QED
  BY <1>1, <1>3 DEF KernelFile

LEMMA ConsistentIsTranslated == IInv => HostPathIsTheContainers
<1> SUFFICES ASSUME IInv,
                    NEW p \in Paths, NEW i \in answer.candidates
             PROVE  ContainerToHost(ResolverFor, p) \subseteq KernelFile(MountsOf[i.id], p)
  BY DEF HostPathIsTheContainers
<1>1. answer = Verdict(infos)
  BY DEF IInv, TypeOK, Stages, QueryInv, NoAnswer
<1>2. CASE answer.outcome = "mapped"
  <2>1. /\ answer.candidates = Kept(Candidates(infos))
        /\ Cardinality(answer.candidates) = 1
    BY <1>1, <1>2 DEF Verdict
  <2>2. Kept(Candidates(infos)) \subseteq infos
    BY DEF Kept, Candidates
  <2>3. IsFiniteSet(infos)
    BY InfosFinite
  <2>4. answer.candidates = {i}
    <3>1. IsFiniteSet(answer.candidates)
      BY <2>1, <2>2, <2>3, FS_Subset
    <3>2. \E x : answer.candidates = {x}
      BY <2>1, <3>1, FS_Singleton
    <3> QED
      BY <3>2
  <2>5. SnapshotInv(i) /\ i.id \in Containers
    BY <2>1, <2>2 DEF IInv, SnapshotInv, TypeOK
  <2>6. ResolverFor = MountsOf[i.id]
    BY <1>2, <2>4, <2>5 DEF ResolverFor, SnapshotInv
  <2>7. /\ IsFiniteSet(MountsOf[i.id]) /\ p \in Seq(Names)
        /\ \A m \in MountsOf[i.id] : m.destination \in Seq(Names)
    BY <2>5, PathsOk DEF ContainerMount
  <2> QED
    BY <2>6, <2>7, TranslationIsTheKernels
<1>3. CASE answer.outcome # "mapped"
  <2>1. ResolverFor = {}
    BY <1>3 DEF ResolverFor
  <2>2. ContainerToHost({}, p) = {}
    BY DEF ContainerToHost, Winners, Over
  <2> QED
    BY <2>1, <2>2
<1> QED
  BY <1>2, <1>3

(* A host path that the resolver of a mapped answer gives is the file the  *)
(* container's kernel reaches (mounts.py:120 container_to_host), for every *)
(* set of mounts, mounts over mounts and mounts on the same destination    *)
(* included: where exactly one mount is the deepest, the kernel stands on  *)
(* it, and where it is not the resolver says nothing.                      *)
THEOREM TranslationIsTrue == Spec => []HostPathIsTheContainers
BY AlwaysConsistent, ConsistentIsTranslated, PTL
=============================================================================
