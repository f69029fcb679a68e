--------------------------- MODULE ContainerMapper ---------------------------
(* container/mapper.py, query.py, cgroup.py, model.py: from a task label to  *)
(* the one container that carries it.                                        *)
(*                                                                           *)
(* The mapper lists the containers once and inspects them one by one, each a *)
(* docker command of its own (and, when a cgroup reader is injected, a read  *)
(* of /proc that comes after the command), while containers are created,     *)
(* started, exit and are removed and the host gives their PIDs to others.    *)
(* Its answer is built from snapshots of different moments; the properties   *)
(* say what it is still worth.                                               *)
(*                                                                           *)
(* 0 stands for what docker reports as 0, "" or its zero time and            *)
(* parse_inspect turns into None: no PID, no cgroup, not created, not over.  *)
EXTENDS Naturals, FiniteSets, Sequences, FiniteSetsExt, MountView

CONSTANTS
    Containers,     \* container ids; mapper and inspects go in their order
    Pids,           \* host PIDs
    Windows,        \* the creation windows a caller may give
    MaxCandidates,  \* ContainerTaskMapper.max_candidates
    Undated,        \* containers whose runtime does not report Created
    Names,          \* names of files and directories
    MountsOf,       \* the mounts each container is created with
    Paths,          \* container paths somebody resolves
    HostPaths,      \* host paths somebody resolves
    MaxRuns,        \* how often a container is started, at most
    MaxTime

ASSUME ConstantsOk ==
    /\ Containers \subseteq Nat \ {0} /\ IsFiniteSet(Containers) /\ Containers # {}
    /\ Pids \subseteq Nat \ {0}
    /\ \A w \in Windows : w.after \in Nat /\ w.before \in Nat
    /\ MaxCandidates \in Nat \ {0} /\ MaxTime \in Nat \ {0}
    /\ Undated \subseteq Containers /\ MaxRuns \in Nat

ContainerMount == [type : {"bind", "volume", "tmpfs", "other"},
           source : SUBSET Seq(Names), destination : Seq(Names)]

ASSUME PathsOk ==
    /\ MountsOf \in [Containers -> SUBSET ContainerMount]
    /\ \A c \in Containers : IsFiniteSet(MountsOf[c])
    /\ Paths \subseteq Seq(Names) /\ HostPaths \subseteq Seq(Names)

None == 0

(* The cgroup of a host process that is in no container; a container's own *)
(* cgroup has the number of the container.                                 *)
HostCgroup == Max(Containers) + 1

VARIABLES
    now,      \* the daemon's clock
    box,      \* the containers, as the daemon knows them
    cgroupOf, \* the host's processes: PID |-> cgroup, None when PID is free
    stage,    \* where the query stands
    window,   \* its creation window
    listed,   \* what docker ps returned
    todo,     \* the ids still to inspect
    raw,      \* what docker inspect printed, before the cgroup is read
    infos,    \* the containers inspected so far
    answer    \* the ContainerMapping

world == <<now, box, cgroupOf>>
query == <<stage, window, listed, todo, raw, infos, answer>>
vars == <<now, box, cgroupOf, stage, window, listed, todo, raw, infos, answer>>

Stages == {"idle", "inspect", "cgroup", "done"}
Phases == {"absent", "created", "running", "exited", "removed"}
Nobody == [phase |-> "absent", labelled |-> FALSE, pid |-> None, run |-> 0,
           created |-> None, finished |-> None]
NoAnswer == [outcome |-> "none", candidates |-> {}]

Init ==
    /\ now = 1
    /\ box = [c \in Containers |-> Nobody]
    /\ cgroupOf = [p \in Pids |-> None]
    /\ stage = "idle" /\ window \in Windows
    /\ listed = {} /\ todo = {} /\ raw = {} /\ infos = {} /\ answer = NoAnswer

-----------------------------------------------------------------------------
(* The docker daemon and the host.                                         *)

Tick == now < MaxTime /\ now' = now + 1 /\ UNCHANGED <<box, cgroupOf, query>>

Create(c) ==
    /\ box[c].phase = "absent"
    /\ \E l \in BOOLEAN :
          box' = [box EXCEPT ![c].phase = "created", ![c].labelled = l, ![c].created = now]
    /\ UNCHANGED <<now, cgroupOf, query>>

(* A container that was created or has exited is started, and its main     *)
(* process gets a PID that is free, perhaps one that another container or  *)
(* another process of the host had before, or the container itself.        *)
Start(c) ==
    /\ box[c].phase \in {"created", "exited"} /\ box[c].run < MaxRuns
    /\ \E p \in Pids :
          /\ cgroupOf[p] = None
          /\ box' = [box EXCEPT ![c].phase = "running", ![c].pid = p, ![c].run = @ + 1]
          /\ cgroupOf' = [cgroupOf EXCEPT ![p] = c]
    /\ UNCHANGED <<now, query>>

(* FinishedAt is written when the container exits, and nothing clears it   *)
(* when the container is started again.                                    *)
Exit(c) ==
    /\ box[c].phase = "running"
    /\ box' = [box EXCEPT ![c].phase = "exited", ![c].pid = None,
                          ![c].finished = now]
    /\ cgroupOf' = [cgroupOf EXCEPT ![box[c].pid] = None]
    /\ UNCHANGED <<now, query>>

RemoveContainer(c) ==
    /\ box[c].phase \in {"created", "exited"}
    /\ box' = [box EXCEPT ![c].phase = "removed"]
    /\ UNCHANGED <<now, cgroupOf, query>>

HostSpawn(p) ==
    /\ cgroupOf[p] = None
    /\ cgroupOf' = [cgroupOf EXCEPT ![p] = HostCgroup]
    /\ UNCHANGED <<now, box, query>>

-----------------------------------------------------------------------------
(* The query.  Any docker command may fail: a non-zero exit, a timeout, no *)
(* JSON, another container's JSON.  All of it is a ContainerError, and     *)
(* map_label turns each into the outcome ERROR.                            *)

Present == {c \in Containers : box[c].phase \in {"created", "running", "exited"}}

Error == /\ stage' = "done" /\ todo' = {} /\ raw' = {}
         /\ answer' = [outcome |-> "error", candidates |-> {}]
         /\ UNCHANGED <<window, listed, infos, world>>

(* docker ps -a: everything that has not been removed, running or not.     *)
ListContainers ==
    /\ stage = "idle"
    /\ listed' = Present
    /\ todo' = Present
    /\ stage' = "inspect"
    /\ UNCHANGED <<window, raw, infos, answer, world>>

ListFails == stage = "idle" /\ Error

(* docker inspect of the smallest id not yet inspected.  Which run of the  *)
(* container it saw is not in the code: it is kept for the properties.     *)
Inspect ==
    /\ stage = "inspect" /\ todo # {}
    /\ LET c == Min(todo) IN
       /\ c \in Present
       /\ raw' = {[id |-> c, labelled |-> box[c].labelled, pid |-> box[c].pid,
                   run |-> box[c].run,
                   created |-> IF c \in Undated THEN None ELSE box[c].created,
                   finished |-> box[c].finished, mounts |-> MountsOf[c]]}
    /\ stage' = "cgroup"
    /\ UNCHANGED <<window, listed, todo, infos, answer, world>>

InspectSkips(c) ==   \* broken: a container it cannot inspect is left out
    /\ stage = "inspect" /\ todo # {} /\ c = Min(todo)
    /\ todo' = todo \ {c}
    /\ UNCHANGED <<stage, window, listed, raw, infos, answer, world>>

InspectFails(c) == stage = "inspect" /\ todo # {} /\ c = Min(todo) /\ Error

ReadCgroupCached(pid) ==   \* broken: what was read for a PID is remembered
    LET known == {i \in infos : i.pid = pid /\ i.cgroup # None} IN
    IF pid = None THEN None
    ELSE IF known # {} THEN (CHOOSE i \in known : TRUE).cgroup ELSE cgroupOf[pid]

(* /proc/<pid>/cgroup and the inode of the directory it names.             *)
ReadCgroup(pid) == IF pid = None THEN None ELSE cgroupOf[pid]

(* What parse_inspect keeps of docker's JSON and of the keys added to it.   *)
Info(r, cgroup) ==
    [id |-> r.id, labelled |-> r.labelled, pid |-> r.pid, run |-> r.run,
     cgroup |-> cgroup, created |-> r.created, finished |-> r.finished, mounts |-> r.mounts]

(* inspect() adds the cgroup to docker's JSON; a reader that cannot read    *)
(* answers without one.                                                     *)
EnrichCgroup ==
    /\ stage = "cgroup"
    /\ \E r \in raw : \E cgroup \in {None, ReadCgroup(r.pid)} :
          /\ infos' = infos \union {Info(r, cgroup)}
          /\ todo' = todo \ {r.id}
    /\ raw' = {}
    /\ stage' = "inspect"
    /\ UNCHANGED <<window, listed, answer, world>>

(* _evaluate_window: a container created after the window, or over before  *)
(* it, is out; one whose creation is unknown or earlier stays in, doubted. *)
NoWindow == window.after = None /\ window.before = None
AfterWindow(i) == window.before # None /\ i.created > window.before
BeforeWindow(i) == window.after # None /\ i.created < window.after
OverBeforeWindow(i) ==
    /\ BeforeWindow(i)
    /\ i.finished # None /\ i.finished < window.after

Excluded(i) ==
    /\ ~NoWindow /\ i.created # None
    /\ AfterWindow(i) \/ OverBeforeWindow(i)

Uncertain(i) ==
    ~NoWindow /\ ~Excluded(i) /\ (i.created = None \/ BeforeWindow(i))

(* The candidates in the order of their ids, cut at max_candidates.        *)
Candidates(found) == {i \in found : i.labelled /\ ~Excluded(i)}
Kept(cs) == {i \in cs : Cardinality({j \in cs : j.id < i.id}) < MaxCandidates}

Verdict(found) ==
    LET cs == Candidates(found)
        truncated == Kept(cs) # cs
        one == Cardinality(Kept(cs)) = 1 /\ ~truncated
    IN [candidates |-> Kept(cs),
        outcome |-> CASE cs = {} -> "unmapped"
                      [] one /\ \A i \in cs : ~Uncertain(i) -> "mapped"
                      [] OTHER -> "ambiguous"]

Decide ==
    /\ stage = "inspect" /\ todo = {}
    /\ answer' = Verdict(infos)
    /\ stage' = "done"
    /\ UNCHANGED <<window, listed, todo, raw, infos, world>>

(* MountResolver of a mapped answer: nothing for any other outcome.        *)
ResolverFor == UNION {i.mounts : i \in
                   {j \in answer.candidates : answer.outcome = "mapped"}}

World ==
    \/ Tick
    \/ \E c \in Containers : Create(c) \/ Start(c) \/ Exit(c) \/ RemoveContainer(c)
    \/ \E p \in Pids : HostSpawn(p)

Next ==
    \/ stage # "done" /\ World
    \/ ListContainers \/ ListFails
    \/ Inspect \/ EnrichCgroup \/ Decide
    \/ \E c \in Containers : InspectFails(c)

Spec == Init /\ [][Next]_vars

-----------------------------------------------------------------------------
TypeOK ==
    /\ now \in 1..MaxTime
    /\ box \in [Containers -> [phase : Phases, labelled : BOOLEAN,
                               pid : Pids \union {None}, run : 0..MaxRuns,
                               created : 0..MaxTime, finished : 0..MaxTime]]
    /\ cgroupOf \in [Pids -> 0..HostCgroup]
    /\ stage \in Stages /\ window \in Windows
    /\ listed \subseteq Containers /\ todo \subseteq listed
    /\ Cardinality(raw) <= 1
    /\ {i.id : i \in infos} \subseteq listed \ todo

(* The containers of the task that were there when the query listed them   *)
(* and whose life, as it really was, touches the window.                   *)
Lived(c) ==
    /\ box[c].labelled
    /\ ~(window.before # None /\ box[c].created > window.before)
    /\ ~(/\ window.after # None /\ box[c].phase \in {"exited", "removed"}
         /\ box[c].finished # None /\ box[c].finished < window.after)

(* Whose first run may have ended before the window and a later one not:   *)
(* the mapper sees an end before the window and leaves the container out   *)
(* (mapper.py:507).                                                        *)
StartedAgain(c) ==
    /\ box[c].run > 1 /\ box[c].finished # None
    /\ window.after # None /\ box[c].created < window.after

(* A mapped label has exactly one container, an unmapped one has none: of  *)
(* the containers there when the query listed them, whatever was removed,  *)
(* exited, started again or could not be inspected before the query was    *)
(* over.  Only a container from before the window that was started again   *)
(* may be missing; the one of the answer is right all the same.  And the   *)
(* types hold (mapper.py:246 map_label).                                   *)
VerdictTrueAtListing ==
    LET lived == {c \in listed : Lived(c)}
        found == {i.id : i \in answer.candidates}
    IN
    /\ TypeOK
    /\ answer.outcome = "mapped" =>
          /\ Cardinality(found) = 1 /\ found \subseteq lived
          /\ \A c \in lived \ found : StartedAgain(c)
    /\ answer.outcome = "unmapped" => \A c \in lived : StartedAgain(c)

(* A container of the answer that is still in the run it was inspected in  *)
(* is not given the cgroup of another, though PIDs are handed on between   *)
(* the inspects and the reads of the cgroups.                              *)
CgroupOfLiving ==
    \A i \in infos :
        (i.pid # None /\ box[i.id].phase = "running" /\ box[i.id].run = i.run)
            => i.cgroup \in {None, i.id}

(* A host path the resolver of a mapped answer returns is the file the     *)
(* container's kernel reaches by that path, mounts over mounts included.   *)
HostPathIsTheContainers ==
    \A p \in Paths, c \in {i.id : i \in answer.candidates} :
        ContainerToHost(ResolverFor, p) \subseteq KernelFile(MountsOf[c], p)

(* Every host file the resolver maps into the container is reached there.  *)
(* A mount over part of another hides it, and the code does not look.      *)
ContainerPathReachesFile ==
    \A h \in HostPaths : \A p \in HostToContainer(ResolverFor, h) :
        h \in KernelFile(ResolverFor, p)

(* A container that runs is never excluded as over before the window.      *)
RunningNeverExcluded ==
    answer.outcome # "none" =>
        \A i \in infos : (i.pid # None /\ box[i.id].created # None)
                            => ~OverBeforeWindow(i)
=============================================================================
