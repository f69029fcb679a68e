--------------------------- MODULE TaskAttribution ---------------------------
(***************************************************************************)
(* Which processes and effects belong to a task: the process part of       *)
(* correlate/graph.py, over recordings of a machine on which processes     *)
(* fork and exit, PIDs are used again, events are lost, and start times    *)
(* are sometimes not captured.                                             *)
(*                                                                         *)
(* The machine is what really happened: `life` holds one process for each  *)
(* fork, numbered in the order of birth, with the clock tick of its start, *)
(* which several processes may share.  A start time the code compares      *)
(* together with a PID is the process number here, which says the same, as *)
(* a PID is not handed on within one tick; where the code compares start   *)
(* times alone, ticks are compared.  The recorder appends what it captured *)
(* to `log`.  The engine is a pure function of the log, so every reachable *)
(* state is also one input of the engine, and what it answers is defined   *)
(* by operators on the log.  Each event carries in `who` and `kid` which   *)
(* processes it was really about; the engine never reads them, the         *)
(* properties do.                                                          *)
(***************************************************************************)
EXTENDS Evidence, SequencesExt, Functions

CONSTANTS Pids,       \* process numbers, small positive integers
          MaxProcs,   \* processes that are ever started
          MaxEvents,  \* events that are captured
          MaxShared,  \* processes that start in the tick of the one before
          MaxCandidates,
          Setups

ASSUME TaskAssumption == /\ Pids \subseteq Nat \ {0} /\ Pids # {}
                         /\ {MaxProcs, MaxEvents, MaxShared} \subseteq Nat
                         /\ MaxCandidates \in Nat \ {0}
                         /\ Setups \subseteq [lineage : BOOLEAN,
                                             cgroups : BOOLEAN,
                                             container : BOOLEAN,
                                             ascending : BOOLEAN,
                                             shared : BOOLEAN]

VARIABLES life,   \* processes: [pid, parent, tick, alive], by number
          root,   \* the task's root process, 0 before the task starts
          began,  \* how much of the log is older than the task
          log,    \* captured events, in the order of their monotonic_ns
          setup   \* [lineage, cgroups, container, ascending, shared]:
                  \* CorrelationConfig, whether cgroups are recorded, whether
                  \* the task is a container's, how node ids happen to sort,
                  \* and whether the clock is coarse enough to be shared

vars == <<life, root, began, log, setup>>

None == 0         \* process_start_id or child_start_id was not captured

-----------------------------------------------------------------------------
(* The machine and its recorder.                                           *)

\* What descends from r, and r itself.
DescendsFrom(r) ==
  LET m[p \in DOMAIN life] ==
        \/ p = r
        \/ life[p].parent # 0 /\ m[life[p].parent]
  IN  m

\* The processes of the task; there are none before it starts.
Member == DescendsFrom(root)

SameTick(p, q) == life[p].tick = life[q].tick

Alive == {p \in DOMAIN life : life[p].alive}
FreePids == Pids \ {life[p].pid : p \in Alive}

\* The numbers a new process can get: one that was freed, or the smallest
\* that was never used.
NextPids ==
  LET unused == Pids \ {q.pid : q \in Range(life)}
  IN  {pid \in FreePids : \A u \in unused : pid <= u}

\* An event as Event has it: who reports it and with which start time, and
\* for process.fork the two process numbers of the payload.
Fork(reporter, start, ppid, cpid, cstart, who, kid) ==
  [type |-> "process.fork", pid |-> reporter, start |-> start,
   ppid |-> ppid, cpid |-> cpid, cstart |-> cstart, who |-> who, kid |-> kid]
Plain(type, pid, start, who) ==
  [type |-> type, pid |-> pid, start |-> start,
   ppid |-> 0, cpid |-> 0, cstart |-> None, who |-> who, kid |-> 0]

\* What a recorder makes of the fork of kid (with number cpid) by p: nothing,
\* an event in the parent's name, or one in the child's, with either start
\* time missing.
ForkRecords(p, kid, cpid) ==
  LET ppid == life[p].pid
  IN  {<<>>}
      \cup {<<Fork(ppid, s, ppid, cpid, c, p, kid)>> :
              s \in {p, None}, c \in {kid, None}}
      \cup {<<Fork(cpid, kid, ppid, cpid, kid, kid, kid)>>}

Record(records) ==
  \E r \in records :
    /\ Len(log \o r) <= MaxEvents
    /\ log' = log \o r

\* The clock may stand still between two births.  After the task has started
\* only the root's tick is shared: nothing looks at any other.
Shared == {p \in 2 .. Len(life) : SameTick(p, p - 1)}
MayShare == /\ setup.shared /\ Cardinality(Shared) < MaxShared
            /\ root = 0 \/ SameTick(Len(life), root)
NextTicks ==
  {Last(life).tick + 1} \cup (IF MayShare THEN {Last(life).tick} ELSE {})

Born(p, pid, records(_, _, _)) ==
  /\ p \in Alive
  /\ Len(life) < MaxProcs
  /\ pid \in NextPids
  /\ \E tick \in NextTicks :
       /\ \A q \in Range(life) : q.pid = pid => q.tick < tick
       /\ life' = Append(life, [pid |-> pid, parent |-> p, tick |-> tick, alive |-> TRUE])
  /\ Record(records(p, Len(life) + 1, pid))

\* A process of the machine forks.
ForkProcess(p, pid) ==
  /\ Born(p, pid, ForkRecords)
  /\ UNCHANGED <<root, began, setup>>

\* A process that is not of the task starts the task's root process; the
\* task is declared with that process's start time.
StartTask(p, pid) ==
  /\ root = 0
  /\ root' = Len(life) + 1
  /\ began' = Len(log)
  /\ Born(p, pid, ForkRecords)
  /\ UNCHANGED setup

\* A process writes a file, and the event is captured.
WriteFile(p) ==
  /\ p \in Alive
  /\ Record({<<Plain("file.write", life[p].pid, s, p)>> : s \in {p, None}})
  /\ UNCHANGED <<life, root, began, setup>>

\* A process ends; its number is free again.  The event of it tells the
\* engine what that of a write does.
Exit(p) ==
  /\ p \in Alive
  /\ life' = [life EXCEPT ![p].alive = FALSE]
  /\ UNCHANGED <<root, began, log, setup>>

Init ==
  /\ life = <<[pid |-> Min(Pids), parent |-> 0, tick |-> 1, alive |-> TRUE]>>
  /\ root = 0
  /\ began = 0
  /\ log = <<>>
  /\ setup \in Setups

\* A recording is what led to its events: the machine stops with the last.
Next ==
  /\ Len(log) < MaxEvents
  /\ \E p \in DOMAIN life :
       \/ \E pid \in Pids : ForkProcess(p, pid) \/ StartTask(p, pid)
       \/ WriteFile(p)
       \/ Exit(p)

Spec == Init /\ [][Next]_vars

-----------------------------------------------------------------------------
(* The engine, on a recording `evs`.  A process node is a process number    *)
(* with a start time.                                                      *)

Node(pid, start) == [pid |-> pid, start |-> start]
Self(e) == Node(e.pid, e.start)
\* _candidate_limit
Kept == Max({1, MaxCandidates - 1})

Task == Node(0, None)   \* the task's node; no process has number 0
Container == Node(0, 1) \* the node of the task's container

\* Node ids are hashes: any fixed order of the nodes.
NodeRank(n) ==
  LET byPid == n.pid * (MaxProcs + 1)
  IN  IF setup.ascending THEN byPid + n.start
      ELSE byPid + MaxProcs - n.start

\* _aggregate_processes: one node for each process number and start time
\* that events name.
Aggregated(evs) == {Self(e) : e \in Range(evs)}

\* _lookup_process, among the nodes there are: the node that a process
\* number stands for and the other nodes it might stand for.  Without a
\* start time every node of that number is one.
Lookup(nodes, pid, start) ==
  LET siblings == {n \in nodes : n.pid = pid}
      first == CHOOSE n \in siblings :
                 \A m \in siblings : NodeRank(n) <= NodeRank(m)
  IN  IF start # None \/ siblings = {}
      THEN [main |-> Node(pid, start), others |-> {}]
      ELSE [main |-> first, others |-> siblings \ {first}]

\* The start time that a fork event gives its parent process.  An event that
\* another process reports says nothing of it.
ParentStart(e) == IF e.ppid = e.pid THEN e.start ELSE None

ForkConfidenceOfChild(e) ==   \* broken: the parent's start time is taken for granted
  IF e.cstart = None THEN PROBABLE ELSE CERTAIN

ForkConfidence(e) ==
  IF e.cstart = None \/ ParentStart(e) = None \/ e.ppid # e.pid
  THEN PROBABLE ELSE CERTAIN

\* What one fork event adds to the edges: one from the child to the parent;
\* where one of them may be several nodes, an ambiguous one from every
\* possible child for which another candidate is left.
ForkClaims(e, parent, child) ==
  LET all == parent.others \cup child.others
      others(c) == all \ {c, parent.main}
  IN  IF all = {}
      THEN {Claim(child.main, parent.main, "lineage", ForkConfidence(e), {})}
      ELSE {Claim(c, parent.main, "lineage", AMBIGUOUS, others(c)) :
              c \in {d \in {child.main} \cup child.others : others(d) # {}}}

\* _build_lineage_edges: the fork events in order; a look-up creates the
\* node it does not find, and later look-ups see it.  `from` remembers the
\* event that created a node.
Lineage(evs) ==
  LET built[i \in 0 .. Len(evs)] ==
        IF i = 0 \/ ~setup.lineage
        THEN [nodes |-> Aggregated(evs), claims |-> {},
              from |-> [n \in Aggregated(evs) |->
                          Min({j \in DOMAIN evs : Self(evs[j]) = n})]]
        ELSE LET before == built[i - 1]
                 e      == evs[i]
                 parent == Lookup(before.nodes, e.ppid, ParentStart(e))
                 seen   == before.nodes \cup {parent.main}
                 child  == Lookup(seen, e.cpid, e.cstart)
                 nodes  == seen \cup {child.main}
             IN  IF e.type # "process.fork" THEN before
                 ELSE [nodes |-> nodes,
                       claims |-> before.claims \cup
                                    ForkClaims(e, parent, child),
                       from |-> [n \in nodes |->
                                   IF n \in before.nodes
                                   THEN before.from[n] ELSE i]]
  IN  built[Len(evs)]

\* The cgroup of a node: that of its events when they agree.  A process has
\* the cgroup of its parent, so the processes of the task share the task's.
CgroupMatches(evs, n) ==
  LET of == {Member[e.who] : e \in {x \in Range(evs) : Self(x) = n}}
  IN  setup.cgroups /\ of = {TRUE}

\* start_id in task.process_start_ids: the PID is not looked at.
StartedLikeRoot(n) == n.start # None /\ SameTick(n.start, root)

RootPath(g, n) ==
  Best(EdgesOf(g.claims, Kept, NodeRank), n,
       {m \in g.nodes : StartedLikeRoot(m)} \ {n})

\* _build_process_owner_edges for one node, in the order of its cases.
OwnerClaimOfDescendants(evs, g, n) ==   \* broken: the root has no path to itself
  LET up == RootPath(g, n)
  IN  IF setup.lineage /\ up.found
      THEN Claim(n, Task, "lineage", up.conf, {})
      ELSE Claim(n, Task, "run_id", IF g.from[n] <= began THEN UNKNOWN
                                    ELSE PROBABLE, {})

OwnerClaim(evs, g, n) ==
  LET up == RootPath(g, n)
      isRoot == StartedLikeRoot(n)
      owned(basis, conf) == Claim(n, Task, basis, conf, {})
  IN  CASE setup.lineage /\ isRoot   -> owned("lineage", CERTAIN)
        [] setup.lineage /\ ~isRoot /\ up.found -> owned("lineage", up.conf)
        [] OTHER ->
             owned("run_id", IF CgroupMatches(evs, n) THEN CERTAIN
                             ELSE IF g.from[n] <= began THEN UNKNOWN
                             ELSE PROBABLE)

\* _resolve_containers: the task's labels name a container, and the resolver
\* knows the process number and the cgroup of its main process, the root.
Resolved == setup.container /\ root # 0
HostPid == life[root].pid

\* _build_process_container_edges for one node: the number counts for less
\* when several nodes have it.
ContainerClaims(evs, g, n) ==
  LET siblings == {m \in g.nodes : m.pid = HostPid}
      conf == IF n \in siblings /\ Cardinality(siblings) > 1
              THEN PROBABLE ELSE CERTAIN
  IN  IF n \in siblings \/ CgroupMatches(evs, n)
      THEN {Claim(n, Container, "container", conf, {})} ELSE {}

\* The container's process was not captured, and its number is that of
\* another one: the engine takes that one for it.
Misread(nodes) ==
  /\ Resolved
  /\ \E n \in nodes : /\ n.start \notin {root, None}
                      /\ {m \in nodes : m.pid = HostPid} = {n}

\* All claims the builder makes about processes, and _build_container_nodes.
ProcessClaims(evs, g) ==
  g.claims
    \cup (IF root = 0 THEN {} ELSE {OwnerClaim(evs, g, n) : n \in g.nodes})
    \cup (IF ~Resolved THEN {}
          ELSE {Claim(Container, Task, "container", CERTAIN, {})}
                 \cup UNION {ContainerClaims(evs, g, n) : n \in g.nodes})

\* _collect_ambiguities: each ambiguous edge with all its candidates.  (With
\* one task no node has two owners.)
Ambiguities(edges) ==
  {[of |-> e.src, candidates |-> {e.dst} \cup e.others] :
     e \in {x \in edges : x.conf = AMBIGUOUS}}

\* _build_effect_process_edges: a node's files lead to the node.
EffectConfidence(n) == IF n.start = None THEN PROBABLE ELSE CERTAIN

\* The engine answers unless a claim is unacceptable: how sure it is that
\* each process belongs to the task, and that the files it wrote do.
Analysis(evs) ==
  LET g      == Lineage(evs)
      claims == ProcessClaims(evs, g)
      edges  == EdgesOf(claims, Kept, NodeRank)
      conf   == [n \in g.nodes |-> Attribution(edges, n, {Task}).conf]
      writer == {Self(e) : e \in {x \in Range(evs) : x.type = "file.write"}}
  IN  [answers   |-> \A c \in claims : Acceptable(c),
       doubts    |-> Ambiguities(edges),
       misread   |-> Misread(g.nodes),
       processes |-> conf,
       files     |-> [n \in writer |->
                        Compose(EffectConfidence(n), conf[n])]]

-----------------------------------------------------------------------------
(* Properties.                                                             *)

\* A node with a start time is one process.
TypeOK ==
  /\ life \in Seq([pid : Pids, parent : 0 .. MaxProcs, tick : Nat, alive : BOOLEAN])
  /\ root \in 0 .. Len(life) /\ began \in 0 .. Len(log)
  /\ \A n \in Lineage(log).nodes :
       /\ n.pid \in Pids /\ n.start \in 0 .. Len(life)
       /\ n.start # None => life[n.start].pid = n.pid

\* An answer that is only ambiguous has a listed ambiguity behind it, with at
\* least two candidates.
DoubtIsListed(a) ==
  /\ (\E n \in DOMAIN a.processes : a.processes[n] = AMBIGUOUS) => a.doubts # {}
  /\ \A d \in a.doubts : Cardinality(d.candidates) > 1

\* p descends from a process that happened to start in the root's tick.
TickTwin(p) ==
  \E r \in DOMAIN life \ {root} : SameTick(r, root) /\ DescendsFrom(r)[p]

\* CERTAIN is wrong in two cases only: a process that is known by its start
\* time and is certainly of the task descends from the task's root, and so
\* does every process behind a file that is certainly the task's -- whatever
\* was lost, whichever start times are missing and however often a number was
\* used again (graph.py:721 _lookup_process, :888 _build_process_owner_edges).
\* The first exception is what descends from a process that started in the
\* same clock tick as the root, since the root is known by its start time
\* without its PID (:869, :901).
\* A container is the second: its process is known by its number alone, and
\* when only another process of that number was captured the engine takes that
\* one for it (:2037).  And a node with a start time is one process, of the
\* node's PID, and no doubt is hidden (engine.py:238 _collect_ambiguities).
CertainIsTrue ==
  LET a == Analysis(log)
  IN  /\ TypeOK
      /\ a.answers => DoubtIsListed(a)
      /\ a.answers /\ ~a.misread =>
           /\ \A n \in DOMAIN a.processes :
                n.start # None /\ a.processes[n] = CERTAIN =>
                  Member[n.start] \/ TickTwin(n.start)
           /\ \A e \in Range(log) :
                e.type = "file.write" /\ a.files[Self(e)] = CERTAIN =>
                  Member[e.who] \/ TickTwin(e.who)

\* The forks from the task's root down to p were all captured, in the
\* parent's name and with both start times.
TracedFromRoot ==
  LET traced[p \in DOMAIN life] ==
        \/ p = root
        \/ /\ life[p].parent # 0
           /\ traced[life[p].parent]
           /\ \E e \in Range(log) :
                /\ e.type = "process.fork" /\ e.kid = p
                /\ e.who = life[p].parent
                /\ e.start = e.who /\ e.cstart = p
  IN  {p \in DOMAIN life : traced[p]}

\* Nothing that was captured is wasted: with the whole chain of forks in the
\* log, a process belongs to its task for certain, whatever else the log
\* holds about its number or its relatives (graph.py:851 _root_path).
TracedIsCertain ==
  (setup.lineage /\ root # 0) =>
    LET a == Analysis(log)
    IN  a.answers =>
          \A n \in DOMAIN a.processes :
            n.start \in TracedFromRoot => a.processes[n] = CERTAIN

\* One more event takes nothing back where lineage decides: what was certain
\* stays certain when a number is used again later or a fork is captured with
\* less (graph.py:378, the merging of claims).  Where cgroups are recorded it
\* does not hold: a weak chain of forks that shows up later comes before the
\* cgroup in the order of the rules, and replaces a certain owner.  Nor with
\* lineage switched off, where an event of a container's process without a
\* start time makes its number count twice; nor where that process was taken
\* for another one before.
CertaintyIsStable ==
  (setup.lineage /\ root # 0 /\ ~setup.cgroups /\ began < Len(log)) =>
    LET less == Analysis(SubSeq(log, 1, Len(log) - 1))
        a    == Analysis(log)
    IN  (less.answers /\ a.answers /\ ~less.misread) =>
          \A n \in DOMAIN less.processes :
            n.start # None /\ less.processes[n] = CERTAIN =>
              a.processes[n] = CERTAIN

\* docs/03-correlation.md:103-106: identity is PID and start time.  Violated:
\* what is certain descends from the root even when ticks are shared.
CertainIsMember ==
  LET a == Analysis(log)
  IN  a.answers /\ ~a.misread =>
        \A n \in DOMAIN a.processes :
          n.start # None /\ a.processes[n] = CERTAIN => Member[n.start]

\* docs/03-correlation.md:127: when a number was used again and a start time
\* is missing, the processes it may mean stay candidates and the link is
\* AMBIGUOUS.  Said of the engine: every recording gets an answer.
EveryRecordingAnswered == Analysis(log).answers

=============================================================================
