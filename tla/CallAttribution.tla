-------------------------- MODULE CallAttribution --------------------------
(***************************************************************************)
(* Which LLM call or tool run a file effect belongs to: the call part of   *)
(* correlate/graph.py, in the external mode (time windows around the       *)
(* traffic of a call) and in the assisted mode (markers that the           *)
(* application declares and the system's events confirm or contradict).    *)
(*                                                                         *)
(* The application is what really happened: processes send calls, read the *)
(* answers, run the tools that the answers ask for -- several at a time -- *)
(* and write files.  Its traffic and writes are captured or lost; its      *)
(* tools are declared with some of the fields a marker can have, wrongly,  *)
(* or not at all.  The clock is coarse: any number of things happen        *)
(* between two ticks, and the wall clock may be set between them.  The     *)
(* engine is a pure function of what was captured and declared, and is     *)
(* defined by operators.                                                   *)
(***************************************************************************)
EXTENDS Evidence, Sequences, Functions

CONSTANTS Procs,      \* processes, known by their start time
          PidOf,      \* [Procs -> number]; a number may be used again
          Calls,      \* physical requests
          ProcOf,     \* [Calls -> Procs]
          ConnOf,     \* [Calls -> connections]; a connection may be shared
          LogicalOf,  \* [Calls -> ids]: retries share one, which may be the
                      \* id of the first of them
          ToolOf,     \* [Calls -> ids of the tools their answers ask for]
          Paths,
          Shapes,     \* [call, conn, pid, start, clock, tool, right]: what a
                      \* declaration says, see Declare
          Offsets,    \* what the wall clock may be ahead of the other
          MaxTime, MaxCalls, MaxWrites,
          Window,     \* time_window_ns
          MaxCandidates

ASSUME CallAssumption ==
  /\ Calls \subseteq Nat \ {0} /\ Procs \subseteq Nat \ {0}
  /\ PidOf \in [Procs -> Nat \ {0}]
  /\ ProcOf \in [Calls -> Procs]
  /\ ConnOf \in [Calls -> Nat \ {0}]
  /\ LogicalOf \in [Calls -> Nat \ {0}]
  /\ ToolOf \in [Calls -> Nat \ {0}]
  /\ \A c, d \in Calls : /\ ToolOf[c] = ToolOf[d] => c = d
                         /\ ToolOf[c] \notin {d, LogicalOf[d]}
  /\ Shapes \subseteq [call : {"physical", "logical", "none"}, conn : BOOLEAN,
                       pid : BOOLEAN, start : BOOLEAN,
                       clock : {"monotonic", "wall", "none"},
                       tool : BOOLEAN, right : BOOLEAN]
  /\ Offsets \subseteq Nat
  /\ {MaxTime, MaxCalls, MaxWrites, Window} \subseteq Nat
  /\ MaxCandidates \in Nat \ {0, 1}

VARIABLES now,
          offset,    \* the wall clock, less now
          sent,      \* the calls whose request was written
          answered,  \* the calls whose answer was read
          started,   \* the calls whose tool was started; it runs once
          traffic,   \* captured tls.bytes: [conn, proc, at, wall]
          writes,    \* captured file events: [path, proc, at, wall, cause, corr]
          decls      \* declarations

vars == <<now, offset, sent, answered, started, traffic, writes, decls>>

None == 0   \* no call; a field that is not declared

-----------------------------------------------------------------------------
(* The application and its recorder.                                       *)

\* Process p does something, of which a call is always the first.  A number
\* is used again only after the process that had it has ended.
Act(p) ==
  /\ \A c \in sent : PidOf[ProcOf[c]] = PidOf[p] => ProcOf[c] <= p
  /\ UNCHANGED <<now, offset>>

\* Traffic of call c, captured or lost.
Traffic(c) ==
  traffic' \in {traffic, traffic \cup {[conn |-> ConnOf[c], proc |-> ProcOf[c],
                                       at |-> now, wall |-> now + offset]}}

SendRequest(c) ==
  /\ Act(ProcOf[c])
  /\ c \notin sent /\ Cardinality(sent) < MaxCalls
  /\ sent' = sent \cup {c}
  /\ Traffic(c)
  /\ UNCHANGED <<answered, started, writes, decls>>

ReadAnswer(c) ==
  /\ Act(ProcOf[c])
  /\ c \in sent \ answered
  /\ answered' = answered \cup {c}
  /\ Traffic(c)
  /\ UNCHANGED <<sent, started, writes, decls>>

\* The declaration that the application makes of the tool of call c, when it
\* says of call d.
Declare(c, d, shape) ==
  LET said(field, value) == IF field THEN value ELSE None
  IN  [call  |-> said(shape.call # "none",
                      IF shape.call = "logical" THEN LogicalOf[d] ELSE d),
       conn  |-> said(shape.conn, ConnOf[d]),
       pid   |-> said(shape.pid, PidOf[ProcOf[c]]),
       start |-> said(shape.start, ProcOf[c]),
       clock |-> shape.clock, at |-> now, wall |-> now + offset,
       tool  |-> said(shape.tool, ToolOf[c]), cause |-> c]

\* The tool that the answer to c asks for starts, whatever else runs in the
\* process.  It is declared in one of the shapes -- as the tool of another
\* call, when the shape is a wrong one -- or not at all.
StartTool(c) ==
  /\ Act(ProcOf[c])
  /\ c \in answered \ started
  /\ started' = started \cup {c}
  /\ \/ UNCHANGED decls
     \/ \E shape \in Shapes, d \in Calls :
          /\ shape.right = (d = c)
          /\ decls' = decls \cup {Declare(c, d, shape)}
  /\ UNCHANGED <<sent, answered, traffic, writes>>

\* The ids by which a call is known.
Names(c) == {c, LogicalOf[c]}

\* The tool of c writes a file; the event may carry the tool's id or the
\* call's.  A write that is not captured leaves nothing.
WriteFile(c, path) ==
  /\ Act(ProcOf[c])
  /\ c \in started /\ Cardinality(writes) < MaxWrites
  /\ \E corr \in {None, ToolOf[c]} \cup Names(c) :
       writes' = writes \cup {[path |-> path, proc |-> ProcOf[c], at |-> now,
                              wall |-> now + offset, cause |-> c, corr |-> corr]}
  /\ UNCHANGED <<sent, answered, started, traffic, decls>>

\* Time passes, and the wall clock may be set.
Tick ==
  /\ now < MaxTime /\ now' = now + 1
  /\ offset' \in Offsets
  /\ sent # {}
  /\ UNCHANGED <<sent, answered, started, traffic, writes, decls>>

Init ==
  /\ now = 1 /\ offset \in Offsets
  /\ sent = {} /\ answered = {} /\ started = {}
  /\ traffic = {} /\ writes = {} /\ decls = {}

Next ==
  \/ \E c \in Calls : SendRequest(c) \/ ReadAnswer(c) \/ StartTool(c)
  \/ \E c \in Calls, path \in Paths : WriteFile(c, path)
  \/ Tick

Spec == Init /\ [][Next]_vars

-----------------------------------------------------------------------------
(* The engine: nodes.                                                      *)

Nodes == {e.proc : e \in traffic \cup writes}

\* Nodes of the other kinds; a file effect is all events of one path in one
\* process, and a tool is known by all that its declaration says.
CallNode(c)   == [kind |-> "call", id |-> c]
ToolNode(d)   == [kind |-> "tool", id |-> d]
TaskNode      == [kind |-> "task", id |-> 0]
ProcessNode(p) == [kind |-> "process", id |-> p]
Effects       == {[path |-> w.path, proc |-> w.proc] : w \in writes}

EventsOf(e)    == {w \in writes : w.path = e.path /\ w.proc = e.proc}
TimeOf(e)      == Min({w.at : w \in EventsOf(e)})
FirstWrites(e) == {w \in EventsOf(e) : w.at = TimeOf(e)}

\* _build_calls: a call's traffic is that of its connection, and its span
\* reaches from the first to the last of it.
TlsOf(conn) == {t \in traffic : t.conn = conn}

SpanOfFirst(times) == <<Min(times), Min(times)>>   \* broken: the answer is missed

Span(times) == <<Min(times), Max(times)>>

Near(at, times) ==
  LET s == Span(times)
  IN  times # {} /\ s[1] <= at + Window /\ at <= s[2] + Window

\* _build_call_connection_edges
CallProcesses(c) == {t.proc : t \in TlsOf(ConnOf[c])}

\* _external_call_candidates
ExternalCalls(e) ==
  {c \in sent : /\ e.proc \in CallProcesses(c)
                /\ Near(TimeOf(e), {t.at : t \in TlsOf(ConnOf[c])})}

-----------------------------------------------------------------------------
(* The engine: what a declaration is worth (_verify_declaration).          *)

CallsNamed(d) == {c \in sent : d.call # None /\ d.call \in Names(c)}
CallsOnConn(d) == {c \in sent : d.conn # None /\ ConnOf[c] = d.conn}

CallTargets(d) ==
  IF d.call = None THEN CallsOnConn(d)
  ELSE IF CallsNamed(d) \cap CallsOnConn(d) # {}
       THEN CallsNamed(d) \cap CallsOnConn(d)
       ELSE CallsNamed(d)

PidCandidates(d)   == {p \in Nodes : d.pid # None /\ PidOf[p] = d.pid}
ExactCandidates(d) == {p \in Nodes : /\ d.start = p
                                     /\ d.pid \in {None, PidOf[p]}}
ProcessTargets(d) == PidCandidates(d) \cup ExactCandidates(d)

\* The times at which the run was seen; those of a process are among them.
\* _boot_offsets: how far the wall clock was ahead of them.
EventTimes  == {e.at : e \in traffic \cup writes}
BootOffsets == {e.wall - e.at : e \in traffic \cup writes}

\* _declared_time: a wall clock is read back with the least and the greatest
\* of the offsets.  The interval this gives must meet the run, or the time is
\* rejected; then the engine takes its lower end.
Derived(d) == <<d.wall - Max(BootOffsets), d.wall - Min(BootOffsets)>>
Meets(interval, times) ==
  /\ times # {}
  /\ Span(times)[1] <= interval[2] + Window /\ interval[1] <= Span(times)[2] + Window

Timed(d) ==
  \/ d.clock = "monotonic"
  \/ d.clock = "wall" /\ Meets(Derived(d), EventTimes)
Start(d) == IF d.clock = "monotonic" THEN d.at ELSE Derived(d)[1]

\* It is weak evidence then, and also when there is nothing to read it with.
WallFallback(d) == d.clock = "wall" /\ (Timed(d) \/ EventTimes = {})

VerifiedOr(otherwise, holds) == IF holds THEN "verified" ELSE otherwise

\* The verdict on each field that was declared.
ConnCheck(d) ==
  IF /\ CallsNamed(d) # {} /\ CallsOnConn(d) # {}
     /\ CallsNamed(d) \cap CallsOnConn(d) = {}
  THEN "conflict"
  ELSE VerifiedOr("unverifiable", CallsOnConn(d) # {} \/ TlsOf(d.conn) # {})

Checks(d) ==
  LET call == VerifiedOr("unverifiable", CallsNamed(d) # {})
  IN  {"verified"}   \* the run, which has a task
      \cup (IF d.call = None THEN {} ELSE {call})
      \cup (IF d.conn = None THEN {} ELSE {ConnCheck(d)})
      \cup (IF d.pid = None THEN {}
            ELSE {VerifiedOr("conflict", PidCandidates(d) # {})})
      \cup (IF d.start = None THEN {}
            ELSE {VerifiedOr("conflict", ExactCandidates(d) # {})})
      \cup (IF ~Timed(d) THEN {}
            ELSE {VerifiedOr("unverifiable",
                             d.clock = "monotonic" /\ Near(d.at, EventTimes))})

\* The effects whose events carry the id of the call or the tool declared.
Correlated(d) ==
  {e \in Effects : \E w \in EventsOf(e) :
                     w.corr # None /\ w.corr \in {d.call, d.tool}}

\* Something besides the declaration ties it to the system's events.
Bridge(d) ==
  \/ d.conn # None /\ ConnCheck(d) = "verified" /\ CallTargets(d) # {}
  \/ Correlated(d) # {}

Worth(d) ==
  LET checks == Checks(d)
      plain  == CASE "conflict" \in checks -> AMBIGUOUS
                  [] checks = {"verified"} ->
                       IF Bridge(d) THEN CERTAIN ELSE PROBABLE
                  [] OTHER -> PROBABLE
  IN  IF WallFallback(d) THEN Compose(plain, PROBABLE) ELSE plain

\* Node ids are hashes: any fixed order.
Rank(n) == CASE n.kind = "call"    -> n.id
             [] n.kind = "process" -> n.id
             [] n.kind = "tool"    -> 10 + n.id.cause * (MaxTime + 1) + n.id.at
             [] n.kind = "task"    -> 0

First(nodes) == CHOOSE n \in nodes : \A m \in nodes : Rank(n) <= Rank(m)

AmbiguousClaim(e, basis, candidates) ==
  LET kept == FirstOf(candidates, MaxCandidates, Rank)
  IN  Claim(e, First(kept), basis, AMBIGUOUS, kept)

-----------------------------------------------------------------------------
(* The engine: what a declaration says of its tool or its call.            *)

\* _declaration_confidence
Bounded(d) == IF Worth(d) = AMBIGUOUS THEN PROBABLE ELSE Worth(d)

\* _emit_multi_target_edge
MultiTarget(n, targets, basis, conf) ==
  LET rest == targets \ {n}
  IN  IF Cardinality(rest) < 2 THEN {Claim(n, t, basis, conf, {}) : t \in rest}
      ELSE {AmbiguousClaim(n, basis, rest)}

\* _emit_declaration_edges: to the declared calls, processes and the task,
\* from the tool; or from the first of the calls, when no tool is declared.
DeclarationClaims(d) ==
  LET calls     == {CallNode(c) : c \in CallTargets(d)}
      processes == {ProcessNode(p) : p \in ProcessTargets(d)}
      conf      == Bounded(d)
      from(n, basis, targets) == MultiTarget(n, targets, basis, conf)
  IN  CASE d.tool # None ->
             from(ToolNode(d), "call_id", calls)
               \cup from(ToolNode(d), "tool_id", processes)
               \cup from(ToolNode(d), "run_id", {TaskNode})
        [] d.tool = None /\ calls # {} ->
             from(First(calls), "call_id", processes)
               \cup from(First(calls), "run_id", {TaskNode})
        [] OTHER -> {}

-----------------------------------------------------------------------------
(* The engine: the owners of an effect.                                    *)

\* _declaration_owner: the tool, or the only call, or the task.
Owners(d) ==
  IF d.tool # None THEN {ToolNode(d)}
  ELSE IF Cardinality(CallTargets(d)) = 1
       THEN {CallNode(c) : c \in CallTargets(d)} ELSE {TaskNode}

\* _emit_correlation_edges: the tool or the only call, if there is one.
IdOwners(d) == Owners(d) \ {TaskNode}

\* _owner_call_set
CallsOfOwner(n) ==
  CASE n.kind = "call" -> {n.id}
    [] n.kind = "tool" -> CallTargets(n.id)
    [] n.kind = "task" -> {}

\* _emit_marker_segments: a declaration rules the processes it names, and
\* those of its calls when it names none or is in conflict, from its time to
\* the next declaration there.
Ruled(d) ==
  ProcessTargets(d) \cup
    IF ProcessTargets(d) = {} \/ Worth(d) = AMBIGUOUS
    THEN UNION {CallProcesses(c) : c \in CallTargets(d)} ELSE {}

SegmentOfFirst(p, at) ==   \* broken: a segment is not cut by the next
  LET before == {d \in decls : Timed(d) /\ p \in Ruled(d) /\ Start(d) <= at}
  IN  {d \in before : \A x \in before : Start(d) <= Start(x)}

Segment(p, at) ==
  LET before == {d \in decls : Timed(d) /\ p \in Ruled(d) /\ Start(d) <= at}
  IN  {d \in before : \A x \in before : Start(x) <= Start(d)}

OwnersOf(group) == UNION {Owners(d) : d \in group}

\* _emit_marker_effect_edge: the owners that the declarations of a segment
\* give, checked against the time windows; several owners stand for
\* themselves.
ContradictsNever(owner, external) == FALSE   \* broken: every marker is believed

Contradicts(owner, external) ==
  /\ external # {} /\ CallsOfOwner(owner) # {}
  /\ CallsOfOwner(owner) \cap external = {}

MarkerClaim(e, group) ==
  LET owners   == OwnersOf(group)
      owner    == CHOOSE n \in owners : TRUE
      external == ExternalCalls(e)
      doubted  == \/ \E d \in group : Worth(d) = AMBIGUOUS
                  \/ Contradicts(owner, external)
      all      == {owner} \cup {CallNode(c) : c \in external}
  IN  CASE Cardinality(owners) > 1 -> AmbiguousClaim(e, "marker", owners)
        [] Cardinality(owners) = 1 /\ doubted /\ Cardinality(all) > 1 ->
             AmbiguousClaim(e, "marker", all)
        [] Cardinality(owners) = 1 /\ doubted /\ Cardinality(all) = 1 ->
             Claim(e, owner, "marker", PROBABLE, {})
        [] OTHER -> Claim(e, owner, "marker",
                          Min({Bounded(d) : d \in group}), {})

\* _build_external_effect_call_edges
WindowClaims(e) ==
  LET calls == {CallNode(c) : c \in ExternalCalls(e)}
  IN  IF Cardinality(calls) < 2
      THEN {Claim(e, n, "window", PROBABLE, {}) : n \in calls}
      ELSE {AmbiguousClaim(e, "window", calls)}

\* The claims about an effect: correlation ids before segments, segments
\* before windows.
EffectClaims(e) ==
  LET byId  == UNION {IdOwners(d) : d \in {x \in decls : e \in Correlated(x)}}
      group == Segment(e.proc, TimeOf(e))
  IN  IF byId # {} THEN {Claim(e, n, "marker", CERTAIN, {}) : n \in byId}
      ELSE IF group # {} THEN {MarkerClaim(e, group)}
      ELSE WindowClaims(e)

-----------------------------------------------------------------------------
(* Properties.                                                             *)

TypeOK ==
  /\ now \in 1 .. MaxTime + 1 /\ offset \in Offsets
  /\ sent \subseteq Calls /\ answered \subseteq sent /\ started \subseteq answered

Candidates(k) == {k.dst} \cup k.others
CallsAmong(k) == UNION {CallsOfOwner(n) : n \in Candidates(k)}

\* What is declared truly: of the call whose tool it is.
Truthful(d) == d.call \in {None} \cup Names(d.cause) /\
               d.conn \in {None, ConnOf[d.cause]}

\* Process p may pass for that of declaration d: it has the number that d
\* gives without a start time.
PassesFor(p, d) == d.start = None /\ d.pid = PidOf[p]

\* What the declarations make certain of a tool or a call itself is so: the
\* tool was asked for by that call and runs in that process, or in one that
\* passes for it, and the call is of that process.  A declaration without a
\* tool that may mean several calls says nothing certain of the one that
\* stands for them; the engine does not heed that, so it is left out here
\* (graph.py:1665 _emit_declaration_edges).
DeclaredIsTrue ==
  \A d \in {x \in decls : Truthful(x)} :
    (d.tool # None \/ Cardinality(CallTargets(d)) = 1) =>
      \A k \in DeclarationClaims(d) :
        k.conf = CERTAIN =>
          /\ k.src \in {ToolNode(d), CallNode(d.cause)}
          /\ \/ k.dst \in {CallNode(d.cause), TaskNode, ProcessNode(ProcOf[d.cause])}
             \/ \E p \in Procs : k.dst = ProcessNode(p) /\ PassesFor(p, d)

\* The tool of a write was not declared with its process and a time of the
\* engine's clock, or d was declared later, while that tool still ran.
OutOfSight(w, d) ==
  \A x \in decls : x.cause = w.cause =>
    \/ x.clock # "monotonic"
    \/ x.pid = None /\ x.start = None
    \/ x.at < d.at

\* When everything that is declared is true, what the declarations make
\* certain of tools and calls is so, and an effect is certainly of a tool or
\* a call only if that tool or the call's tool wrote it, or an event of it
\* carries an id of that call, which retries share.  There are two ways of
\* being wrong.  Either the declaration names no process, or the process that
\* wrote has the number that it names; or the tool that wrote first is of the
\* same process and out of the engine's sight, as one that runs on while a
\* later one is declared.  And the graph accepts the claims (graph.py:1720
\* _emit_correlation_edges, :1780 _emit_marker_segments, :1861
\* _emit_marker_effect_edge).
CertainMarkerTrue ==
  /\ TypeOK
  /\ DeclaredIsTrue
  /\ (\A d \in decls : Truthful(d)) =>
      \A e \in Effects : \A k \in EffectClaims(e) :
        /\ Acceptable(k)
        /\ (k.conf = CERTAIN /\ k.dst # TaskNode) =>
          \E d \in decls :
            /\ k.dst \in Owners(d)
            /\ \/ \E w \in EventsOf(e) : w.cause = d.cause \/ w.corr \in Names(d.cause)
               \/ /\ ProcOf[d.cause] # e.proc
                  /\ (d.pid = None /\ d.start = None) \/ d.pid = PidOf[e.proc]
               \/ /\ ProcOf[d.cause] = e.proc
                  /\ \A w \in FirstWrites(e) : OutOfSight(w, d)

\* No events of e carry an id.
Silent(e) == \A w \in EventsOf(e) : w.corr = None

\* False: a tool declared truly, with its start time, is certain of no effect of
\* another process (docs/03-correlation.md 3.1: a PID that is used again is
\* ambiguous).  The engine adds all processes of the number to the one that
\* the start time tells (graph.py:1427, :1440).
CertainOfItsProcess ==
  (\A d \in decls : Truthful(d)) =>
  \A e \in Effects : \A k \in EffectClaims(e) :
    (Silent(e) /\ k.conf = CERTAIN /\ k.dst.kind = "tool") =>
      k.dst.id.start \in {None, e.proc}

\* In the external mode nothing is ruled out too early: when traffic of the
\* call behind an effect was captured close to it, that call is among the
\* candidates, whatever else was going on, and the effect is given to one call
\* only if no other is possible -- unless the calls before it in the order of
\* the nodes fill the list of candidates (graph.py:1965
\* _build_external_effect_call_edges, config.max_candidates).
TrueCallIsCandidate ==
  \A e \in Effects : \A w \in FirstWrites(e) :
    LET c == w.cause
        seen == \E t \in traffic : /\ t.conn = ConnOf[c] /\ t.proc = e.proc
                                   /\ t.at <= TimeOf(e) + Window
                                   /\ TimeOf(e) <= t.at + Window
        before == {CallNode(x) : x \in {y \in ExternalCalls(e) : y < c}}
    IN  (decls = {} /\ seen) =>
          \E k \in EffectClaims(e) :
            /\ c \in CallsAmong(k) \/ MaxCandidates <= Cardinality(before)
            /\ k.conf = PROBABLE => CallsAmong(k) = {c}

\* A wrong marker is doubted.  When the windows allow the call behind an
\* effect, then whatever is declared, of whichever call, that call stays among
\* the candidates of an ambiguous claim, unless they are too many for its
\* list; and a claim that is not ambiguous names no call, or one that the
\* windows allow as well.  Only the owners of several declarations of one
\* time take the place of the windows (graph.py:1883, :1895,
\* docs/03-correlation.md 3.2).
WrongCallIsDoubted ==
  \A e \in Effects : \A w \in FirstWrites(e) :
    LET c == w.cause
        external == ExternalCalls(e)
    IN  (Silent(e) /\ c \in external) =>
          \A k \in EffectClaims(e) :
            CASE Cardinality(OwnersOf(Segment(e.proc, TimeOf(e)))) > 1 ->
                   k.conf = AMBIGUOUS
              [] OTHER ->
                   IF k.conf = AMBIGUOUS
                   THEN c \in CallsAmong(k) \/ MaxCandidates <= Cardinality(external)
                   ELSE CallsAmong(k) = {} \/ CallsAmong(k) \cap external # {}

=============================================================================
