# A TLA+ model of agent-probe

agent-probe records what an LLM agent does on a host: it captures events (files,
processes, network, the agent's LLM traffic), keeps them in an append-only ledger,
derives an index and quality counters from it, and correlates and audits the result.
This directory holds TLA+ modules of the parts whose correctness depends on the order
in which things happen, the TLC configurations that check them, and TLAPS proofs of
their main theorems. Paths below are relative to the repository; `events/` stands for
`src/agent_probe/events/` and so on.

## 1. The system

| Part | State | Operations | What is hard |
|---|---|---|---|
| Event ledger writer, `events/ledger.py` | file, 64 KiB buffer, `_line_no`, `_offset`, `_pending_lines`, `_monotonic_seen` | open and repair, `append`, `append_many`, `flush`, `sync`, `verify`, `close` | short and failing writes, fsync failure, crash, torn tail, retries |
| Ledger scanner, `events/ledger.py` | none | `scan_ledger`, `iter_events`, `ledger_digest` | torn, glued and duplicate lines |
| Writer lock, `events/ledger.py` | flock on the `.lock` file, `_INPROCESS_LOCKS` | acquire, release | two mechanisms that are not updated together, errors between them, process death |
| SQLite index, `events/index.py` | the `events` table, WAL | `index_events`, `index_records`, `rebuild`, `count`, `digest` | conflicts inside a batch, rollback, power loss without the ledger |
| Replay, `events/replay.py` | none | `replay`, `replay_into_index`, `verify_against_ledger` | the scan is old when it is written; three reads of a check are not one |
| Quality counters, `events/quality.py` | loss and issue counts, last seq by stream | `record_loss`, `record_issue`, `add_issues`, `observe`, `observe_all`, `snapshot` | late, repeated and missing sequence numbers, batches that stop half-way |
| Event model, `events/model.py` | none | validation, canonical JSON | pure |
| HTTP/1 parser, `llm/http1.py` | buffer, framing state, queue of request methods | `feed`, `finish`, `register_request` | fragmentation, pipelining, limits |
| SSE decoder, `llm/sse.py` | buffer, event under construction | `feed`, `finish` | fragmentation, limits |
| Reconstructor, `llm/reconstruct.py` | parsers of both directions, pending requests | `feed`, `finish` | a response that overtakes its request, reuse of connection ids |
| Calls and accounting, `llm/calls.py` | retry links, seen exchanges, identities | `declare`, `link_retry`, `resolve`, `record` | redelivery, retry cycles, links declared too late |
| Completion, usage, pricing, `llm/{completion,usage,pricing}.py` | none | analyse a body, price a usage | cut bodies |
| Messages and shared types, `llm/{messages,common,limits,diagnostics}.py` | none | value types | pure |
| Container mapper, `container/{mapper,query,model,cgroup}.py` | none between calls | `map_label`, `map_labels`, `resolver_for` | the containers change while they are read one by one |
| Path translation, `container/{mounts,paths}.py` | none | `container_to_host`, `host_to_container` | mounts over mounts |
| Correlation, `correlate/` | graph of edges with confidence and evidence | `correlate`, `resolve_attribution` | PID reuse, lost events and start times, overlapping calls, declarations that are wrong |
| Audit, `audit/` | none | rules, verdicts, reports | missing evidence against PASS |
| Enforcement model, `enforce/model.py` | none | `evaluate_operation`, `validate_installation` | detours through links and renames |
| Evaluation, doctor, CLI, eBPF probe, scripts | none that outlives a call | | arithmetic on complete data, or I/O |

How they interact: a collector calls the ledger writer; each event it appended may be
indexed with the `LedgerRecord` it got back, and observed by the counters. Off line,
`replay` scans the ledger, feeds the counters, and writes the index; `verify_against_ledger`
compares the two. The LLM side turns captured bytes into messages, pairs them, and accounts
for the calls. The correlation engine is given the ledger's events, the call records, the
tasks, what the application declared (markers) and a resolver built on the container mapper,
and attributes processes and effects to tasks, calls and tools. The audit evaluates rules
over the ledger's events and the call records; the enforcement model says what the same
policy would refuse in the kernel.

What makes each part correct:

* ledger: what a policy promises durable is never lost, nothing a reader saw changes,
  and positions handed out lead to their lines;
* lock: one writer, and no leaked lock;
* index: an image of a ledger prefix, never two versions of one event, and no false
  alarm of the check;
* counters: no missing number uncounted, and the excess explained;
* parser: the result does not depend on fragmentation; reconstructor: responses are
  paired with their own requests; accounting: every physical call is counted once;
* mapper: an answer other than an error was true when the containers were listed, and a
  translated path is the file the container sees;
* correlation: what is called certain is true whatever was lost; what was captured
  completely is found; the true owner is not excluded too early;
* audit: a violation is real, and a pass hides nothing that was recorded incompletely;
  enforcement: no sequence of allowed requests changes a protected directory.

The hazards, each at its line, are in `PROJECT.json`.

## 2. Modules

| Module | Models |
|---|---|
| `EventLedger` | one writer at a time on one path, its buffer, the file, its durable prefix, and the scanner |
| `DurableLog` | abstract: an append-only log whose stable entries survive a crash |
| `WriterLock` | threads of several processes acquiring and releasing the writer lock |
| `ReplayIndex` | the index, replays and checks by several processes, a growing ledger, power loss |
| `LossCounters` | counters fed by several threads |
| `Http1Parser` | the incremental HTTP/1 parser of one direction |
| `HttpConnection` | a connection: two parsers, the queue of pending requests, the records |
| `SseStream` | the SSE decoder, and what the analysis of a body concludes |
| `CallAccounting` | the retry registry and the accounting ledger |
| `UsagePricing` | pure operators: token usage of a body, its status, its price |
| `Evidence` | pure operators: confidences, the merging of edges, the owner read from a graph |
| `TaskAttribution` | a machine, its recorder, and the engine's processes, files and tasks |
| `CallAttribution` | an application, its recorder and declarations, and the engine's calls and tools |
| `MountView` | pure operators: paths through mounts, by the code and by the kernel |
| `ContainerMapper` | a label query against a changing docker daemon |
| `ProtectedDirectory` | pure operators: what a policy refuses and what a kernel must offer |
| `AuditRules` | pure operators: the findings of each kind of rule |
| `AuditVerdict` | an agent under a policy, its recorder, and the audit of the record |
| `MC...` | the values TLC uses |
| `EventLedgerProofs` | theorems about `EventLedger` and `WriterLock` |
| `AuditVerdictProofs` | theorems about `AuditVerdict` and `LossCounters` |
| `HttpConnectionProofs` | theorems about `HttpConnection` and `SseStream`: the way of a response body |
| `ReplayIndexProofs`, `CallAccountingProofs`, `TaskAttributionProofs`, `CallAttributionProofs`, `ContainerMapperProofs` | theorems about the module of that name |

`EventLedger` relies on `WriterLock`'s `SoleWriter` (it has one writer at a time);
`ReplayIndex` abstracts the ledger to the lines `EventLedger` shows are there, with the
same durable prefix; `HttpConnection` instantiates `Http1Parser` twice; `SseStream` and
`CallAccounting` instantiate `UsagePricing`; both attributions extend `Evidence`;
`ContainerMapper` extends `MountView`; `AuditVerdict` composes `ProtectedDirectory`, which
decides what the agent can do, with `AuditRules`, which judge what was recorded of it.
`EventLedger` implements `DurableLog` (`ReadersSeeALog`).

The last three groups have one form. The code there is a function of a recording, called
once; what makes it hard is that the recording tells only part of what happened. So the
state is what really happened, together with what was captured of it; the code is a set of
operators on the captured part; each reachable state is one input; and the properties
compare the answer with the truth, which the code cannot see. In `ContainerMapper` the code
is actions as well, since it reads the world in several steps.

### EventLedger

A line is two pieces, `head` (a proper prefix) and `end` (the rest with the newline), so
that every way of tearing it that the scanner can tell apart is a state; a file is a
sequence of pieces. Events in `LongEvent` have lines longer than `_BUFFER_BYTES`, which
`io.BufferedWriter` writes past its buffer. A public method is a call (`op`) that runs
through program points (`pc`):

| Code | Action |
|---|---|
| `__init__`, `_last_complete_offset`, `_count_newlines` | `Open`; a repair whose fsync fails: `RepairFails` |
| `append`, `append_many`, `flush`, `sync`, `verify`, `close` | `AppendEvent`, `AppendMany`, `FlushCall`, `Sync`, `Verify`, `Close`, which start the call |
| `_append_no_fsync`: order check, `_monotonic_seen` | `CheckOrder` |
| `self._fh.write(line)` and the counters after it | `WriteBuffered`, `WriteNeedsDrain`, `WriteDirect`, `WriteDirectFails`, `Written` |
| `self._fh.flush()` | `RawWrite` (any non-empty part of the buffer), `RawWriteFails`, `Flushed` |
| `_fsync_now` | `Fsync`, `FsyncFails` |
| `close`'s `finally` | `CloseFile`, `CloseFileFails` (leaves the writer "wedged"), `UseAfterWedge` |
| kill, power loss | `Kill` keeps the file, `PowerLoss` keeps at least the synced prefix |

`acked`, `handed`, `promised`, `base` and `done` are history: which events the code told
its caller are appended, handed over, or durable.

### WriterLock

Each thread walks through `_acquire_writer_lock`, the rest of `__init__`, `close` and
`_release_writer_lock`; every lock operation and every critical section of
`_INPROCESS_LOCK_GUARD` is one step, and any step of the operating system may raise,
`os.close` too: the descriptor is gone then (as on Linux), but what follows the call is
skipped. `CloseFd` skips the discard (`ledger.py:700-703`, and a second `close()` returns at
once because `_closed` is set), `InspectTail` skips the release (`:833-837`). `Die` is the
death of a process. The history `lost` records the threads whose locked descriptor an error
path leaves open, `stuck` the processes in which the path stayed registered; both are the
exceptions `NothingLeaked` and `ReleaseCompletes` name, and section 4 reproduces what they
mean: such a process cannot open the ledger again.

### ReplayIndex

An event is a version (id and content). A transaction is one step, a `SELECT` is one
step, a ledger scan is one step that fixes the length read (appends after it do not
change what was read). `commits` is the sequence of index states a power loss may leave:
with `synchronous=NORMAL` in WAL mode the last transactions may be lost until a
checkpoint. `calm` marks a check that began with the index equal to the ledger and saw
no write since.

### LossCounters

`gap` is `_loss[SEQUENCE_GAP]`; `seen`, `first`, `skipped` and `declared` are history
from which the true number of missing events follows. The body of a method under the
object's lock is one step; `observe_all` and `add_issues` are one step per item.

### Http1Parser and HttpConnection

A byte is a symbol: the two halves of a start line, CR, LF, a chunk size, a body byte, or
any other byte of a header or trailer. What a head says (method, status, framing, length,
its first fault) travels on its start line, together with what only the properties read:
the message's number, the number of the request it answers, the true size of its body.
The parser is one record `p`, whose fields are the attributes of `Http1Parser`; one
iteration of `_run` is one step.

| Code | Definition |
|---|---|
| `feed`, `finish`, `register_request` | `Feed`, `Finish`, `Register` |
| `_find_header_end` with `_header_scan` | `HeadEnded`, `HeadEnd`, `ScanFrom` |
| `_advance_head`, `_parse_head`, `_plan_body` | `SkipEmptyLine`, `AdvanceHead`, `HeadTooLarge`, `HeadAtEof`, with `ParseHead` and `PlanBody` |
| `_advance_fixed_body`, `_advance_chunk_*`, `_advance_eof_body` | the actions of the same names; `LineTooLarge` for a chunk or trailer line without end |
| no progress, `_premature_eof` | `Stop` |
| `ConnectionReconstructor.feed` | `FeedRequest`, `FeedResponse`, then `ParseRequest`, `ParseResponse` until the parser stops, then `HandleRequest`, `HandleResponse` per message |
| `ConnectionReconstructor.finish` | `Finish`, `FinishResponses`, `Flush` |

What the peers send is a dialogue, a constant: bytes by direction, where the messages end
that must be delivered, and how much of the other direction has been captured before each
byte. Fragments of any size arrive in any order this allows, and the connection may close
after any byte. Except in `HttpEarly.cfg`, a response begins after its request has ended.

### SseStream

A byte is again a symbol; a field name with its separator is one, so that fragments cut fields
as well as line ends. Symbols of `Continuation` begin no character of the decoded text:
`sse.py:236` adds the characters of a value (`Chars`), while `:276` compares the bytes of the
buffer, and both are held against `max_event_bytes`. `decoder` is the state of `SseParser`; one
call is one step.

| Code | Definition |
|---|---|
| `feed`, `finish` | `Feed`, `FinishStream`; `FinishStream` also runs the analysis |
| `_next_line`, `_consume` | `NextLine`, `Consume` |
| `_drain`, `_process_line`, `_dispatch` | `Drain`, `Round` (one line) repeated, with `Field`, `Dispatch`, `Dispatched` |
| `_check_size` | `CheckSize` |
| `analyze_payload` on an event stream | `Analyze`, `Verdict`, `ExplicitEnd`, `FinishReason` |
| `analyze_payload` on a JSON document or an empty body | `FinishDocument`, `AnalyzeDocument`, `AnalyzeNothing` |
| `extract_usage_from_sse_events` | `ContainersOf`, `Containers`, `Unparseable`, with `UsagePricing` |

The code feeds a response body to the decoder at once; the class takes any fragments, so the
model does. `Stream` is the reference: the events of a byte sequence by definition, without
buffer, resumption or state. `LineEnds` are the positions of the bytes that end a line, `Lines`
gives the line that ends at each; `Open` is the event a set of lines leaves open, from the lines
since the last empty one (`Block`) and the last id and retry of all; `EventsOf` collects what was
open at each empty line that ends an event (`Full`). The properties compare the decoder and its
verdicts with `Stream`. The specification is `SseSpec`.

### CallAccounting

`links` and `logical` are the registry's dictionaries, `records`, `seen` and `duplicates` the
ledger's fields. A delivery passes a call to `record` alone or in a batch (`Extend`, then one
step per call); what was captured of its response (`Answers`) may differ at each delivery.
Declarations fall between deliveries, at any time, in any order.

| Code | Definition |
|---|---|
| `chain`, `component`, `resolve` | `Ancestor` with `InCycle`, `Depth`, `Root`; `Component`; `LogicalId`, `Resolve` |
| `declare_logical_call`, `link_retry` | `Declare`, `LinkRetry` |
| `record` | `RecordDuplicate`, `RecordNew`, `RecordRaises` (`resolve` raised `RetryCycleError`) |
| `extend` | `Extend` |
| `summary` | `Summary` |
| `_build_record`: analysis and cost | `Status`, `Usage`, `Cost`, with `UsagePricing` |

A usage container is a function from JSON keys to counts or nested objects; merging keeps of each
key the last value (`Merged`), as `dict.update` does. `AnswersAssumption` and
`PricesAssumption` say what the inputs are: no count and no price is negative. The code does not
check that (`_as_int`, `llm/usage.py:175`, and `_to_decimal`, `llm/pricing.py:69`, take any
integer); providers and price tables have no others.

`Family` is the reference for `component`: the calls connected by links in either direction.
`raised` and `settled` are history: whose delivery raised, and how many records were made
before the registry last changed.

### TaskAttribution

`life` is the machine (processes by number of birth, with PIDs that are used again after
an exit, and the clock tick of their start, which several may share), `root` the task's first
process, `log` the captured events. A start time that the code reads together with a PID is the
number of the process, or `None` where the collector did not get it; that says the same, since a
PID is not handed on within one tick. Where the code compares start times alone
(`StartedLikeRoot`), ticks are compared. An event carries in `who` and `kid` whom it was really
about; only the properties read that.

| Code | Definition |
|---|---|
| `_aggregate_processes`, `_create_process`, `_lookup_process`, `_pid_nodes` | `Aggregated`, `Lineage`, `Lookup`, `NodeRank` |
| `_build_lineage_edges` | `Lineage`, `ForkClaims`, `ForkConfidence`, `ParentStart` |
| `_root_path`, `_build_process_owner_edges` | `StartedLikeRoot`, `RootPath`, `OwnerClaim`, `CgroupMatches` |
| `_resolve_containers`, `_build_container_nodes`, `_build_process_container_edges` | `Resolved`, `ProcessClaims`, `ContainerClaims` |
| `_build_effect_process_edges` | `EffectConfidence` |
| `_add_edge`, `EvidenceEdge`, `edge_identity` | `Claim`, `Acceptable`, `SameEdge`, `EdgeOf`, `EdgesOf` (`Evidence`) |
| `resolve_attribution`, `_collect_ambiguities`, `correlate` | `Best`, `Attribution`, `Ambiguities`, `Analysis` |

The code merges edges as they arrive; `EdgeOf` gives what the merge amounts to, from the
set of claims about an edge: the strongest confidence, and the united candidates if that is
ambiguous. Node ids are hashes; `NodeRank` is one order of them or the reverse.

### CallAttribution

Processes send calls over connections, read the answers, run the tools the answers ask for,
several at a time, and write files. The clock is coarse: any number of actions, of declarations
too, fall between two of its ticks; with a tick the wall clock may be set (`offset`). A PID is
used again after the process that had it. Traffic and writes are captured or lost. When a tool
starts it is declared in one of `Shapes`: with the physical or the logical call id, the
connection, the PID with or without its start time, a monotonic or a wall clock time, with a tool
or without, truly or with another call's id. A write's event may carry the tool's id or one of
the call's.

| Code | Definition |
|---|---|
| `_aggregate_effects` | `Effects`, `EventsOf`, `FirstWrites`, `TimeOf`, `TlsOf` |
| `_build_calls`, `_call_span`, `_external_call_candidates`, `_build_external_effect_call_edges` | `Span`, `Near`, `CallProcesses`, `ExternalCalls`, `WindowClaims` |
| `_boot_offsets`, `_run_time_range`, `_declared_time` | `BootOffsets`, `EventTimes`, `Derived`, `Meets`, `Timed`, `Start`, `WallFallback` |
| `_verify_declaration`, `_verify_declared_monotonic` | `CallTargets`, `ProcessTargets`, `ConnCheck`, `Checks`, `VerifiedOr`, `Bridge`, `Worth` |
| `_emit_correlation_edges` | `Correlated`, `IdOwners` |
| `_emit_marker_segments`, `_effects_in_window`, `_emit_marker_effect_edge` | `Ruled`, `Segment`, `OwnersOf`, `Contradicts`, `MarkerClaim` |
| `_emit_declaration_edges`, `_emit_multi_target_edge`, `_declaration_confidence` | `DeclarationClaims`, `MultiTarget`, `Bounded` |
| `_add_ambiguous_edge`, `_declaration_owner`, `_owner_call_set` | `AmbiguousClaim`, `Owners`, `CallsOfOwner` |

### MountView and ContainerMapper

`box` is what the docker daemon knows (an exited container may be started again; `run` counts
the starts, for the properties), `cgroupOf` the host's PIDs. A query goes through
`stage`: list, then inspect and cgroup read of each container in the order of ids, then the
decision. Between any two of these steps the world may move.

| Code | Definition |
|---|---|
| `list_container_ids` | `ListContainers`, `ListFails` |
| `inspect`, `parse_inspect`, `_same_container` | `Inspect`, `InspectFails`, `Info` |
| `_enrich_cgroup`, `ProcCgroupReader.read` | `EnrichCgroup`, `ReadCgroup` |
| `_evaluate_window` | `NoWindow`, `AfterWindow`, `OverBeforeWindow`, `Excluded`, `Uncertain` |
| the rest of `map_label`, `_error`, `resolver_for` | `Candidates`, `Kept`, `Verdict`, `Decide`, `Error`, `ResolverFor` |
| `container_to_host`, `host_to_container` | `ContainerToHost`, `HostToContainer` |

`KernelFile` is the reference for paths: a walk from the root of the container's file system
that steps onto the last mount at each directory, as the kernel does. Paths are sequences of
`Names`; what docker reports of mounts and what is asked about is built of them (`PathsOk`).

### ProtectedDirectory, AuditRules and AuditVerdict

The agent creates, writes, truncates, renames, links, unlinks and reads files, renames
directories, connects and calls models. A name is a path; `fileAt` maps names to files, so that
a file may have several names, at the start too (`Layouts`). Renaming a directory moves every name
below it (`Renamed`). `done` is what really happened, `events` what the ledger has of it: each
event whole, without its path, without its result, or lost; a truncation by an open is recorded
as the open. No symbolic links or bind mounts exist (the code compares paths by their text).

| Code | Definition |
|---|---|
| `path_is_within`, `_paths_affected`, `evaluate_operation` | `PathIsWithin`, `PathsAffected`, `WouldDeny`, `Allowed` |
| `required_hooks`, `validate_installation` | `RequiredHooks`, `Ready`, `Start` |
| `_file_rule`, `path_matches`, `_event_paths`, `_actual_write` | `FileFindings`, `UncertainFile`, `OnRulePath`, `Actual` |
| `_network_rule`, `evaluate_cost_rule` | `NetworkFindings`, `CostFindings` with `Known`, `Incomplete` |
| `build_audit_report`, `audit_ledger` | `RuleFindings`, `FindingsOf` |

`KernelRefuses` is the kernel: it refuses what an enforcing policy refuses if the hook of that
operation is attached. The project has no installer yet; its attach probe only shows that a
program can be attached.

## 3. Runs

| Run | Shows | Bounds |
|---|---|---|
| `ledger` | promises, positions, order and refinement hold through every fault | 3 events of one stream (one long, one late), one batch, `fsync_every_lines` 2, 6 pieces = 3 lines, 2 writers in turn |
| `lock` | one writer, no leak, releases complete | 3 threads, 2 processes; no other bound |
| `replay` | rows lead to their lines, the index is a prefix, no false alarm, a replay that returns is whole | 3 versions of 2 ids, 2 processes, 2 ledger lines, 1 transaction beyond the last checkpoint |
| `loss` | no missing number uncounted, the excess bounded | 1 counter, 2 threads, 2 streams, numbers 0..4, 4 observations |
| `http` | framing, pairing, payload marks and records do not depend on fragmentation; every call returns | 10 dialogues of up to 3 exchanges and 40 bytes; heads of up to 8 bytes, chunk lines 3, trailers 5, bodies 2, 2 methods in the queue |
| `accounting` | each call counted once; families found and named whole; the bill counts no token twice; totals add up and only grow | 3 calls, 2 names, 3 declarations, 3 deliveries, two answers per call |
| `sse` | events, limits and verdicts do not depend on fragmentation, and have evidence | every body of up to 6 symbols over CR, LF, a data field and a JSON text; 8 bodies of up to 25 symbols, one with characters of two bytes; JSON documents cut anywhere; limits of 6 bytes and 2 lines; fragments of up to 8 |
| `lineage` | certain is true but for the root's clock tick, a captured chain is certain, certainty stays | 2 PIDs, 4 processes of which 2 may share a tick, 3 events; with lineage, with cgroups, with a container, and cgroups alone; `max_candidates` 2 |
| `lineage_reuse` | violated: every recording is answered | the same |
| `calls` | certain markers are true but in two named ways, the true call stays a candidate, a wrong marker is doubted | 2 processes, 2 of 3 calls on 2 connections (one shared, retried under one id), 1 path, 2 writes, 6 shapes of declarations, 2 instants, window 0, wall clock 0 or 2 ahead, `max_candidates` 2 |
| `container` | answers were true at the listing; cgroups are not mixed up; paths lead where the kernel leads | 2 containers started up to twice, 2 PIDs, 3 windows, times 1 and 2, `max_candidates` 1, nested and doubled mounts |
| `audit` | violations are real or failed attempts, and stand; a pass hides nothing but what rules overlook; an enforced directory stays intact below directories that stay | 4 names, 4 directories, 3 layouts, 3 policies, 2 kernels, one rule of each kind, 2 destinations, costs up to 2, lines without currency, 2 steps |

Some properties are conjunctions that belong together: `ScannerAgrees` is `RecordsLocate` and
`StrictSessionOrdered`; `FramedPromptly` is `Framed` and `Prompt`; `RetriesAreOneCall` is
`ComponentIsFamily` and `FamiliesAreCalls`; `BillIsHonest` is `TokensBilledOnce` and
`ModelsAddUp`; type correctness is a conjunct of a property in each of them.

Why the bounds suffice. The ledger run has room for three lines, which is what the
longest pattern needs: a fragment, a line glued to it, and a line after it; and two
writers, so that the second opens what the first left torn. A long event can be written,
torn, glued and retried. The buffer holds one line and a half, so that a line can be
split between file and buffer. In the replay run two lines give a duplicate id, two
contents of one id, a skipped line before a valid one, and an index older than the
ledger; the checkpoint makes room for any number of transactions one after the other.
One counter is enough for `loss` because counters share nothing but the threads; the
five numbers give jumps of every length up to three, filled late or not. Each HTTP dialogue
exercises a way of framing or of refusing, every limit is passed by one of them, and a body is
cut by its limit inside a fragment and inside a chunk; because fragments may have any size,
every pair of positions where two consecutive fragments end is reached. Three pipelined
requests overflow the queue of methods once; what the code then frames wrongly is excluded from
`Framed`, `Prompt` and `PairedRight` by `MethodsKept`, since the code reports the drop. Heads
stay three bytes below the limit or exceed it: in between, acceptance depends on where the
fragments end (see the hazards). Three calls are the fewest that give a chain of retries, two
branches of one family, a cycle that is entered from outside, and a stranger beside a family;
three deliveries allow a repetition between two calls, a batch that stops, and a late
declaration before the last of them. The answers cover cached tokens inside and beside the
input, more cached tokens than input, usage in two containers, a cut response and none. Every
string over the line terminators of length six contains every way two events can be separated;
fragments longer than the byte limit let the limit be hit by a fragment, a line and an event
separately.

Four processes on two PIDs give a root with a child and a grandchild, a process from before
the task, and a PID used twice and, for two of the four, by processes on both sides of the
task's border; three events are a chain of two forks and an effect, or a fork and two sightings
of a reused PID; one shared tick lets a process of the root's tick have a child. In `calls`, two
calls with their tools and two writes are two tools at once in one process, two in a row, a
shared connection of two processes, or a call and its retry; two instants are the fewest in which
declarations share a time or follow each other and traffic is near or far, and in which a clock
that is set puts a declaration before another one's. Two containers are what an ambiguity, a
truncation and a PID handed from one to the other need; with two instants the windows of the run
are open, hold one of them, or begin with the second, and two runs are a restart. Two steps of the
agent are the shortest detours: link in and write outside, rename out and write, rename a
directory and write below it, two payments that pass a limit together. The four names are a
protected one, one beside it, and where renames of directories take the two.

`MaxPieces`, `MaxSessions`, `MaxLines`, `MaxCommits`, `MaxObserved`, `MaxDeclared`,
`MaxDelivered`, `MaxFragment`, `MaxShort`, `MaxProcs`, `MaxShared`, `MaxEvents`, `MaxTime`,
`MaxCalls`, `MaxWrites`, `MaxRuns`, `MaxFile` and `MaxSteps`
are bounds of the models, not of the code. `accounting`, `sse`, `lineage`, `calls`,
`container` and `audit` check no deadlock: they end when their bounds are used up, the stream
is finished or the query is answered. The machine of `TaskAttribution` stops with its last
captured event: what happens after it is in no recording. `CheckRegistry`'s failing branch and other early returns
that change nothing are no steps.

Fairness. `lock` is checked under `FairSpec`: weak fairness of `Work(t)`, the steps a
thread takes inside `_acquire_writer_lock`, `__init__` and `_release_writer_lock`. None of
them waits (the flock is taken with `LOCK_NB`, the guard is held for one set operation), so
a running thread gets through them. Calling `close` is the caller's choice and is not fair,
and neither is the death of a process. `http` assumes weak fairness of the steps inside a
call (`ParseRequest`, `ParseResponse`, `HandleRequest`, `HandleResponse`, `FinishResponses`,
`Flush`): they are straight code of one thread. Feeding and closing are the peers' and are
not fair. It checks no deadlock, since a closed connection stays closed; `CallsReturn` shows
that nothing stops earlier. No other run has liveness properties: nothing else in these
components waits, and the engine, the mapper and the audit are straight code.

## 4. Findings

`lineage_reuse` is a run that TLC must find violated: a `process.fork` without the child's
start time, of a PID that two captured processes had, makes an ambiguous edge towards the task's
root. The owner edge is then built with that confidence and without candidates
(`correlate/graph.py:914-923`), which `EvidenceEdge` refuses (`correlate/model.py:516-520`), so
that `correlate()` raises for the whole recording. docs/03-correlation.md:127 promises an
ambiguous answer with all candidates.

The next ones are not runs of `PROJECT.json`; each has a configuration under which TLC
finds the named property violated (`tlc -config <cfg> <MC module>`).

| Configuration | Property | What the code does |
|---|---|---|
| `EventLedgerBatch` | `BatchLossBound` | `append_many` bypasses `_maybe_fsync` (`events/ledger.py:891`): more lines than docs/02-event-ledger.md:186 and :438 allow are at risk under BATCH, after an aborted batch even while the writer is idle |
| `EventLedgerAlways` | `NoReturnedEventLost` | the fragment of a failed long write swallows the next event (`events/ledger.py:920`), whose `append` returned under ALWAYS, against docs/02-event-ledger.md:185. `PromiseKept` is what does hold: its bytes are durable, on a line the scanner reports as `MALFORMED_LINE` |
| `WriterLock` with `PathReopens` as invariant | `PathReopens` | an `os.close` that raises while the lock is released or the tail refused leaves the path in `_INPROCESS_LOCKS` (`events/ledger.py:701`, `:834`): the process cannot open it again, although the `finally` and the `except BaseException` are there to release it |
| `ReplayRebuild` | `RebuildPossible` | a legal `quality.counter_snapshot` with an unknown counter name stops every replay (`events/quality.py:341`), so that the index cannot be rebuilt, against docs/02-event-ledger.md:231 |
| `HttpEarly` | `PairedRight` | a response that arrives before its request has ended is recorded without a request, and the next response is paired with that request (`llm/reconstruct.py:215`), against the comment at `llm/reconstruct.py:10-11` |
| `SseLimit` | `LimitIsPerEvent` | a stream of small events longer than `max_event_bytes` fails at its first data line when fed at once, as `analyze_payload` does (`llm/sse.py:276`, `llm/completion.py:270`), although the limit is on one event (`llm/limits.py:55`) |
| `SseStream` with `LimitIsInBytes` as invariant | `LimitIsInBytes` | an event is measured in characters of its decoded text (`llm/sse.py:236`), so that one of more than `max_event_bytes` bytes is delivered when it is not ASCII, against `llm/limits.py:54` and docs/01-llm.md:164 |
| `TaskAttribution` with `CertainIsMember` as invariant | `CertainIsMember` | the task's root is known by its start time alone (`correlate/graph.py:869-870`, :901), a count of clock ticks (docs/02-event-ledger.md:27): another process of that tick, and its descendants, are certainly the task's, against docs/03-correlation.md:103-106 |
| `CallAttributionReuse` | `CertainOfItsProcess` | a declaration with PID and start time adds all processes of that PID to the exact one (`correlate/graph.py:1427-1456`): effects of a later process with the PID become certain for the tool, against docs/03-correlation.md:103-106 |
| `AuditVerdict` with `OnlySuccessViolates` as invariant | `OnlySuccessViolates` | a connection or a sending that failed is a violation (`audit/evaluate.py:101-114`), against docs/04-audit.md:49 and :57 |
| `AuditVerdict` with `TruncationIsSeen` as invariant | `TruncationIsSeen` | a file truncated by its open is in the ledger as `file.open`, which the rule against writes does not look at (`audit/evaluate.py:50`), against docs/04-audit.md:47 |
| `AuditVerdict` with `NothingReachesIt` as invariant | `NothingReachesIt` | a directory above a protected one may be renamed (`enforce/model.py:66`, :133), and what is inside goes with it; a name outside that was there from the start reaches the content: against the comment at :124 and docs/05-enforcement.md:24-25 |
| `ContainerMapperRestart` | `RunningNeverExcluded` | a container that was restarted keeps the `FinishedAt` of its last run and is excluded from the window while it runs (`container/mapper.py:507`) |
| `AuditUnpriced` | `UnpricedIsDoubted` | a call line without currency drops out of the cost rule, which may then give PASS (`audit/evaluate.py:132`), against docs/04-audit.md:60 |

Two more properties are stated where they are false: `ContainerPathReachesFile`
(`HostToContainer`, as `container/mounts.py:178`, does not look for a mount that hides the path
it found) and `NoPassAfterLoss` (a PASS speaks only of the events that were given).

Where the code is looser than a reader may expect, which the properties state as exceptions:

* accounting: a retry cycle met by `record` loses the call for good, since it is marked as seen
  first; a name declared after a record splits the logical call; cache-creation tokens
  reported inside the input are billed twice; an estimate without input and output counts is
  complete when cache counts are there, against docs/01-llm.md:296; a later null in a stream
  overrides an earlier count, against the doc comment at `llm/usage.py:396-398`; a cut stream
  with partial usage is priced like a whole one;
* processes: when only another process with the container's main PID was captured, that one is
  certainly the container's (`correlate/graph.py:2037`; `Misread`); a process with the task's
  cgroup loses its certainty when a weaker fork chain is seen (:903-937), so that
  `CertaintyIsStable` leaves recordings with cgroups out; without lineage a PID sighted twice
  without a start time makes its number count twice, which turns CERTAIN into PROBABLE, so that
  it leaves out recordings without lineage as well; of two possible children of a fork the
  second may get no edge;
* calls: a declaration without tool over a shared connection makes edges from its first call
  alone (:1701-1719); a declaration that names no process rules all that share the connection
  of its call, and may be certain for effects of another one (:1792-1806); the effects of a
  tool that runs on while another one is declared in its process, or that was not declared,
  become certainly the other's (`OutOfSight`, docs/03-correlation.md:108); a wall clock that is
  set puts a declaration before its time (:1285); several owners of one time push out the true
  call (:1883); the true call may be cut from the candidates when `max_candidates` others
  precede it; the last segment of a process has no end; an effect is all events of a path by
  one process, at the time of the first; a declared PID is not checked to own the connection;
* containers: the cgroup is read after the inspect, and if the PID was handed on in between it is
  another process's; a container from before the window that was started again may be missing from
  the answer (`StartedAgain`);
* audit: `cost_limit` compares a lower bound, so that incomplete data can violate but not pass
  (docs/04-audit.md:50 and :57 want complete data for a violation); creations and hard links
  are no writes for it; paths are compared by their text.

## 5. Proofs

The theorems hold for every value of the constants that satisfies the named assumptions
(`EventAssumption`, `ModeAssumption`, `BoundAssumption` of the ledger; `ThreadAssumption`;
`EventAssumption` of the counters; `VersionAssumption`, `CountAssumption` of the index;
`DialogueAssumption`; `LimitsAssumption`, `BodiesAssumption`, `ObjectsAssumption` of the
decoder; `CallsAssumption`, `AnswersAssumption`, `PricesAssumption`; `TaskAssumption`;
`CallAssumption`; `ConstantsOk`, `PathsOk` of the mapper; `ConstantsOk` of the audit); TLC
evaluates these assumptions in the runs. Each proof module names an inductive invariant, proves
that `Init` implies it and every action preserves it (one step per action), and derives the
theorems.

* `EventLedgerProofs`. `IInv == TypeControl /\ ShapeInv /\ EndsInv`. `TypeControl` is the type
  invariant with what each program point implies. `ShapeInv` describes `file \o buf` piece by
  piece: every `end` is directly behind its own `head`, a `head` that is not followed by its
  `end` belongs to a long event, and an open writer appends only behind a newline or such a
  fragment. Without it the end of a line in the file would not show that its head is there,
  next to it. `EndsInv` says that every promised event's `end` is in the synced prefix, every
  handed-over one's in the file and every acknowledged one's in the file or the buffer. From
  these follow `PromiseKept`, `HandedOverVisible`, and, step by step, `ReadersSeeALog`: every
  step of the ledger is a `Grow`, `Harden` or `Crash` step of `DurableLog`, or changes nothing
  a reader sees.
* `EventLedgerProofs`, the writer lock. `LockIInv` is the type invariant and `LockInv`: a
  thread between taking and giving up the flock holds it, only such a thread has the ledger
  file open, and a process is registered by such a thread or because an `os.close` raised. It
  gives `SoleWriter` and `NothingLeaked`.
* `AuditVerdictProofs`, the counters. `LossIInv` adds to `LossTypeOK`, per counter, that `gap`
  is `declared` plus the size of `skipped` and that the skipped numbers that came after all are
  no more than the regressions (`CountInv`); and, per stream, that what was seen or skipped
  lies between `first` and `lastSeq` and every number between them is one or the other
  (`StreamInv`). So `Missing` is `skipped` without `seen`, which gives both inequalities.

* `CallAccountingProofs`. `Inv` adds to `TypeOK` and `OneRecordPerCall` that `records` is a
  sequence and that `raised` is a part of `seen`. The latter is the strengthening: without it a
  call that raised before it was seen could be recorded later, and the recorded calls would not
  be `seen` without `raised`. It holds because `record` adds to `_seen` before it resolves.
  `BillsAreHonest` and `TotalsGrow` rest on `LineInv` (a record's cost is the one of its answer)
  and on lemmas about the pure operators: what is read out of an answer is a count or nothing
  (`UsageCounts`); a complete estimate lacks no count and no price (`CompleteIs`,
  `NothingLeftOut`), so that its components add up to what the call consumed
  (`BilledIsConsumed`); adding up by models is adding up (`SumGroups`).
  `FamiliesAreOneCall` has the longest argument. A walk of `Calls` steps that has not ended has
  met a call twice (pigeonhole, `LongWalkCircles`), so `InCycle` is a property of the whole
  family (`CyclesAreCircular`). `Family`, defined by reachability in both directions, is the least
  set no link leaves (`FamilyIsWhole`); without a circle it is the set of calls with one root
  (`FamilyByRoot`). `component` is followed level by level: the k-th level lists, each once, the
  calls of the family at depth k (`ComponentListed`). `NamesInv`, the strengthening, says that the
  records made since the registry last changed carry the names the registry gives now.

* `ReplayIndexProofs`. `IInv` is `TypeOK`, `StateInv` of *every* committed index state (not only
  of the last, because a power loss goes back to an earlier one), and `CalmInv`, what a calm
  check has read so far. `StateInv` says of a state what its `history` has made of it: rows come
  from lines of the ledger, and a replayed state holds the first occurrences of a prefix. The
  action property, `ReplaysAreWhole`, follows step by step.

* `EventLedgerProofs`, second part. `BookInv` is `RecordsLocate`, `PendingCoversUnsynced` and
  `OrderInv`. The first two are inductive as they stand once `IInv` holds; the order of a strict
  session's lines is not, and `OrderInv` ties it to `_monotonic_seen`, which bounds every line
  written and, between check and write, is the time of the event under way.

* `TaskAttributionProofs`. What is recorded is true of the machine (`Recorded`): processes are
  numbered in the order of birth, no two that live share a PID, no PID is handed on within one
  tick, and an event's PIDs and start times are those of its processes. From this the lemmas
  follow the engine: a lookup that is exact finds the process it was asked for, an edge that is
  certain is a true fork, and a path of certain edges ends in a process of the root's tick,
  which the process descends from (`Claimed`, which a true fork hands on to the child). This
  gives `CertaintyIsTrue`, with the exceptions its property names and no hypothesis.
  `TracedAreCertain` goes the other way, by induction along the chain of forks;
  `CertaintyStays` shows that each quantity the engine's confidence depends on moves only one
  way when an event is appended.

* `ContainerMapperProofs`. `IInv` says of each container when its `finished` and PID can change
  (`BoxInv`), of each snapshot taken by an inspect what it is still worth after the world has
  moved on (`SnapshotInv`), and of the query which listed containers it has dealt with
  (`QueryInv`). A snapshot's end is final only for a container that was started once, and its PID
  only while the container is in the run that was seen: this is where restarts come in, and where
  `StartedAgain` is needed. `TranslationIsTrue` is about any
  finite set of mounts: the longest destination that is a prefix of the path is where the
  kernel's walk last changes to another file system.

* `HttpConnectionProofs`. The invariant says what a parser, whatever bytes it is fed, can have in
  hand: a draft that is not marked as cut has read as much of the body as its payload holds, no
  more than the limit, and the batch of finished messages is made of such drafts (`SoundParser`).
  Every state of `_run` preserves it, the paths that end a message early included, which gives
  `PayloadsHonest`. `NoExchangeLost` follows from `HistorySound`: the requests recorded or
  waiting are the requests captured, in order, and the final responses recorded are those
  captured, at every point *inside* the two loops, where a batch is half handled; `ClosedIsQuiet`
  says that what is closed has nothing in hand any more. Nothing is assumed of the bytes but that
  they are bytes (`DialogueAssumption`).
* `HttpConnectionProofs`, the SSE decoder. `Agrees(d, evs, b, final, c)` says that the decoder
  has processed exactly the lines of `b` up to the line end `c`: the buffer is the rest, the
  search resumes before the next line end (`Settled`), the event under construction is the one
  those lines leave open (`Open`), `pending` is its size, and the events returned are theirs.
  One round of `_drain` moves `c` to the next line end (`TurnIs`, with `NextLineIs` for
  `_next_line` and `RoundIs` for a line's effect; `OpenGrown` and `EventsGrown` say what one
  more line does to the reference), or fails for a reason `Known` lists. A drain is as many
  rounds as there are bytes (`DrainIs`), which is enough since each round consumes one. The
  bytes of the next feed leave the lines before them as they are (`StableLines`): this is where
  a CR at the end must wait, since the byte behind it decides where its line ends. `SseIInv`
  says of a stream that the decoder agrees with what was received, with all its lines processed
  (`Right`), or has given up for a known reason with a prefix of the events (`Lost`), and that
  the analysis is the one of the events returned (`AnalysisRight`). `EventsDelivered` and
  `LimitsHold` follow at once. `VerdictsHold` needs that what the decoder has left over shows
  in the bytes (`LeftoverShows`) and that an object is whole only with its last byte
  (`ObjectIsWhole`, from `ObjectsAssumption`). `UsageHolds` needs that nothing merged is
  nothing found (`NothingMerged`), and that a decoder that gave up, whose events are only a
  prefix, is reported as truncated.

* `CallAttributionProofs`. `IInv` says that whatever is recorded lies in the past and is finite,
  that a write is of the process and carries an id of the tool that made it (`WriteInv`), that a
  declaration gives the process of its tool (`DeclInv`), and that a tool is declared before it
  writes (`DeclaredFirst`). The last is the strengthening: it tells that a declared tool that the
  engine can see is no later than its write, so that the segment which the write falls into either
  begins with it or is later, and then the write is out of sight. It is inductive because a tool
  starts once (`started`). A segment may have several declarations, since they may share a time;
  the claim is then one of many owners, or it has one of three forms (`MarkerCases`).
  `WrongMarkersAreDoubted` needs that one of the calls of the windows survives the cut to
  `max_candidates` (`EachCallIsKept`); `TrueCallIsKept` says what the cut may do to the true call.
  `CertainMarkersAreTrue` has no hypothesis about PIDs, clocks or the number of tools that run at
  once; where the code is certain and wrong, the property says so, and the proof shows that the
  cases it names are all (`SegmentIsJustified`, `CorrelationIsJustified`). That the graph accepts
  every claim (`MarkersAreAcceptable`) needs that an ambiguous claim keeps a second candidate
  (`TwoAreKept`).

* `AuditVerdictProofs`. `IInv` says that a running agent's kernel was validated for its policy
  (`StartInv`) and, under an enforced policy as long as no directory above a protected one was
  renamed, that the names inside have the files they had (`Intact`), that a file with a name
  inside and one outside had one outside from the start (`Apart`), and that only such files
  inside have changed (`Unchanged`). `Apart` is the strengthening: links and renames could give
  a protected file an outside name, and a write to that name is not refused. It is kept because
  the enforcement model looks at the source of a rename or link as well as at its target (lemma
  `NothingProtectedTouched`). For a directory that is renamed this takes a theory of prefixes:
  a path neither in nor above a protected directory has no name inside below it, and takes none
  there (`PrefixesCompare`, `NothingBelow`, `CarriedBelow`, `RenameAside`). `AuditInv` relates
  the record to the truth: every event is one of a deed and, if none was lost, every recorded
  kind of deed has one (`EventInv`); every call has exactly one line, which claims no more than
  is true (`LineInv`). `VerdictsAreTrue` then bounds the sums the cost rule compares by the
  sums that were spent (`SumDominated`) on the calls whose lines have their currency; the
  others are `Overlooked`, and no hypothesis is left. `ViolationsStand` needs none either: a
  longer ledger only adds to what a rule counts.

Two techniques recur. The prover cannot apply an induction theorem, which takes an operator; the
lemmas `Least` and `Induction` state induction over the naturals for a *set*, so that the set of
numbers of which a statement holds can be formed and filled. A recursive function or a fold has
its equation only if some function satisfies it, which is proved by such an induction
(`SumExists`, `Recursion`); sums are folds of the community modules, and their laws (`SumSplits`,
`SumDominated`, `SumGroups`) are lemmas.

What the proofs changed. `CostFindings` was a `CASE` with overlapping guards, which TLA+ does not
try in order: the specification allowed verdicts the code cannot give, although TLC, which does
try them in order, never took them. It is an `IF` now, and every other `CASE` has exclusive
guards. `CertaintyIsStable` turned out false for recordings without lineage (section 4).
`Spent`, `Known`, `Summary` and the merging of usage containers were rewritten as folds and
direct definitions, and `Children` chooses the increasing sequence instead of sorting, so that
they could be reasoned about.

`TrueCallIsCandidate` did not say that the list of candidates may be full; with `MaxCandidates`
below the number of calls it is false without that exception. `StartTool` could start the tool of
a call twice, which no application that the declarations describe does; `DeclaredFirst` would not
be inductive then. The audit had a hypothesis about lines without currency, the mapper one about
restarts and the markers two about PIDs; each became an exception that the property states.

The reference of the SSE decoder was a set of nested filters over positions; it was taken apart
into `LineEnds`, `Lines`, `Open` and `EventsOf`, each with a lemma of its own. `LimitsEnforced`
is stronger than it was: `widest` was the fullest buffer, which comes close to repeating the
check, and is now the most bytes one feed brought. That needs a line of exactly
`max_event_bytes`, whose terminator is in the buffer with it, to count as too long
(`HasOversizedLine`): it is refused when the fragment ends between CR and LF. `VerdictSound` is
false of a document with bytes behind its object, cut inside them: all that matters has
arrived, and "complete" is the code's right answer. `ObjectsAssumption` excludes it.

Only model-checked: `FramedPromptly` and `PairedRight`, which are about dialogues that are well
formed and would need a theory of which byte sequences those are, by induction over data; and the
liveness properties `ReleaseCompletes` and `CallsReturn` (the proof system handles no fairness).

## 6. Assumptions and what is left out

* A successful `os.fsync` makes everything the operating system holds of the file durable;
  power loss keeps a prefix of the file at least as long as that. After a failed fsync
  nothing more is durable than before.
* `io.BufferedWriter` behaves as CPython's: it drains its buffer before a line that does not
  fit, writes longer lines directly, keeps what a failed raw write left, and puts the rest of
  a short direct write into the buffer if it fits.
* The lock file is never deleted by others; `lock=False` is not modelled; the callers of one
  writer are one thread (the class has no lock of its own).
* Events are legal and within `MAX_EVENT_BYTES`, except for the counter snapshots named above.
* HTTP: gzip decoding, the HTTP/2 preface and diagnostics other than failure are left out;
  a connection has no retry registry and no price table.
* SSE: a document has no bytes behind its object (`ObjectsAssumption`). A `retry:` value that
  `isdigit()` accepts and `int()` refuses (like a superscript digit) makes `feed` raise
  (`llm/sse.py:243-244`) and is left out.
* SSE and accounting: white space inside values, how a text is decoded and diagnostics are left
  out; retry reasons and evidence, reasoning and total tokens, and model lookup by prefix as
  well. Negative token counts and prices are excluded by assumption. The registry and the
  ledger belong to one thread.
* Task attribution: a PID is not handed on within one clock tick. One run, one task; a
  collector that reports a start time reports the true one. Every process has its parent's
  cgroup. `TracedIsCertain` speaks of forks reported in the parent's name with both times.
* Call attribution: a tool runs once, in the process of its call, and is declared when it
  starts; an id on an event is its tool's or its call's; tool ids and call ids differ; a PID is
  used again after its process has ended; each call has one connection, and `max_candidates` is
  at least two. The run `calls` has distinct PIDs, the theorems any. Network, process and shell
  effects are attributed by the same code as file effects and left out, as are the score
  against truth, the switches that drop a rule, and several runs in one graph.
* Containers: docker reports what the daemon knows at the moment of the command, and ids are
  not used again. `map_labels` and `map_filters` repeat `map_label` and are left out.
* Audit: a call's line is never more certain than the call (`cost_complete` only if the cost is
  all of it), and names its currency or none. No name of a file is a directory above another;
  making and removing directories is none of the operations; the directories renamed are those
  whose files stay within `Names`; nothing is renamed through a symbolic link or a bind mount.
* Left out, with the reason of each, under `components` in `PROJECT.json`: the event model and
  schema, messages and shared types (pure validation), the rendering of reports, the evaluation
  metrics, the doctor and the command line, the attach probe, and the scripts.

## 7. Plan

1. Done: ledger, lock, index and replay, counters, and the accounting of calls; HTTP/1 parser
   and reconstructor; SSE decoder with the analysis of events and documents; attribution of
   processes to tasks and of effects to calls; the container mapper; audit verdicts under the
   enforcement model. Every safety property of the ledger, the lock, the index, the counters, the
   attribution of processes and of effects, the mapper, the audit, the accounting and the SSE
   decoder is proved, and of the connection that payloads are honest and no exchange is lost.
2. Next, proofs: a theory of well-formed dialogues, for `FramedPromptly` and `PairedRight`.
3. Later: several runs in one evidence graph; network, process and shell effects; symbolic links
   in the audited file system.
