---------------------------- MODULE EventLedger ----------------------------
(***************************************************************************)
(* The append-only JSONL event ledger of agent_probe/events/ledger.py:     *)
(* one JsonlEventLedger at a time on one path (WriterLock.tla models how   *)
(* the second writer is kept out), its 64 KiB userspace buffer, the file   *)
(* as the operating system holds it, the prefix of that file a power loss  *)
(* cannot take, and the scanner that reads the file back.                  *)
(*                                                                         *)
(* Data abstraction.  The bytes of one ledger line are two pieces: "head", *)
(* any proper prefix of the line, and "end", the rest with its newline.    *)
(* A file is a sequence of pieces, so a line is torn exactly when its head *)
(* is in the file and its end is not.  A line longer than the buffer       *)
(* (LongEvent) is written past the buffer, as io.BufferedWriter does.      *)
(* The kernel's short writes, write errors and failing fsyncs, a killed    *)
(* process and a power loss are nondeterministic.                          *)
(***************************************************************************)
EXTENDS Naturals, Integers, Sequences, FiniteSets

CONSTANTS
  Event,          (* events the callers append, by event_id               *)
  LongEvent,      (* those whose line exceeds _BUFFER_BYTES               *)
  Stream,         (* (run_id, source) pairs                               *)
  StreamOf,       (* [Event -> Stream]                                    *)
  MonotonicNs,    (* [Event -> Nat]: the event's monotonic_ns             *)
  Batches,        (* argument lists append_many is called with            *)
  Modes,          (* [policy, strict] a writer may be opened with         *)
  FsyncEvery,     (* fsync_every_lines                                    *)
  IoFaults,       (* BOOLEAN: whether writes and fsyncs may fail          *)
  BufferPieces,   (* capacity of the userspace buffer, in pieces          *)
  MaxPieces,      (* bound: pieces in the file and the buffer together    *)
  MaxSessions     (* bound: writers opened one after the other            *)

Policies == {"ALWAYS", "BATCH", "NEVER"}

ASSUME EventAssumption ==
  /\ LongEvent \subseteq Event
  /\ StreamOf \in [Event -> Stream]
  /\ MonotonicNs \in [Event -> Nat]
  /\ Batches \subseteq Seq(Event)
ASSUME ModeAssumption ==
  /\ Modes \subseteq [policy : Policies, strict : BOOLEAN]
  /\ Modes # {}
ASSUME BoundAssumption ==
  /\ FsyncEvery \in Nat \ {0}
  /\ IoFaults \in BOOLEAN
  /\ BufferPieces \in Nat /\ BufferPieces >= 2   (* a short line fits *)
  /\ MaxPieces \in Nat
  /\ MaxSessions \in Nat

VARIABLES
  file,      (* the ledger file as the operating system shows it          *)
  synced,    (* length of the prefix a power loss cannot take             *)
  wstate,    (* "closed", "open", or "wedged": close() raised half-way    *)
  mode,      (* fsync_policy and strict_order of the current writer       *)
  buf,       (* pieces in the BufferedWriter, not yet in the file         *)
  lineNo,    (* _line_no                                                  *)
  offset,    (* _offset, in pieces                                        *)
  pending,   (* _pending_lines                                            *)
  seen,      (* _monotonic_seen, -1 where the stream has no entry         *)
  op,        (* the running call                                          *)
  pc,        (* where it stands                                           *)
  todo,      (* events the running call has still to write                *)
  sessions,  (* writers opened so far (bound)                             *)
  base,      (* history: length of the file when this writer opened it    *)
  done,      (* history: events the running call has written              *)
  acked,     (* history: events whose append returned in this session     *)
  handed,    (* history: events the file must show even if the process    *)
             (* is killed                                                 *)
  promised   (* history: events that must survive a power loss            *)

vars == <<file, synced, wstate, mode, buf, lineNo, offset, pending, seen,
          op, pc, todo, sessions, base, done, acked, handed, promised>>

disk    == <<file, synced>>
writer  == <<mode, lineNo, offset, pending, seen>>
control == <<op, pc, todo, done>>
ghosts  == <<acked, handed, promised>>

-----------------------------------------------------------------------------
(* Files, lines and what the scanner reads.                                *)

Piece == [ev : Event, part : {"head", "end"}]

HeadOf(e) == [ev |-> e, part |-> "head"]
EndOf(e)  == [ev |-> e, part |-> "end"]
Line(e)   == <<HeadOf(e), EndOf(e)>>     \* build_envelope_line

IsEnd(f, j)  == f[j].part = "end"
IsHead(f, j) == f[j].part = "head"

(* Piece j ends a line that parses and whose checksum holds: the physical  *)
(* line is exactly the head and the end of one event.                      *)
ValidAt(f, j) ==
  /\ j \in 2..Len(f)
  /\ IsEnd(f, j)
  /\ f[j - 1] = HeadOf(f[j].ev)
  /\ j > 2 => IsEnd(f, j - 2)

(* Piece j ends an event's line glued behind the fragment of a long line:  *)
(* the physical line is MALFORMED_LINE to the scanner.                     *)
GluedAt(f, j) ==
  /\ j \in 3..Len(f)
  /\ IsEnd(f, j)
  /\ f[j - 1] = HeadOf(f[j].ev)
  /\ IsHead(f, j - 2)
  /\ f[j - 2].ev \in LongEvent

(* scan_ledger keeps the first line of each event_id.                      *)
Kept(f, j) ==
  /\ ValidAt(f, j)
  /\ \A i \in 1..(j - 1) : ValidAt(f, i) => f[i].ev # f[j].ev

(* The scanner reports OUT_OF_ORDER for record j: an earlier record of its *)
(* stream has a later monotonic_ns.                                        *)
LateAfter(f, i, j) ==
  /\ Kept(f, i) /\ Kept(f, j) /\ i < j
  /\ StreamOf[f[i].ev] = StreamOf[f[j].ev]
  /\ MonotonicNs[f[j].ev] < MonotonicNs[f[i].ev]

(* Broken variants, to see the properties fail: the tail is not looked at; *)
(* the repair cuts one line too many.                                      *)
TailIgnored(f, n) == n = Len(f)
CutsOneLineMore(f, n) ==
  /\ n \in 0..Len(f)
  /\ n > 0 => IsEnd(f, n)
  /\ Cardinality({j \in (n + 1)..Len(f) : IsEnd(f, j)}) <= 1

(* n is _last_complete_offset: the position after the last newline.        *)
LastComplete(f, n) ==
  /\ n \in 0..Len(f)
  /\ n > 0 => IsEnd(f, n)
  /\ \A j \in (n + 1)..Len(f) : IsHead(f, j)

(* Everything the file will hold once the buffer is drained.               *)
stream == file \o buf

Newlines(f) == Cardinality({j \in 1..Len(f) : IsEnd(f, j)})

-----------------------------------------------------------------------------
(* The end of a call: it returns, or it raises.  An exception inside       *)
(* close() still runs its finally block.                                   *)

Idle ==
  /\ op' = "none"
  /\ pc' = "idle"
  /\ todo' = <<>>
  /\ done' = {}

Raise ==
  /\ IF op = "close"
     THEN pc' = "fhclose" /\ UNCHANGED <<op, todo, done>>
     ELSE Idle
  /\ UNCHANGED ghosts

(* The running call has its file position pushed to the operating system   *)
(* (toDisk = FALSE) or through fsync (toDisk = TRUE).                      *)
HandOver(toDisk) ==
  /\ handed' = handed \cup acked \cup done
  /\ promised' = IF toDisk THEN promised \cup acked \cup done ELSE promised

Return ==
  /\ acked' = acked \cup done
  /\ Idle

-----------------------------------------------------------------------------
(* JsonlEventLedger.__init__: an incomplete tail is refused unless         *)
(* truncate_tail is given; then ftruncate and fsync cut it.                *)
Open(m, truncateTail) ==
  /\ wstate = "closed"
  /\ sessions < MaxSessions
  /\ \E n \in 0..Len(file) :
       /\ LastComplete(file, n)
       /\ n = Len(file) \/ truncateTail
       /\ file' = SubSeq(file, 1, n)
       /\ synced' = IF n = Len(file) THEN synced ELSE n
       /\ base' = n
       /\ lineNo' = Newlines(file')
       /\ offset' = n
  /\ wstate' = "open"
  /\ mode' = m
  /\ pending' = 0
  /\ seen' = [s \in Stream |-> -1]
  /\ sessions' = sessions + 1
  /\ acked' = {}
  /\ UNCHANGED <<buf, control, handed, promised>>

(* The repair cut the tail but its fsync raised, or the process died there:*)
(* the file is shorter and no writer is open.                              *)
RepairFails ==
  /\ IoFaults
  /\ wstate = "closed"
  /\ \E n \in 0..Len(file) :
       /\ LastComplete(file, n) /\ n < Len(file)
       /\ file' = SubSeq(file, 1, n)
       /\ synced' = IF synced <= n THEN synced ELSE n
  /\ UNCHANGED <<wstate, writer, buf, control, sessions, base, ghosts>>

Call(o, at, events) ==
  /\ wstate # "closed"
  /\ op = "none"
  /\ op' = o
  /\ pc' = at
  /\ todo' = events
  /\ Len(stream) + 2 * Len(events) <= MaxPieces
  /\ UNCHANGED <<disk, wstate, writer, buf, sessions, base, done, ghosts>>

AppendEvent(e)  == Call("append", "check", <<e>>)
AppendMany(es)  == Call("append_many", IF es = <<>> THEN "flush" ELSE "check", es)
FlushCall       == Call("flush", "flush", <<>>)
Sync            == Call("sync", "flush", <<>>)
Verify          == Call("verify", "flush", <<>>)
Close           == Call("close", "flush", <<>>)

-----------------------------------------------------------------------------
LateByMoreThanOne(e) == MonotonicNs[e] + 1 < seen[StreamOf[e]]          \* broken

(* _append_no_fsync, up to the write: the order check.  _monotonic_seen    *)
(* moves before the line is written.                                       *)
Late(e) == MonotonicNs[e] < seen[StreamOf[e]]

CheckOrder ==
  /\ pc = "check"
  /\ LET e == Head(todo) IN
       \/ /\ Late(e) /\ mode.strict                    (* OutOfOrderEventError *)
          /\ seen' = seen
          /\ Raise
       \/ /\ ~(Late(e) /\ mode.strict)
          /\ seen' = IF Late(e) THEN seen
                     ELSE [seen EXCEPT ![StreamOf[e]] = MonotonicNs[e]]
          /\ pc' = "write"
          /\ UNCHANGED <<op, todo, done, ghosts>>
  /\ UNCHANGED <<disk, wstate, mode, buf, lineNo, offset, pending, sessions, base>>

(* The write succeeded: the counters move, and the call goes on with the   *)
(* next event, with _maybe_fsync, or with append_many's flush.             *)
FsyncDue(lines) ==
  \/ mode.policy = "ALWAYS"
  \/ mode.policy = "BATCH" /\ lines >= FsyncEvery

Written(e) ==
  /\ lineNo' = lineNo + 1
  /\ offset' = offset + 2
  /\ pending' = pending + 1
  /\ IF op = "append" /\ ~FsyncDue(pending + 1)
     THEN Idle /\ acked' = acked \cup {e}
     ELSE /\ todo' = Tail(todo)
          /\ pc' = IF Tail(todo) = <<>> THEN "flush" ELSE "check"
          /\ done' = done \cup {e}
          /\ UNCHANGED <<op, acked>>
  /\ UNCHANGED <<handed, promised>>

Fits(e) == e \notin LongEvent /\ Len(buf) + 2 <= BufferPieces

(* BufferedWriter.write with room in the buffer, or once it is drained.    *)
WriteBuffered ==
  /\ pc = "write" /\ wstate = "open"
  /\ LET e == Head(todo) IN
       /\ Fits(e)
       /\ buf' = buf \o Line(e)
       /\ Written(e)
  /\ UNCHANGED <<disk, wstate, mode, seen, sessions, base>>

(* No room: the buffer is drained to the file first.                       *)
WriteNeedsDrain ==
  /\ pc = "write" /\ wstate = "open"
  /\ ~Fits(Head(todo)) /\ buf # <<>>
  /\ pc' = "drain"
  /\ UNCHANGED <<disk, wstate, writer, buf, op, todo, done, sessions, base, ghosts>>

(* A long line goes straight to the file.  A short write whose rest fits   *)
(* the buffer leaves the rest there.                                       *)
WriteDirect ==
  /\ pc = "write" /\ wstate = "open"
  /\ ~Fits(Head(todo)) /\ buf = <<>>
  /\ LET e == Head(todo) IN
       /\ \/ file' = file \o Line(e) /\ buf' = buf
          \/ file' = Append(file, HeadOf(e)) /\ buf' = <<EndOf(e)>>
       /\ Written(e)
  /\ UNCHANGED <<synced, wstate, mode, seen, sessions, base>>

(* ... and one that then fails leaves a fragment the writer forgets:       *)
(* LedgerLockError, counters not advanced, nothing left in the buffer.     *)
WriteDirectFails ==
  /\ IoFaults
  /\ pc = "write" /\ wstate = "open"
  /\ ~Fits(Head(todo)) /\ buf = <<>>
  /\ \/ file' = file
     \/ file' = Append(file, HeadOf(Head(todo)))
  /\ Raise
  /\ UNCHANGED <<synced, wstate, writer, buf, sessions, base>>

(* A wedged writer's stream is closed: write and flush raise ValueError.   *)
UseAfterWedge ==
  /\ wstate = "wedged"
  /\ pc \in {"write", "flush"}
  /\ Raise
  /\ UNCHANGED <<disk, wstate, writer, buf, sessions, base>>

-----------------------------------------------------------------------------
(* BufferedWriter's flush loop: raw writes move any non-empty part of the  *)
(* buffer; an error leaves the rest in the buffer.                         *)
Draining == pc \in {"drain", "flush", "fhclose"} /\ wstate = "open"

RawWrite ==
  /\ Draining
  /\ buf # <<>>
  /\ \E n \in 1..Len(buf) :
       /\ file' = file \o SubSeq(buf, 1, n)
       /\ buf' = SubSeq(buf, n + 1, Len(buf))
  /\ pc' = IF pc = "drain" /\ buf' = <<>> THEN "write" ELSE pc
  /\ UNCHANGED <<synced, wstate, writer, op, todo, done, sessions, base, ghosts>>

RawWriteFailsDropping ==                     \* broken: the rest is dropped
  /\ IoFaults
  /\ Draining /\ pc # "fhclose"
  /\ buf # <<>> /\ buf' = <<>>
  /\ Raise
  /\ UNCHANGED <<disk, wstate, writer, sessions, base>>

RawWriteFails ==
  /\ IoFaults
  /\ Draining /\ pc # "fhclose"
  /\ buf # <<>>
  /\ Raise
  /\ UNCHANGED <<disk, wstate, writer, buf, sessions, base>>

(* The buffer is drained: fsync if the call and the policy say so.         *)
WantsFsync ==
  CASE op \in {"append", "sync"} -> TRUE
    [] op = "verify" -> FALSE
    [] OTHER -> mode.policy # "NEVER"

Flushed ==
  /\ pc = "flush" /\ wstate = "open" /\ buf = <<>>
  /\ HandOver(FALSE)
  /\ IF WantsFsync
     THEN pc' = "fsync" /\ UNCHANGED <<op, todo, done, acked>>
     ELSE IF op = "close"
          THEN pc' = "fhclose" /\ UNCHANGED <<op, todo, done, acked>>
          ELSE Return
  /\ UNCHANGED <<disk, wstate, writer, buf, sessions, base>>

(* os.fsync returned: _fsyncs and _pending_lines move.                     *)
Fsync ==
  /\ pc = "fsync"
  /\ synced' = Len(file)
  /\ pending' = 0
  /\ HandOver(TRUE)
  /\ IF op = "close"
     THEN pc' = "fhclose" /\ UNCHANGED <<op, todo, done, acked>>
     ELSE Return
  /\ UNCHANGED <<file, wstate, mode, buf, lineNo, offset, seen, sessions, base>>

FsyncFailsResetting ==                       \* broken: pending starts over
  /\ IoFaults
  /\ pc = "fsync"
  /\ pending' = 0
  /\ Raise
  /\ UNCHANGED <<disk, wstate, mode, lineNo, offset, seen, buf, sessions, base>>

FsyncFails ==
  /\ IoFaults
  /\ pc = "fsync"
  /\ Raise
  /\ UNCHANGED <<disk, wstate, writer, buf, sessions, base>>

(* close()'s finally block: _fh.close() flushes what is left, then _closed *)
(* is set and the write lock released.                                     *)
CloseFile ==
  /\ pc = "fhclose" /\ buf = <<>>
  /\ wstate' = "closed"
  /\ Idle
  /\ UNCHANGED <<disk, writer, buf, sessions, base, ghosts>>

(* ... unless _fh.close() raises: the descriptor is gone and the buffer    *)
(* with it, _closed stays False and the write lock stays held.             *)
CloseFileFails ==
  /\ IoFaults
  /\ pc = "fhclose" /\ buf # <<>>
  /\ wstate' = "wedged"
  /\ buf' = <<>>
  /\ Idle
  /\ UNCHANGED <<disk, writer, sessions, base, ghosts>>

-----------------------------------------------------------------------------
(* The process is killed: the buffer is lost, the file stays.              *)
Kill ==
  /\ wstate # "closed"
  /\ wstate' = "closed"
  /\ buf' = <<>>
  /\ Idle
  /\ UNCHANGED <<disk, writer, sessions, base, ghosts>>

(* Power loss: any part of the file beyond the synced prefix may be gone.  *)
PowerLoss ==
  /\ \E n \in synced..Len(file) : file' = SubSeq(file, 1, n) /\ synced' = n
  /\ wstate' = "closed"
  /\ buf' = <<>>
  /\ Idle
  /\ handed' = promised
  /\ UNCHANGED <<writer, sessions, base, acked, promised>>

-----------------------------------------------------------------------------
Init ==
  /\ file = <<>> /\ synced = 0
  /\ wstate = "closed"
  /\ mode \in Modes
  /\ buf = <<>>
  /\ lineNo = 0 /\ offset = 0 /\ pending = 0
  /\ seen = [s \in Stream |-> -1]
  /\ op = "none" /\ pc = "idle" /\ todo = <<>> /\ done = {}
  /\ sessions = 0 /\ base = 0
  /\ acked = {} /\ handed = {} /\ promised = {}

Next ==
  \/ \E m \in Modes, t \in BOOLEAN : Open(m, t)
  \/ RepairFails
  \/ \E e \in Event : AppendEvent(e)
  \/ \E es \in Batches : AppendMany(es)
  \/ FlushCall \/ Sync \/ Verify \/ Close
  \/ CheckOrder
  \/ WriteBuffered \/ WriteNeedsDrain \/ WriteDirect \/ WriteDirectFails
  \/ UseAfterWedge
  \/ RawWrite \/ RawWriteFails \/ Flushed \/ Fsync \/ FsyncFails
  \/ CloseFile \/ CloseFileFails
  \/ Kill \/ PowerLoss

Spec == Init /\ [][Next]_vars

-----------------------------------------------------------------------------
TypeOK ==
  /\ file \in Seq(Piece) /\ buf \in Seq(Piece)
  /\ synced \in 0..Len(file)
  /\ wstate \in {"closed", "open", "wedged"}
  /\ mode \in [policy : Policies, strict : BOOLEAN]
  /\ lineNo \in Nat /\ offset \in Nat /\ pending \in Nat /\ base \in Nat
  /\ sessions \in Nat
  /\ seen \in [Stream -> Int]
  /\ op \in {"none", "append", "append_many", "flush", "sync", "verify", "close"}
  /\ pc \in {"idle", "check", "write", "drain", "flush", "fsync", "fhclose"}
  /\ todo \in Seq(Event)
  /\ done \subseteq Event /\ acked \subseteq Event
  /\ handed \subseteq Event /\ promised \subseteq Event

(* An event whose append the policy made durable, or that a sync, flush or *)
(* append_many covered, is in the part of the file no power loss can take, *)
(* on a line of its own; the one exception is a line glued behind the      *)
(* fragment that a failed write of a long line left (ledger.py:917-921).   *)
PromiseKept ==
  \A e \in promised : \E j \in 1..synced :
    /\ file[j].ev = e
    /\ ValidAt(file, j) \/ GluedAt(file, j)

(* docs/02-event-ledger.md 3.2: under ALWAYS no event whose append         *)
(* returned is lost.                                                       *)
NoReturnedEventLost ==
  \A e \in promised : \E j \in 1..synced : file[j].ev = e /\ ValidAt(file, j)

(* What flush, verify, sync or close handed to the operating system is in  *)
(* the file for every reader, and stays there when the process is killed.  *)
HandedOverVisible ==
  \A e \in handed : \E j \in 1..Len(file) :
    /\ file[j].ev = e
    /\ ValidAt(file, j) \/ GluedAt(file, j)

(* The line number the writer hands out next is the scanner's, through     *)
(* torn writes, failed flushes, crashes and repairs; the offset is too     *)
(* while no fragment of a long line is in the file.                        *)
Fragment(f) == \E j \in 1..(Len(f) - 1) : IsHead(f, j) /\ IsHead(f, j + 1)
RecordsLocate ==
  wstate = "open" =>
    /\ lineNo = Newlines(stream)
    /\ offset <= Len(stream)
    /\ (Len(stream) > 0 => IsEnd(stream, Len(stream))) /\ ~Fragment(stream)
         => offset = Len(stream)

(* Lines of this session that a power loss could still take are all        *)
(* counted in pending_lines, whatever failed in between.                   *)
Unsynced == {j \in 1..Len(stream) : j > base /\ j > synced /\ IsEnd(stream, j)}
PendingCoversUnsynced ==
  wstate = "open" => Cardinality(Unsynced) <= pending

(* docs/02-event-ledger.md 3.2 and 10.3: BATCH risks fewer than            *)
(* fsync_every_lines lines.                                                *)
BatchLossBound ==
  wstate = "open" /\ mode.policy = "BATCH" /\ pc = "idle"
    => Cardinality(Unsynced) < FsyncEvery

(* Records a strict writer wrote in one session never make the scanner     *)
(* report OUT_OF_ORDER, whatever else failed or was retried.               *)
StrictSessionOrdered ==
  wstate # "closed" /\ mode.strict =>
    \A i, j \in (base + 1)..Len(stream) : ~LateAfter(stream, i, j)

(* What the writer believes of its file is what scan_ledger will say of    *)
(* it: the line numbers, the offsets and the order of the session's lines. *)
ScannerAgrees == RecordsLocate /\ StrictSessionOrdered

-----------------------------------------------------------------------------
(* Readers see an append-only log whose durable part is never lost: the    *)
(* valid lines by position, and those of them a power loss cannot take.    *)
visible == [j \in {i \in 1..Len(file) : ValidAt(file, i)} |-> file[j].ev]
stable  == {j \in DOMAIN visible : j <= synced}

Log == INSTANCE DurableLog WITH log <- visible, stable <- stable
ReadersSeeALog == Log!Spec
=============================================================================
