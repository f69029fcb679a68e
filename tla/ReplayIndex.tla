---------------------------- MODULE ReplayIndex ----------------------------
(***************************************************************************)
(* The SQLite index derived from the event ledger, and the replays that    *)
(* fill it: agent_probe/events/index.py (index_records, index_events,      *)
(* rebuild, count, digest) and agent_probe/events/replay.py (replay,       *)
(* replay_into_index, verify_against_ledger), run by several processes     *)
(* while the ledger grows, up to a power loss.                             *)
(*                                                                         *)
(* Data abstraction.  An event is a version: its event_id and the checksum *)
(* of its content.  A ledger line is a version, or Bad for any line the    *)
(* scanner skips.  A digest is the sequence it hashes.  A row's id counts  *)
(* from one after each reset: only the order of ids matters.  One          *)
(* transaction (BEGIN IMMEDIATE ... COMMIT) is one step, as is one SELECT. *)
(***************************************************************************)
EXTENDS Naturals, Sequences, FiniteSets

CONSTANTS
  Version,     (* (event_id, checksum) pairs                               *)
  Id,          (* event ids                                                *)
  IdOf,        (* [Version -> Id]                                          *)
  Poison,      (* legal quality.counter_snapshot events whose counters     *)
               (* name something that is no LossKind                       *)
  Bad,         (* a line that scan_ledger skips                            *)
  Batches,     (* lists of events index_events is called with              *)
  Proc,        (* processes that replay and verify                         *)
  MaxLines,    (* bound: ledger lines                                      *)
  MaxCommits   (* bound: index transactions                                *)

ASSUME VersionAssumption ==
  /\ IdOf \in [Version -> Id]
  /\ Poison \subseteq Version
  /\ Bad \notin Version
  /\ Batches \subseteq Seq(Version)
ASSUME CountAssumption == MaxLines \in Nat /\ MaxCommits \in Nat

VARIABLES
  ledger,    (* the lines of the authoritative file                        *)
  stable,    (* how many of them a power loss cannot take                  *)
  commits,   (* index states a power loss may leave, the current one last: *)
             (* WAL with synchronous=NORMAL may lose the last transactions *)
  pc,        (* where each process stands                                  *)
  scan,      (* lines its scan_ledger read.  Only a power loss, which      *)
             (* kills the process, can change them under it                *)
  reset,     (* its reset_index argument                                   *)
  calm       (* history: verifying processes that began with the index     *)
             (* equal to the scan, and nothing has been written since      *)

vars == <<ledger, stable, commits, pc, scan, reset, calm>>

NoLine == 0      \* ledger_line IS NULL

Row == [ver : Version, line : Nat, row : Nat]

(* An index state: the rows; history: whether its transaction was a reset, *)
(* whether something other than a replay wrote since the last reset, and   *)
(* whether a power loss took ledger lines that rows point to.              *)
IndexState == [rows : SUBSET Row, cleared : BOOLEAN, loose : BOOLEAN, strayed : BOOLEAN]

db == commits[Len(commits)]

-----------------------------------------------------------------------------
(* What scan_ledger yields for a file: the first valid line of each event  *)
(* id, with its line number, in order.                                     *)
FirstOfId(f, j) ==
  /\ f[j] # Bad
  /\ \A i \in 1..(j - 1) : f[i] # Bad => IdOf[f[i]] # IdOf[f[j]]

FirstLines(f) == {j \in 1..Len(f) : FirstOfId(f, j)}
NthFirst(f, k) ==
  CHOOSE j \in FirstLines(f) : Cardinality({i \in FirstLines(f) : i < j}) = k - 1

NumberedByRecord(f) ==                       \* broken: skipped lines not counted
  [k \in 1..Cardinality(FirstLines(f)) |-> [ver |-> f[NthFirst(f, k)], line |-> k]]

Records(f) ==
  [k \in 1..Cardinality(FirstLines(f)) |->
     [ver |-> f[NthFirst(f, k)], line |-> NthFirst(f, k)]]

Scanned(p) == Records(SubSeq(ledger, 1, scan[p]))

ById(r, s) == r.row < s.row                  \* broken: ORDER BY id

(* The digests.  index: ORDER BY (ledger_line IS NULL), ledger_line, id.   *)
Before(r, s) ==
  \/ r.line # NoLine /\ s.line = NoLine
  \/ (r.line = NoLine <=> s.line = NoLine)
     /\ (r.line < s.line \/ (r.line = s.line /\ r.row < s.row))

NthRow(rows, k) == CHOOSE r \in rows : Cardinality({s \in rows : Before(s, r)}) = k - 1

Versions(items) == [k \in 1..Len(items) |-> items[k].ver]
Digest(rows)    == [k \in 1..Cardinality(rows) |-> NthRow(rows, k).ver]

-----------------------------------------------------------------------------
(* index_records                                                           *)

Items(events) == [k \in 1..Len(events) |-> [ver |-> events[k], line |-> NoLine]]
IdAt(items, k) == IdOf[items[k].ver]

ConflictInBatch(rows, items) ==              \* broken: stored rows not looked at
  \E k \in 1..Len(items), j \in 1..Len(items) :
    IdAt(items, j) = IdAt(items, k) /\ items[j].ver # items[k].ver

(* _reject_conflicts: one id with two contents, within the batch or with a *)
(* stored row.                                                             *)
Conflict(rows, items) ==
  \E k \in 1..Len(items) :
    \/ \E j \in 1..(k - 1) :
         IdAt(items, j) = IdAt(items, k) /\ items[j].ver # items[k].ver
    \/ \E r \in rows :
         IdOf[r.ver] = IdAt(items, k) /\ r.ver # items[k].ver

(* INSERT ... ON CONFLICT(event_id) DO NOTHING, for each item in turn.     *)
Insert(rows, items) ==
  LET new == {k \in 1..Len(items) :
                /\ \A r \in rows : IdOf[r.ver] # IdAt(items, k)
                /\ \A j \in 1..(k - 1) : IdAt(items, j) # IdAt(items, k)}
      RowId(k) == Cardinality(rows) + Cardinality({j \in new : j <= k})
  IN  rows \cup {[ver |-> items[k].ver, line |-> items[k].line, row |-> RowId(k)]
                   : k \in new}

ClearIgnored(rows, clear) == rows            \* broken
Cleared(rows, clear) == IF clear THEN {} ELSE rows

(* One transaction.  A conflict or an sqlite3 error rolls it back.  With   *)
(* nothing to write and nothing to clear there is none.                    *)
Commit(items, clear, byReplay) ==
  LET rows == Cleared(db.rows, clear) IN
  IF items = <<>> /\ ~clear THEN UNCHANGED <<commits, calm>>
  ELSE
    /\ Len(commits) <= MaxCommits
    /\ ~Conflict(rows, items)
    /\ commits' = Append(commits,
         [rows    |-> Insert(rows, items),
          cleared |-> clear,
          loose   |-> (db.loose /\ ~clear) \/ (~byReplay /\ items # <<>>),
          strayed |-> db.strayed /\ ~clear])
    /\ calm' = {}

-----------------------------------------------------------------------------
(* The ledger's writer (EventLedger.tla): lines are appended, and synced.  *)
AppendLine(v) ==
  /\ Len(ledger) < MaxLines
  /\ ledger' = Append(ledger, v)
  /\ calm' = {}
  /\ UNCHANGED <<stable, commits, pc, scan, reset>>

SyncLedger ==
  /\ stable < Len(ledger)
  /\ stable' = Len(ledger)
  /\ UNCHANGED <<ledger, commits, pc, scan, reset, calm>>

(* index_events: events without a place in the ledger.                     *)
IndexEvents(events, clear) ==
  /\ Commit(Items(events), clear, FALSE)
  /\ UNCHANGED <<ledger, stable, pc, scan, reset>>

(* index_records([record]) with the record an append returned.             *)
IndexRecord(j) ==
  /\ ledger[j] # Bad
  /\ Commit(<<[ver |-> ledger[j], line |-> j]>>, FALSE, FALSE)
  /\ UNCHANGED <<ledger, stable, pc, scan, reset>>

-----------------------------------------------------------------------------
(* A process that is not running a call: its last one returned, raised     *)
(* LossCounterError, or found a mismatch.                                  *)
AtRest == {"idle", "raised", "mismatch"}

Done(p, outcome) ==
  /\ pc' = [pc EXCEPT ![p] = outcome]
  /\ scan' = [scan EXCEPT ![p] = 0]
  /\ reset' = [reset EXCEPT ![p] = FALSE]

(* replay: scan, count (a poisoned counter snapshot raises), write.        *)
ReplayScan(p, clear) ==
  /\ pc[p] \in AtRest
  /\ scan' = [scan EXCEPT ![p] = Len(ledger)]
  /\ reset' = [reset EXCEPT ![p] = clear]
  /\ pc' = [pc EXCEPT ![p] = "observe"]
  /\ UNCHANGED <<ledger, stable, commits, calm>>

ObserveAll(p) ==
  /\ pc[p] = "observe"
  /\ IF \E k \in 1..Len(Scanned(p)) : Scanned(p)[k].ver \in Poison
     THEN Done(p, "raised")
     ELSE pc' = [pc EXCEPT ![p] = "write"] /\ UNCHANGED <<scan, reset>>
  /\ UNCHANGED <<ledger, stable, commits, calm>>

(* rebuild or index_records, in one transaction.                           *)
ReplayWrite(p) ==
  /\ pc[p] = "write"
  /\ Commit(Scanned(p), reset[p], TRUE)
  /\ Done(p, "idle")
  /\ UNCHANGED <<ledger, stable>>

ReplayRollback(p) ==
  /\ pc[p] = "write"
  /\ Done(p, "idle")
  /\ UNCHANGED <<ledger, stable, commits, calm>>

-----------------------------------------------------------------------------
(* verify_against_ledger: scan, then count, then digest.                   *)
InStep(rows, items) ==
  {[ver |-> r.ver, line |-> r.line] : r \in rows} = {items[k] : k \in 1..Len(items)}

VerifyScan(p) ==
  /\ pc[p] \in AtRest
  /\ scan' = [scan EXCEPT ![p] = Len(ledger)]
  /\ pc' = [pc EXCEPT ![p] = "count"]
  /\ calm' = IF InStep(db.rows, Records(ledger)) THEN calm \cup {p} ELSE calm \ {p}
  /\ UNCHANGED <<ledger, stable, commits, reset>>

VerifyCount(p) ==
  /\ pc[p] = "count"
  /\ pc' = [pc EXCEPT ![p] =
       IF Cardinality(db.rows) = Len(Scanned(p)) THEN "digest" ELSE "miscounted"]
  /\ UNCHANGED <<ledger, stable, commits, scan, reset, calm>>

VerifyDigest(p) ==
  /\ pc[p] \in {"digest", "miscounted"}
  /\ Done(p, IF pc[p] = "digest" /\ Digest(db.rows) = Versions(Scanned(p))
             THEN "idle" ELSE "mismatch")
  /\ UNCHANGED <<ledger, stable, commits, calm>>

-----------------------------------------------------------------------------
(* SQLite checkpoints its WAL: the current state is on disk.               *)
Checkpoint ==
  /\ Len(commits) > 1
  /\ commits' = <<db>>
  /\ UNCHANGED <<ledger, stable, pc, scan, reset, calm>>

(* Power loss: unsynced ledger lines and the last index transactions may   *)
(* be gone, one without the other; every process is.                       *)
PowerLoss ==
  /\ \E n \in stable..Len(ledger), k \in 1..Len(commits) :
       /\ ledger' = SubSeq(ledger, 1, n)
       /\ stable' = n
       /\ commits' = <<[commits[k] EXCEPT
            !.strayed = @ \/ \E r \in commits[k].rows : r.line > n]>>
  /\ pc' = [p \in Proc |-> "idle"]
  /\ scan' = [p \in Proc |-> 0]
  /\ reset' = [p \in Proc |-> FALSE]
  /\ calm' = {}

Init ==
  /\ ledger = <<>> /\ stable = 0
  /\ commits = <<[rows |-> {}, cleared |-> FALSE, loose |-> FALSE, strayed |-> FALSE]>>
  /\ pc = [p \in Proc |-> "idle"]
  /\ scan = [p \in Proc |-> 0]
  /\ reset = [p \in Proc |-> FALSE]
  /\ calm = {}

Next ==
  \/ \E v \in Version \cup {Bad} : AppendLine(v)
  \/ SyncLedger
  \/ \E events \in Batches, clear \in BOOLEAN : IndexEvents(events, clear)
  \/ \E j \in 1..Len(ledger) : IndexRecord(j)
  \/ \E p \in Proc :
       \/ \E clear \in BOOLEAN : ReplayScan(p, clear)
       \/ ObserveAll(p) \/ ReplayWrite(p) \/ ReplayRollback(p)
       \/ VerifyScan(p) \/ VerifyCount(p) \/ VerifyDigest(p)
  \/ Checkpoint \/ PowerLoss

Spec == Init /\ [][Next]_vars

-----------------------------------------------------------------------------
TypeOK ==
  /\ ledger \in Seq(Version \cup {Bad})
  /\ stable \in 0..Len(ledger)
  /\ commits \in Seq(IndexState) /\ commits # <<>>
  /\ pc \in [Proc -> AtRest \cup {"observe", "write", "count", "digest", "miscounted"}]
  /\ scan \in [Proc -> 0..Len(ledger)]
  /\ reset \in [Proc -> BOOLEAN]
  /\ calm \subseteq Proc

(* A row's ledger_line leads back to the event it was built from, whoever  *)
(* wrote it and whatever was appended since, unless a power loss took the  *)
(* line from under it and no rebuild followed.                             *)
RowsLocate ==
  /\ TypeOK
  /\ ~db.strayed =>
       \A r \in db.rows : r.line # NoLine =>
         r.line <= Len(ledger) /\ ledger[r.line] = r.ver

(* An index written only by replays is, whichever of them reset it and     *)
(* however old their scans were, the image of a prefix of the ledger.      *)
IndexIsPrefix ==
  ~db.loose /\ ~db.strayed =>
    \E n \in 0..Len(ledger) :
      /\ Digest(db.rows) = Versions(Records(SubSeq(ledger, 1, n)))
      /\ InStep(db.rows, Records(SubSeq(ledger, 1, n)))

(* verify_against_ledger raises no alarm over an index that equals the     *)
(* ledger from its scan to its digest (docs/02-event-ledger.md 4.3).       *)
NoFalseAlarm == \A p \in calm : pc[p] # "mismatch"

(* A replay that returns has all of its events in the index with its       *)
(* content, none of them kept from an older version.                       *)
BatchIsWhole ==
  [][\A p \in Proc : pc[p] = "write" /\ Len(commits') > Len(commits) /\ pc'[p] = "idle" =>
       \A k \in 1..Len(Scanned(p)) :
         \E r \in db'.rows : r.ver = Scanned(p)[k].ver]_vars

(* docs/02-event-ledger.md 4.1: a deleted index can be rebuilt from the    *)
(* ledger.  No legal event in it stops the replay.                         *)
RebuildPossible == \A p \in Proc : pc[p] # "raised"
=============================================================================
