---------------------------- MODULE LossCounters ----------------------------
(***************************************************************************)
(* The loss and data-quality counters of agent_probe/events/quality.py.    *)
(* Threads feed events to LossCounters objects (one per collection         *)
(* segment), in whatever order the transport delivered them: late,         *)
(* repeated, or not at all.  Every method body runs under the object's     *)
(* lock, so one event, one record_issue, one snapshot is one step; a batch *)
(* (observe_all, add_issues) is not, and stops where one of its items      *)
(* raises.                                                                 *)
(*                                                                         *)
(* Data abstraction.  An event is its stream, its seq (or NoSeq) and the   *)
(* gap it declares; the other loss kinds, events_written and lines_total,  *)
(* which nothing is derived from, are left out, and so are the kinds of    *)
(* issue: they only add up.                                                *)
(*                                                                         *)
(* Names that AuditVerdict has too carry a prefix: AuditVerdictProofs      *)
(* extends both modules.                                                   *)
(***************************************************************************)
EXTENDS Integers, Sequences, FiniteSets

CONSTANTS
  Counter,     (* LossCounters objects                                     *)
  Thread,      (* threads that feed them                                   *)
  Stream,      (* (run_id, source) pairs                                   *)
  Event,       (* [stream, seq, gap, known]: gap is what a quality event   *)
               (* adds to sequence_gap; known is FALSE for a               *)
               (* counter_snapshot that names an unknown counter           *)
  Batches,     (* arguments of observe_all                                 *)
  IssueLists,  (* arguments of add_issues, an illegal count being -1       *)
  Losses,      (* counts record_loss(SEQUENCE_GAP, ...) is called with     *)
  MaxObserved  (* bound: events one counter observes, issues and losses it *)
               (* adds                                                     *)

NoSeq == -1

ASSUME EventAssumption ==
  /\ Event \subseteq [stream : Stream, seq : Nat \cup {NoSeq}, gap : Nat, known : BOOLEAN]
  /\ Batches \subseteq Seq(Event)
  /\ IssueLists \subseteq Seq(Nat \cup {-1})
  /\ Losses \subseteq Nat
  /\ MaxObserved \in Nat

VARIABLES
  gap,          (* _loss[SEQUENCE_GAP]                                     *)
  issues,       (* _issues, summed                                         *)
  lastSeq,      (* _last_seq, NoSeq where the stream has no entry          *)
  observed,     (* _observed                                               *)
  regressions,  (* _regressions                                            *)
  todo,         (* the rest of the events each thread is observing         *)
  adding,       (* the rest of the issue counts it is adding               *)
  target,       (* the counter it feeds                                    *)
  track,        (* its track_sequence_gaps                                 *)
  seen,         (* history: <<stream, seq>> tracked, by counter            *)
  first,        (* history: the seq each stream's tracking began with      *)
  skipped,      (* history: <<stream, seq>> jumped over as lastSeq moved   *)
  declared      (* history: what quality events and record_loss added to   *)
                (* gap                                                     *)

lossVars == <<gap, issues, lastSeq, observed, regressions, todo, adding, target,
          track, seen, first, skipped, declared>>

counts == <<gap, issues, lastSeq, observed, regressions>>
ghosts == <<seen, first, skipped, declared>>

-----------------------------------------------------------------------------
(* observe_all and add_issues begin.                                       *)
Idle(t) == todo[t] = <<>> /\ adding[t] = <<>>

ObserveAll(t, c, events, tr) ==
  /\ Idle(t)
  /\ events # <<>> => observed[c] + Len(events) <= MaxObserved
  /\ todo' = [todo EXCEPT ![t] = events]
  /\ target' = [target EXCEPT ![t] = c]
  /\ track' = [track EXCEPT ![t] = tr]
  /\ UNCHANGED <<counts, ghosts, adding>>

AddIssues(t, c, list) ==
  /\ Idle(t)
  /\ issues[c] < MaxObserved
  /\ adding' = [adding EXCEPT ![t] = list]
  /\ target' = [target EXCEPT ![t] = c]
  /\ UNCHANGED <<counts, ghosts, todo, track>>

(* _track_sequence(event)                                                  *)
Between(s, lo, hi) == {<<s, n>> : n \in (lo + 1)..(hi - 1)}

TrackSequence(c, s, n) ==
  LET previous == lastSeq[c][s] IN
    /\ lastSeq' = IF n > previous THEN [lastSeq EXCEPT ![c][s] = n] ELSE lastSeq
    /\ regressions' = IF previous # NoSeq /\ n <= previous
                      THEN [regressions EXCEPT ![c] = @ + 1] ELSE regressions
    /\ first' = IF previous = NoSeq THEN [first EXCEPT ![c][s] = n] ELSE first
    /\ skipped' = IF previous = NoSeq THEN skipped
                  ELSE [skipped EXCEPT ![c] = @ \cup Between(s, previous, n)]
    /\ seen' = [seen EXCEPT ![c] = @ \cup {<<s, n>>}]

JumpOfOne(c, s, n) ==                        \* broken: one gap, one event
  IF lastSeq[c][s] # NoSeq /\ n > lastSeq[c][s] + 1 THEN 1 ELSE 0

JumpInclusive(c, s, n) ==                    \* broken: off by one
  IF lastSeq[c][s] # NoSeq /\ n > lastSeq[c][s] + 1 THEN n - lastSeq[c][s] ELSE 0

(* How much the jump to n adds to _loss[SEQUENCE_GAP].                     *)
Jump(c, s, n) ==
  LET previous == lastSeq[c][s] IN
    IF previous # NoSeq /\ n > previous + 1 THEN n - previous - 1 ELSE 0

(* observe(event).  _observed moves before _loss_delta_for can raise.      *)
Observe(t) ==
  /\ todo[t] # <<>>
  /\ LET e == Head(todo[t])
         c == target[t]
         tracked == track[t] /\ e.seq # NoSeq
     IN /\ observed' = [observed EXCEPT ![c] = @ + 1]
        /\ \/ /\ ~e.known                                 (* LossCounterError *)
              /\ todo' = [todo EXCEPT ![t] = <<>>]
              /\ UNCHANGED <<gap, lastSeq, regressions, ghosts>>
           \/ /\ e.known
              /\ todo' = [todo EXCEPT ![t] = Tail(@)]
              /\ declared' = [declared EXCEPT ![c] = @ + e.gap]
              /\ gap' = [gap EXCEPT ![c] =
                           @ + e.gap + IF tracked THEN Jump(c, e.stream, e.seq) ELSE 0]
              /\ IF tracked THEN TrackSequence(c, e.stream, e.seq)
                 ELSE UNCHANGED <<lastSeq, regressions, first, skipped, seen>>
  /\ UNCHANGED <<issues, adding, target, track>>

(* record_loss(SEQUENCE_GAP, n)                                            *)
RecordLoss(c, n) ==
  /\ declared[c] < MaxObserved
  /\ gap' = [gap EXCEPT ![c] = @ + n]
  /\ declared' = [declared EXCEPT ![c] = @ + n]
  /\ UNCHANGED <<issues, lastSeq, observed, regressions, todo, adding, target, track,
                 seen, first, skipped>>

(* record_issue, called by add_issues for each count.                      *)
RecordIssue(t) ==
  /\ adding[t] # <<>>
  /\ LET n == Head(adding[t])
         c == target[t]
     IN \/ /\ n < 0                                       (* LossCounterError *)
           /\ adding' = [adding EXCEPT ![t] = <<>>]
           /\ issues' = issues
        \/ /\ n >= 0
           /\ adding' = [adding EXCEPT ![t] = Tail(@)]
           /\ issues' = [issues EXCEPT ![c] = @ + n]
  /\ UNCHANGED <<gap, lastSeq, observed, regressions, todo, target, track, ghosts>>

-----------------------------------------------------------------------------
LossInit ==
  /\ gap = [c \in Counter |-> 0]
  /\ issues = [c \in Counter |-> 0]
  /\ lastSeq = [c \in Counter |-> [s \in Stream |-> NoSeq]]
  /\ observed = [c \in Counter |-> 0]
  /\ regressions = [c \in Counter |-> 0]
  /\ todo = [t \in Thread |-> <<>>]
  /\ adding = [t \in Thread |-> <<>>]
  /\ target \in [Thread -> Counter]
  /\ track = [t \in Thread |-> TRUE]
  /\ seen = [c \in Counter |-> {}]
  /\ first = [c \in Counter |-> [s \in Stream |-> NoSeq]]
  /\ skipped = [c \in Counter |-> {}]
  /\ declared = [c \in Counter |-> 0]

LossNext ==
  \/ \E t \in Thread :
       \/ \E c \in Counter, events \in Batches, tr \in BOOLEAN : ObserveAll(t, c, events, tr)
       \/ \E c \in Counter, list \in IssueLists : AddIssues(t, c, list)
       \/ Observe(t) \/ RecordIssue(t)
  \/ \E c \in Counter, n \in Losses : RecordLoss(c, n)

LossSpec == LossInit /\ [][LossNext]_lossVars

-----------------------------------------------------------------------------
LossTypeOK ==
  /\ gap \in [Counter -> Nat]
  /\ issues \in [Counter -> Nat] /\ observed \in [Counter -> Nat]
  /\ regressions \in [Counter -> Nat] /\ declared \in [Counter -> Nat]
  /\ lastSeq \in [Counter -> [Stream -> Nat \cup {NoSeq}]]
  /\ first \in [Counter -> [Stream -> Nat \cup {NoSeq}]]
  /\ seen \in [Counter -> SUBSET (Stream \X Nat)]
  /\ skipped \in [Counter -> SUBSET (Stream \X Nat)]
  /\ todo \in [Thread -> Seq(Event)] /\ adding \in [Thread -> Seq(Int)]
  /\ target \in [Thread -> Counter] /\ track \in [Thread -> BOOLEAN]

(* What counter c ought to report: the numbers of each stream after the    *)
(* one its tracking began with and below one that came, that did not come. *)
Missing(c) ==
  (UNION {Between(x[1], first[c][x[1]], x[2]) : x \in seen[c]}) \ seen[c]

(* Whatever comes late, twice or never, and whichever thread brings it, no *)
(* missing number goes uncounted: zero_known_loss is never said of a       *)
(* stream with a hole (quality.py:346-359, docs/02-event-ledger.md 5.2).   *)
NoGapUncounted ==
  \A c \in Counter : declared[c] + Cardinality(Missing(c)) <= gap[c]

(* What is counted beyond that came late after all, and each such number   *)
(* is also among the sequence_regressions.                                 *)
OvercountIsRegressions ==
  \A c \in Counter : gap[c] <= declared[c] + Cardinality(Missing(c)) + regressions[c]
=============================================================================
