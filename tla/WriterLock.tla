----------------------------- MODULE WriterLock -----------------------------
(***************************************************************************)
(* How one ledger path gets a single writer: _acquire_writer_lock,         *)
(* _release_writer_lock and the lock handling of JsonlEventLedger.__init__ *)
(* and close in agent_probe/events/ledger.py, run by the threads of        *)
(* several processes.  Each attempt opens the lock file anew, so the flock *)
(* excludes threads of one process too; _INPROCESS_LOCKS is a second,      *)
(* per-process registry read and written under its own guard, but not in   *)
(* one critical section with the flock.                                    *)
(*                                                                         *)
(* Names that EventLedger has too carry a prefix: EventLedgerProofs        *)
(* extends both modules.                                                   *)
(***************************************************************************)
EXTENDS Naturals, FiniteSets

CONSTANTS
  Thread,        (* threads that open and close writers on the path        *)
  Process,       (* their processes                                        *)
  ProcessOf,     (* [Thread -> Process]                                    *)
  NoOne          (* the flock is free                                      *)

ASSUME ThreadAssumption ==
  /\ ProcessOf \in [Thread -> Process]
  /\ NoOne \notin Thread

VARIABLES
  place,     (* where each thread stands                                   *)
  flock,     (* the thread whose descriptor holds the flock, or NoOne      *)
  registry,  (* processes whose _INPROCESS_LOCKS contains the path         *)
  fh,        (* threads with the ledger file open for appending            *)
  lost,      (* history: threads whose locked descriptor nobody will close *)
  stuck      (* history: processes left registered by an os.close that     *)
             (* raised before the discard                                  *)

lockVars == <<place, flock, registry, fh, lost, stuck>>

Steps == {"idle", "flock", "diag", "register", "init", "tail", "writing",
          "wedged", "unlock", "closefd", "discard"}

Goto(t, step) == place' = [place EXCEPT ![t] = step]

LockInit ==
  /\ place = [t \in Thread |-> "idle"]
  /\ flock = NoOne
  /\ registry = {}
  /\ fh = {}
  /\ lost = {}
  /\ stuck = {}

-----------------------------------------------------------------------------
(* _acquire_writer_lock                                                    *)

(* An os.close that raises on the way out skips the discard that follows.  *)
LeaveRegistered(t) == stuck' = stuck \cup (registry \cap {ProcessOf[t]})

(* The registry is looked up under the guard, and the guard is left.       *)
CheckRegistry(t) ==
  /\ place[t] = "idle"
  /\ ProcessOf[t] \notin registry          (* else ConcurrentWriterError    *)
  /\ Goto(t, "flock")
  /\ UNCHANGED <<flock, registry, fh, lost, stuck>>

(* Opening the lock file may raise; flock(LOCK_EX | LOCK_NB) never waits,  *)
(* a held lock is an error.                                                *)
TryFlock(t) ==
  /\ place[t] = "flock"
  /\ \/ flock = NoOne /\ flock' = t /\ Goto(t, "diag")
     \/ flock' = flock /\ Goto(t, "idle")
  /\ UNCHANGED <<registry, fh, lost, stuck>>

WriteOwnerLeaking(t) ==                      \* broken: the error keeps the flock
  /\ place[t] = "diag"
  /\ Goto(t, "register") \/ Goto(t, "idle")
  /\ UNCHANGED <<flock, registry, fh, lost, stuck>>

(* Writing the diagnostic text into the lock file; an OSError unlocks and  *)
(* closes the descriptor, unless LOCK_UN raises too: then the descriptor   *)
(* stays open, and locked, until the process dies.                         *)
WriteOwner(t) ==
  /\ place[t] = "diag"
  /\ \/ Goto(t, "register") /\ UNCHANGED <<flock, lost>>
     \/ Goto(t, "idle") /\ flock' = NoOne /\ lost' = lost
     \/ Goto(t, "idle") /\ flock' = flock /\ lost' = lost \cup {t}
  /\ UNCHANGED <<registry, fh, stuck>>

Register(t) ==
  /\ place[t] = "register"
  /\ registry' = registry \cup {ProcessOf[t]}
  /\ Goto(t, "init")
  /\ UNCHANGED <<flock, fh, lost, stuck>>

-----------------------------------------------------------------------------
(* JsonlEventLedger.__init__ after the lock: os.open may fail; then the    *)
(* tail is inspected, repaired or refused, and a refusal closes the file.  *)
OpenLedger(t) ==
  /\ place[t] = "init"
  /\ \/ fh' = fh \cup {t} /\ Goto(t, "tail")
     \/ fh' = fh /\ Goto(t, "unlock")
  /\ UNCHANGED <<flock, registry, lost, stuck>>

InspectTailLeaking(t) ==                     \* broken: a refusal keeps the file
  /\ place[t] = "tail"
  /\ Goto(t, "writing") \/ Goto(t, "unlock")
  /\ UNCHANGED <<flock, registry, fh, lost, stuck>>

(* Refusing: when os.close of the ledger file raises, the release below it *)
(* is never reached, so the lock descriptor is lost and the path stays     *)
(* registered.                                                             *)
InspectTail(t) ==
  /\ place[t] = "tail"
  /\ \/ fh' = fh /\ Goto(t, "writing") /\ UNCHANGED <<lost, stuck>>
     \/ fh' = fh \ {t} /\ Goto(t, "unlock") /\ UNCHANGED <<lost, stuck>>
     \/ /\ fh' = fh \ {t} /\ Goto(t, "idle")
        /\ lost' = lost \cup {t} /\ LeaveRegistered(t)
  /\ UNCHANGED <<flock, registry>>

(* close(): _fh.close() comes first; when it raises, the file is closed    *)
(* but the lock is released only by a second close().                      *)
CloseLedger(t) ==
  /\ place[t] = "writing"
  /\ fh' = fh \ {t}
  /\ Goto(t, "unlock") \/ Goto(t, "wedged")
  /\ UNCHANGED <<flock, registry, lost, stuck>>

CloseAgain(t) ==
  /\ place[t] = "wedged"
  /\ Goto(t, "unlock")
  /\ UNCHANGED <<flock, registry, fh, lost, stuck>>

-----------------------------------------------------------------------------
(* _release_writer_lock: LOCK_UN, which may raise; then, whatever happened,*)
(* the descriptor is closed, and if that did not raise the path leaves the *)
(* registry.                                                               *)
Unlock(t) ==
  /\ place[t] = "unlock"
  /\ flock' \in {NoOne, flock}
  /\ Goto(t, "closefd")
  /\ UNCHANGED <<registry, fh, lost, stuck>>

CloseFdForgetting(t) ==                      \* broken: the path stays registered
  /\ place[t] = "closefd"
  /\ flock' = IF flock = t THEN NoOne ELSE flock
  /\ Goto(t, "idle")
  /\ UNCHANGED <<registry, fh, lost, stuck>>

(* Closing frees a flock that LOCK_UN left: the descriptor is gone even    *)
(* when os.close raises, but then the discard is skipped, and since        *)
(* _closed is set by now a second close() returns at once.                 *)
CloseFd(t) ==
  /\ place[t] = "closefd"
  /\ flock' = IF flock = t THEN NoOne ELSE flock
  /\ \/ Goto(t, "discard") /\ stuck' = stuck
     \/ Goto(t, "idle") /\ LeaveRegistered(t)
  /\ UNCHANGED <<registry, fh, lost>>

Discard(t) ==
  /\ place[t] = "discard"
  /\ registry' = registry \ {ProcessOf[t]}
  /\ stuck' = stuck \ {ProcessOf[t]}
  /\ Goto(t, "idle")
  /\ UNCHANGED <<flock, fh, lost>>

(* A process dies: the kernel closes its descriptors, which frees the      *)
(* flock, and its registry is gone.  Its threads may start over.           *)
Die(p) ==
  LET dead == {t \in Thread : ProcessOf[t] = p} IN
    /\ place' = [t \in Thread |-> IF t \in dead THEN "idle" ELSE place[t]]
    /\ flock' = IF flock \in dead THEN NoOne ELSE flock
    /\ registry' = registry \ {p}
    /\ fh' = fh \ dead
    /\ lost' = lost \ dead
    /\ stuck' = stuck \ {p}

-----------------------------------------------------------------------------
(* What a thread does on its own once it has started; starting a writer    *)
(* and closing it are the caller's choice.                                 *)
Work(t) ==
  \/ TryFlock(t) \/ WriteOwner(t) \/ Register(t)
  \/ OpenLedger(t) \/ InspectTail(t)
  \/ Unlock(t) \/ CloseFd(t) \/ Discard(t)

LockNext ==
  \/ \E t \in Thread : CheckRegistry(t) \/ Work(t) \/ CloseLedger(t) \/ CloseAgain(t)
  \/ \E p \in Process : Die(p)

LockSpec == LockInit /\ [][LockNext]_lockVars

(* A running thread keeps running.                                         *)
FairSpec == LockSpec /\ \A t \in Thread : WF_lockVars(Work(t))

-----------------------------------------------------------------------------
LockTypeOK ==
  /\ place \in [Thread -> Steps]
  /\ flock \in Thread \cup {NoOne}
  /\ registry \subseteq Process
  /\ fh \subseteq Thread /\ lost \subseteq Thread
  /\ stuck \subseteq Process

(* No two writers ever have the ledger file open, not while the tail is    *)
(* inspected and cut, and not after a close() that raised.                 *)
SoleWriter == \A t, u \in fh : t = u

(* Nothing is left locked or registered by a process none of whose threads *)
(* is opening, using or closing a writer, on whatever path they left.  The *)
(* exceptions are the flock of a lost descriptor and the registration that *)
(* a raising os.close left behind.                                         *)
NothingLeaked ==
  \A p \in Process :
    (\A t \in Thread : ProcessOf[t] = p => place[t] = "idle")
      => /\ p \in registry => p \in stuck
         /\ flock \notin lost \cup {NoOne} => ProcessOf[flock] # p

(* A release that began ends with the flock out of this thread's hands and *)
(* the path free to be opened again in this process, unless an os.close    *)
(* raised in this process and left the path registered.                    *)
ReleaseCompletes ==
  \A t \in Thread :
    place[t] \in {"unlock", "closefd"}
      ~> flock # t /\ (ProcessOf[t] \in registry => ProcessOf[t] \in stuck)

(* Violated: that such a process can always open the path again.           *)
PathReopens ==
  \A p \in Process :
    (\A t \in Thread : ProcessOf[t] = p => place[t] = "idle") => p \notin registry
=============================================================================
