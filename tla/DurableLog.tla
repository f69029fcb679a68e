----------------------------- MODULE DurableLog -----------------------------
(***************************************************************************)
(* What the event ledger promises its readers.  The log is a partial map   *)
(* from file positions to events.  It only ever grows at its end, except   *)
(* in a crash, which may cut entries off the end but none that is stable.  *)
(***************************************************************************)
EXTENDS Naturals

VARIABLES
  log,      (* [positions -> events]                                       *)
  stable    (* positions that survive a power loss                         *)

logVars == <<log, stable>>

Init == log = <<>> /\ stable = {}

(* Writing: entries already there keep their place and content, new ones   *)
(* come after all of them.                                                 *)
Grow ==
  /\ DOMAIN log \subseteq DOMAIN log'
  /\ \A p \in DOMAIN log : log'[p] = log[p]
  /\ \A p \in DOMAIN log, q \in DOMAIN log' \ DOMAIN log : p < q
  /\ stable' = stable

(* fsync: more of the log is stable, never less.                           *)
Harden ==
  /\ log' = log
  /\ stable \subseteq stable'
  /\ stable' \subseteq DOMAIN log

(* A power loss cuts a tail off the log and spares what is stable.         *)
Crash ==
  /\ DOMAIN log' \subseteq DOMAIN log
  /\ \A p \in DOMAIN log' : log'[p] = log[p]
  /\ \A p \in DOMAIN log', q \in DOMAIN log \ DOMAIN log' : p < q
  /\ stable \subseteq DOMAIN log'
  /\ stable' = DOMAIN log'

Next == Grow \/ Harden \/ Crash

Spec == Init /\ [][Next]_logVars
=============================================================================
