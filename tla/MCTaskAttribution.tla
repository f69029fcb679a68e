-------------------------- MODULE MCTaskAttribution --------------------------
(* Instances of TaskAttribution for TLC.                                   *)
EXTENDS TaskAttribution

Setup(lineage, cgroups, container, ascending, shared) ==
  [lineage |-> lineage, cgroups |-> cgroups,
   container |-> container, ascending |-> ascending, shared |-> shared]

\* Lineage alone, on a clock whose ticks are shared; with cgroups; with a
\* container (and the other order of the node ids); cgroups alone.
MCSetups ==
  {Setup(TRUE, FALSE, FALSE, TRUE, TRUE), Setup(TRUE, TRUE, FALSE, TRUE, FALSE),
   Setup(TRUE, FALSE, TRUE, FALSE, FALSE), Setup(FALSE, TRUE, FALSE, TRUE, FALSE)}
=============================================================================
