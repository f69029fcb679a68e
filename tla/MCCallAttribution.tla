-------------------------- MODULE MCCallAttribution --------------------------
(* Instances of CallAttribution for TLC.                                   *)
EXTENDS CallAttribution, TLC

MCProcs == {1, 2}

\* Two calls of one process on connections of their own, and one of another
\* process that retries the second on the same connection, under its id.
MCCalls == {1, 2, 3}
MCCallProcs == 1 :> 1 @@ 2 :> 1 @@ 3 :> 2
MCConnOf    == 1 :> 101 @@ 2 :> 102 @@ 3 :> 102
MCLogicalOf == 1 :> 1 @@ 2 :> 2 @@ 3 :> 2
MCToolOf    == 1 :> 201 @@ 2 :> 202 @@ 3 :> 203

DistinctPids == 1 :> 11 @@ 2 :> 12
SamePid      == 1 :> 11 @@ 2 :> 11

Shape(call, conn, pid, start, clock, tool, right) ==
  [call |-> call, conn |-> conn, pid |-> pid, start |-> start,
   clock |-> clock, tool |-> tool, right |-> right]

\* All that can be said, and a few ways of saying less, of the right call or
\* of the other one.
MCShapes ==
  {Shape("physical", TRUE, TRUE, TRUE, "monotonic", TRUE, r) : r \in BOOLEAN}
  \cup {Shape("logical", FALSE, TRUE, FALSE, "monotonic", TRUE, TRUE),
        Shape("none", TRUE, TRUE, FALSE, "monotonic", FALSE, TRUE),
        Shape("none", TRUE, FALSE, FALSE, "monotonic", TRUE, TRUE),
        Shape("none", TRUE, TRUE, FALSE, "wall", FALSE, TRUE)}
=============================================================================
