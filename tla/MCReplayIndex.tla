--------------------------- MODULE MCReplayIndex ---------------------------
(* Two contents of event "a", the second one a counter snapshot that names *)
(* an unknown counter, and an event "b".                                   *)
EXTENDS ReplayIndex, TLC

CONSTANTS a1, a2, b, p1, p2

MCVersion == {a1, a2, b}
MCId == {"a", "b"}
MCIdOf == [v \in MCVersion |-> IF v = b THEN "b" ELSE "a"]
MCPoison == {a2}
MCBatches == {<<>>, <<b, a1, b>>, <<a1, a2>>}
MCProc == {p1, p2}
MCSymmetry == Permutations(MCProc)
=============================================================================
