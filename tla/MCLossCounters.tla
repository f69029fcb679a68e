-------------------------- MODULE MCLossCounters ---------------------------
(* Two streams, one with five numbers; a gap event, and a counter snapshot *)
(* that names an unknown counter.                                          *)
EXTENDS LossCounters, TLC

CONSTANTS t1, t2

Plain(s, n) == [stream |-> s, seq |-> n, gap |-> 0, known |-> TRUE]
GapEvent    == [stream |-> "x", seq |-> NoSeq, gap |-> 2, known |-> TRUE]
BadSnapshot == [stream |-> "y", seq |-> 2, gap |-> 0, known |-> FALSE]

MCCounter == {"c"}
MCThread == {t1, t2}
MCSymmetry == Permutations(MCThread)
MCStream == {"x", "y"}
MCEvent == {Plain("x", n) : n \in 0..4} \cup {Plain("y", 1), Plain("y", 3), GapEvent, BadSnapshot}
MCBatches ==
  {<<>>} \cup {<<e>> : e \in {Plain("x", n) : n \in 0..4}}
    \cup {<<Plain("y", 1), Plain("y", 3)>>, <<BadSnapshot, GapEvent>>, <<GapEvent>>}
MCLosses == {4}
MCIssueLists == {<<1>>, <<1, -1, 1>>}
=============================================================================
