------------------------------ MODULE Evidence ------------------------------
(***************************************************************************)
(* The evidence graph of correlate/model.py and correlate/graph.py: the    *)
(* order of confidences, how an edge is claimed and how claims about one   *)
(* edge are merged, and how engine.resolve_attribution reads the owner of  *)
(* a node off the graph.                                                   *)
(*                                                                         *)
(* The builder adds edges one at a time and merges each with what it       *)
(* holds.  Merging keeps the strongest confidence and the union of the     *)
(* candidates, which does not depend on the order of the claims, so a      *)
(* graph under construction is a set of claims here and its edges are      *)
(* computed from the set; that the builder also cuts the candidates of     *)
(* each claim changes nothing, the first of a union being among the first  *)
(* of its parts.  Left out: resolve_attribution follows 12 edges at most;  *)
(* every owner here is one edge from its process and two from an effect.   *)
(***************************************************************************)
EXTENDS Naturals, FiniteSets, FiniteSetsExt

\* Confidence, by its rank.
UNKNOWN   == 0
AMBIGUOUS == 1
PROBABLE  == 2
CERTAIN   == 3
Confidences == UNKNOWN .. CERTAIN

\* A path is as strong as its weakest edge.
Compose(c, d) == IF c <= d THEN c ELSE d

-----------------------------------------------------------------------------
\* What is claimed of one edge: its ends, what it rests on, how sure it is,
\* and which other ends the same evidence allows.
Claim(src, dst, basis, conf, others) ==
  [src |-> src, dst |-> dst, basis |-> basis, conf |-> conf,
   others |-> IF conf = AMBIGUOUS THEN others \ {dst} ELSE {}]

\* An ambiguous claim has to name another candidate, and no edge leads to
\* where it starts; the builder gives up otherwise.
Acceptable(c) == c.src # c.dst /\ (c.conf = AMBIGUOUS => c.others # {})

SameEdge(c, d) == c.src = d.src /\ c.dst = d.dst /\ c.basis = d.basis

\* The first n of S in the order that Rank gives.
FirstOf(S, n, Rank(_)) ==
  {x \in S : Cardinality({y \in S : Rank(y) < Rank(x)}) < n}

Weakest(claims) == Min({c.conf : c \in claims})   \* broken: doubt wins

\* Claims about one edge are as sure as the surest.
Strongest(claims) == Max({c.conf : c \in claims})

\* The edge that the claims about it amount to.
EdgeOf(claims, c, limit, Rank(_)) ==
  LET same == {d \in claims : SameEdge(c, d)}
      top  == Strongest(same)
  IN  [c EXCEPT !.conf = top,
                !.others = IF top = AMBIGUOUS
                           THEN FirstOf(UNION {d.others : d \in same},
                                        limit, Rank)
                           ELSE {}]

EdgesOf(claims, limit, Rank(_)) ==
  {EdgeOf(claims, c, limit, Rank) : c \in claims}

-----------------------------------------------------------------------------
\* The nodes that a path of edges no weaker than c leads to from n.
Reachable(edges, n, c) ==
  LET strong == {e \in edges : e.conf >= c}
      step[i \in 0 .. Cardinality(strong)] ==
        IF i = 0 THEN {n}
        ELSE LET near == step[i - 1]
             IN  near \cup {e.dst : e \in {x \in strong : x.src \in near}}
  IN  step[Cardinality(strong)]

\* The strongest path from n to an element of targets: its confidence, and
\* which of them such a path reaches.
Best(edges, n, targets) ==
  LET reached(c) == Reachable(edges, n, c) \cap targets
      top == Max({c \in Confidences : reached(c) # {}})
  IN  IF reached(UNKNOWN) = {}
      THEN [found |-> FALSE, conf |-> UNKNOWN, targets |-> {}]
      ELSE [found |-> TRUE, conf |-> top, targets |-> reached(top)]

\* resolve_attribution of one node: several owners of the same strength are
\* ambiguous, however strong.
Attribution(edges, n, tasks) ==
  LET best == Best(edges, n, tasks)
  IN  [conf |-> IF best.conf > AMBIGUOUS /\ Cardinality(best.targets) > 1
                THEN AMBIGUOUS ELSE best.conf,
       targets |-> best.targets]

=============================================================================
