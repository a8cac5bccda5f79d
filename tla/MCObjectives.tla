---------------------------- MODULE MCObjectives ----------------------------
(***************************************************************************)
(* Model of the objective loop for TLC: x \in 0..3, objectives "minimise  *)
(* x", "maximise x", "minimise (x-2)^2" and "maximise (x-2)^2", user      *)
(* assertions admitting various subsets of 0..3, including none.          *)
(***************************************************************************)
EXTENDS Objectives

MCValues == 0..3

MinX == [fn |-> [v \in MCValues |-> v], minimize |-> TRUE]
MaxX == [fn |-> [v \in MCValues |-> v], minimize |-> FALSE]
MinDist2 == [fn |-> [v \in MCValues |-> (v - 2) * (v - 2)], minimize |-> TRUE]
MaxDist2 == [fn |-> [v \in MCValues |-> (v - 2) * (v - 2)], minimize |-> FALSE]

MCBaseChoices == {MCValues, {1, 3}, {0, 3}, {}}

\* No objective or one objective.
AtMostOne == {<<>>, <<MinX>>, <<MaxX>>, <<MinDist2>>, <<MaxDist2>>}
\* Also two objectives.
UpToTwo == AtMostOne \cup {<<MinX, MinDist2>>, <<MinDist2, MaxX>>}
\* Exactly two objectives.
Two == {<<MinDist2, MinX>>}

MCGarbage == {-1, 2, 5}
=============================================================================
