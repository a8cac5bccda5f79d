----------------------------- MODULE MCOpenCAD -----------------------------
(* Values in half units.  Points with x in -1..1 and y in {0, 2}; a        *)
(* constant polynomial, level-1 polynomials without real roots, with the   *)
(* root 1 and with the roots -2 and 2; the lines y = m*x + c for slopes    *)
(* -1, 0, 1 and c = -2, 2 (so two lines meet at an integer x).  Up to     *)
(* three distinct polynomials are merged.                                  *)
EXTENDS OpenCAD, TLC

MCPoints == {<<x, y>> : x \in -1..1, y \in {0, 2}}
Level1(i, R) == [id |-> <<i>>, vars |-> IF i = "p1" THEN {} ELSE {"x"}, roots |-> R, m |-> 0, c |-> 0]
Line(m, c) == [id |-> <<"line", ToString(m), ToString(c)>>, vars |-> IF m = 0 THEN {"y"} ELSE {"x", "y"}, roots |-> {}, m |-> m, c |-> c]
MCPolys ==
    {Level1("p1", {}), Level1("p2", {}), Level1("p3", {1}), Level1("p4", {-2, 2})}
      \cup {Line(m, c) : m \in -1..1, c \in {-2, 2}}
MCWindow == -10..10

=============================================================================
