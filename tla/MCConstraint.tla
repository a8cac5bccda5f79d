--------------------------- MODULE MCConstraint ---------------------------
(* Variables x and y; polynomials a*x + b for small a, b, *)
(* the quadratics x^2 - 1 and x^2 + 1, x*y, x + y and constants.           *)
EXTENDS Constraint, TLC

CONSTANTS x, y

MCVars == {x, y}
Mono(ex, ey) == (x :> ex) @@ (y :> ey)
One == Mono(0, 0)
Linear(a, b) == IF b = 0 THEN (Mono(1, 0) :> a) ELSE (Mono(1, 0) :> a) @@ (One :> b)
MCLhss ==
    {Linear(a, b) : a \in {-2, -1, 1, 2}, b \in -2..2}
      \cup {(Mono(2, 0) :> 1) @@ (One :> -1), (Mono(2, 0) :> 1) @@ (One :> 1),
            (Mono(1, 1) :> 1), (Mono(1, 0) :> 1) @@ (Mono(0, 1) :> -1),
            (One :> 2)}
MCGrid == -6..6
MCVarType == (x :> "INT") @@ (y :> "REAL")

=============================================================================
