------------------------------ MODULE MCManager ------------------------------
(***************************************************************************)
(* Model of the Manager for TLC: two constraints over x \in 0..2,          *)
(* c1 == x > 0 and c2 == x < 1, which contradict each other.               *)
(***************************************************************************)
EXTENDS Manager, TLC

CONSTANTS c1, c2

MCValues == 0..2
MCHolds == (c1 :> {1, 2}) @@ (c2 :> {0})

Atom1 == [type |-> "CONSTRAINT", cons |-> {c1}]
Atom2 == [type |-> "CONSTRAINT", cons |-> {c2}]
Both == [type |-> "AND", cons |-> {c1, c2}]
NotAtom1 == [type |-> "NOT", cons |-> {c1}]

\* Formulas of the types Manager::add informs about.
InformedTypes == {Atom1, Atom2, Both}
\* The same plus a negated constraint.
WithNegation == {Atom1, Atom2, NotAtom1}
=============================================================================
