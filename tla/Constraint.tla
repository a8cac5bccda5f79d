----------------------------- MODULE Constraint -----------------------------
(***************************************************************************)
(* The queries of smtrat::Constraint (src/lib/Constraint.h) on a           *)
(* constraint "lhs rel 0": degrees, constant part and the                *)
(* classification as a bound, lower bound or upper bound.  They are       *)
(* const methods; the state is the constraint under examination, chosen   *)
(* initially, and the properties compare the classification with the      *)
(* solution set of the constraint over a grid of half-integers.            *)
(*                                                                         *)
(* A monomial is an exponent vector [Vars -> Nat]; the polynomial lhs is a *)
(* function from its monomials to their (non-zero) coefficients, as carl   *)
(* stores it.  VarInfo (carl's getVarInfo, not in this repository) gives   *)
(* per variable its maximal degree.                                       *)
(***************************************************************************)
EXTENDS Integers, FiniteSets, FiniteSetsExt, Functions

CONSTANTS
    Vars,           \* carl variables
    VarType,        \* carl::Variable::getType: "INT" or "REAL" per variable
    Lhss,           \* the polynomials the constraints compare with zero
    GridHalves      \* the grid of values, in halves: g stands for g / 2

Relations == {"EQ", "NEQ", "LESS", "LEQ", "GREATER", "GEQ"}

VARIABLE cons       \* [lhs, rel]: the constraint's mLhs and mRelation

-----------------------------------------------------------------------------
(* carl's polynomial and VarInfo.                                          *)

Monos(l) == DOMAIN l
TotalDeg(m) == FoldFunction(+, 0, m)
IsConst(m) == \A v \in Vars : m[v] = 0

\* The variables occurring with positive degree (mVariables).
Variables(l) == {v \in Vars : \E m \in Monos(l) : m[v] > 0}

\* carl's VarInfo for a variable of the polynomial, collected over the
\* terms the variable occurs in: its largest and smallest degree there and
\* the number of such terms.
VarInfoOf(l, v) ==
    LET ts == {m \in Monos(l) : m[v] > 0}
    IN  [maxDegree |-> Max({m[v] : m \in ts}),
         minDegree |-> Min({m[v] : m \in ts}),
         occurence |-> Cardinality(ts)]

\* The leading term's coefficient in carl's graded order (total degree
\* first; for the univariate linear polynomials it is used on, unique).
LCoeff(l) == l[CHOOSE m \in Monos(l) : \A n \in Monos(l) : TotalDeg(n) <= TotalDeg(m)]

-----------------------------------------------------------------------------
(* Constraint's queries.                                                   *)

\* carl's trailingTerm: the last term in the graded order, of least total
\* degree.
TrailingTerm(l) == CHOOSE m \in Monos(l) : \A n \in Monos(l) : TotalDeg(m) <= TotalDeg(n)

\* constantPart: the trailing term's coefficient if there is a constant term.
constantPart(c) ==
    IF \E m \in Monos(c.lhs) : IsConst(m)
    THEN c.lhs[TrailingTerm(c.lhs)]
    ELSE 0

\* maxDegree(_variable): 0 for a variable not in mVarInfoMap.
maxDegree(c, v) == IF v \in Variables(c.lhs) THEN VarInfoOf(c.lhs, v).maxDegree ELSE 0

\* minDegree(_variable): 0 for a variable not in mVarInfoMap.
minDegree(c, v) == IF v \in Variables(c.lhs) THEN VarInfoOf(c.lhs, v).minDegree ELSE 0

\* occurences(_variable): 0 for a variable not in mVarInfoMap.
occurences(c, v) == IF v \in Variables(c.lhs) THEN VarInfoOf(c.lhs, v).occurence ELSE 0

\* integerValued / realValued: every variable has the type (true for a
\* constraint without variables).
integerValued(c) == \A v \in Variables(c.lhs) : VarType[v] = "INT"
realValued(c) == \A v \in Variables(c.lhs) : VarType[v] = "REAL"

\* hasIntegerValuedVariable / hasRealValuedVariable: some variable has it.
hasIntegerValuedVariable(c) == \E v \in Variables(c.lhs) : VarType[v] = "INT"

\* Mutation: the loop copied from hasIntegerValuedVariable unchanged.
hasRealValuedVariableCopied(c) == \E v \in Variables(c.lhs) : VarType[v] = "INT"

hasRealValuedVariable(c) == \E v \in Variables(c.lhs) : VarType[v] = "REAL"

\* maxDegree(): the largest degree of any of the variables.
maxDegreeAll(c) == Max({0} \cup {maxDegree(c, v) : v \in Variables(c.lhs)})

constraintRelationIsStrict(rel) == rel \in {"NEQ", "LESS", "GREATER"}

\* isBound: not NEQ, one variable, of degree one.
isBound(c) ==
    /\ c.rel # "NEQ"
    /\ Cardinality(Variables(c.lhs)) = 1
    /\ maxDegree(c, CHOOSE v \in Variables(c.lhs) : TRUE) = 1

\* Mutation: the coefficient's sign is read the wrong way round.
isLowerBoundSignSwapped(c) ==
    /\ isBound(c)
    /\ \/ c.rel = "EQ"
       \/ LCoeff(c.lhs) > 0 /\ c.rel \in {"LEQ", "LESS"}
       \/ LCoeff(c.lhs) < 0 /\ c.rel \in {"GEQ", "GREATER"}

\* isLowerBound: an equation, or a negative leading coefficient with
\* LEQ/LESS, or a positive one with GEQ/GREATER.
isLowerBound(c) ==
    /\ isBound(c)
    /\ \/ c.rel = "EQ"
       \/ LCoeff(c.lhs) < 0 /\ c.rel \in {"LEQ", "LESS"}
       \/ LCoeff(c.lhs) > 0 /\ c.rel \in {"GEQ", "GREATER"}

\* isUpperBound: the mirror image.
isUpperBound(c) ==
    /\ isBound(c)
    /\ \/ c.rel = "EQ"
       \/ LCoeff(c.lhs) > 0 /\ c.rel \in {"LEQ", "LESS"}
       \/ LCoeff(c.lhs) < 0 /\ c.rel \in {"GEQ", "GREATER"}

-----------------------------------------------------------------------------
(* Reference semantics over the grid.                                      *)

\* 2^MaxTotal * lhs(a / 2) for a : Vars -> GridHalves: every term scaled to
\* an integer, the sign unchanged.
MaxTotal(l) == Max({TotalDeg(m) : m \in Monos(l)})
PowOf(b, e) == IF e = 0 THEN 1 ELSE b ^ e
TermValue(l, m, a) ==
    l[m] * PowOf(2, MaxTotal(l) - TotalDeg(m))
         * FoldFunction(LAMBDA p, q : p * q, 1, [v \in Vars |-> PowOf(a[v], m[v])])
ScaledValue(l, a) == MapThenSumSet(LAMBDA m : TermValue(l, m, a), Monos(l))

Satisfies(rel, val) ==
    CASE rel = "EQ" -> val = 0    [] rel = "NEQ" -> val # 0
      [] rel = "LESS" -> val < 0  [] rel = "LEQ" -> val <= 0
      [] rel = "GREATER" -> val > 0 [] rel = "GEQ" -> val >= 0

\* The grid points of the one variable of a univariate constraint that
\* satisfy it.
SolutionsOf(c) ==
    LET v == CHOOSE v \in Variables(c.lhs) : TRUE
        a0 == CHOOSE a \in [Vars -> GridHalves] : TRUE
    IN  {g \in GridHalves : Satisfies(c.rel, ScaledValue(c.lhs, [a0 EXCEPT ![v] = g]))}

UpwardClosed(S) == \A g \in S, h \in GridHalves : h > g => h \in S
DownwardClosed(S) == \A g \in S, h \in GridHalves : h < g => h \in S

-----------------------------------------------------------------------------
(* Behaviour: the constraints a theory module examines with the const     *)
(* queries, one after another.                                             *)

Init == cons \in [lhs : Lhss, rel : Relations]

\* The constraint pool (not in this repository) hands out the next
\* constraint, lhs rel 0.
newConstraint(l, r) == cons' = [lhs |-> l, rel |-> r]

Next == \E l \in Lhss, r \in Relations : newConstraint(l, r)

Spec == Init /\ [][Next]_cons

-----------------------------------------------------------------------------
(* Properties.                                                             *)

Univariate(c) == Cardinality(Variables(c.lhs)) = 1

\* isLowerBound and isUpperBound describe the solution set: a lower bound's
\* solutions are closed upwards, an upper bound's downwards, an equation is
\* both, and a univariate linear constraint other than NEQ is one or the
\* other, as the callers (bound collection in the theory modules) rely on.
BoundDirection ==
    Univariate(cons) /\ maxDegreeAll(cons) = 1 /\ cons.rel # "NEQ" =>
        /\ isLowerBound(cons) <=> cons.rel = "EQ" \/ UpwardClosed(SolutionsOf(cons))
        /\ isUpperBound(cons) <=> cons.rel = "EQ" \/ DownwardClosed(SolutionsOf(cons))

\* integerValued and hasRealValuedVariable (and realValued and
\* hasIntegerValuedVariable) are four loops over mVariables; for the
\* arithmetic variables of a constraint they must be each other's negation,
\* a constraint without variables counting as both integer- and
\* real-valued.
TypeQueriesAgree ==
    /\ integerValued(cons) <=> ~hasRealValuedVariable(cons)
    /\ realValued(cons) <=> ~hasIntegerValuedVariable(cons)

=============================================================================
