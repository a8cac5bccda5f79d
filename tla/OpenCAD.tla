------------------------------ MODULE OpenCAD ------------------------------
(***************************************************************************)
(* The open single-cell construction of MCSAT's one-cell explanation       *)
(* (src/smtrat-mcsat/explanations/onecellcad/OpenCAD.h): createOpenCADCell *)
(* starts from the cell covering the whole space and merges the            *)
(* polynomials one at a time with mergeCellWithPoly, which narrows the     *)
(* sector of the polynomial's level around the point to the closest real   *)
(* roots on either side, or fails when the point is a root.  A polynomial  *)
(* of level 2 is first projected (Open-McCallum: leading coefficient,      *)
(* discriminant, resultants with the current bounds of its sector) and     *)
(* the projection factors are merged into level 1, recursively.            *)
(*                                                                         *)
(* Two variables, x < y.  A polynomial of level 1 is given by its real     *)
(* roots in x (carl's root finder); one of level 2 is a line y - m*x - c,  *)
(* whose leading coefficient in y is 1, whose discriminant is constant,    *)
(* and whose resultant with another line (m', c') is the linear           *)
(* polynomial (m' - m)*x + (c' - c), its own irreducible factor.  Values   *)
(* are integers (in half units in the MC module).                          *)
(***************************************************************************)
EXTENDS Integers, Sequences, SequencesExt, FiniteSets, FiniteSetsExt

CONSTANTS
    Points,     \* candidate points <<x, y>> (alpha)
    Polys,      \* candidate polynomials [id, vars, roots, m, c]
    MaxPolys,   \* bound on the length of polySet
    Window      \* sample coordinates (in halves of a value) for the cell check

VARIABLES
    point,      \* the point the cell must contain
    polySet,    \* the polynomials to merge, in order
    next,       \* index of the next polynomial the loop merges
    cell,       \* the cell: a sector per level, or Failed
    done        \* createOpenCADCell has returned

vars == <<point, polySet, next, cell, done>>

\* The variable order [x, y].
VarOrder == <<"x", "y">>

Failed == [failed |-> TRUE]

\* A non-zero constant polynomial (leading coefficient and discriminant
\* of a line, resultant of two parallel lines).
Const == [id |-> <<"const">>, vars |-> {}, roots |-> {}, m |-> 0, c |-> 0]

-----------------------------------------------------------------------------
(* Levels, evaluation and projection.                                      *)

\* levelOf: erase the variables of the order one after another from the
\* polynomial's variables; the level at which none is left.
RECURSIVE LevelLoop(_, _, _)
LevelLoop(S, order, level) ==
    LET rest == S \ {Head(order)}
    IN  IF rest = {} THEN level ELSE LevelLoop(rest, Tail(order), level + 1)

levelOf(p) == IF p.vars = {} THEN 0 ELSE LevelLoop(p.vars, VarOrder, 1)

\* The real roots of p in its level's variable, the point's lower
\* components plugged in (carl::rootfinder::realRoots).
RootsAt(p, a) == IF levelOf(p) = 1 THEN p.roots ELSE {p.m * a[1] + p.c}

\* p evaluated at the point's first levelOf(p) components is zero.
VanishesAt(p, a) == a[levelOf(p)] \in RootsAt(p, a)

\* The resultant in y of the lines q and p: linear in x, or a non-zero
\* constant for parallel lines.
Resultant(q, p) ==
    IF q.m = p.m THEN Const
    ELSE [id |-> <<"res", q.id, p.id>>, vars |-> {"x"},
          roots |-> {(p.c - q.c) \div (q.m - p.m)}, m |-> 0, c |-> 0]

\* Mutation: no resultant with the cell's high bound.
ProjectionPolysNoHigh(s, p) ==
    <<Const, Const>> \o (IF s.low.inf THEN <<>> ELSE <<Resultant(s.low.poly, p)>>)

\* The projection of p into the level below, against the sector s of p's
\* level: leading coefficient, discriminant, and the resultants with the
\* sector's low and high bound polynomials where they are bounded.
ProjectionPolys(s, p) ==
    <<Const, Const>> \o (IF s.low.inf THEN <<>> ELSE <<Resultant(s.low.poly, p)>>)
                     \o (IF s.high.inf THEN <<>> ELSE <<Resultant(s.high.poly, p)>>)

-----------------------------------------------------------------------------
(* Sectors and merging.                                                    *)

\* An absent bound (nullopt) and a Section {poly, cachedPoint}.
NoBound == [inf |-> TRUE, poly |-> Const, pt |-> 0]
Section(p, r) == [inf |-> FALSE, poly |-> p, pt |-> r]

\* createFullspaceCoveringCell(level): every sector unbounded.
createFullspaceCoveringCell(level) ==
    [failed |-> FALSE, sec |-> [i \in 1..level |-> [low |-> NoBound, high |-> NoBound]]]

\* Mutation: the high bound is replaced by a root farther away.
UpdateHighLooser(sector, p, roots, ak) ==
    LET higher == {r \in roots : r > ak} IN
    IF higher # {} /\ (sector.high.inf \/ Min(higher) > sector.high.pt)
    THEN [sector EXCEPT !.high = Section(p, Min(higher))]
    ELSE sector

\* The first sorted root above the point becomes the high bound if the
\* sector is unbounded above or the root lies below its bound.
UpdateHigh(sector, p, roots, ak) ==
    LET higher == {r \in roots : r > ak} IN
    IF higher # {} /\ (sector.high.inf \/ Min(higher) < sector.high.pt)
    THEN [sector EXCEPT !.high = Section(p, Min(higher))]
    ELSE sector

\* The root before it (--root_higher), if there is one, becomes the low
\* bound if the sector is unbounded below or the root lies above its bound.
UpdateLow(sector, p, roots, ak) ==
    LET lower == {r \in roots : r < ak} IN
    IF lower # {} /\ (sector.low.inf \/ Max(lower) > sector.low.pt)
    THEN [sector EXCEPT !.low = Section(p, Max(lower))]
    ELSE sector

\* The closest roots of p around the point's component at p's level
\* tighten that level's sector (no change without real roots).
BoundUpdate(c, a, p) ==
    LET k == levelOf(p)
        R == RootsAt(p, a)
    IN  IF R = {} THEN c
        ELSE [c EXCEPT !.sec[k] = UpdateLow(UpdateHigh(@, p, R, a[k]), p, R, a[k])]

\* mergeCellWithPoly: nothing to do for a constant polynomial; failure
\* when the polynomial vanishes at the point; above level 1 the projection
\* factors are merged first (a failed submerge fails the merge); then the
\* sector of the polynomial's level is tightened.
RECURSIVE mergeCellWithPoly(_, _, _), MergeAll(_, _, _)
mergeCellWithPoly(c, a, p) ==
    CASE levelOf(p) = 0  -> c
      [] VanishesAt(p, a) -> Failed
      [] OTHER ->
           LET c1 == IF levelOf(p) > 1
                     THEN MergeAll(c, a, ProjectionPolys(c.sec[levelOf(p)], p))
                     ELSE c
           IN  IF c1.failed THEN Failed ELSE BoundUpdate(c1, a, p)

\* Merge the polynomials of ps in order, stopping at the first failure.
MergeAll(c, a, ps) ==
    IF ps = <<>> THEN c
    ELSE LET r == mergeCellWithPoly(c, a, Head(ps))
         IN  IF r.failed THEN r ELSE MergeAll(r, a, Tail(ps))

-----------------------------------------------------------------------------
(* createOpenCADCell.                                                      *)

\* A set of (distinct) polynomials in some order; the cell covering the
\* whole space of the point's dimension.
Init ==
    /\ point \in Points
    /\ polySet \in {s \in BoundedSeq(Polys, MaxPolys) : IsInjective(s)}
    /\ next = 1
    /\ cell = createFullspaceCoveringCell(Len(point))
    /\ done = FALSE

\* One iteration of the loop over polySet; a failed merge ends the
\* construction with nullopt.
mergeNext ==
    /\ ~done
    /\ next <= Len(polySet)
    /\ LET r == mergeCellWithPoly(cell, point, polySet[next]) IN
         /\ cell' = r
         /\ done' = r.failed
    /\ next' = next + 1
    /\ UNCHANGED <<point, polySet>>

\* The loop has merged every polynomial: the cell is returned.
finish ==
    /\ ~done
    /\ next > Len(polySet)
    /\ done' = TRUE
    /\ UNCHANGED <<point, polySet, next, cell>>

Next == mergeNext \/ finish

Spec == Init /\ [][Next]_vars

-----------------------------------------------------------------------------
(* Properties.                                                             *)

\* The polynomials merged so far.
Merged == {polySet[i] : i \in 1..next - 1}

\* Reference for level 1: when only polynomials of level at most 1 have
\* been merged, the construction fails exactly when the point is a root of
\* one of them; otherwise the sector is bounded by the closest roots on
\* either side of the point (unbounded where there is none), and each
\* bound is a root of the merged polynomial it names.
CellIsClosestRoots ==
    (\A q \in Merged : levelOf(q) <= 1) =>
        LET AllRoots == UNION {q.roots : q \in {q \in Merged : levelOf(q) = 1}}
            s == cell.sec[1]
        IN  IF point[1] \in AllRoots THEN cell = Failed
            ELSE LET below == {r \in AllRoots : r < point[1]}
                     above == {r \in AllRoots : r > point[1]}
                 IN  /\ ~cell.failed
                     /\ IF below = {} THEN s.low.inf
                        ELSE ~s.low.inf /\ s.low.pt = Max(below)
                     /\ IF above = {} THEN s.high.inf
                        ELSE ~s.high.inf /\ s.high.pt = Min(above)
                     /\ \A b \in {s.low, s.high} :
                          ~b.inf => b.poly \in Merged /\ b.pt \in b.poly.roots

\* Sample points of the plane at twice the resolution of the values, so
\* that every open interval between two values holds a sample.
InCell(X2, Y2) ==
    LET s1 == cell.sec[1]
        s2 == cell.sec[2]
        Line(b) == b.poly.m * X2 + 2 * b.poly.c
    IN  /\ s1.low.inf \/ 2 * s1.low.pt < X2
        /\ s1.high.inf \/ X2 < 2 * s1.high.pt
        /\ s2.low.inf \/ Line(s2.low) < Y2
        /\ s2.high.inf \/ Y2 < Line(s2.high)

\* q vanishes at the sample (X2, Y2).
ZeroAt(q, X2, Y2) ==
    CASE levelOf(q) = 0 -> FALSE
      [] levelOf(q) = 1 -> X2 \in {2 * r : r \in q.roots}
      [] OTHER          -> Y2 = q.m * X2 + 2 * q.c

\* The cell createOpenCADCell returns (and every intermediate one) contains
\* the point and no merged polynomial vanishes anywhere in it: the cell is
\* sign-invariant on the polynomials, which is what the one-cell
\* explanation relies on.  Above level 1 this holds only because the
\* projection factors bound the x-range to where the new polynomial
\* crosses neither bound of the y-sector.
CellSignInvariant ==
    ~cell.failed =>
        /\ InCell(2 * point[1], 2 * point[2])
        /\ \A X2, Y2 \in Window :
             InCell(X2, Y2) => \A q \in Merged : ~ZeroAt(q, X2, Y2)

=============================================================================
