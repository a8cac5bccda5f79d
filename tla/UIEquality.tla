----------------------------- MODULE UIEquality -----------------------------
(***************************************************************************)
(* UIEquality (src/lib/UIEquality.h): an equality between two arguments,   *)
(* each an uninterpreted variable (UIVariable) or an uninterpreted-function *)
(* instance (UFInstance, interned by UFInstancesManager), with the visitors *)
(* IsUIVariable and IsUFInstance, operator== and operator<.  Equalities are *)
(* kept in ordered containers (std::set), which rely on operator< being a  *)
(* strict weak order whose equivalence is operator==.                      *)
(*                                                                         *)
(* This module composes the instance manager (instances are created with   *)
(* newUFInstance and referred to by id) with a std::set of equalities      *)
(* built over the variables and the instances created so far.  A          *)
(* UIVariable and a UFInstance compare by their ids (UIVariable.h,         *)
(* UFInstance.h).                                                          *)
(***************************************************************************)
EXTENDS UFInstancesManager

CONSTANTS
    UVars,        \* ids of the uninterpreted variables
    MaxEqualities \* bound on the size of the set of equalities

VARIABLES
    eqSet         \* a std::set<UIEquality>

vars == <<ufInstances, ufIdMap, eqSet>>

UV(id) == [kind |-> "UV", id |-> id]
UF(id) == [kind |-> "UF", id |-> id]

\* The arguments available: every variable and every issued instance.
Args == {UV(v) : v \in UVars} \cup {UF(id) : id \in Issued}

\* The equalities that can be built from them.
Equalities == [lhs : Args, rhs : Args]

-----------------------------------------------------------------------------
(* The visitors and the operators.                                         *)

\* IsUIVariable: true for a UIVariable, false for a UFInstance.
IsUIVariable(a) == a.kind = "UV"

\* IsUFInstance: its UIVariable case returns true and its UFInstance case
\* false, as written.
IsUFInstance(a) == a.kind = "UV"

\* operator==: the same kinds on both sides, then equal sides (each branch
\* compares the sides as the kind they have).
UIEq(e, f) ==
    /\ IsUIVariable(e.lhs) = IsUIVariable(f.lhs)
    /\ IsUIVariable(e.rhs) = IsUIVariable(f.rhs)
    /\ e.lhs.id = f.lhs.id /\ e.rhs.id = f.rhs.id

\* Mutation: the kinds of the sides are not compared.
UILessByIds(e, f) ==
    \/ e.lhs.id < f.lhs.id
    \/ e.lhs.id = f.lhs.id /\ e.rhs.id < f.rhs.id

\* operator<: a variable side before an instance side, lhs before rhs,
\* then the lhs, then the rhs.
UILess(e, f) ==
    CASE IsUIVariable(e.lhs) /\ ~IsUIVariable(f.lhs) -> TRUE
      [] ~IsUIVariable(e.lhs) /\ IsUIVariable(f.lhs) -> FALSE
      [] IsUIVariable(e.rhs) /\ ~IsUIVariable(f.rhs) -> TRUE
      [] ~IsUIVariable(e.rhs) /\ IsUIVariable(f.rhs) -> FALSE
      [] e.lhs.id < f.lhs.id -> TRUE
      [] f.lhs.id < e.lhs.id -> FALSE
      [] OTHER -> e.rhs.id < f.rhs.id

\* The assertion operator< reaches once both lhs are of the same kind and
\* equal: (lhsIsUV() && lhs equal) || (lhsIsUF() && lhs equal).
UILessAssertion(e, f) ==
    (/\ IsUIVariable(e.lhs) = IsUIVariable(f.lhs)
     /\ IsUIVariable(e.rhs) = IsUIVariable(f.rhs)
     /\ e.lhs.id = f.lhs.id)
    => \/ IsUIVariable(e.lhs) /\ e.lhs = f.lhs
       \/ IsUFInstance(e.lhs) /\ e.lhs = f.lhs

-----------------------------------------------------------------------------
(* Creating instances and inserting equalities.                            *)

Init ==
    /\ UFInit
    /\ eqSet = {}

\* A caller creates (or finds) the instance of a content.
createInstance(c) ==
    /\ newUFInstance(c)
    /\ UNCHANGED eqSet

\* std::set::insert of the equality lhs = rhs: no insertion when an
\* element is equivalent to it under operator<.
insertEquality(l, r) ==
    LET e == [lhs |-> l, rhs |-> r] IN
    /\ Cardinality(eqSet) < MaxEqualities
    /\ eqSet' = IF \E x \in eqSet : ~UILess(x, e) /\ ~UILess(e, x)
                THEN eqSet ELSE eqSet \cup {e}
    /\ UNCHANGED ufVars

Next ==
    \/ \E c \in Contents : createInstance(c)
    \/ \E l, r \in Args : insertEquality(l, r)

Spec == Init /\ [][Next]_vars

-----------------------------------------------------------------------------
(* Properties.                                                             *)

TypeOK ==
    /\ UFTypeOK
    /\ eqSet \subseteq Equalities

\* std::set's requirement on operator<, over every equality that can be
\* built: irreflexive, transitive, and two equalities are equivalent
\* (neither is less) exactly when operator== says they are equal, so a set
\* never holds two equal equalities nor drops a distinct one on insert.
UILessStrictWeakOrder ==
    \A x, y, z \in Equalities :
        /\ ~UILess(x, x)
        /\ UILess(x, y) /\ UILess(y, z) => UILess(x, z)
        /\ (~UILess(x, y) /\ ~UILess(y, x)) <=> UIEq(x, y)

\* Every comparison between two elements of the set passes the assertion
\* inside operator< (a debug build aborts otherwise); inserting the later
\* of two elements compared it with the earlier one.
UILessAssertionsHold ==
    \A x, y \in eqSet : x # y => UILessAssertion(x, y)

=============================================================================
