------------------------------- MODULE Manager -------------------------------
(***************************************************************************)
(* The SMT-RAT Manager (src/lib/solver/Manager.cpp) as seen by a caller:   *)
(* the backtrackable assertion store mpPassedFormula, the stack of         *)
(* backtrack points, and the primary backend that every add, remove and    *)
(* check is forwarded to.                                                  *)
(*                                                                         *)
(* Data is abstracted to one theory variable x ranging over Values: a      *)
(* constraint is the set of values of x that satisfy it (Holds), and a     *)
(* formula is a record naming its carl FormulaType and its constraints.    *)
(* The primary backend is a sound decision procedure over the formulas it  *)
(* has been given, so a wrong answer can only come from the Manager        *)
(* feeding it a view that differs from the store.                          *)
(*                                                                         *)
(* A backtrack point is a handle to the last formula of the store at the   *)
(* time of push (or End when the store was empty), which is how            *)
(* printBackTrackStack reads mBacktrackPoints.  When the formula a point   *)
(* refers to is removed, the point dangles (Dangling) and a later pop      *)
(* follows a freed list node: undefined behaviour, modelled as a choice of *)
(* any cut position.                                                       *)
(***************************************************************************)
EXTENDS Integers, Sequences, SequencesExt, FiniteSets

CONSTANTS
    Constraints,    \* atomic theory constraints of the formula pool
    Values,         \* the values the single theory variable x can take
    Holds,          \* Holds[c]: the values of x satisfying constraint c
    InputFormulas,  \* the formulas a caller may assert
    MaxScopes,      \* bound on the depth of the backtrack stack
    RemoveMarkers,  \* may a caller remove a formula a backtrack point refers to?
    End,            \* backtrack point taken while the store was empty
    Dangling        \* backtrack point whose formula has been removed

FormulaTypes == {"CONSTRAINT", "AND", "NOT"}

ASSUME Holds \in [Constraints -> SUBSET Values]
ASSUME InputFormulas \subseteq [type : FormulaTypes, cons : SUBSET Constraints]
ASSUME MaxScopes \in Nat /\ RemoveMarkers \in BOOLEAN

Answers == {"True", "False", "Unknown"}

VARIABLES
    passed,     \* mpPassedFormula: the asserted formulas in insertion order
    btPoints,   \* mBacktrackPoints: one handle per open scope
    informed,   \* constraints the primary backend has been informed about
    received,   \* formulas the primary backend currently holds (add minus remove)
    answer,     \* answer of the last primary check
    addedIn     \* history: formulas inserted in each open scope

vars == <<passed, btPoints, informed, received, answer, addedIn>>

-----------------------------------------------------------------------------
(* Formula helpers.                                                        *)

\* FormulaT::isNary: AND, OR, XOR and IFF
IsNary(f) == f.type \in {"AND", "OR", "XOR", "IFF"}

\* The values of x satisfying formula f (AND/CONSTRAINT as conjunction).
Models(f) ==
    IF f.type = "NOT"
    THEN Values \ {v \in Values : \A c \in f.cons : v \in Holds[c]}
    ELSE {v \in Values : \A c \in f.cons : v \in Holds[c]}

Satisfiable(S) == \E v \in Values : \A f \in S : v \in Models(f)

-----------------------------------------------------------------------------
(* The primary backend (Module), modelled from the spec's contract.        *)

\* Module::check(full): sound; with full = FALSE it may give up.
PrimaryCheck(S, full) ==
    (IF Satisfiable(S) THEN {"True"} ELSE {"False"})
        \cup (IF full THEN {} ELSE {"Unknown"})

-----------------------------------------------------------------------------
(* The store and its backtrack points.                                     *)

\* Position of a backtrack point in the store: the scope it opens starts
\* right after it (printBackTrackStack).
PointPos(p) ==
    IF p = End THEN 0 ELSE CHOOSE i \in 1..Len(passed) : passed[i] = p

\* Cut positions a pop to point p may end up at: the one the point names,
\* or, for a dangling point, wherever the freed node leads.
PopCut(p) ==
    IF p = Dangling THEN 0..Len(passed) ELSE {PointPos(p)}

\* Mutation: the handle of the formula before the last.
NewPointBeforeLast == IF Len(passed) < 2 THEN End ELSE passed[Len(passed) - 1]

\* The handle push records: the store's last formula, or End if empty.
NewPoint == IF passed = <<>> THEN End ELSE Last(passed)

\* Mutation: insertion without the duplicate check.
InsertedAlways(f) == TRUE

\* ModuleInput::add: insert f at the end unless it is already present.
Inserted(f) == f \notin ToSet(passed)

-----------------------------------------------------------------------------
(* Operations.                                                             *)

\* Manager(): the constructor informs the primary backend about every
\* constraint already in the pool.
Init ==
    /\ passed = <<>>
    /\ btPoints = <<>>
    /\ informed \in SUBSET Constraints
    /\ received = {}
    /\ answer = "Unknown"
    /\ addedIn = <<>>

\* Manager::inform
inform(c) ==
    /\ informed' = informed \cup {c}
    /\ UNCHANGED <<passed, btPoints, received, answer, addedIn>>

\* Manager::add: inform the constraints of a CONSTRAINT or n-ary formula,
\* insert it, and on first insertion pass it to the primary backend.
add(f) ==
    /\ informed' = IF f.type = "CONSTRAINT" \/ IsNary(f)
                   THEN informed \cup f.cons ELSE informed
    /\ IF Inserted(f)
       THEN /\ passed' = Append(passed, f)
            /\ received' = received \cup {f}
            /\ addedIn' = IF addedIn = <<>> THEN addedIn
                          ELSE [addedIn EXCEPT ![Len(addedIn)] = @ \cup {f}]
       ELSE UNCHANGED <<passed, received, addedIn>>
    /\ UNCHANGED <<btPoints, answer>>

\* Mutation: the handle is erased without telling the primary backend.
removeUnforwarded(f) ==
    /\ f \in ToSet(passed)
    /\ RemoveMarkers \/ f \notin ToSet(btPoints)
    /\ passed' = SelectSeq(passed, LAMBDA g : g # f)
    /\ btPoints' = [i \in DOMAIN btPoints |->
                        IF btPoints[i] = f THEN Dangling ELSE btPoints[i]]
    /\ addedIn' = [i \in DOMAIN addedIn |-> addedIn[i] \ {f}]
    /\ UNCHANGED <<informed, received, answer>>

\* Manager::remove: forward to the primary backend, then erase the handle.
remove(f) ==
    /\ f \in ToSet(passed)
    /\ RemoveMarkers \/ f \notin ToSet(btPoints)
    /\ received' = received \ {f}
    /\ passed' = SelectSeq(passed, LAMBDA g : g # f)
    /\ btPoints' = [i \in DOMAIN btPoints |->
                        IF btPoints[i] = f THEN Dangling ELSE btPoints[i]]
    /\ addedIn' = [i \in DOMAIN addedIn |-> addedIn[i] \ {f}]
    /\ UNCHANGED <<informed, answer>>

\* Manager::push: record the store's logical end.
push ==
    /\ Len(btPoints) < MaxScopes
    /\ btPoints' = Append(btPoints, NewPoint)
    /\ addedIn' = Append(addedIn, {})
    /\ UNCHANGED <<passed, informed, received, answer>>

\* Manager::pop: remove, through Manager::remove, every formula after the
\* most recent backtrack point, and drop the point.  (pop on an empty
\* stack returns false and changes nothing.)
pop ==
    /\ btPoints # <<>>
    /\ \E k \in PopCut(Last(btPoints)) :
         LET gone == ToSet(SubSeq(passed, k + 1, Len(passed))) IN
         /\ passed' = SubSeq(passed, 1, k)
         /\ received' = received \ gone
    /\ btPoints' = Front(btPoints)
    /\ addedIn' = Front(addedIn)
    /\ UNCHANGED <<informed, answer>>

\* Manager::check without objectives: reset the answer flag, then return
\* the primary backend's answer.
check(full) ==
    /\ answer' \in PrimaryCheck(received, full)
    /\ UNCHANGED <<passed, btPoints, informed, received, addedIn>>

\* Manager::reset: pop every backtrack point, delete all modules and
\* create a fresh primary backend (which nobody informs).
reset ==
    /\ \E k \in IF btPoints = <<>> THEN {Len(passed)} ELSE PopCut(btPoints[1]) :
         passed' = SubSeq(passed, 1, k)
    /\ btPoints' = <<>>
    /\ addedIn' = <<>>
    /\ informed' = {}
    /\ received' = {}
    /\ answer' = "Unknown"

\* The caller's operations other than reset.
StoreNext ==
    \/ \E c \in Constraints : inform(c)
    \/ \E f \in InputFormulas : add(f)
    \/ \E f \in InputFormulas : remove(f)
    \/ push
    \/ pop
    \/ \E full \in BOOLEAN : check(full)

Next == StoreNext \/ reset

StoreSpec == Init /\ [][StoreNext]_vars

Spec == Init /\ [][Next]_vars

-----------------------------------------------------------------------------
(* Properties.                                                             *)

TypeOK ==
    /\ passed \in Seq(InputFormulas) /\ IsInjective(passed)
    /\ btPoints \in Seq(InputFormulas \cup {End, Dangling})
    /\ informed \subseteq Constraints
    /\ received \subseteq InputFormulas
    /\ answer \in Answers
    /\ addedIn \in Seq(SUBSET InputFormulas)

\* The module contract of inform: every constraint of every formula the
\* primary backend holds was informed before the formula was added
\* (Manager::add informs before inserting; the constructor informs the pool).
InformedBeforeAdded ==
    \A f \in received : f.cons \subseteq informed

\* A check of the primary backend answers True only if the store is
\* satisfiable and False only if it is not: the primary backend's view,
\* kept by add, remove and pop, is the store.
CheckAnswerSound ==
    [][(\E full \in BOOLEAN : check(full)) =>
         /\ answer' = "True" => Satisfiable(ToSet(passed))
         /\ answer' = "False" => ~Satisfiable(ToSet(passed))]_vars

\* pop removes exactly the formulas inserted since the matching push:
\* nothing older, and nothing newer survives (spec: backtracking is exact).
PopRestoresScope ==
    [][pop => passed' = SelectSeq(passed, LAMBDA f : f \notin Last(addedIn))]_vars

\* The refinement mapping: the levels of the abstract store are the
\* stretches of mpPassedFormula between consecutive backtrack points
\* (the first from the store's start, the last up to its end).
LevelBound(i) ==
    IF i = 0 THEN 0
    ELSE IF i > Len(btPoints) THEN Len(passed)
    ELSE PointPos(btPoints[i])

StoreLevels ==
    [i \in 1..Len(btPoints) + 1 |->
        ToSet(SubSeq(passed, LevelBound(i - 1) + 1, LevelBound(i)))]

Abstract == INSTANCE AssertionStore
                WITH levels <- StoreLevels, answer <- answer,
                     Formulas <- InputFormulas, Sat <- Satisfiable

\* The Manager implements the store the spec promises: through every
\* sequence of inform, add, remove, push, pop and check, the handles the
\* backtrack points keep cut mpPassedFormula into the levels of the
\* abstract store, pop discards exactly the innermost one, and every
\* answer is one the abstract store may give for its contents.
StoreRefinesAbstract == Abstract!Spec

\* Manager::reset asserts that the store is empty once every backtrack
\* point has been popped.
ResetEmptiesStore ==
    [][reset => passed' = <<>>]_vars

=============================================================================
