----------------------------- MODULE Objectives -----------------------------
(***************************************************************************)
(* Manager::check with objectives (src/lib/solver/Manager.cpp:123-160)     *)
(* and Manager::optimum (178-204): the sequential optimisation loop that   *)
(* pushes scopes onto the assertion store, asserts the equation between    *)
(* each objective and its auxiliary variable, runs an optimising check of  *)
(* the primary backend and narrows the next objective with a bound.        *)
(*                                                                         *)
(* Data: one theory variable x over Values.  Objective i is a function     *)
(* fn from Values to Int with a direction flag (mObjectives' second.second *)
(* is TRUE for minimise); its auxiliary variable aux_i is bound to         *)
(* Sign(i) * fn(x) by the equation formula.  A model gives x and the       *)
(* auxiliary variables of the equations the primary backend holds; reading *)
(* any other variable from it finds nothing, and dereferencing that        *)
(* missing entry (NDEBUG build) yields garbage from GarbageValues.         *)
(***************************************************************************)
EXTENDS Integers, Sequences, SequencesExt, FiniteSets

CONSTANTS
    Values,           \* values of the theory variable x
    BaseChoices,      \* candidate user assertions: sets of admitted x values
    ObjectiveChoices, \* candidate mObjectives lists
    GarbageValues     \* what a dereferenced end() model iterator may read

ASSUME BaseChoices \subseteq SUBSET Values
ASSUME ObjectiveChoices \subseteq Seq([fn : [Values -> Int], minimize : BOOLEAN])

VARIABLES
    objectives, \* mObjectives
    store,      \* mpPassedFormula
    scopes,     \* mBacktrackPoints, as store lengths at push time
    pc,         \* "idle" or "loop": inside Manager::check's objective loop
    idx,        \* obVarIter: index of the objective being optimised
    full,       \* the _full argument of the running check
    result,     \* the answer Manager::check returned last
    model,      \* the primary backend's model of its last check
    before      \* history: the store when the running check began

vars == <<objectives, store, scopes, pc, idx, full, result, model, before>>

-----------------------------------------------------------------------------
(* Formulas, satisfaction and the primary backend.                         *)

Base(S) == [kind |-> "base", vals |-> S]
\* (+/-)f_i - aux_i = 0
Eq(i) == [kind |-> "eq", obj |-> i]
\* (+/-)f_j - v < 0
Bound(j, v) == [kind |-> "bound", obj |-> j, val |-> v]

\* Mutation: the direction flag is ignored.
SignIgnoringDirection(i) == 1

Sign(i) == IF objectives[i].minimize THEN 1 ELSE -1

\* The value aux_i takes at x.
AuxAt(i, xv) == Sign(i) * objectives[i].fn[xv]

\* The x values satisfying every base and bound formula of a store;
\* equations are satisfied by the auxiliary variables.
Feasible(st) ==
    {xv \in Values :
        \A k \in DOMAIN st :
            /\ st[k].kind = "base" => xv \in st[k].vals
            /\ st[k].kind = "bound" => AuxAt(st[k].obj, xv) < st[k].val}

\* The equations a store holds.
EqsIn(st) == {st[k].obj : k \in {k \in DOMAIN st : st[k].kind = "eq"}}

ModelAt(st, xv) == [x |-> xv, aux |-> [i \in EqsIn(st) |-> AuxAt(i, xv)]]

\* Module::check(full, optimizing): a model of the store, minimising aux_o
\* when an objective o is set (o = 0: plain check).  It may give up with
\* Unknown when full is FALSE.
PrimaryCheck(st, o, isFull) ==
    LET F == Feasible(st)
        Best == IF o = 0 THEN F
                ELSE {xv \in F : \A yv \in F : AuxAt(o, xv) <= AuxAt(o, yv)}
    IN  {[answer |-> "True", model |-> ModelAt(st, xv)] : xv \in Best}
          \cup (IF F = {} THEN {[answer |-> "False", model |-> model]} ELSE {})
          \cup (IF isFull THEN {} ELSE {[answer |-> "Unknown", model |-> model]})

\* Model::find(aux_j)->second: the value, or garbage for a missing entry.
ModelValue(m, j) == IF j \in DOMAIN m.aux THEN {m.aux[j]} ELSE GarbageValues

-----------------------------------------------------------------------------
(* Manager::push, add and pop on a store with no removal inside the loop.  *)

\* push(): record the store's length.
Pushed(st, sc) == Append(sc, Len(st))

\* pop(n): cut the store back to the n-th most recent backtrack point and
\* drop the n most recent points.
PopStore(st, sc, n) == SubSeq(st, 1, sc[Len(sc) - n + 1])
PopScopes(sc, n) == SubSeq(sc, 1, Len(sc) - n)

\* ModuleInput::add: append unless present.
AddTo(st, f) == IF f \in ToSet(st) THEN st ELSE Append(st, f)

-----------------------------------------------------------------------------
(* Operations.                                                             *)

Init ==
    /\ objectives \in ObjectiveChoices
    /\ \E S \in BaseChoices : store = <<Base(S)>>
    /\ scopes = <<>>
    /\ pc = "idle"
    /\ idx = 1
    /\ full = TRUE
    /\ result = "Unknown"
    /\ model = [x |-> CHOOSE v \in Values : TRUE, aux |-> <<>>]
    /\ before = store

\* Manager::check with no objectives: the primary backend's answer.
checkPlain(isFull) ==
    /\ pc = "idle"
    /\ objectives = <<>>
    /\ \E r \in PrimaryCheck(store, 0, isFull) :
         /\ result' = r.answer
         /\ model' = r.model
    /\ full' = isFull
    /\ UNCHANGED <<objectives, store, scopes, pc, idx, before>>

\* Manager::check with objectives: push the scope collecting the bounds.
checkBegin(isFull) ==
    /\ pc = "idle"
    /\ objectives # <<>>
    /\ scopes' = Pushed(store, scopes)
    /\ pc' = "loop"
    /\ idx' = 1
    /\ full' = isFull
    /\ before' = store
    /\ UNCHANGED <<objectives, store, result, model>>

\* One iteration's first half: push, add the equation of objective idx,
\* setObjective and an optimising check.  Its three outcomes follow.
EqScopes == Pushed(store, scopes)
EqStore == AddTo(store, Eq(idx))
IterationResults == PrimaryCheck(EqStore, idx, full)

\* Mutation: the failure path pops only one scope.
iterateFailPopOne ==
    /\ pc = "loop"
    /\ \E r \in IterationResults :
         /\ r.answer # "True"
         /\ model' = r.model
         /\ result' = r.answer
    /\ store' = PopStore(EqStore, EqScopes, 1)
    /\ scopes' = PopScopes(EqScopes, 1)
    /\ pc' = "idle"
    /\ UNCHANGED <<objectives, idx, full, before>>

\* The check did not answer True: pop(2) and return its answer.
iterateFail ==
    /\ pc = "loop"
    /\ \E r \in IterationResults :
         /\ r.answer # "True"
         /\ model' = r.model
         /\ result' = r.answer
    /\ store' = PopStore(EqStore, EqScopes, 2)
    /\ scopes' = PopScopes(EqScopes, 2)
    /\ pc' = "idle"
    /\ UNCHANGED <<objectives, idx, full, before>>

\* The last objective answered True: pop(2) and return True.
iterateLast ==
    /\ pc = "loop"
    /\ idx = Len(objectives)
    /\ \E r \in IterationResults :
         /\ r.answer = "True"
         /\ model' = r.model
    /\ result' = "True"
    /\ store' = PopStore(EqStore, EqScopes, 2)
    /\ scopes' = PopScopes(EqScopes, 2)
    /\ pc' = "idle"
    /\ UNCHANGED <<objectives, idx, full, before>>

\* Mutation: ++obVarIter is missing; the loop optimises the same objective again.
iterateNextStuck ==
    /\ pc = "loop"
    /\ idx < Len(objectives)
    /\ \E r \in IterationResults :
         /\ r.answer = "True"
         /\ model' = r.model
         /\ \E v \in ModelValue(r.model, idx + 1) :
              store' = AddTo(PopStore(EqStore, EqScopes, 1), Bound(idx + 1, v))
    /\ scopes' = PopScopes(EqScopes, 1)
    /\ UNCHANGED <<objectives, pc, idx, full, result, before>>

\* Mutation: the loop also advances past the last objective.
iterateNextPastEnd ==
    /\ pc = "loop"
    /\ idx <= Len(objectives)
    /\ \E r \in IterationResults :
         /\ r.answer = "True"
         /\ model' = r.model
         /\ \E v \in ModelValue(r.model, idx + 1) :
              store' = AddTo(PopStore(EqStore, EqScopes, 1), Bound(idx + 1, v))
    /\ scopes' = PopScopes(EqScopes, 1)
    /\ idx' = idx + 1
    /\ UNCHANGED <<objectives, pc, full, result, before>>

\* More objectives remain: ++obVarIter, read that objective's auxiliary
\* variable from the model, pop the equation's scope and add the bound
\* (+/-)f_next - value < 0 in the outer scope.
iterateNext ==
    /\ pc = "loop"
    /\ idx < Len(objectives)
    /\ \E r \in IterationResults :
         /\ r.answer = "True"
         /\ model' = r.model
         /\ \E v \in ModelValue(r.model, idx + 1) :
              store' = AddTo(PopStore(EqStore, EqScopes, 1), Bound(idx + 1, v))
    /\ scopes' = PopScopes(EqScopes, 1)
    /\ idx' = idx + 1
    /\ UNCHANGED <<objectives, pc, full, result, before>>

Next ==
    \/ \E b \in BOOLEAN : checkPlain(b)
    \/ \E b \in BOOLEAN : checkBegin(b)
    \/ iterateFail
    \/ iterateLast
    \/ iterateNext

Spec == Init /\ [][Next]_vars

\* The iterations of the loop run in the caller's thread, one after the
\* other, until check returns: they are never left waiting.
LoopStep == iterateFail \/ iterateLast \/ iterateNext

FairSpec == Spec /\ WF_vars(LoopStep)

-----------------------------------------------------------------------------
(* Manager::optimum and the reference lexicographic optimum.               *)

\* Manager::optimum(f_j): the model value of aux_j, sign-adjusted; the
\* empty set when the model has no aux_j (the assert at line 185/197).
Optimum(j) == IF j \in DOMAIN model.aux THEN {Sign(j) * model.aux[j]} ELSE {}

\* Reference: the x values optimal for objectives 1..k lexicographically
\* among those the user's assertions admit.
RECURSIVE LexBest(_)
LexBest(k) ==
    IF k = 0 THEN Feasible(before)
    ELSE LET P == LexBest(k - 1)
             Better(a, b) == IF objectives[k].minimize THEN a <= b ELSE a >= b
         IN  {xv \in P : \A yv \in P :
                Better(objectives[k].fn[xv], objectives[k].fn[yv])}

LexValue(j) == {objectives[j].fn[xv] : xv \in LexBest(j)}

-----------------------------------------------------------------------------
(* Manager::printAssignment with objectives.                              *)

\* An objective that is the variable x itself (Poly::isVariable): its value
\* is the one printed for x, and its auxiliary variable prints nothing.
IsVariableObjective(i) == \A v \in Values : objectives[i].fn[v] = v

\* The loop over the model's entries in their order (the auxiliary
\* variables were created in the order of mObjectives): an entry that is
\* the current objective's auxiliary variable reports that objective with
\* the sign-adjusted value and advances objectivesIter; any other entry is
\* printed under its own name.
RECURSIVE PrintWalk(_, _)
PrintWalk(keys, j) ==
    IF keys = <<>> THEN {}
    ELSE IF j <= Len(objectives) /\ Head(keys) = j
    THEN (IF IsVariableObjective(j) THEN {}
          ELSE {[obj |-> j, val |-> Sign(j) * model.aux[j]]})
         \cup PrintWalk(Tail(keys), j + 1)
    ELSE PrintWalk(Tail(keys), j)

\* The objective values printAssignment reports: the walk over the
\* auxiliary variables, and x's own entry for the objectives that are x.
printAssignment ==
    IF objectives = <<>> THEN {}
    ELSE PrintWalk(SetToSortSeq(DOMAIN model.aux, <), 1)
           \cup {[obj |-> j, val |-> model.x]
                   : j \in {i \in 1..Len(objectives) : IsVariableObjective(i)}}

\* The values printAssignment reports for objective j.
Reported(j) == {p.val : p \in {q \in printAssignment : q.obj = j}}

-----------------------------------------------------------------------------
(* Properties.                                                             *)

Formulas ==
    {Base(S) : S \in BaseChoices} \cup {Eq(i) : i \in 1..Len(objectives)}
      \cup UNION {{Bound(j, v) : v \in GarbageValues \cup {AuxAt(j, xv) : xv \in Values}}
                  : j \in 1..Len(objectives)}

TypeOK ==
    /\ objectives \in ObjectiveChoices
    /\ store \in Seq(Formulas)
    /\ scopes \in Seq(Nat)
    /\ pc \in {"idle", "loop"}
    /\ idx \in 1..Max({Len(objectives), 1})
    /\ full \in BOOLEAN
    /\ result \in {"True", "False", "Unknown"}
    /\ model.x \in Values

\* Every exit of the objective loop leaves the store and the backtrack
\* stack as they were before check: the push/pop(2)/pop()/push pattern of
\* Manager::check is balanced on the failure and on the success path.
StoreRestoredAfterCheck ==
    pc = "idle" => store = before /\ scopes = <<>>

\* The spec's optimisation contract: after check answers True, optimum()
\* reports for every objective its lexicographic optimum under the
\* earlier ones; check answers False only when the assertions are
\* unsatisfiable.
ObjectivesOptimal ==
    pc = "idle" /\ objectives # <<>> =>
        /\ result = "True" =>
              \A j \in 1..Len(objectives) : Optimum(j) = LexValue(j)
        /\ result = "False" => Feasible(before) = {}

\* The optimisation contract for a single objective (where the loop never
\* reaches the bound for a next objective): check answers True with the
\* true optimum, in either direction, which both optimum() and
\* printAssignment report, and False only for unsatisfiable assertions.
SingleObjectiveOptimal ==
    Len(objectives) <= 1 =>
        /\ ObjectivesOptimal
        /\ pc = "idle" /\ objectives # <<>> /\ result = "True" =>
              \A j \in 1..Len(objectives) : Reported(j) = LexValue(j)

\* Manager::check returns: once the objective loop has begun, it reaches
\* one of its exits (a failed check or the last objective), each iteration
\* moving obVarIter on.
CheckReturns == pc = "loop" ~> pc = "idle"

=============================================================================
