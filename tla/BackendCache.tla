---------------------------- MODULE BackendCache ----------------------------
(***************************************************************************)
(* Manager::getBackends (src/lib/solver/Manager.cpp:387-433) as called by  *)
(* the primary backend when it runs its backends: strategy lookup by the   *)
(* formula's properties, the per-requester cache mBackendsOfModules keyed  *)
(* by thread priority, global ids from mGeneratedModules.size(), and the   *)
(* catch-up replay a newly created backend receives.                       *)
(*                                                                         *)
(* The requester (Module, whose code is not in this repository) is         *)
(* modelled from the spec: it keeps the store passed by the Manager, the   *)
(* marker firstSubformulaToPass, and the constraints informed since its    *)
(* backends were last updated; running its backends passes the pending    *)
(* formulas and constraints to the backends getBackends returned.          *)
(*                                                                         *)
(* Data: a formula is a model value; its constraint is itself; its         *)
(* property (e.g. linear or non-linear) is Kind[f].  A strategy entry is a *)
(* priority with the set of property sets under which it applies.          *)
(***************************************************************************)
EXTENDS Integers, Sequences, SequencesExt, FiniteSets

CONSTANTS
    Formulas,       \* the formulas (and constraints) a caller may assert
    Kinds,          \* formula properties the strategy tests
    Kind,           \* Kind[f]: the property formula f contributes
    Priorities,     \* strategy entries below the primary, by priority
    Applies,        \* Applies[p]: the property sets under which entry p matches
    RemovableKinds  \* the properties of formulas a caller removes again

ASSUME Kind \in [Formulas -> Kinds]
ASSUME Priorities \subseteq Nat /\ Applies \in [Priorities -> SUBSET SUBSET Kinds]

VARIABLES
    passed,       \* the requester's mpPassedFormula
    firstToPass,  \* firstSubformulaToPass, as the count of formulas passed on
    informed,     \* the requester's informedConstraints
    toInform,     \* constraints informed since the backends were last updated
    allBackends,  \* mBackendsOfModules[requester]: <<[prio, id]>>
    generated,    \* mGeneratedModules.size() (the primary is module 0)
    used,         \* priorities of the backends the last getBackends returned
    recv,         \* recv[p]: formulas backend p holds
    binf          \* binf[p]: constraints backend p was informed about

vars == <<passed, firstToPass, informed, toInform, allBackends, generated,
          used, recv, binf>>

-----------------------------------------------------------------------------
(* Manager::getBackends                                                     *)

\* updateProperties: the properties of the requester's formula.
Properties == {Kind[f] : f \in ToSet(passed)}

\* mStrategyGraph.getBackends: the entries whose condition holds.
Factories(props) == {p \in Priorities : props \in Applies[p]}

\* The loop over allBackends: some candidate has this thread priority.
Cached(p) == \E i \in DOMAIN allBackends : allBackends[i].prio = p

\* The factories without a cached backend, in the set's (priority) order,
\* each created with id mGeneratedModules.size() at its turn.
Created(props) == SetToSortSeq({p \in Factories(props) : ~Cached(p)}, <)

NewEntries(props) ==
    [i \in DOMAIN Created(props) |-> [prio |-> Created(props)[i], id |-> generated + i - 1]]

\* Mutation: the replay of passed formulas stops one short of the marker.
CatchUpShort == ToSet(SubSeq(passed, 1, firstToPass - 1))

\* The replay loop from rPassedFormula().begin() to firstSubformulaToPass.
CatchUp == ToSet(SubSeq(passed, 1, firstToPass))

\* Mutation: the replay of informed constraints is left out.
CatchUpInformedNone == {}

\* The replay loop over the requester's informedConstraints().
CatchUpInformed == informed

\* Mutation: ModuleInput::add without the duplicate check.
StoreWithDuplicate(f) == Append(passed, f)

\* ModuleInput::add: append unless already present.
StoreWith(f) == IF f \in ToSet(passed) THEN passed ELSE Append(passed, f)

-----------------------------------------------------------------------------
(* Operations                                                               *)

Init ==
    /\ passed = <<>>
    /\ firstToPass = 0
    /\ informed = {}
    /\ toInform = {}
    /\ allBackends = <<>>
    /\ generated = 1
    /\ used = {}
    /\ recv = [p \in Priorities |-> {}]
    /\ binf = [p \in Priorities |-> {}]

\* Manager::inform, received by the requester.
inform(c) ==
    /\ informed' = informed \cup {c}
    /\ toInform' = toInform \cup {c}
    /\ UNCHANGED <<passed, firstToPass, allBackends, generated, used, recv, binf>>

\* Manager::add of an atom: inform, then insert unless present.
add(f) ==
    /\ informed' = informed \cup {f}
    /\ toInform' = toInform \cup {f}
    /\ passed' = StoreWith(f)
    /\ UNCHANGED <<firstToPass, allBackends, generated, used, recv, binf>>

\* Manager::remove: the requester erases the formula and, if it had passed
\* it on, removes it from every backend it has.
remove(f) ==
    /\ f \in ToSet(passed)
    /\ Kind[f] \in RemovableKinds
    /\ LET i == CHOOSE k \in DOMAIN passed : passed[k] = f IN
         firstToPass' = IF i <= firstToPass THEN firstToPass - 1 ELSE firstToPass
    /\ passed' = SelectSeq(passed, LAMBDA g : g # f)
    /\ recv' = [p \in Priorities |-> recv[p] \ {f}]
    /\ UNCHANGED <<informed, toInform, allBackends, generated, used, binf>>

\* The requester runs its backends with formulas still to pass: getBackends
\* (cache lookup, creation with catch-up), then the pending constraints and
\* formulas go to every backend it returned.
runBackends ==
    /\ firstToPass < Len(passed)
    /\ LET props   == Properties
           fresh   == ToSet(Created(props))
           pending == ToSet(SubSeq(passed, firstToPass + 1, Len(passed)))
       IN /\ allBackends' = allBackends \o NewEntries(props)
          /\ generated' = generated + Len(Created(props))
          /\ used' = Factories(props)
          /\ recv' = [p \in Priorities |->
                        IF p \in fresh THEN CatchUp \cup pending
                        ELSE IF p \in used' THEN recv[p] \cup pending
                        ELSE recv[p]]
          /\ binf' = [p \in Priorities |->
                        IF p \in fresh THEN CatchUpInformed
                        ELSE IF p \in used' THEN binf[p] \cup toInform
                        ELSE binf[p]]
    /\ firstToPass' = Len(passed)
    /\ toInform' = {}
    /\ UNCHANGED <<passed, informed>>

Next ==
    \/ \E c \in Formulas : inform(c)
    \/ \E f \in Formulas : add(f)
    \/ \E f \in Formulas : remove(f)
    \/ runBackends

Spec == Init /\ [][Next]_vars

-----------------------------------------------------------------------------
(* Properties                                                               *)

TypeOK ==
    /\ passed \in Seq(Formulas) /\ IsInjective(passed)
    /\ firstToPass \in 0..Len(passed)
    /\ informed \subseteq Formulas /\ toInform \subseteq informed
    /\ allBackends \in Seq([prio : Priorities, id : Nat])
    /\ used \subseteq Priorities
    /\ recv \in [Priorities -> SUBSET Formulas]
    /\ binf \in [Priorities -> SUBSET Formulas]

\* Catch-up correctness: every backend the requester uses holds exactly the
\* formulas passed on so far, whether it was created with the first
\* formula or joined later through the replay in getBackends.
UsedBackendsInSync ==
    \A p \in used : recv[p] = ToSet(SubSeq(passed, 1, firstToPass))

\* The inform contract, for backends: a backend was informed about the
\* constraint of every formula it holds.
BackendsInformed ==
    \A p \in Priorities : recv[p] \subseteq binf[p]

=============================================================================
