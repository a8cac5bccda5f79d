--------------------------- MODULE AssertionStore ---------------------------
(***************************************************************************)
(* What the Manager promises its caller about the assertion store (the    *)
(* spec's backtrackable store and BacktrackPoint): the assertions are     *)
(* grouped in nested levels; add puts a new assertion into the innermost  *)
(* level, remove takes one out of whichever level holds it, push opens a  *)
(* level, pop discards the innermost level with everything added in it,   *)
(* and check answers for the assertions of all levels (or gives up).      *)
(***************************************************************************)
EXTENDS Sequences, SequencesExt

CONSTANTS
    Formulas,       \* the assertions a caller may make
    Sat(_)          \* Sat(S): the set S of assertions is satisfiable

VARIABLES
    levels,         \* levels[1] the outermost, levels[Len(levels)] the innermost
    answer          \* the answer of the last check

Content == UNION {levels[i] : i \in DOMAIN levels}

Init ==
    /\ levels = <<{}>>
    /\ answer = "Unknown"

\* Adding an assertion already in the store changes nothing.
AddAssertion(f) ==
    /\ levels' = IF f \in Content THEN levels
                 ELSE [levels EXCEPT ![Len(levels)] = @ \cup {f}]
    /\ UNCHANGED answer

RemoveAssertion(f) ==
    /\ f \in Content
    /\ levels' = [i \in DOMAIN levels |-> levels[i] \ {f}]
    /\ UNCHANGED answer

PushLevel ==
    /\ levels' = Append(levels, {})
    /\ UNCHANGED answer

PopLevel ==
    /\ Len(levels) > 1
    /\ levels' = Front(levels)
    /\ UNCHANGED answer

\* True only for a satisfiable store, False only for an unsatisfiable one.
CheckStore ==
    /\ answer' \in {IF Sat(Content) THEN "True" ELSE "False", "Unknown"}
    /\ UNCHANGED levels

Next ==
    \/ \E f \in Formulas : AddAssertion(f) \/ RemoveAssertion(f)
    \/ PushLevel
    \/ PopLevel
    \/ CheckStore

Spec == Init /\ [][Next]_<<levels, answer>>

=============================================================================
