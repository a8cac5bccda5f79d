------------------------------- MODULE Delta -------------------------------
(***************************************************************************)
(* The node operators of the delta debugger (src/delta/operators.h).  A    *)
(* NodeOperator maps a node of the input's syntax tree to a set of          *)
(* replacements that are "supposed to be a simplifying replacement for the *)
(* given node": children offers the node's children, number shortens a     *)
(* numeric literal, constant offers the literals 0, 1, true and false.     *)
(*                                                                         *)
(* A node is [name, brackets, children].  A name is a sequence of          *)
(* characters: the digits and "." that number's regular expressions look   *)
(* at are characters of their own, and a word (a variable, true, false) is *)
(* one symbol, which no regular expression of number accepts.  The        *)
(* reduction loop that applies the operators is not in this repository; it *)
(* is modelled by a node that is replaced by any replacement an operator  *)
(* offers, as when every candidate still shows the bug.                   *)
(***************************************************************************)
EXTENDS Integers, Sequences, SequencesExt, FiniteSets

CONSTANTS
    Digits,     \* the characters [0-9] of the model
    Words,      \* words: one symbol each, among them "true" and "false"
    Nodes       \* the nodes the reduction may start from

VARIABLE node   \* the node under reduction

Dot == "."

\* The leaf Node(name, false) that the operators emplace_back.
Leaf(name) == [name |-> name, brackets |-> FALSE, children |-> <<>>]

-----------------------------------------------------------------------------
(* The regular expressions of number, on sequences of characters.          *)

AllDigits(s) == \A i \in DOMAIN s : s[i] \in Digits

\* [0-9]*\.?[0-9]*
NumberLike(s) ==
    \/ AllDigits(s)
    \/ \E p \in DOMAIN s : s[p] = Dot /\ AllDigits(SubSeq(s, 1, p - 1))
                                      /\ AllDigits(SubSeq(s, p + 1, Len(s)))

\* The position of the dot, for a name with exactly one.
DotPos(s) == CHOOSE p \in DOMAIN s : s[p] = Dot

\* [0-9]+\.
TrailingDot(s) == Len(s) >= 2 /\ s[Len(s)] = Dot /\ AllDigits(SubSeq(s, 1, Len(s) - 1))

\* [0-9]+
SimpleNumber(s) == Len(s) >= 1 /\ AllDigits(s)

\* \.[0-9]+
DegeneratedFloat(s) == Len(s) >= 2 /\ s[1] = Dot /\ AllDigits(Tail(s))

\* [0-9]+\.[0-9]+
FloatNumber(s) ==
    \E p \in 2..Len(s) - 1 : s[p] = Dot /\ AllDigits(SubSeq(s, 1, p - 1))
                                        /\ AllDigits(SubSeq(s, p + 1, Len(s)))

-----------------------------------------------------------------------------
(* The operators.                                                          *)

\* children: all children of the node.
children(n) == ToSet(n.children)

\* A leaf with a name, outside brackets: what number and constant act on.
PlainLeaf(n) == n.children = <<>> /\ n.name # <<>> /\ ~n.brackets

\* Mutation: the loop over the prefixes of a simple number runs to size.
numberWhole(n) ==
    LET s == n.name IN
    IF ~PlainLeaf(n) \/ ~NumberLike(s) THEN {}
    ELSE CASE TrailingDot(s)      -> {Leaf(SubSeq(s, 1, Len(s) - 1))}
           [] SimpleNumber(s)     -> {Leaf(SubSeq(s, 1, i)) : i \in 1..Len(s)}
           [] DegeneratedFloat(s) -> {Leaf(<<"0">> \o s)}
           [] FloatNumber(s)      -> {Leaf(SubSeq(s, 1, DotPos(s) - 1))}
                                       \cup {Leaf(SubSeq(s, 1, i)) : i \in DotPos(s) + 1..Len(s) - 1}
           [] OTHER               -> {}

\* number: a trailing dot is removed; a simple number loses trailing
\* digits (every proper prefix); a degenerated float gets a 0 in front; a
\* float loses its decimal places (the integer part, and every prefix with
\* at least one decimal less).
number(n) ==
    LET s == n.name IN
    IF ~PlainLeaf(n) \/ ~NumberLike(s) THEN {}
    ELSE CASE TrailingDot(s)      -> {Leaf(SubSeq(s, 1, Len(s) - 1))}
           [] SimpleNumber(s)     -> {Leaf(SubSeq(s, 1, i)) : i \in 1..Len(s) - 1}
           [] DegeneratedFloat(s) -> {Leaf(<<"0">> \o s)}
           [] FloatNumber(s)      -> {Leaf(SubSeq(s, 1, DotPos(s) - 1))}
                                       \cup {Leaf(SubSeq(s, 1, i)) : i \in DotPos(s) + 1..Len(s) - 1}
           [] OTHER               -> {}

\* The four literals constant offers.
Literals == {<<"0">>, <<"1">>, <<"true">>, <<"false">>}

\* Mutation: the early return for a name that already is a literal is gone.
constantNoGuard(n) ==
    IF ~PlainLeaf(n) THEN {} ELSE {Leaf(l) : l \in Literals}

\* constant: any plain leaf other than the four literals may become one.
constant(n) ==
    IF ~PlainLeaf(n) \/ n.name \in Literals THEN {} ELSE {Leaf(l) : l \in Literals}

\* What the three operators offer for a node.
Replacements(n) == children(n) \cup number(n) \cup constant(n)

-----------------------------------------------------------------------------
(* Reduction.                                                              *)

Init == node \in Nodes

\* The reduction loop replaces the node by a replacement an operator offers.
replace == \E r \in Replacements(node) : node' = r

Next == replace

Spec == Init /\ [][Next]_node

\* The loop keeps replacing while a replacement is offered.
FairSpec == Spec /\ WF_node(Next)

-----------------------------------------------------------------------------
(* Properties.                                                             *)

\* No operator offers the node itself: a reduction loop that accepts every
\* candidate still showing the bug would otherwise accept it again and again
\* without progress (the loop over the prefixes in number must stop before
\* the whole name).
ReplacementsDiffer == node \notin Replacements(node)

\* The replacements simplify, as operators.h promises: however the
\* replacements are chosen, the reduction reaches a node no operator
\* changes (the degenerated float ".5" grows to "0.5" before it shrinks, and
\* constant must not turn one literal into another and back).
ReductionTerminates == <>(Replacements(node) = {})

=============================================================================
