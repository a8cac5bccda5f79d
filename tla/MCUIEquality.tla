---------------------------- MODULE MCUIEquality ----------------------------
(* Two variables, two contents of one unary function f (f(v1), f(v2)).     *)
EXTENDS UIEquality

CONSTANTS placeholder

MCContents == {[fn |-> "f", args |-> <<1>>], [fn |-> "f", args |-> <<2>>]}

=============================================================================
