------------------------------ MODULE MCParser ------------------------------
EXTENDS Parser

X == [k |-> "x"]
N(n) == [k |-> "num", n |-> n]
Y == [k |-> "sym", name |-> "y"]
B == [k |-> "bool"]
Rel(r, p, q) == [k |-> "rel", rel |-> r, args |-> <<p, q>>]
PIte(c, p, q) == [k |-> "pite", args |-> <<c, p, q>>]
FIte(c, f, g) == [k |-> "ite", args |-> <<c, f, g>>]
Not(f) == [k |-> "not", args |-> <<f>>]
And(f, g) == [k |-> "and", args |-> <<f, g>>]
Or(f, g) == [k |-> "or", args |-> <<f, g>>]
Let(p, f) == [k |-> "let", name |-> "y", args |-> <<p, f>>]
BLet(f, g) == [k |-> "blet", name |-> "q", args |-> <<f, g>>]
Q == [k |-> "bsym", name |-> "q"]

OneTwo == PIte(B, N(1), N(2))

\* Terms in positive positions, each ite term used by one constraint, or
\* several constraints under a conjunction.
Positive == {
    Rel("GREATER", X, N(0)),
    Rel("LESS", PIte(B, X, N(2)), N(1)),
    Let(OneTwo, And(Rel("GREATER", Y, N(1)), Rel("LESS", Y, N(3)))),
    FIte(B, Rel("GREATER", X, N(0)), Rel("LESS", X, N(0))),
    Rel("GEQ", PIte(Rel("GREATER", X, N(0)), OneTwo, N(0)), N(1)),
    Or(B, Rel("LESS", X, N(1))),
    Let(OneTwo, Rel("EQ", Y, Y)),
    BLet(Rel("LESS", OneTwo, X), Or(Q, Rel("GREATER", X, N(2))))}

\* An ite term below a negation.
Negated == {Not(Rel("GREATER", OneTwo, N(0)))}

\* A let-bound ite term used by both sides of a disjunction.
SharedInOr == {Let(OneTwo, Or(Rel("LESS", Y, N(1)), Rel("GREATER", Y, N(2))))}

MCValues == -1..3

\* x as an integer constant, b as a Boolean one, and b redeclared as a
\* theory variable.
MCDecls == {[name |-> "x", sort |-> "Int"], [name |-> "b", sort |-> "Bool"],
            [name |-> "b", sort |-> "Int"]}

=============================================================================
