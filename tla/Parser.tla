------------------------------- MODULE Parser -------------------------------
(***************************************************************************)
(* The semantic actions of the SMT-LIB parser (src/solver/newparser/        *)
(* Parser.cpp) that build formulas from terms: constraints (mkConstraint), *)
(* if-then-else inside a polynomial (mkIteInExpr), which introduces an     *)
(* auxiliary variable and records its defining formula in                  *)
(* mTheoryIteBindings until a constraint over that variable is built,      *)
(* if-then-else on formulas (mkIteInFormula), n-ary connectives            *)
(* (mkFormula), negation, and let bindings of polynomials and formulas    *)
(* (addTheoryBinding, addBooleanBinding).                                  *)
(*                                                                         *)
(* The actions fire bottom-up, left to right, as the grammar of the        *)
(* constructor matches; Parse threads the parser's state (the ite bindings,*)
(* the next auxiliary variable, the let scope) through that order.         *)
(*                                                                         *)
(* Data: one theory variable x (id 0), auxiliary variables 1..MaxAux, one  *)
(* Boolean variable b; a polynomial is linear: coefficients per variable   *)
(* id plus a constant.  Symbols of let bindings are model values.          *)
(***************************************************************************)
EXTENDS Integers, Sequences, FiniteSets, Functions, TLC

CONSTANTS
    Inputs,       \* the formulas a script may assert
    Values,       \* values of x and of the auxiliary variables
    MaxAux,       \* bound on the auxiliary variables a run creates
    MaxCommands,  \* bound on the assert commands a run parses
    Decls,        \* the declarations a script may make: [name, sort]
    LevelArgs,    \* the arguments of push and pop
    MaxLevels     \* bound on the handler's open push levels

VARIABLES
    iteBindings,  \* mTheoryIteBindings: auxiliary variable -> defining formula
    nextAux,      \* id of the next auxiliary variable
    asserted,     \* the assert commands so far: <<[in, out, aux]>>
    boolVars,     \* names in the symbol table var_bool
    theoryVars,   \* names in the symbol table var_theory
    failed,       \* parse has failed: no further command is executed
    scopes,       \* the handler's push levels: indices of the assertions in each
    answer        \* the handler's last check: [res, scope]

vars == <<iteBindings, nextAux, asserted, boolVars, theoryVars, failed,
          scopes, answer>>

VarIds == 0..MaxAux

-----------------------------------------------------------------------------
(* Linear polynomials and output formulas (carl's Polynomial, Formula).    *)

PVar(v) == [c |-> [w \in VarIds |-> IF w = v THEN 1 ELSE 0], k |-> 0]
PNum(n) == [c |-> [w \in VarIds |-> 0], k |-> n]
PSub(p, q) == [c |-> [w \in VarIds |-> p.c[w] - q.c[w]], k |-> p.k - q.k]
\* Constraint::variables of a polynomial.
PVars(p) == {w \in VarIds : p.c[w] # 0}
PValue(p, a) == p.k + SumFunction([w \in VarIds |-> p.c[w] * a[w]])

Holds(rel, v) ==
    CASE rel = "EQ"  -> v = 0  [] rel = "NEQ" -> v # 0
      [] rel = "LESS" -> v < 0 [] rel = "LEQ" -> v <= 0
      [] rel = "GREATER" -> v > 0 [] rel = "GEQ" -> v >= 0

FAnd(S) == [k |-> "and", args |-> S]
FImp(f, g) == [k |-> "imp", args |-> <<f, g>>]
FNot(f) == [k |-> "not", args |-> <<f>>]

-----------------------------------------------------------------------------
(* The semantic actions.                                                   *)

\* Mutation: the ite bindings of the constraint's variables are dropped.
mkConstraintUnbound(lhs, rhs, rel, st) ==
    [f |-> [k |-> "cons", p |-> PSub(lhs, rhs), rel |-> rel], st |-> st]

\* mkConstraint: the constraint lhs - rhs rel 0, conjoined with (and
\* consuming) the ite bindings of the variables it still contains.
mkConstraint(lhs, rhs, rel, st) ==
    LET cons == [k |-> "cons", p |-> PSub(lhs, rhs), rel |-> rel]
        vb   == PVars(cons.p) \cap DOMAIN st.B
    IN  [f  |-> IF vb = {} THEN cons ELSE FAnd({st.B[v] : v \in vb} \cup {cons}),
         st |-> [st EXCEPT !.B = Restrict(st.B, DOMAIN st.B \ vb)]]

\* Mutation: the condition guards the else branch and its negation the then branch.
mkIteInExprSwapped(cond, pThen, pElse, st) ==
    LET aux == st.n
        t   == mkConstraint(PVar(aux), pThen, "EQ", st)
        e   == mkConstraint(PVar(aux), pElse, "EQ", t.st)
        def == FAnd({FImp(cond, e.f), FImp(FNot(cond), t.f)})
    IN  [p |-> PVar(aux),
         st |-> [e.st EXCEPT !.B = e.st.B @@ (aux :> def), !.n = aux + 1]]

\* Mutation: the auxiliary variable is not a fresh one.
mkIteInExprReused(cond, pThen, pElse, st) ==
    LET aux == st.n
        t   == mkConstraint(PVar(aux), pThen, "EQ", st)
        e   == mkConstraint(PVar(aux), pElse, "EQ", t.st)
        def == FAnd({FImp(cond, t.f), FImp(FNot(cond), e.f)})
    IN  [p |-> PVar(aux),
         st |-> [e.st EXCEPT !.B = e.st.B @@ (aux :> def)]]

\* mkIteInExpr: a fresh auxiliary variable aux, bound to
\* (cond -> aux = then) /\ (~cond -> aux = else) in mTheoryIteBindings.
mkIteInExpr(cond, pThen, pElse, st) ==
    LET aux == st.n
        t   == mkConstraint(PVar(aux), pThen, "EQ", st)
        e   == mkConstraint(PVar(aux), pElse, "EQ", t.st)
        def == FAnd({FImp(cond, t.f), FImp(FNot(cond), e.f)})
    IN  [p |-> PVar(aux),
         st |-> [e.st EXCEPT !.B = e.st.B @@ (aux :> def), !.n = aux + 1]]

\* mkIteInFormula
mkIteInFormula(cond, fThen, fElse) ==
    FAnd({FImp(cond, fThen), FImp(FNot(cond), fElse)})

\* addTheoryBinding: the let symbol (asserted to be free, so never a
\* shadowed name) goes on top of the variable stack, bound to the
\* polynomial.
addTheoryBinding(name, p, st) == [st EXCEPT !.env = (name :> p) @@ @]

\* addBooleanBinding: the same for a symbol bound to a formula; every use
\* of the symbol is that one formula.
addBooleanBinding(name, f, st) == [st EXCEPT !.env = (name :> f) @@ @]

\* The formula and polynomial rules of the grammar, with their actions, in
\* the order the parser runs them.  A let parses its bindings into the
\* variable stack, then its body, then pops the stack.
RECURSIVE ParseF(_, _), ParseP(_, _)
ParseF(t, st) ==
    CASE t.k = "bool" -> [f |-> [k |-> "bool"], st |-> st]
      [] t.k = "rel" ->
           LET l == ParseP(t.args[1], st)
               r == ParseP(t.args[2], l.st)
           IN  mkConstraint(l.p, r.p, t.rel, r.st)
      [] t.k = "not" ->
           LET a == ParseF(t.args[1], st) IN [f |-> FNot(a.f), st |-> a.st]
      [] t.k \in {"and", "or"} ->
           LET a == ParseF(t.args[1], st)
               b == ParseF(t.args[2], a.st)
           IN  [f |-> [k |-> t.k, args |-> {a.f, b.f}], st |-> b.st]
      [] t.k = "ite" ->
           LET c == ParseF(t.args[1], st)
               a == ParseF(t.args[2], c.st)
               b == ParseF(t.args[3], a.st)
           IN  [f |-> mkIteInFormula(c.f, a.f, b.f), st |-> b.st]
      [] t.k = "let" ->
           LET v == ParseP(t.args[1], st)
               b == ParseF(t.args[2], addTheoryBinding(t.name, v.p, v.st))
           IN  [f |-> b.f, st |-> [b.st EXCEPT !.env = st.env]]
      [] t.k = "blet" ->
           LET v == ParseF(t.args[1], st)
               b == ParseF(t.args[2], addBooleanBinding(t.name, v.f, v.st))
           IN  [f |-> b.f, st |-> [b.st EXCEPT !.env = st.env]]
      [] t.k = "bsym" -> [f |-> st.env[t.name], st |-> st]
ParseP(t, st) ==
    CASE t.k = "x"   -> [p |-> PVar(0), st |-> st]
      [] t.k = "num" -> [p |-> PNum(t.n), st |-> st]
      [] t.k = "sym" -> [p |-> st.env[t.name], st |-> st]
      [] t.k = "pite" ->
           LET c == ParseF(t.args[1], st)
               a == ParseP(t.args[2], c.st)
               b == ParseP(t.args[3], a.st)
           IN  mkIteInExpr(c.f, a.p, b.p, b.st)

\* The auxiliary variables parsing t creates.
RECURSIVE Ites(_)
Ites(t) ==
    (IF t.k = "pite" THEN 1 ELSE 0)
      + (IF "args" \in DOMAIN t
         THEN SumFunction([i \in DOMAIN t.args |-> Ites(t.args[i])]) ELSE 0)

-----------------------------------------------------------------------------
(* Meaning of an input term and of a parsed formula.                       *)

\* SMT-LIB semantics of an input formula at x = xv, b = bv.
RECURSIVE EvalIn(_, _, _, _), EvalInP(_, _, _, _)
EvalIn(t, xv, bv, env) ==
    CASE t.k = "bool" -> bv
      [] t.k = "rel" -> Holds(t.rel, EvalInP(t.args[1], xv, bv, env)
                                      - EvalInP(t.args[2], xv, bv, env))
      [] t.k = "not" -> ~EvalIn(t.args[1], xv, bv, env)
      [] t.k = "and" -> EvalIn(t.args[1], xv, bv, env) /\ EvalIn(t.args[2], xv, bv, env)
      [] t.k = "or"  -> EvalIn(t.args[1], xv, bv, env) \/ EvalIn(t.args[2], xv, bv, env)
      [] t.k = "ite" -> IF EvalIn(t.args[1], xv, bv, env)
                        THEN EvalIn(t.args[2], xv, bv, env)
                        ELSE EvalIn(t.args[3], xv, bv, env)
      [] t.k = "let" -> EvalIn(t.args[2], xv, bv,
                               (t.name :> EvalInP(t.args[1], xv, bv, env)) @@ env)
      [] t.k = "blet" -> EvalIn(t.args[2], xv, bv,
                                (t.name :> EvalIn(t.args[1], xv, bv, env)) @@ env)
      [] t.k = "bsym" -> env[t.name]
EvalInP(t, xv, bv, env) ==
    CASE t.k = "x"   -> xv
      [] t.k = "num" -> t.n
      [] t.k = "sym" -> env[t.name]
      [] t.k = "pite" -> IF EvalIn(t.args[1], xv, bv, env)
                         THEN EvalInP(t.args[2], xv, bv, env)
                         ELSE EvalInP(t.args[3], xv, bv, env)

\* A parsed formula under an assignment a of all variable ids.
RECURSIVE EvalOut(_, _, _)
EvalOut(f, a, bv) ==
    CASE f.k = "bool" -> bv
      [] f.k = "cons" -> Holds(f.rel, PValue(f.p, a))
      [] f.k = "not"  -> ~EvalOut(f.args[1], a, bv)
      [] f.k = "imp"  -> EvalOut(f.args[1], a, bv) => EvalOut(f.args[2], a, bv)
      [] f.k = "and"  -> \A g \in f.args : EvalOut(g, a, bv)
      [] f.k = "or"   -> \E g \in f.args : EvalOut(g, a, bv)

\* The declared symbols a term needs: x must be in var_theory and b in
\* var_bool, or the grammar's variable alternatives do not match.
RECURSIVE Declared(_)
Declared(t) ==
    /\ t.k = "x" => "x" \in theoryVars
    /\ t.k = "bool" => "b" \in boolVars
    /\ "args" \in DOMAIN t => \A i \in DOMAIN t.args : Declared(t.args[i])

\* The assignments with x = xv of the auxiliary variables ids (the others
\* do not occur in the formula and are set to 0).
Assignments(xv, ids) ==
    {[w \in VarIds |-> IF w = 0 THEN xv ELSE IF w \in ids THEN a[w] ELSE 0]
        : a \in [ids -> Values]}

-----------------------------------------------------------------------------
(* The instruction handler (not in this repository), from the spec: a     *)
(* stack of push levels over the asserted formulas, and check deciding    *)
(* the conjunction of the formulas in scope.                              *)

NoAnswer == [res |-> "none", scope |-> {}]

InScope == UNION {scopes[l] : l \in DOMAIN scopes}

\* The solver's verdict on the parsed formulas with indices S.
HandlerSat(S) ==
    \E xv \in Values, bv \in BOOLEAN :
        \E a \in Assignments(xv, UNION {asserted[i].aux : i \in S}) :
            \A i \in S : EvalOut(asserted[i].out, a, bv)

-----------------------------------------------------------------------------
(* The commands of a script (the cmd rule), in the order main parses them. *)

Init ==
    /\ iteBindings = <<>>
    /\ nextAux = 1
    /\ asserted = <<>>
    /\ boolVars = {}
    /\ theoryVars = {}
    /\ failed = FALSE
    /\ scopes = <<{}>>
    /\ answer = NoAnswer

\* (assert f): parse the formula, then SMTLIBParser::add hands it to the
\* instruction handler, which adds it to the current level.
add(t) ==
    /\ ~failed
    /\ Declared(t)
    /\ Len(asserted) < MaxCommands
    /\ nextAux + Ites(t) - 1 <= MaxAux
    /\ LET r == ParseF(t, [B |-> iteBindings, n |-> nextAux, env |-> <<>>])
       IN  /\ iteBindings' = r.st.B
           /\ nextAux' = r.st.n
           /\ asserted' = Append(asserted, [in |-> t, out |-> r.f,
                                             aux |-> nextAux..r.st.n - 1])
    /\ scopes' = [scopes EXCEPT ![Len(scopes)] = @ \cup {Len(asserted) + 1}]
    /\ UNCHANGED <<boolVars, theoryVars, failed, answer>>

\* An assert over an undeclared symbol: the expectation operator throws,
\* on_error fails main, and parse returns false; nothing after it runs.
parseError(t) ==
    /\ ~failed
    /\ ~Declared(t)
    /\ failed' = TRUE
    /\ UNCHANGED <<iteBindings, nextAux, asserted, boolVars, theoryVars, scopes, answer>>

\* declare-const: assert(isSymbolFree(name)), then the name goes into
\* var_bool or var_theory by its sort (qi::symbols::add keeps an existing
\* entry).  A debug build aborts on a name already declared, a release
\* build only warns: both outcomes are possible.
declareConst(d) ==
    /\ ~failed
    /\ \/ /\ boolVars' = IF d.sort = "Bool" THEN boolVars \cup {d.name} ELSE boolVars
          /\ theoryVars' = IF d.sort = "Bool" THEN theoryVars ELSE theoryVars \cup {d.name}
          /\ UNCHANGED failed
       \/ /\ d.name \in boolVars \cup theoryVars
          /\ failed' = TRUE
          /\ UNCHANGED <<boolVars, theoryVars>>
    /\ UNCHANGED <<iteBindings, nextAux, asserted, scopes, answer>>

\* declare-fun: the same, for a function without arguments.
declareFun(d) == declareConst(d)

\* (check-sat): the handler decides the formulas in scope.
check ==
    /\ ~failed
    /\ answer' = [res |-> IF HandlerSat(InScope) THEN "sat" ELSE "unsat",
                   scope |-> InScope]
    /\ UNCHANGED <<iteBindings, nextAux, asserted, boolVars, theoryVars, failed, scopes>>

\* (push n): n new levels.
push(n) ==
    /\ ~failed
    /\ Len(scopes) - 1 + n <= MaxLevels
    /\ scopes' = scopes \o [i \in 1..n |-> {}]
    /\ UNCHANGED <<iteBindings, nextAux, asserted, boolVars, theoryVars, failed, answer>>

\* (pop n): the n innermost levels and their assertions go; popping more
\* levels than were pushed stops at the outermost one.
pop(n) ==
    /\ ~failed
    /\ scopes' = SubSeq(scopes, 1, IF Len(scopes) > n THEN Len(scopes) - n ELSE 1)
    /\ UNCHANGED <<iteBindings, nextAux, asserted, boolVars, theoryVars, failed, answer>>

Next ==
    \/ \E t \in Inputs : add(t) \/ parseError(t)
    \/ \E d \in Decls : declareConst(d) \/ declareFun(d)
    \/ check
    \/ \E n \in LevelArgs : push(n) \/ pop(n)

Spec == Init /\ [][Next]_vars

-----------------------------------------------------------------------------
(* Properties.                                                             *)

TypeOK ==
    /\ DOMAIN iteBindings \subseteq 1..nextAux - 1
    /\ nextAux \in 1..MaxAux + 1
    /\ Len(asserted) <= MaxCommands
    /\ \A i \in DOMAIN asserted : asserted[i].in \in Inputs
    /\ boolVars \cup theoryVars \subseteq {d.name : d \in Decls}
    /\ failed \in BOOLEAN
    /\ scopes \in Seq(SUBSET DOMAIN asserted) /\ Len(scopes) \in 1..MaxLevels + 1
    /\ answer.res \in {"none", "sat", "unsat"} /\ answer.scope \subseteq DOMAIN asserted

\* Every asserted formula, as parsed, means what the script says: for each
\* value of x and b it holds iff some values of the auxiliary variables
\* satisfy the parsed formula (the ite definitions produced by mkIteInExpr
\* and attached by mkConstraint pin them down).
ParsedEquivalent ==
    \A i \in DOMAIN asserted :
        \A xv \in Values, bv \in BOOLEAN :
            EvalIn(asserted[i].in, xv, bv, <<>>)
              <=> \E a \in Assignments(xv, asserted[i].aux) : EvalOut(asserted[i].out, a, bv)

=============================================================================
