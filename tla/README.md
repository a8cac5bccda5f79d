# TLA+ models of SMT-RAT

This directory holds TLA+ specifications of parts of the SMT-RAT solver
library and of its benchmark tool benchmax (sources under `src/src/`). They
are checked with TLC. `PROJECT.json` is the machine-readable manifest. It
lists the components, the runs, the mutants that show every checked property
can fail, the map from each definition to the source lines it translates,
the findings and the hazards.

## The system and how its parts interact

- **Manager** (`lib/solver/Manager.cpp`): the front end a caller (the
  SMT-LIB parser's instruction handler) talks to. It keeps the
  backtrackable assertion store `mpPassedFormula` and the stack of
  backtrack points. It forwards `inform`, `add`, `remove` and `check` to
  the primary backend. `check` with objectives runs a loop of pushes,
  optimising checks and bounds.
- **Backends**: modules created on demand by `Manager::getBackends`. The
  lookup goes through the strategy graph by the properties of the
  requesting module's formula. Backends are cached per requester and
  thread priority. A newly created backend receives a catch-up replay of
  what its requester was informed about and has passed on. The modules
  themselves (`Module`, `ModuleInput`) are not in `src/`; their role is
  modelled from the spec.
- **SMT-LIB parser** (`solver/newparser/Parser.cpp`): Boost.Spirit
  semantic actions build formulas. A theory `ite` becomes an auxiliary
  variable whose definition waits in `mTheoryIteBindings` until
  `mkConstraint` attaches it to the constraint that uses it.
- **Uninterpreted functions** (`lib/UFInstancesManager.cpp`,
  `lib/UIEquality.h`): UF instances are interned by content and get
  numeric ids. Equalities between UI variables and UF instances are
  ordered by `operator<` for use in ordered containers.
- **Constraint** (`lib/Constraint.h`): the const queries of a constraint
  `lhs rel 0` (degrees, constant part, classification as a bound). The
  theory modules use them to collect bounds.
- **OpenCAD** (`smtrat-mcsat/explanations/onecellcad/OpenCAD.h`): MCSAT's
  one-cell explanation. It builds the open cell around a point by merging
  the polynomials one at a time. A polynomial of level 2 is first
  projected (leading coefficient, discriminant, resultants with the
  current y-bounds), and its projection factors are merged into level 1
  recursively.
- **benchmax SSH scheduler** (`benchmax/newssh/SSHScheduler.h`): worker
  threads take a connection under a mutex, run a job remotely and give
  the slot back.
- **delta debugger operators** (`delta/operators.h`): the tool that shrinks
  an SMT-LIB input which triggers a bug. Its operators map a node of the
  input's syntax tree to simpler candidate replacements: its children, a
  shortened number, or one of the literals 0, 1, true and false. The loop
  that tries them is not in this repository.

The parser feeds the Manager through the instruction handler, and the
Manager feeds the backends. Each module here covers one component. The
interfaces between components are represented by the contract the
consumer relies on (for example "the primary backend is sound for the
formulas it holds").

## Modules and their correspondence to the code

| Module | Models | State | Actions |
|---|---|---|---|
| `Manager` | Manager.cpp constructor, inform, add, remove, push/pop (spec), check, reset | `passed` = mpPassedFormula, `btPoints` = mBacktrackPoints (handles to formulas, `End`, `Dangling`), `informed`/`received` = the primary backend's view | `inform`, `add`, `remove`, `push`, `pop`, `check`, `reset` |
| `AssertionStore` | the spec's levelled assertion store (not code): what `Manager` promises its caller | `levels` (a sequence of sets of assertions), `answer` | `AddAssertion`, `RemoveAssertion`, `PushLevel`, `PopLevel`, `CheckStore` |
| `Objectives` | `Manager::check` lines 129-158, `Manager::optimum`, `Manager::printAssignment` | objectives, store, scopes, loop index, last model | `checkPlain`, `checkBegin`, then one of `iterateFail`, `iterateLast`, `iterateNext` per loop iteration |
| `BackendCache` | `Manager::getBackends` with its requester | requester store, `firstToPass`, informed sets, cache `allBackends`, id counter, what each backend holds | `inform`, `add`, `remove`, `runBackends` |
| `Parser` | `mkConstraint`, `mkIteInExpr`, `mkIteInFormula`, `mkFormula`, not, let of polynomials and of formulas (`addTheoryBinding`, `addBooleanBinding`); the commands assert, declare-const, declare-fun, push, pop, check-sat (the `cmd` rule); `parse`'s failure | `iteBindings` = mTheoryIteBindings, `nextAux` (auxiliary variable counter), asserted formulas, `boolVars`/`theoryVars` = the symbol tables var_bool/var_theory, `failed`, and the instruction handler's `scopes` and last `answer` (handler from the spec) | `add(t)`, `parseError(t)`, `declareConst(d)`, `declareFun(d)`, `check`, `push(n)`, `pop(n)` |
| `UFInstancesManager` | `newUFInstance`, `print`'s preconditions | `ufInstances`, `ufIdMap` | `newUFInstance` (an operator used by UIEquality's actions) |
| `UIEquality` | `IsUIVariable`/`IsUFInstance`, `operator==`, `operator<` and its asserts | the UF manager plus a `std::set` of equalities | `createInstance`, `insertEquality` |
| `Constraint` | `variables`, `constantPart`, `maxDegree`, `minDegree`, `occurences`, the variable-type queries, `constraintRelationIsStrict`, `isBound`, `isLowerBound`, `isUpperBound` | `cons` = (mLhs, mRelation), fixed (const methods) | `newConstraint` (the pool hands out the next constraint) |
| `OpenCAD` | `createOpenCADCell`, `levelOf` and `mergeCellWithPoly` (with the Open-McCallum projection) in two variables | `point` (x, y), `polySet`, loop index `next`, `cell` (one sector per level, or failure), `done`; the recursion of `mergeCellWithPoly` through the projection factors is the recursive operator pair `mergeCellWithPoly`/`MergeAll` | `mergeNext` (one loop iteration), `finish` |
| `Delta` | `children`, `number` (its five regular expressions as predicates on character sequences), `constant` | `node`, the node under reduction: name (digits and `.` as characters, a word as one symbol), brackets, children | `replace` (the node becomes a replacement an operator offers) |
| `SSHScheduler` | `getNode`, constructor, `get`, `executeJob` | mutex holder, jobs per connection, thread program counters | `executeJob`, `lockMutex`, `poll`, `claim`, `finishJob`, `jobThrows` (the remote job throws and `finishJob` is skipped) |

The `MC*` modules give the constants small values for TLC. Data is
abstracted as follows:

- Manager and Objectives use one theory variable `x` over a few integers,
  and a constraint is the set of values that satisfy it.
- BackendCache uses model-value formulas carrying a linear or non-linear
  property.
- The parser uses term trees over `x`, one Boolean variable and a let
  symbol. A polynomial is a linear form over `x` and auxiliary variables.
- UIEquality uses kinds and ids for the variant alternatives.
- Constraint uses polynomials over x and y as maps from exponent vectors
  to coefficients. Solutions are evaluated on a grid of half-integers.
- OpenCAD uses level-1 polynomials given by their integer real roots and
  level-2 polynomials that are lines y = m*x + c. For a line, the leading
  coefficient in y and the discriminant are constants, and the resultant
  with another line is linear in x (its own irreducible factor), with the
  root where the two lines meet. carl's algebra is modelled by these
  results.

Every action is the whole handler. For example, `Manager::add` informs,
inserts and forwards to the primary backend in one step, and
`runBackends` looks up, creates with catch-up, and passes the pending
formulas in one step. Undefined behaviour is a nondeterministic choice:

- a pop that follows a dangling backtrack point may cut at any position;
- a dereference of a missing model entry yields any of `GarbageValues`.

## Runs

| Run | Expect | What it shows |
|---|---|---|
| `store` | pass | Under inform/add/remove/push/pop/check on CONSTRAINT and AND formulas, the primary backend holds what the store holds, so every answer is sound for the store, and `Manager` refines `AssertionStore` (see Refinement). |
| `informed_negation` | violation | `Manager::add` informs only CONSTRAINT and n-ary formulas, so a NOT formula reaches the primary backend uninformed. |
| `objectives_balance` | pass | With up to two objectives, the loop terminates and `check` returns (`CheckReturns`, under weak fairness of the loop's steps), and every exit of the objective loop leaves store and backtrack stack as before. With one objective (either direction), `check`, `optimum` and `printAssignment` agree with the true optimum. |
| `objectives_lex` | violation | With two objectives, the bound is built from the next objective's auxiliary variable (`++obVarIter` before the lookup), and the answer or optimum is wrong. |
| `cache_grow` | pass | With only linear atoms removed, every backend returned by getBackends holds exactly the passed formulas and was informed of them. |
| `parser_positive` | pass | Over scripts of declarations, asserts, push, pop and check-sat (with redeclarations and undeclared symbols), each parsed formula is equisatisfiable with its input (ites in positive positions, nested ites, formula ites, lets of a polynomial and of a formula). |
| `parser_negated` | violation | An ite under `not` gets its definition negated with the constraint. |
| `uf_order` | pass | Interning gives one id per content. `operator<` is a strict weak order whose equivalence is `operator==`. |
| `ssh_jobs` | pass | Three threads on two nodes never exceed a connection's cores, and every `executeJob` returns, also after one job has thrown and kept its slot. |
| `constraint_bounds` | pass | On linear and non-linear constraints over x and y: `isLowerBound`/`isUpperBound` match the direction in which the solution set is closed; `integerValued`/`realValued` are the negations of `hasRealValuedVariable`/`hasIntegerValuedVariable` (x is Int, y Real). |
| `delta_reduce` | pass | Over every name of up to four characters over 0, 1, 5 and `.`, the words x, <, true and false, plain and in brackets, and the application (< x 1.5): no operator offers the node itself (`ReplacementsDiffer`), and under weak fairness of `replace` every reduction reaches a node no operator changes (`ReductionTerminates`). The degenerated float ".5" grows to "0.5" before it shrinks, so length alone does not bound the reduction. |
| `opencad_cell` | pass | For every point (x, y) and sequence of up to three distinct polynomials of levels 0-2, the cell contains the point and no merged polynomial vanishes at any sample in it (`CellSignInvariant`): the projection keeps the x-range to where a new line crosses neither y-bound. With level-1 polynomials only, the construction fails exactly when x is a root, and otherwise the sector is bounded by the closest roots (`CellIsClosestRoots`). |

Further configurations reproduce hazards that have no run in the manifest:

- `MCManager_reset.cfg`: `ResetEmptiesStore`, the assert in
  `Manager::reset`, fails after one assertion made outside every scope.
- `MCManager_dangling.cfg`: `PopRestoresScope` fails once the formula a
  backtrack point refers to has been removed.
- `MCParser_shared.cfg`: a let-bound ite used in both disjuncts of an OR
  loses its definition in the second, because `mkConstraint` erases the
  binding.
- `MCUIEquality_assert.cfg`: two equalities with the same UF left-hand
  side reach `operator<`'s assert at UIEquality.h:305. It fails because
  `IsUFInstance` is a copy of `IsUIVariable`.
- `MCSSHScheduler_throw.cfg`: with three jobs allowed to throw on two
  one-core nodes, every slot leaks and `ExecuteJobReturns` fails: the
  next `get()` spins forever holding the mutex.
- `MCSSHScheduler_zero.cfg`: `ExecuteJobReturns` fails with a zero-core
  node, because `get()` spins forever holding the mutex.

## Mutants

Each property of a passing run is paired in `PROJECT.json` with a mutant of
a mapped definition. The mutant is written beside the definition it
replaces, and TLC finds the property violated when it is swapped in.
Examples:

- `remove` not forwarding;
- a backtrack point taken one formula early;
- pop(1) on the failure path;
- a catch-up replay one short;
- an ite binding that is not attached;
- a UF content that is not shared;
- `operator<` by ids only;
- `get()` without the mutex;
- `finishJob` not releasing the slot;
- the prefix loop of `number` running to the whole name;
- `constant` without its early return for the four literals;
- `hasRealValuedVariable` left a copy of `hasIntegerValuedVariable`;
- a loop iteration that does not advance `obVarIter`;
- the projection without the resultant with the high y-bound.

## Bounds and why they suffice

- **Manager:** two mutually contradictory constraints over 0..2 and
  MaxScopes = 2. This is enough for nested scopes, re-adding after
  removal, and satisfiable and unsatisfiable stores.
- **Objectives:** values 0..3 with minimise x, maximise x and minimise
  (x-2)². These have distinct optima and a tie (x = 1, 3 for the last).
  The base choices include the empty one.
- **BackendCache:** three formulas and three strategy entries. One entry
  is always applicable, one joins only when a non-linear atom is present,
  and one applies only to purely linear stores. That makes late
  creation reachable; the run removes linear atoms only, because the
  requester model (`Module`, not in `src/`) passes pending formulas only
  to the backends it uses, and a skipped-then-reselected backend would
  then miss formulas for a reason outside the code.
- **Parser:** In `parser_positive`, MaxAux = 4 auxiliary variables, two
  assertions and two push levels, with push/pop by 1 and 2. The
  declarations are x as Int, b as Bool and b as Int. Two assertions let
  one command's leftover bindings meet the next command and let
  check-sat decide a conjunction. Pop 2 at depth 1 reaches the clamp, and
  asserts before a declaration reach the parse failure. Three assertions
  take the run past 400k states. The violation configurations keep three
  assertions and MaxAux = 6.
- **UIEquality:** two variables and two UF contents, with up to three
  equalities in the set. The order property ranges over all equalities
  of the issued arguments.
- **Constraint:** the linear forms a*x + b (a in -2..2 without 0, b in
  -2..2), x*x - 1, x*x + 1, x*y, x - y and a constant, each with all six
  relations. The grid -3..3 in steps of 1/2 separates every root from its
  neighbours.
- **OpenCAD:** values in half units. Points with x in -1..1 and y in
  {0, 2}. Four level-1 polynomials (constant, rootless, root 1, roots
  -2 and 2) and six lines (slopes -1, 0, 1; c = -2, 2), merged in every
  sequence of up to three distinct ones. Non-parallel lines meet at an
  integer x, so projections narrow the x-sector, fail when the point lies
  on the meeting x, and replace y-bounds. The cell check samples a window
  at twice the resolution, so every open interval between two values
  holds a sample.
- **Delta:** all names of up to four characters over three digits and
  the dot, so every branch of `number` (trailing dot, simple number,
  degenerated float, float, fallthrough such as "..") is taken, and the
  literals and other words for `constant`.
- **SSHScheduler:** three threads, two jobs each, three connection
  slots. So threads contend for the mutex and for the last free slot.

## Refinement

`AssertionStore` states what the spec promises of the Manager's store: a
stack of levels of assertions, add into the innermost, remove from any,
pop discarding the innermost level, check answering for all of them.
`Manager` defines `StoreLevels`, which cuts `passed` at the positions of
the backtrack points (`LevelBound`, the same reading of
`mBacktrackPoints` as `printBackTrackStack`), and instantiates
`AssertionStore WITH levels <- StoreLevels`. The `store` run checks
`StoreRefinesAbstract == Abstract!Spec` as a property: every Manager step
is an abstract step or a stutter (inform, and add of a formula already in
the store). A backtrack point taken one formula early breaks it.

## Fairness

`Objectives` assumes weak fairness of the loop step (`LoopStep`, the
three iteration actions). The loop runs in the caller's thread with no
waits: once check has started it, nothing else can run in the Manager,
so the next iteration is always taken. `CheckReturns` says that the loop
then reaches `idle`; dropping the `++obVarIter` breaks it.

`SSHScheduler` has a liveness property too. It assumes weak fairness of
each thread's step: the operating system keeps scheduling every runnable
thread, and a thread blocked on the mutex becomes runnable when it is
released. A thread polling in `get()` is not fair to anyone else, and the
model represents that: a pass that finds no free slot is a stutter that
keeps the mutex.

`Delta` assumes weak fairness of `replace` in `MCDelta_reduce.cfg`: the
reduction loop keeps trying candidates while an operator offers one.

## Not modelled

- **Parallel racing of backends:** `Manager::initialize` disables it
  (`#if 1`), so `mRunsParallel` stays false and no two backends ever
  check at once. `ThreadPool` and the answer-flag handling of `Module`
  are not in `src/`. Nothing in `src/` races, so the answer flags that
  `check` and `getBackends` hand on have no interleaving to model.
- **Query and printing functions** other than `optimum` and
  `printAssignment`: they only read state.
- **CAD projection and root isolation for general polynomials, and
  OpenCAD above level 2:** polynomial algebra (resultants, discriminants,
  isolation) beyond TLC. The model takes level-1 roots as given and
  restricts level 2 to lines, whose projection is computed exactly.
  Merging a polynomial twice (a zero resultant, `assert(!poly.isZero())`)
  is excluded by `createOpenCADCell`'s contract that `polySet` is a set.
- **Constraint's construction and normalisation** (the constraint pool,
  not in `src/`); only the queries are modelled.
- **Statistics, settings and the theory modules' declarations:** no
  state-changing behaviour the spec asks about; GroebnerModule.h and
  CurryModule.h only declare their methods.
- **The delta debugger's reduction loop and its `Node` parser:** not in
  this repository; the model lets the loop accept any replacement.

See `PROJECT.json` "components" for each.

## Plan for later work

- The let variable stack on a parse failure (in Parser.h, not in `src/`).
