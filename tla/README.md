# A TLA+ model of Schenberg

Schenberg is a Python toolkit for risk and pricing. Market data, positions and
formulas are declared once, compiled to lazy polars queries, and valued in one
process, on dask, or again whenever an event says that data changed. Most of it
is declarative: what can go wrong is less in a formula than in how declarations
made in some order, by some caller, are later resolved, routed, joined, run and
cached. That is what is modelled here.

Paths below are relative to the repository root (`src/`); `core/` stands for
`schenberg/core/`, `distributed/` for
`plugins/schenberg_distributed/schenberg_distributed/` and `live/` for
`plugins/schenberg_live/schenberg_live/`.

## The system

| Component | State it keeps | Operations | Talks to |
| --- | --- | --- | --- |
| `ValuationPlan` (`distributed/plan.py`) | rustworkx graph, name-to-index map, inputs, nodes | `input`, `node`, `concat`, impact queries, `validate` | read by executors and by the live index |
| Executors (`distributed/executors.py`) | none between calls; an environment of values, or dask tasks, during one | `collect`, `lazy`, `collect_partitioned_local` | read a plan, run caller's functions, collect through a context |
| Contexts and backends (`distributed/context.py`, `backends.py`) | a process-wide registry of backends | `collect`, `register_backend` | called at the end of a local run, for a target that is still lazy |
| Live valuation (`live/`) | a store from (target, version) to results | `on_market_event`, `on_position_event`, `get`, `set`, `invalidate` | plan (impact), executor (values), callers' threads |
| `FormulaGraph`, `Formula` (`core/graph.py`) | terms in insertion order, views; the facade's output schema | `let`, `formula`, `returns`, `view`, `plan`, `stage`, analyses | compiled into frames; branch of a router; measures of a view |
| Expression trees (`core/expr.py`) | none | `compile_polars`, `_eval_numeric`, `to_latex` | terms of a graph |
| `Router` (`core/router.py`) | branches in order, fallback, mode, contract | `case`, `when`, `default`, `returns`, `plan`, `diagnose` | holds computations (graphs, routers) |
| Market binding (`core/market.py`, `market_data/roles.py`, `semantic.py`) | none; roles are class attributes | `bind`: one `attach` per role along the MRO | joins quotes of a snapshot to trades |
| Snapshot, shocks, scenarios (`market_data/`, `risk/scenario.py`) | a builder's list, then immutable snapshots | `source`, `build`, `validate`, `with_source`, `apply`, `then`, `reprice_under` | a pricer binds to each shocked snapshot |
| `PositionView` (`position/view.py`), built-in views (`position/views.py`, `measures.py`) | spine, sources, namespaces, output | `spine`, `source`, `let`, `add`, `returns`, `by`, `plan`, `stage` | owns a `FormulaGraph`, gives a `Fold` |
| `Fold`, structures (`core/fold.py`, `structure/`) | keys and aggregations | `by`, `returns`, `compute` | group-by of view rows and of priced legs |
| Contract rules (`domain/rules.py`, `base.py`) | specs on methods of schema classes; the wrapped `validate` of a schema | `collect_rules_from_mro`, `apply`, `resolve`, `validate` | run on frames at the boundary of every pricing function; use date rules |
| Calendars, date rules (`market_data/calendar/`, `date_rules.py`) | a holiday file on disk, `ANBIMA_HOLIDAYS` in each process | import, `write_cal_file`, `load_holidays`, eleven date rules | contract rules, maturities of futures |
| Closed-form mathematics, schemas, other renderings | none | pure | everywhere |

What makes this hard to test:

* **Registration order.** Plans, graphs, routers and views are built by calls
  and decorators that any module may make in any order, and each call checks
  only what it can see at that moment. Whether the finished object is right is
  a property of the whole sequence.
* **Late binding.** An expression holds bare names. What a name means is decided
  when the graph is planned, after later registrations.
* **Two directions.** Who is affected by a market source is found walking
  forward; what a target needs is found walking backward. A disagreement is a
  stale price, seen by nobody.
* **Laziness while data moves.** A lazy frame reads its sources when it is
  collected. One valuation may read one source twice.
* **Concurrency.** Dask runs tasks in parallel; nothing in the live package takes
  a lock, and its cache is shared by engines and threads.
* **Failure.** A node may raise after an invalidation and before a store; events
  are repeated and arrive in another order than they were published.
* **Files.** Processes that import the calendar at the same time share one file,
  which is looked for, cut, written and read in separate steps and may stay torn.
* **Nulls and NaN.** polars compares and filters in three-valued logic; a row that
  compares to null is in neither side of a split; it orders NaN where numpy does not.

## Modules

| Module | Models | Kind |
| --- | --- | --- |
| `DependencyGraph` | rustworkx reachability and orders, as definitions | operators |
| `ValuationPlan` | `ValuationPlan`: registration and queries | state machine |
| `PlanRun` | what running one target promises | abstract specification |
| `PlanExecution` | what both executors share: plans, values, the data behind them | operators |
| `LocalExecutor`, `DaskExecutor` | the two `collect` methods | state machines |
| `Executors` | the one call users make, on either; implements `PlanRun` | composition |
| `LiveEngine` | engines, impact index, cache, events, several threads | state machine |
| `FormulaGraph` | `let`, `formula`, `returns` and the compilation algorithms | state machine and algorithms |
| `Expression` | expression trees, both evaluators, the variables of a tree and their replacement | algorithms |
| `PricingFormula` | the `Formula` facade; composes the two above | state machine |
| `FormulaText` | the LaTeX renderer and how its text is read, for the formulas of a facade | algorithms |
| `Router` | registration in every way, routing, `diagnose` | state machine and algorithms |
| `Frames` | the polars operations on columns and rows: select, rename, left join | operators |
| `MarketSnapshot` | builder, validation, replaced sources, shocks of a column | actions, composed below |
| `MarketRoles` | roles, their fixings and literals, the keyed join | operators |
| `ScenarioPricing` | `reprice_under` over a pricer that calls `bind`; composes the three above | state machine |
| `Fold`, `Structure` | aggregations, `by`, `returns`, `compute`; priced legs | operators |
| `PositionView` | declaration, join plan, measures, output, roll-up; composes `FormulaGraph`, `Fold`, `Structure` | state machine |
| `BuiltinViews` | the package's measures and three views as the calls they make, and what callers add | state machine over `PositionView` |
| `Dates` | day numbers, business days, `date_rules.py` | operators |
| `AnbimaCalendar` | the holiday file and the processes that import, write and load it | state machine |
| `ContractRules` | `@rule_for`, collection along the MRO, `apply` | operators |
| `ContractFrames` | `validate` of a frame in a process that has imported the calendar; composes the three above | state machine |
| `*Proofs` | theorems about the module of that name (`ExecutorProofs` about `ValuationPlan` and `Executors`) | proofs |
| `MC*` | the constants TLC uses | instances |

### How they correspond to the code

**ValuationPlan.** `graph`, `indices`, `inputs`, `nodes` are `_graph`,
`_indices`, `_inputs`, `_nodes`. `Input`, `Node`, `Concat` are the three
registrations; the last two end in `AddNode` (`_add_node`). All checks precede
all changes in the code, so a rejected call is no step. A node's function is left
out, its bindings are the set of names it reads. `AffectedByMarketSource` and
`Validates` are the queries.

**PlanExecution and the executors.** A value is a kind (`lazy`, `eager`,
`object`), the reads it has made (input and version) and the inputs it will
still read when it is collected. `world` counts the changes of the data behind
each input; `Tick` changes it at any moment of a run, since the data lives
outside the program. A node function is external: it may collect any part of what
its arguments leave to read and stay lazy over the rest, return a DataFrame or
something that is no frame, or raise (`FunctionResults`). `LocalExecutor`
visits `order`, any topological order rustworkx may return, and fills `env`.
`DaskExecutor` has a task per needed vertex, as many running at once as there
are workers, and materialises the inputs and every lazy result as
`delayed(_materialize)` and `_run_function` do. The tail of both, `Finish`, returns a
frame, collects a lazy one, and raises on anything else.
`Executors` makes the one call on either class and holds what both promise.
`context` is the backend the executor was given and `backends` those that are
available: ray may be missing, and `RegisterBackend` adds a custom one at any moment
of a run. A local run whose target is lazy looks its backend up in `Finish`, after
every node ran, and raises if it is not there. Dask tasks hand on materialised
frames, so its executor never asks its context for anything.

**LiveEngine.** A call of `run` is the sequence `Hit`, or `Miss`, `Invalidate`,
`Drop`..., `Invalidated`, `Read`..., `Store`, with `DropRaises` (a `KeyError` on
`del`) and `CollectRaises` as its failures. Every operation on the shared store
is a step of its own, so two threads interleave between any two. `toDrop` is the
`list(self.store)` that `invalidate` walks. An executor's run is a read of each
outside feed the target depends on, in any order, and data is the version of
each feed read. `Publish` changes a feed and announces it; callers handle any
published event, as often as they like and in any order. `deployment` says which
threads call which engines and how events are labelled: with labels no two events
share (`global`), no two of one feed (`by feed`), or in any way (`any`), since nothing
in the package makes a label unique. It never changes. `floor` is a history variable: the
state of the world at the last invalidation of a target.

**FormulaGraph.** An expression is the sequence of variables it mentions.
`Let` and `Formula` share `Register`, since `formula` ends in a call of `let`
after it resolved its parameters. `Inlined` is `_inline` with its stack check,
`TopologicalOrder` the depth-first walk, `Materialized` the default plan and
`stage`: columns overwritten one term after another. `input` is fixed by the
constructor and may be absent. `known` and `declared` are history variables: the
terms that existed when one was registered, and those registered by `formula`
over a schema (a function whose body builds variables out of other names than its
parameters counts as `let`).

**Expression and PricingFormula.** A tree is a tuple of its operator and operands.
Floats are residues modulo a prime, which keep the laws that parentheses depend on
(sums associate, differences do not) and make every wrong reading visible as another
number; NaN is a value of its own. `Polars` and `Numeric` are the two recursive readers
of the code, each with the operator table and the polynomial of `normal_cdf` that its
half of `expr.py` writes out (`PolarsArith`, `PolarsApplied`, `PolarsCdf` against `Arith`,
`Applied`, `Approximation`, `Symmetric`), and with the comparison of its library; `IterVars` is `_iter_vars` and `Replaced` the step of `_inline` that rebuilds
a tree. Each is a function on the subtrees of its argument, defined by what it gives for a
node, and the subtrees are found level by level, down to the bound `Height`. Columns are of
floats and comparisons stand where `expr.py:73` means them, in the condition of a `where`:
what the libraries make of integer powers and of sums of truth values is left out. Callers'
trees are finite in the code too; `PricingFormulaAssumption` asks that what inlining can
make of them, each term being met at most once on a branch, is no higher. In
`FormulaText`, `Render` is `to_latex`'s `go` with its precedences, as a list of tokens;
what LaTeX delimits (parentheses, a fraction, a branch) is an opening and a close with
the parts in between. `Read` is external: it is how mathematics reads such a line, token
by token from the left with the usual precedences, a frame for every part that is open. `PricingFormula` adds to `FormulaGraph` the tree of each term, the
column mapping and schema of each view and the facade's `_output`; `Declare` is `let`
or `formula`, `Publish` is `FormulaGraph.returns` with its completed mapping,
`PublishView`, `ReturnsView`, `ReturnsOutput` and `ReturnsRejected` are the facade's
ways into it. `Planned` is `Formula.plan` over one row.

**Dates, AnbimaCalendar.** A date is its day number. The Gregorian calendar and polars'
`add_business_days` are external and given by their definitions; every rule of
`date_rules.py` and the Easter algorithm are translated. `pc` says where each process
is in `if not CAL_PATH.exists(): write_cal_file()` and `load_holidays()`. `Open`
truncates and `Write` writes, two steps; `WriteFails` leaves the dates before a cut,
the last line whole or not; `Crash` ends a process anywhere and starts it again.
`Regenerate` is a later call of `write_cal_file`. The header's comment lines carry no
date and are left out.

**ContractRules, ContractFrames.** A class is its decorated methods in body order and
its explicit `__rules__`; a hierarchy is its MRO. `OverrideMap`, `Compiled` and
`CollectRulesFromMro` are the three passes of `collect_rules_from_mro`, each a fold as the
code's loop is; rules compute
row by row, so a frame is a row. `Validate` resolves once itself and once per wrapper;
`ToSchema` may or may not find a wrapped schema, since pandera caches per thread.
`ApplyRule` is one iteration of `resolve`, on the holidays of the process. A frame's
process takes no further part in file traffic once the frame is built: what it reads
of the calendar, it has read at import.

**Router.** `case` and `when` return decorators; `pending` holds those not yet
applied. Written above a function a decorator is applied at once and dropped.
`liberties` lists in what else the calling code indulges: it mixes in `when`,
changes the `mode` or the `contract` after branches exist, or keeps a decorator
to apply it later or twice (`stored`). The value of a case may be None, which polars
compares as null on every row. `Condition`, `Selector`, `Matched`,
`Unmatched` and `Overlaps` are the polars expressions of `plan` and `diagnose`, in
three-valued logic; `Parts` says in which parts of the final concat a row is.

**Frames.** A frame is a set of columns and a set of rows. A row's id starts with
its place in the frame it comes from and grows by one entry at each join, so a row
of a result knows which trade and which quotes it was made of. `LeftJoin` has polars'
rules that matter here: null keys match nothing, right keys disappear, a right column
with a name the left already has gets the suffix `_right`. The code's frames are
lazy; the sources they read here never change (snapshots are frozen, views are
planned over given frames), so the model computes each frame when it is built, and
what polars would raise at collect is `Raised` where the column is first named.

**Market data and scenarios.** `registered`, `market` and `checked` are the
builder's list, the snapshot in hand, and whether its sources were validated since
they last changed. `ScenarioPricing` walks through one call of `reprice_under`: for
the base and each scenario `StartCall` takes the given snapshot, `ApplyChange` runs
the composed shocks one by one, `AttachRole` attaches a role, `Project` selects the
schema's columns; `SelectBase` and `JoinShocked` build the result. A role is a record
of what `read`, `by`, `by_literal`, `fixing` and the `CURVES`, `FIXINGS` and `VOLS`
presets set; `RolesOf` resolves it along the MRO. Its join keys, temporary columns
and final rename are `WithKeys`, `Require` and `Attach`. Dates and rates are small
integers; the pricer publishes the bound column it is asked for.

**PositionView, Fold, Structure.** A reference `view.value.value` or
`view.col("exposure")` becomes a bare name when the measure is declared
(`Resolve`); the measures are terms of a `FormulaGraph` with no input schema, and
that module is instantiated, not repeated. `Stage` and `Plan` are operators over the
declarations and the frames in `Deals`. A sum is the set of its contributions, pairs
of a row and what it adds: two sums agree for all numbers exactly if those do. Frames
have no order, so `first_` takes any row. `By` hands out a fold and `ChangeFold` is
what callers then do with it; a fold is a value of its own, so nothing is lost by
ending declarations there. `orderly` is a history variable: the spine was declared
before the sources and no name came twice.

**BuiltinViews.** `position_value`, `position_pnl_explain` and `position_risk` are the
calls their module makes, in its order, made in one step (`Declare`); callers may go
on with any call of `PositionView`, roll the view up, or build one of their own.

In each module a few operators marked `Mutant` stand before the definition they
vary. No specification uses them. They are plausible faults of that code, and
put in the definition's place each one breaks a property: they document that the
property depends on that line.

## What is checked

Every bound is a constant in the `.cfg` or a definition of the `MC` module.
Deadlock is not checked anywhere: a plan or graph that is full, a call that has
returned and a system without further events may all stop.

| Run | Instance | Shows |
| --- | --- | --- |
| `plan` | four names, two sources, names and sources symmetric | The four structures describe one graph (`StructuresAgree`), `validate` never raises (`AlwaysValid`), the impact of a source is exactly the vertices whose run declares it (`AffectedIsExact`), growing a plan changes no existing target and drops nothing from an impact (`AppendOnly`). Four vertices give chains, diamonds and joins. |
| `executors` | the local and the dask executor (two workers); a diamond joined by a concat and a chain with a side branch, every kind of input, every target, one change per source; contexts `ray` (present or not) and a custom one registered before, during or never | `ImplementsRun` (refinement of `PlanRun`), under parallel tasks too; a returned frame read every input it needs and nothing else (`ResultComplete`). In a local run every read older than the return was pinned by an eager input or read by a function on its own, all or part of what it was given (`LocalReadsPinned`), so a result mixes versions only there, and no backend changes that. In a dask run a frame input is read once, so no result mixes its versions (`DaskReadsOnce`). 243,952 states. |
| `live` | a book on positions and curves, a report on curves; both engines behind one thread, and one engine behind two threads; two changes per feed, three labels, used once or in any way; labels and threads symmetric | Where no two events share a label, no answer is older than the event it answers (`AnswerCoversEvent`), in any interleaving. However events are labelled: with one thread, nothing computed before an invalidation of its target survives (`NothingOlderSurvives`) and a failed call leaves nothing stale (`FailureLeavesNothing`). The entries of a target every event affects are bounded by the threads (`BoundedByCallers`). 1,726,940 states. |
| `live_shared_labels` | as above, one thread, labels unique for each feed and shared by different ones | Violates `AnswersCover`, see below. |
| `formula` | up to three of four names, eight expression trees with up to two variables that use every operator, schema present or absent, two output schemas, mappings right and wrong, two rows, arithmetic modulo 11 | A cycle needs `let` or a missing schema (`Acyclic`); planning raises exactly for targets that meet a cycle (`RaisesOnlyOnCycle`); materialising columns in place gives what inlining gives, on frames that carry no more than the inputs and on frames with a column for every term (`MaterializedIsInlined`); no declared variable is captured later (`ResolutionKept`), so declared terms keep their meaning (`MeaningKept`). A view published through the facade, after any rejected call, plans to the columns of its own schema with the values inlining and numpy give (`PlannedIsInlined`), unless a comparison of the formula meets NaN. The text of a formula reads as the formula except at three places that `Misreads` names (`MisreadOnlyThere`). Inlining nests each operator in most others, which is what parentheses are about. |
| `formula_text` | the same with `PV - (T + rate)` among the trees | Violates `NeverDrifts`, see below. |
| `router` | two branches and a fallback, two route columns and one more, two values and null, in rows and in cases, four computations, two contracts, four ways to build | Exclusive cases never share a row (`ExclusiveCasesDisjoint`); with a fallback every row goes where its branches say, to the fallback if all of them rule it out, in first-match mode to the first that holds, and it is lost exactly where a branch that null leaves undecided stands in its way (`RoutedExactlyOnce`); no row is in two parts in first-match mode (`NeverTwice`); `diagnose` is exact (`DiagnoseFindsOverlaps`); every planned branch meets a contract declared first (`ContractKept`). 301,996 states. |
| `router_nulls` | the same, cases only | Violates `UnmatchedFallToDefault`, see below. |
| `scenarios` | two trades (one id each, one id for both, or a null key), up to two sources of five and one replaced, nine pricing inputs with up to three roles, five scenario sets with up to two shocks of up to two changes | What validation found unique stays unique in every pricer call (`PricedOnUniqueKeys`). Binding loses no trade and, on validated and covered keys, repeats none (`TradesKept`). A bound row carries the quote its keys, literals and fixing date select in that scenario's market, in any order of roles (`PublishedIsTheQuote`). A scenario's row pairs one trade's base and shocked values, the shock applied alone to the given snapshot (`ScenarioRowsPaired`). |
| `shadowed_value` | one schema, trades that carry a column of the value's name | Violates `AlwaysTheQuote`, see below. |
| `views` | the three built-in views and one further measure; views of a caller's own with up to two sources and two measures out of five source and four measure calls with colliding, prefixed and chained keys; one further call on a fold; four deals with missing and duplicate rows, two leg frames | A namespace's name finds the source's own cell in the joined frame (`NamespaceIsItsSource`). With one source row per key every position is in one group and adds to each total once (`TotalsCountPositionsOnce`). A structure has a value exactly if each of its legs has (`UnpricedHasNoValue`). Two sources are enough for a key taken from an earlier source and for every collision of two names. |
| `contracts` | two processes, the calendar of two years, writes cut at four places, one fault, one regeneration; 164 hierarchies of up to three classes out of nine bodies (overriding cases and defaults, stacked decorators, explicit rules, a second selector, one column derived from another), 18 rows with null selectors and given values, two validations | A derived column holds what the most specific class says of the row, through any validations and wrappers, where no rule reads what a later one writes (`MostSpecificWins`). No value is ever replaced, by any rules (`NonNullKept`). A process that holds a holiday holds all earlier ones, in any interleaving of writers, failures and crashes (`NoHolidayMissedBefore`), so dates up to its last holiday are those the rules' docstrings describe (`RightBeforeHorizon`). With no failed write and no other writer an import loads the whole calendar (`QuietImportLoadsAll`). |

`TypeOK` is checked with `plan` and proved for the plan, live engine, formula graph and
router. The months `contracts` counts in are June 2026, with Corpus Christi on its
fourth day, and November 2026, whose first is a Sunday and whose second a holiday; the
cuts leave nothing, holidays of the year before only, all up to June's, and all between
the two months. More years would add dates, not cases. Frames whose rules read no calendar
start from one at rest.

**Fairness and liveness.** No run states liveness and none assumes fairness. A call of
an engine or of the local executor is straight-line code in its caller's thread that
waits for nothing, so it ends if the caller's functions do; the one place that waits,
`compute()` of a dask run, waits for dask's scheduler, which is not this repository's
code, over tasks whose graph `AlwaysValid` shows to be acyclic.

**Where the code and its documentation disagree.**

* The cache is keyed by target and label alone and is looked up before the event
  invalidates anything (`live/engine.py:46`). When positions and curves both
  count their versions from `v1`, the second event is answered from a result
  that does not contain its change. With labels used once across all feeds
  (`UniqueLabels`) the property holds, and is proved; the engine's other properties do
  not depend on labels.
* In `Router.plan` a null in a route column makes `matched` null, and `~matched`
  too; `filter` drops the row. A row that matches no case for that reason does not
  fall to the default, as the docstring says unmatched rows do, and `diagnose` does
  not count it (`core/router.py:195-198`, `259`). A case whose value is None
  (`core/router.py:119-125` takes any value) does this to every row that no other case
  takes, null or not: the fallback gets none of them.

* A role that reads `zero_rate` and publishes `rate`, over trades that have a column
  `zero_rate` of their own: the join names the quote `zero_rate_right`, the rename
  that follows finds the trade's column, and `bind` returns the trade's number as the
  market rate (`core/market.py:131`). Only the name published is checked for a
  collision. This is a bug; `PublishedIsTheQuote` holds where no such column exists.
* `to_latex` leaves out the parentheses of a right operand of a difference:
  `PV - (T + rate)` is rendered `PV - T + rate` (`core/expr.py:344-346`). The module's
  docstring says the rendered math can never drift from what runs. The base of a power
  has the same fault when it is negated, an exponential or a power
  (`core/expr.py:338`), and so do comparisons inside sums or comparisons.

**Known limits of what is claimed.** Without an input schema, or with `let`, a
variable taken for a column is captured by a term of that name registered later:
`ResolutionKept` says nothing of those. A decorator kept and applied twice
registers its key twice, and a contract declared after a branch is not checked
against it: `ExclusiveCasesDisjoint` and `ContractKept` exclude those callers and
nobody else. With two threads in one engine, one may store a result computed
before the other's invalidation under its own, older label: `NothingOlderSurvives`
is about one thread, `AnswerCoversEvent` about any number. A target that some event
does not affect keeps an entry for every label it is asked under; `BoundedByCallers` is
about the others. `NamespaceIsItsSource`
is about views declared spine first and no name twice: the collision check looks
only at what was declared before, and a second source of a name replaces the first's
namespace; it also takes the frames to have the columns of their schemas, since an
undeclared column may collide with anything. A fold's `returns` checks its schema
against the keys of that moment, and a later `by` is not checked again; the book
total of `by()` skips positions without a value. The built-in views and folds are
module-level objects that any importer may extend. `PositionView.let` accepts a measure with the name of a
source column, and measures declared before it over that column are then computed from
it (`position/view.py:195`), although its docstring speaks of source columns and earlier
measures.

An explicit `__rules__` entry escapes the check that an output has one selector, and a
base's entry comes before a child's. Of stacked `@rule_for` decorators only the outermost
counts, and a case for the value `None` never matches. Where one rule reads a column that
a later rule writes, what comes out depends on how often the frame has been validated;
`MostSpecificWins` excludes such hierarchies (`Tidy`). Each `to_schema` of a cached schema
adds a wrapper, so validations become slower and, in the end, deeper than Python's stack.
A calendar file torn by a crash, a failed write or a concurrent truncation is loaded
without complaint where its last line is whole, and fails every later import where it is
not, although the comment at `calendar/anbima.py:128-130` wants an import never to fail;
`RightBeforeHorizon` says what can still be relied on. The `Formula` facade keeps the
schema of a rejected `returns` for later calls and ignores a mapping given without a view
name. Comparisons that meet NaN are handed to the libraries as they are, and polars
orders NaN above every number where numpy compares it false, so `where(log(rate) > 2, T,
DF)` over a negative rate is `T` in the priced column and `DF` in `compile_numeric`;
`PlannedIsInlined` leaves those formulas out.
Of these the code's documents promise nothing, or too little to call it a disagreement;
they are recorded here and not as findings.

## What is proved

The theorems hold for every value of the constants that satisfies the assumptions
(`RouterAssumption` and the like, evaluated by TLC in every run).

| Module | Theorem | Argument |
| --- | --- | --- |
| `ExecutorProofs`, building | `PlanTypeCorrect`, `StructuresAlwaysAgree`, `RegistrationIsTopological`, `PlanAlwaysValid`, `AffectedAlwaysExact`, `PlanIsAppendOnly`, `BuiltPlansExecutable` | the four structures agree and indices rank the graph: registration order is the invariant, acyclicity follows by `RankedIsAcyclic`, exactness by `AffectedDual`, the action property by `GrownKeeps`. Its lemmas on graphs (`Duality` of the two walks, a ranked graph is acyclic, growing by a sink keeps ancestors) use only that reachability is a least closed set. `BuiltPlansExecutable` joins the two halves of the module: what is built is what the theorems on running assume. |
| `ExecutorProofs`, running | `RunImplemented`, `ResultAlwaysComplete`, `LocalReadsAlwaysPinned`, `DaskAlwaysReadsOnce` | both executors are first reduced to a visit, an end or a change elsewhere. `Holds` follows the values: a vertex's value has read, or has still to read, exactly the inputs the vertex requires (`RequiredUnfolds`). Local: an order that covers a finite set with none before what it reads (`OrdersCover`, by the pigeonhole principle), and every read so far first made by a DataFrame input or in a function's result (`GivenReads`), whatever part of its arguments that function collected. Dask: a started task's predecessors are done, no value is lazy, and all hold of a frame input what the one task of that input read. Assumes finite plans whose inputs have no dependencies, as `input` registers them. |
| `LiveEngineProofs` | `TypeCorrect`, `AnswersCoverEvents`, `CacheCovers`, `EntriesBounded`, `NothingOlderEverSurvives`, `FailuresLeaveNothing` | an answer may come from the cache and the cache from a call in progress, so the invariant follows the data: a call serves a published event, what it has read since contains that change, a cached label belongs to a published event and, labels being fresh, to one. `EntriesBounded`: an injection from entries to the threads that stored them last (`Owned`), none of which has been past an invalidation since. The last two carry through one thread's call that what will stay in the cache is no older than the last invalidation (`Alone`). Assumes finitely many threads; how events are labelled is left open, and only what an answer covers depends on it. |
| `FormulaGraphProofs` | `TypeCorrect`, `ResolutionAlwaysKept`, `DeclaredIsAcyclic`, `CyclesAreRefused`, `MeaningAlwaysKept`, `MaterializedMeansInlined` | a declared variable is a column no term can shadow or a term registered before, and "before" is a strict order. The recursive `inline` and `visit` exist as functions by induction on the terms not on the stack and not yet seen, so both can be unfolded; a term with a finite inlining is grounded, and an ungrounded one has a reference that is not, until the stack repeats. Below grounded terms the order is topological, the columns are followed one `with_columns` at a time, and two plans of one target agree. Any mixture of `let` and `formula`. |
| `PricingFormulaProofs` | `FormulaTypeCorrect`, `FormulaImplementsGraph`, `FormulaKeepsGraph`, `PlansAreInlined`, `TextsAreRead` | `Facade` ties the facade's trees, mappings and schemas to the graph's terms and views, so each of its steps is the graph's and the theorems above carry over. The readers of a tree exist as functions by induction on height and can be unfolded; the two operator tables and the two polynomials agree (`TablesAgree`, `CdfsAgree`), so all nodes but comparisons of NaN do, and trees without one (`TreesAgree`). A term is inlined at most once on a branch, which bounds the height of what inlining makes (`SubstHeights`), so all of this holds of inlined formulas too. For `PlansAreInlined` the plan's columns are followed one `with_columns` at a time until each reachable one is its body's value over the final columns (`ColumnsSatisfy`); then, by induction on the stack of `_inline`, numpy on an inlined tree gives the column of its name (`InlinedIsPlanned`), since a replaced variable is worth its replacement (`ReplacedValue`). `TextsAreRead` goes by induction on the tree: below a parent of each precedence the text of a node is read as what the parent expects there, a base, a factor, a product, a sum or a whole relation, with the node's value (`Readable`, `NodeReads`). The tree may nest to the right and is read from the left, so it needs the laws of the numbers (`Sums`) and that every node computes one (`NumericIsValue`). Each place in `Misreads` is one where an operand is not what its parent expects, and the induction fails there. Any trees, rows, schemas and mappings. |
| `ScenarioProofs` | `ScenariosReadUniqueKeys`, `BindKeepsTrades`, `RolesPublishTheirQuote`, `ScenariosArePaired` | `KeyInv` says of the call under way that its snapshot has the sources, keys and unique columns of the given one; a change outside the keys leaves them unique. For `BindKeepsTrades` the lineage: the ids of the frame begin with the trades' ids, all of them, and with covered unique keys the first entry determines the row (`Kept`), which every frame operation preserves. `CarryInv`: a role joined so far left in every row the quote its keys, literal and date select, and no later join or rename touches the column it publishes; it needs that the trades have no column of a source's value name, which is the finding below. `PairInv`: what the call under way holds are the ids and value of the base pricing, and every scenario done was priced on the given snapshot with its own shocks. |
| `PositionViewProofs` | `OrderlyColumnsApart`, `SumsCountRowsOnce`, `NamespacesReadTheirSource`, `PositionsCountedOnce`, `UnpricedStructures`, `MeasuresFormGraph`, `ViewsPlanAsGraphs` | `DeclarationInv` is inductive under all calls: spine first, namespaces are those of the sources, columns of different sources apart; a cell is then followed join by join to the frame it came from. `SumsCountRowsOnce` is about `Compute` alone: groups partition a frame. With one source row per key no join repeats a row, and measures, publishing and relabelling are row by row, so `PositionsCountedOnce` has one row per position in what is grouped. A structure's sum is null exactly if a leg's value is. `MeasuresFormGraph` is a refinement: whatever a view declares, its measures are a formula graph of the columns joined so far, so what is proved of graphs holds of views. |
| `ContractProofs` | `HolidaysNeverMissed`, `QuietImportsLoadAll`, `ValuesKept`, `MostSpecificAlwaysWins`, `DatesRightBeforeHorizon` | the file is always a prefix of the sorted dates: the list that `Lines` chooses by rank is sorted and has every holiday once, so a set loaded from a prefix misses none before its last; `CalendarInv` adds that, with no fault so far, whoever reads has a whole file unless another process is between opening and writing. `ValuesKept` follows `Apply` through every action that changes the row. `MostSpecificAlwaysWins` has two halves. The compilation, each fold followed one element at a time: override_map has one case per triple, the last seen (`Overriding`); a key has one rule, with its cases and no others (`Grouping`); explicit rules only follow, under other keys (`Merging`); the place of a method in the flattened bodies orders it by class, so the case a row takes is that of the nearest method (`TakenIsMostSpecific`). The validation: `FrameInv`, inductive, says that the first k rules are settled and the others untouched and still to come, in their order, so no repetition by a wrapper or a later validation finds a rule out of turn (`RuleProgress`); an untidy rule can break it, which is why `Tidy` is needed. `DatesRightBeforeHorizon` first shows that the recursions over days exist, since among finitely many holidays every week but so many has a business day (`RollingExists`, `AddingExists`), and that rolling and adding count (`AddedForward`, `AddedBack`): the result is a business day with the n-1 others before it. There is one such day (`NthAlone`), within the weeks `NthOf` searches (`NthInWindow`), and a calendar that agrees with the whole one up to that day has the same (`NthByPrefix`). What the pricing process holds is such a prefix (`ReadyInv`, `HeldCalendar`), and what a rule anchors its date at is a date or null in every row (`DateInv`), explicit rules' columns included. Any processes, years, hierarchies, frames, faults. |
| `RouterProofs` | `TypeCorrect`, `FirstMatchNeverTwice`, `DiagnoseIsExact`, `ExclusiveIsDisjoint`, `ContractAlwaysKept`, `RowsRoutedOnce` | three-valued `and` and `not` characterised by what makes them true; for exclusive cases an invariant on keys that carries the duplicate check from `case` over the pending decorator to the append. On any row a branch holds, is ruled out or is undecided, which is when its condition is true, false or null (`ConditionDecided`); the rows that reach a branch are those on which all before it are ruled out, and the fallback's those on which all are (`UnmatchedBefore`, `PartsDecided`). Cases that differ never both hold (`HoldsOnce`). Null rows and cases of None included. |

The assumptions are what callers' data must be for the operations to mean anything:
frames have one set of columns in all their rows (`IsTable`), the lists handed over are
finite sequences, a role names one market, every name a view is given belongs to `Name`,
the bodies of classes and `__rules__` are finite sequences with no case for the
marker `"__default__"` (`IsHierarchy`), the expressions are those of `date_rules`,
which raise for `n < 1` where they count (`IsDateRule`), anchored at columns that hold
dates or null (`IsDated`), and the product column is never null; a formula's trees are
those of `expr.py`, low enough for `Height`, over rows of numbers and NaN where a quotient by anything but
zero exists (`FieldAssumption`: the modulus is a prime), and what the
facade publishes is among the `ViewTerms` of its graph's callers. What a property needs
beyond that is its hypothesis and stands in its text: `KeyedByTrade` and `Unshadowed` for the roles,
`UniqueOn` of what is joined (the frame as prefixed, on the keys as prefixed) for the
totals.

Every invariant and action property of the passing runs, and the refinement, is
proved. Only model-checked is that the four violations above are reached. Liveness and
`ENABLED`, which are out of the prover's reach, are not used.

## Not modelled

* Pricing mathematics, compounding and statistics: floating-point formulas
  without state. `grad` hands a tree to JAX.
* Schemas, and the renderings other than LaTeX (`info`, `explain`, mermaid, HTML,
  PNG): declarations or text.
* `collect_partitioned_local`: one loop over disjoint partitions.
* Market objects: frames with missing columns filled in, and closed-form compounding.
* What ray, dask's scheduler beyond its contract, a custom backend, or pandera's checks
  do inside.
* `ValuationCache.clear`: called by nothing in the package. `MarketRead` and
  `MarketRequirement.with_output`: made for a `g.market()` that does not exist.

## Plan

Written so far, in this order, each with its `MC` module, mutants and theorems: plan,
executors, live engine, formula graph, router, market binding with snapshots and
scenarios, views with folds and structures, contexts, built-in views, the `Formula`
facade with expressions, contract rules with calendar and dates. What is left, in order
of weight:

1. Routers nested in routers and graphs changed after they became a branch
   (`core/router.py:151`).
2. Curve and volatility objects as sources of a snapshot (`market_data/objects/`).
