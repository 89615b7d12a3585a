----------------------------- MODULE BuiltinViews ------------------------------
(***************************************************************************)
(* The measures and the views the package declares itself                   *)
(* (schenberg/position/measures.py, views.py).  A built-in view is a         *)
(* sequence of the same calls any caller makes; it is a module's global, so  *)
(* once it is declared callers may go on with it as with a view of theirs.  *)
(***************************************************************************)
EXTENDS PositionView

CONSTANTS
  OwnSources, OwnOutputs,    \* the sources and outputs of a caller's own view
  MaxOwnSources, MaxOwnMeasures, \* bounds on such a view
  MaxExtraMeasures           \* and on what callers add to a built-in one

ASSUME BuiltinAssumption == OwnSources \subseteq SourceCalls /\ OwnOutputs \subseteq Outputs

VARIABLES builtin, \* the built-in view, or NoBuiltin for a caller's own
          made     \* the calls of its declaration made so far

builtinVars == <<builtin, made>>

Position ==
  {"position_id", "book", "instrument_type", "instrument_id", "quantity", "side",
   "unit_notional"}
BookContract == {"book", "desk", "legal_entity", "reporting_currency"}
ReportingFx == {"currency", "reporting_currency", "book_fx"}
InstrumentPnlExplain ==
  {"instrument_type", "instrument_id", "currency", "roll_value_pnl", "curve_value_pnl",
   "fx_value_pnl", "fixing_value_pnl", "residual_value_pnl", "total_value_pnl"}
InstrumentRisk ==
  {"instrument_type", "instrument_id", "currency", "delta", "gamma", "vega", "theta", "rho"}
PositionValue ==
  {"position_id", "book", "exposure", "position_notional", "mtm", "reported_mtm"}
PositionPnlExplain ==
  {"position_id", "book", "roll_mtm_pnl", "curve_mtm_pnl", "fx_mtm_pnl",
   "fixing_mtm_pnl", "residual_mtm_pnl", "total_mtm_pnl"}
PositionRisk ==
  {"position_id", "book", "position_delta", "position_gamma", "position_vega",
   "position_theta", "position_rho"}

\* A Measure is a let() whose operands are looked up with view.col().
Measure(name, columns) ==
  [name |-> name,
   refs |-> [i \in DOMAIN columns |-> [source |-> Unset, column |-> columns[i]]]]

exposure == Measure("exposure", <<"side", "quantity">>)
position_notional == Measure("position_notional", <<"quantity", "unit_notional">>)
scaled(column, by, name) == Measure(name, <<by, column>>)
mtm == Measure("mtm", <<"exposure", "value">>)
reported_mtm == Measure("reported_mtm", <<"mtm", "book_fx">>)
risk_factor(factor) == scaled(factor, "exposure", "position_" \o factor)
pnl_component(value, name) == Measure(name, <<"exposure", value, "book_fx">>)
total(components, name) == Measure(name, components)

\* The calls of a declaration.
SpineCall(schema) == [name |-> "position", schema |-> schema]
SourceCall(name, schema, keys) ==
  [name |-> name, schema |-> schema, keys |-> keys, prefix |-> Unset]
BookAndFx ==
  <<SourceCall("book", BookContract, {"book"}),
    SourceCall("fx", ReportingFx, {"currency", "reporting_currency"})>>
View(schema, sources_, measures) == [output |-> schema, sources |-> sources_, lets |-> measures]

position_value ==
  View(PositionValue,
       <<SourceCall("value", InstrumentValue, InstrumentKey)>> \o BookAndFx,
       <<exposure, position_notional, mtm, reported_mtm>>)

Components == <<"roll", "curve", "fx", "fixing", "residual">>
OfEach(suffix) == [i \in DOMAIN Components |-> Components[i] \o suffix]
position_pnl_explain ==
  View(PositionPnlExplain,
       <<SourceCall("pnl", InstrumentPnlExplain, InstrumentKey)>> \o BookAndFx,
       <<exposure>>
         \o [i \in DOMAIN Components |->
               pnl_component(OfEach("_value_pnl")[i], OfEach("_mtm_pnl")[i])]
         \o <<total(OfEach("_mtm_pnl"), "total_mtm_pnl")>>)

RiskFactors == <<"delta", "gamma", "vega", "theta", "rho">>
position_risk ==
  View(PositionRisk, <<SourceCall("risk", InstrumentRisk, InstrumentKey)>>,
       <<exposure>> \o [i \in DOMAIN RiskFactors |-> risk_factor(RiskFactors[i])])

BuiltIns == {position_value, position_pnl_explain, position_risk}
NoBuiltin == View({}, <<>>, <<>>)

book_value_rollup ==
  FoldReturns(FoldBy(NewFold, {"book"}), Unset,
              [c \in {"exposure", "mtm", "reported_mtm"} |-> Agg("sum", c)])

BuiltinInit ==
  /\ Init
  /\ builtin \in BuiltIns \cup {NoBuiltin} /\ made = 0
  /\ IF builtin = NoBuiltin THEN output \in OwnOutputs \cup {Unset}
     ELSE output = builtin.output

NSources == Len(builtin.sources)
NLets == Len(builtin.lets)
Declared == builtin = NoBuiltin \/ made = NSources + NLets + 2

\* The next call of the declaration.
Declare ==
  /\ ~Declared
  /\ \/ made = 0 /\ Spine(SpineCall(Position))
     \/ made \in 1..NSources /\ Source(builtin.sources[made])
     \/ made - NSources \in 1..NLets /\ Let(builtin.lets[made - NSources])
     \/ made = NSources + NLets + 1 /\ Returns(Unset)
  /\ made' = made + 1
  /\ UNCHANGED builtin

WithinBounds ==
  IF builtin = NoBuiltin
  THEN /\ ToSet(sources') \subseteq OwnSources /\ output' \in OwnOutputs \cup {Unset}
       /\ Len(sources') <= MaxOwnSources /\ Cardinality(DOMAIN terms') <= MaxOwnMeasures
  ELSE /\ spine' = spine /\ sources' = sources /\ output' = output
       /\ Cardinality(DOMAIN terms') <= NLets + MaxExtraMeasures

\* Callers declare, extend and roll up.
Callers ==
  /\ Declared
  /\ Next
  /\ WithinBounds
  /\ UNCHANGED builtinVars

\* The book roll-up is a fold of its own over position_value's output.
RollUpBook ==
  /\ Declared /\ fold = Unset /\ output = PositionValue
  /\ fold' = book_value_rollup
  /\ UNCHANGED <<joinVars, output, graphVars, calls, builtinVars>>

BuiltinNext == Declare \/ Callers \/ RollUpBook

BuiltinSpec == BuiltinInit /\ [][BuiltinNext]_<<vars, builtinVars>>
===============================================================================
