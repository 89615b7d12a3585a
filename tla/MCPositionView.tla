---------------------------- MODULE MCPositionView -----------------------------
(* Positions of two books in three instruments, one of them without a value  *)
(* and one position without a key, valued by sources that collide with each  *)
(* other, with the spine and with the measures unless they are prefixed.     *)
EXTENDS BuiltinViews, TLC

Row(i, cells) == [id |-> <<i>>, cells |-> cells]
Table(columns, cells) == Frame(columns, {Row(i, cells[i]) : i \in DOMAIN cells})

ValuedPosition == {"position_id", "book", "instrument_type", "instrument_id", "value"}
Fx == {"currency", "value"}
Book == {"book", "currency"}
Prior == {"instrument_id", "value"}

MCName ==
  UNION {Position, InstrumentValue, BookContract, ReportingFx, InstrumentPnlExplain,
         InstrumentRisk, PositionValue, PositionPnlExplain, PositionRisk,
         {"p_value", "p_currency"}}
MCSpineCalls ==
  {SpineCall(Position),
   [name |-> "position", schema |-> ValuedPosition],
   [name |-> "value", schema |-> Position]}

Call(name, schema, keys, prefix) ==
  [name |-> name, schema |-> schema, keys |-> keys, prefix |-> prefix]
MCOwnSources ==
  {Call("value", InstrumentValue, InstrumentKey, Unset),
   Call("prior", Prior, {"instrument_id"}, "p_"),
   Call("fx", Fx, {"currency"}, "p_"),
   Call("book", Book, {"book"}, Unset),
   Call("value", Book, {"book"}, "p_")}
MCSourceCalls == MCOwnSources \cup UNION {Range(v.sources) : v \in BuiltIns}

Of(source, column) == [source |-> source, column |-> column]
Own(name, refs) == [name |-> name, refs |-> refs]
MCLetCalls ==
  {Own("exposure", <<Of("position", "quantity")>>),
   Own("exposure", <<Of("value", "value")>>),
   Own("mtm", <<Of(Unset, "exposure"), Of(Unset, "value")>>),
   Own("value", <<Of("position", "quantity"), Of(Unset, "exposure")>>)}

MCOwnOutputs == {{"position_id", "book", "exposure", "mtm"}, {"book", "value"}}
MCOutputs == MCOwnOutputs \cup {v.output : v \in BuiltIns}
MCNumeric ==
  UNION {{"quantity", "value", "exposure"}, PositionValue, PositionPnlExplain, PositionRisk}
    \ {"position_id", "book"}
MCKeySets == {{"book"}, {"position_id", "book"}}
MCFoldReturnCalls ==
  {[schema |-> Unset,
    aggs |-> [total |-> Agg("sum", "exposure"), strict |-> Agg("strict_sum", "exposure"),
              rows |-> Agg("count", Unset), tag |-> Agg("lit", "BOOK"),
              first |-> Agg("first", "exposure")]],
   [schema |-> {"book", "total"},
    aggs |-> [total |-> Where(Weighted(Agg("sum", "exposure"), "exposure"), "book", <<"B1">>)]]}

\* Cells are tuples: a key holds its value, other cells say where they are from.
P(id, book, instrument, quantity) ==
  [position_id |-> <<id>>, book |-> book, instrument_type |-> <<"T">>,
   instrument_id |-> instrument, quantity |-> quantity, side |-> <<"side", id>>,
   unit_notional |-> Null]
V(instrument, value, currency) ==
  [instrument_type |-> <<"T">>, instrument_id |-> <<instrument>>,
   value |-> value, currency |-> currency]

Values == Table(InstrumentValue, <<V("A", <<"value", "A">>, <<"USD">>),
                                   V("B", <<"value", "B">>, Null)>>)
TwiceA == Table(InstrumentValue, <<V("A", <<"value", "A">>, <<"USD">>),
                                   V("A", <<"value", "2">>, <<"EUR">>)>>)

\* One row of a source, its cells named after their columns.
RowOf(columns, keys) ==
  Table(columns, <<[c \in columns |-> IF c \in DOMAIN keys THEN keys[c] ELSE <<c>>]>>)
A == [instrument_type |-> <<"T">>, instrument_id |-> <<"A">>, currency |-> <<"USD">>]

Frames(values) ==
  [schema \in {InstrumentValue, InstrumentPnlExplain, InstrumentRisk, BookContract,
               ReportingFx, Prior, Fx, Book} |->
     CASE schema = InstrumentValue -> values
       [] schema = BookContract ->
            RowOf(BookContract, [book |-> <<"B1">>, reporting_currency |-> <<"BRL">>])
       [] schema = ReportingFx ->
            RowOf(ReportingFx, [currency |-> <<"USD">>, reporting_currency |-> <<"BRL">>])
       [] schema = Prior -> RowOf(Prior, A)
       [] schema = Fx -> RowOf(Fx, A)
       [] schema = Book -> Table(Book, <<[book |-> <<"B1">>, currency |-> <<"USD">>],
                                         [book |-> <<"B2">>, currency |-> <<"EUR">>]>>)
       [] OTHER -> RowOf(schema, A)]

Positions ==
  Table(Position, <<P("1", <<"B1">>, <<"A">>, <<"qty", "1">>),
                    P("2", <<"B1">>, <<"C">>, <<"qty", "2">>),
                    P("3", Null, Null, <<"qty", "3">>)>>)
ValuedPositions ==
  Table(ValuedPosition,
        <<[position_id |-> <<"1">>, book |-> <<"B1">>, instrument_type |-> <<"T">>,
           instrument_id |-> <<"A">>, value |-> <<"own", "1">>]>>)

AllNames == {"value", "prior", "fx", "book", "pnl", "risk"}
Deal(positions, values, given) ==
  [spine |-> positions, frames |-> Frames(values), given |-> given]
MCDeals ==
  {Deal(Positions, Values, AllNames), Deal(Positions, TwiceA, AllNames),
   Deal(ValuedPositions, Values, AllNames), Deal(Positions, Values, {"value"})}

Leg(structure, leg, instrument, quantity) ==
  [structure_id |-> <<structure>>, leg_id |-> <<leg>>, instrument_type |-> <<"T">>,
   instrument_id |-> instrument, quantity |-> quantity, weight |-> <<"w", leg>>]
MCLegs ==
  {Table(StructureLeg, <<Leg("S", "1", <<"A">>, <<"q", "1">>), Leg("S", "2", <<"B">>, <<"q", "2">>),
                         Leg("R", "3", <<"A">>, <<"q", "1">>), Leg("R", "4", <<"C">>, <<"q", "4">>)>>),
   Table(StructureLeg, <<Leg("S", "1", <<"A">>, Null), Leg("R", "2", <<"A">>, <<"q", "2">>),
                         Leg("R", "3", <<"A">>, <<"q", "2">>)>>)}
===============================================================================
