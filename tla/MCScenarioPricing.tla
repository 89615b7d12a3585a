-------------------------- MODULE MCScenarioPricing ---------------------------
(* Two trades (or two rows of one id, or one with a null key), a curve with  *)
(* a source of the same name that has a duplicate key, a fixing table, and   *)
(* pricing inputs whose roles meet each other and the trade's columns.       *)
EXTENDS ScenarioPricing, TLC

Table(columns, cells) ==
  Frame(columns, {[id |-> <<i>>, cells |-> cells[i]] : i \in DOMAIN cells})

Quote(curve, tenor, rate) ==
  [curve |-> curve, tenor_days |-> tenor, zero_rate |-> rate, discount_factor |-> rate + 10]
CurveColumns == {"curve", "tenor_days", "zero_rate", "discount_factor"}

Curves(cells, keys) ==
  [name |-> "curves", data |-> Table(CurveColumns, cells), unique_by |-> keys]

MCSourceCandidates ==
  {Curves(<<Quote(1, 1, 3), Quote(1, 2, 5)>>, {"tenor_days"}),
   Curves(<<Quote(1, 1, 4), Quote(2, 1, 6)>>, {"curve", "tenor_days"}),
   Curves(<<Quote(1, 1, 4), Quote(1, 1, 6)>>, {"curve", "tenor_days"}),
   [name |-> "fixings", unique_by |-> {"fixing_date"},
    data |-> Table({"fixing_date", "value"},
                   <<[fixing_date |-> 1, value |-> 7], [fixing_date |-> 3, value |-> 8]>>)],
   [name |-> "vol_surface", unique_by |-> {"expiry", "strike"},
    data |-> Table({"currency_pair", "expiry", "strike", "implied_vol"},
                   <<[currency_pair |-> 1, expiry |-> 1, strike |-> 1, implied_vol |-> 5],
                     [currency_pair |-> 1, expiry |-> 2, strike |-> 1, implied_vol |-> 6]>>)]}

Trade(id, tenor) == [instrument_id |-> id, tenor |-> tenor]
TradeColumns == {"instrument_id", "tenor"}
MCTradeFrames ==
  {Table(TradeColumns, <<Trade(1, 1), Trade(2, 2)>>),
   Table(TradeColumns, <<Trade(1, 1), Trade(1, 2)>>),
   Table(TradeColumns, <<Trade(1, Null), Trade(2, 1)>>)}

\* A trade frame that carries a rate of its own under the curve's name.
MCShadowingFrames ==
  {Table(TradeColumns \cup {"zero_rate"},
         <<[instrument_id |-> 1, tenor |-> 1, zero_rate |-> 9]>>)}

\* The role on one curve, the role on any curve, a role published over its
\* own key, a second role of the first one's value, a dated fixing, an
\* unfinished one, one that never says what it reads, and a volatility on two
\* keys and a literal.
Rate == ForTenor(CurveRole("zero_rate", 1, "rate"), "tenor")
AnyCurve == ForTenor(CurveRole("zero_rate", Unset, "zero_rate"), "tenor")
Factor == ForTenor(CurveRole("discount_factor", 1, "factor"), "tenor")
OverKey == ForTenor(CurveRole("discount_factor", 1, "tenor"), "tenor")
Day(days) == [column |-> "tenor", days |-> days]
Fix == FixingOn(FixingRole(Unset, "fixing"), "fixing_date", "instrument_id",
                <<[value |-> 2, date |-> Day(1)]>>, Day(0))
Unfinished == FixingOn(FixingRole(Unset, "fixing"), "fixing_date", Unset, <<>>, Unset)
Vol == ForStrike(ForExpiry(VolRole(1, "vol"), "tenor"), "instrument_id")
NeverRead == ForTenor(Role("rate"), "tenor")

Input(price, mro) ==
  [price |-> price, mro |-> mro,
   columns |-> {"instrument_id"} \cup {r.name : r \in Range(mro) \ {Unset}}]

MCSchemas ==
  {Input("rate", <<Unset, Rate, Fix>>),
   Input("zero_rate", <<Rate, AnyCurve, FromSource(Rate, "gone")>>),
   Input("rate", <<AnyCurve, Rate>>),
   Input("factor", <<Factor, OverKey>>),
   Input("tenor", <<OverKey, Factor>>),
   Input("fixing", <<Fix, AnyCurve>>),
   Input("fixing", <<Unfinished>>),
   Input("vol", <<Vol>>),
   Input("rate", <<NeverRead>>)}

MCShadowedSchemas == {Input("rate", <<Rate>>)}

\* Bump(column, fn) on the curves; a cell holds a number up to 20 or null.
Cell == 0..20 \cup {Null}
Change(column, Bump(_)) ==
  Modify("curves", column, [c \in Cell |-> IF c = Null THEN Null ELSE Bump(c)])
Up(column) == Change(column, LAMBDA c : c + 1)
Flat(column) == Change(column, LAMBDA c : 1)
Double(column) == Change(column, LAMBDA c : 2 * c)

MCScenarioSets ==
  {<<>>, <<Then(<<Up("zero_rate")>>, <<Double("zero_rate")>>), <<Up("zero_rate")>>>>,
   <<<<Up("discount_factor")>>, IdentityShock>>,
   <<<<Flat("tenor_days")>>>>,
   <<<<[Up("zero_rate") EXCEPT !.column = "gone"]>>>>}

MCOneScenario == {<<>>}
===============================================================================
