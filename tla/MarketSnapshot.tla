---------------------------- MODULE MarketSnapshot ----------------------------
(***************************************************************************)
(* MarketSnapshot (market_data/snapshot.py) and its fluent builder, with    *)
(* MarketSource (sources.py): sources are registered one by one, the build  *)
(* freezes them under their names (the last of a name wins) and checks       *)
(* quote-key uniqueness only when asked to; a frozen snapshot can be         *)
(* validated later, or give a new one with a source replaced.                *)
(*                                                                          *)
(* A snapshot is a function from source names to sources.  Modifying a       *)
(* column (shocks.py) gives another such function.                          *)
(***************************************************************************)
EXTENDS Frames

CONSTANTS
  SourceCandidates, \* the sources callers register: name, data, unique_by
  NoMarket,         \* nothing has been built yet
  MaxSources        \* bound on registered sources

\* A MarketSource whose data has the columns it is said to be unique by.
IsSource(s) ==
  /\ DOMAIN s = {"name", "data", "unique_by"}
  /\ DOMAIN s.data = {"columns", "rows"}
  /\ s.unique_by \subseteq s.data.columns
  /\ IsFrame(s.data)
  /\ \A r \in s.data.rows : r.id \in Seq(Nat) /\ Len(r.id) = 1

ASSUME SnapshotAssumption ==
  /\ \A s \in SourceCandidates : IsSource(s)
  /\ MaxSources \in Nat

VARIABLES
  registered, \* the builder's list of sources
  market,     \* the snapshot callers hold, or NoMarket
  checked     \* whether every source of that snapshot passed the key check

snapshotVars == <<registered, market, checked>>

\* MarketSource.validate_unique_keys passes: nulls group with nulls here.
UniqueKeys(source) ==
  \/ source.unique_by = {}
  \/ \A p, q \in source.data.rows :
       p # q => \E k \in source.unique_by : p.cells[k] # q.cells[k]

KeysUnique(snapshot) == \A n \in DOMAIN snapshot : UniqueKeys(snapshot[n])

\* from_sources: {source.name: source for source in materialized}
ByName(sources) ==
  LET last == {i \in DOMAIN sources :
                 \A j \in DOMAIN sources : sources[j].name = sources[i].name => j <= i}
  IN  [n \in {sources[i].name : i \in last} |->
         sources[CHOOSE i \in last : sources[i].name = n]]

\* modify_source: the column's cells replaced, keys and other sources kept.
\* fn is a function on what a cell may hold.
ModifySource(snapshot, change) ==
  LET source == snapshot[change.source]
      Cells(c) == [c EXCEPT ![change.column] = change.fn[@]]
  IN  [snapshot EXCEPT ![change.source] =
         [source EXCEPT !.data = MapCells(source.data, source.data.columns, Cells)]]

Modifiable(snapshot, change) ==
  /\ change.source \in DOMAIN snapshot
  /\ change.column \in snapshot[change.source].data.columns

\* MarketPath(source).column(column).modify(fn), or a parallel shift: what a
\* shock changes.  A shock is a sequence of changes; then() and compose()
\* concatenate, and the identity shock changes nothing.
Modify(source, column, fn) == [source |-> source, column |-> column, fn |-> fn]
Then(shock, other) == shock \o other
IdentityShock == <<>>

SnapshotInit ==
  /\ registered = <<>>
  /\ market = NoMarket
  /\ checked = FALSE

\* The builder's source(name, data, unique_by) or add(schema, data).
Register(s) ==
  /\ market = NoMarket
  /\ Len(registered) < MaxSources
  /\ registered' = Append(registered, s)
  /\ UNCHANGED <<market, checked>>

\* Mutant: a build that never checks the keys.
BuildUnchecked(validate) ==
  /\ market = NoMarket
  /\ market' = ByName(registered)
  /\ checked' = validate
  /\ UNCHANGED registered

\* build(validate): DuplicateMarketKeyError leaves the builder as it was.
Build(validate) ==
  /\ market = NoMarket
  /\ validate => \A s \in Range(registered) : UniqueKeys(s)
  /\ market' = ByName(registered)
  /\ checked' = validate
  /\ UNCHANGED registered

\* validate() of a built snapshot that passes.
Validate ==
  /\ market # NoMarket
  /\ KeysUnique(market)
  /\ checked' = TRUE
  /\ UNCHANGED <<registered, market>>

\* market = market.with_source(s): nothing is checked.
WithSource(s) ==
  /\ market # NoMarket
  /\ market' = [n \in DOMAIN market \cup {s.name} |->
                  IF n = s.name THEN s ELSE market[n]]
  /\ checked' = FALSE
  /\ UNCHANGED registered
===============================================================================
