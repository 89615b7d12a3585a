--------------------------- MODULE ScenarioPricing ----------------------------
(***************************************************************************)
(* reprice_under (risk/scenario.py) over a pricer that binds its trades with *)
(* bind (market_data/roles.py): the trades are priced under the snapshot,   *)
(* then under each scenario's shock of it, and every scenario's values are  *)
(* joined to the base values on the id columns.                             *)
(*                                                                          *)
(* The frames are lazy in the code; the snapshot they read is frozen, so     *)
(* here each is computed when it is built.  What polars would raise at      *)
(* collect for a column it cannot resolve is raised where it is introduced. *)
(***************************************************************************)
EXTENDS MarketRoles

CONSTANTS
  TradeFrames,  \* the frames callers price
  Schemas,      \* pricing inputs: columns, the roles along the MRO, the
                \* priced column
  IdColumns,    \* id_columns of reprice_under
  ScenarioSets, \* sequences of shocks; a shock is a sequence of changes
  MaxReplaced   \* bound on with_source calls

RowId == Seq(Nat \cup Seq(Nat))
IsList(s) == Len(s) \in Nat /\ DOMAIN s = 1..Len(s)

\* A declared role gives each key column of its own one value.
IsRole(role) ==
  /\ \A k, l \in role.literal : k.left = l.left => k = l
  /\ role.fixing # Unset =>
       /\ IsList(role.fixing.branches)
       /\ \A l \in role.literal : l.left # FixColumn(role)

ASSUME PricingAssumption ==
  /\ IdColumns # {} /\ IdColumns \cap {"base", "shocked", "diff"} = {}
  /\ Raised \notin TradeFrames
  /\ \A f \in TradeFrames :
       /\ IsFrame(f)
       /\ \A r \in f.rows : r.id \in RowId /\ Len(r.id) = 1
       /\ \A p, q \in f.rows : p.id = q.id => p = q
  /\ \A s \in ScenarioSets :
       IsList(s) /\ \A k \in DOMAIN s : IsList(s[k])
  /\ \A s \in Schemas :
       /\ IdColumns \cup {s.price} \subseteq s.columns
       /\ s.price \notin IdColumns
       /\ IsList(s.mro)
       /\ \A i \in DOMAIN s.mro :
            s.mro[i] # Unset => IsRole(s.mro[i]) /\ s.mro[i].name \in s.columns

VARIABLES
  trades, schema, scenarios, \* the arguments of reprice_under
  replaced, \* with_source calls so far
  phase,    \* "market", "shocking", "binding", "pricing", "done" or "raised"
  call,     \* the pricer call under way: 0 is the base
  pos,      \* changes of that call's shock applied so far
  current,  \* the snapshot this call prices under
  attached, \* roles attached so far
  lf,       \* the frame the roles are attached to
  base,     \* the base ids and values
  results   \* scenario -> its joined frame

argVars == <<trades, schema, scenarios>>
callVars == <<call, pos, current, attached, lf, base, results>>
vars == <<snapshotVars, argVars, replaced, phase, callVars>>

Roles == RolesOf(schema.mro)

Init ==
  /\ SnapshotInit
  /\ trades \in TradeFrames /\ schema \in Schemas /\ scenarios \in ScenarioSets
  /\ replaced = 0 /\ phase = "market"
  /\ call = 0 /\ pos = 0 /\ attached = 0
  /\ current = NoMarket /\ lf = Raised /\ base = Raised /\ results = <<>>

(* The caller assembles its snapshot. *)
Assemble ==
  /\ phase = "market"
  /\ \/ \E s \in SourceCandidates : Register(s) /\ UNCHANGED replaced
     \/ \E validate \in BOOLEAN : Build(validate) /\ UNCHANGED replaced
     \/ Validate /\ UNCHANGED replaced
     \/ \E s \in SourceCandidates :
          replaced < MaxReplaced /\ WithSource(s) /\ replaced' = replaced + 1
  /\ UNCHANGED <<argVars, phase, callVars>>

Shock == IF call = 0 THEN <<>> ELSE scenarios[call]

\* Mutant: each scenario starts from the market the previous one left.
StartCallCumulative(n) ==
  /\ phase' = "shocking"
  /\ call' = n /\ pos' = 0 /\ attached' = 0
  /\ current' = IF n = 0 THEN market ELSE current
  /\ UNCHANGED lf

\* market.apply(shock) starts from the snapshot reprice_under was given.
StartCall(n) ==
  /\ phase' = "shocking"
  /\ call' = n /\ pos' = 0 /\ attached' = 0
  /\ current' = market
  /\ UNCHANGED lf

RepriceUnder ==
  /\ phase = "market" /\ market # NoMarket
  /\ StartCall(0)
  /\ UNCHANGED <<snapshotVars, argVars, replaced, base, results>>

Raise ==
  /\ phase' = "raised"
  /\ UNCHANGED <<snapshotVars, argVars, replaced, callVars>>

\* One shock of the composition Shock.compose runs left to right.
ApplyChange ==
  /\ phase = "shocking" /\ pos < Len(Shock)
  /\ Modifiable(current, Shock[pos + 1])
  /\ current' = ModifySource(current, Shock[pos + 1])
  /\ pos' = pos + 1
  /\ UNCHANGED <<snapshotVars, argVars, replaced, phase, call, attached, lf, base, results>>

ChangeRaises ==
  /\ phase = "shocking" /\ pos < Len(Shock)
  /\ ~Modifiable(current, Shock[pos + 1])
  /\ Raise

\* The pricer calls bind(trades, current, schema).
CallPricer ==
  /\ phase = "shocking" /\ pos = Len(Shock)
  /\ phase' = "binding"
  /\ lf' = trades
  /\ UNCHANGED <<snapshotVars, argVars, replaced, call, pos, current, attached, base, results>>

\* Mutant: a pricer that binds to the unshocked snapshot.
AttachRoleUnshocked ==
  /\ phase = "binding" /\ attached + 1 \in DOMAIN Roles
  /\ LET next == Attach(lf, Roles[attached + 1], market)
     IN  /\ next # Raised
         /\ lf' = next
  /\ attached' = attached + 1
  /\ UNCHANGED <<snapshotVars, argVars, replaced, phase, call, pos, current, base, results>>

AttachRole ==
  /\ phase = "binding" /\ attached + 1 \in DOMAIN Roles
  /\ LET next == Attach(lf, Roles[attached + 1], current)
     IN  /\ next # Raised
         /\ lf' = next
  /\ attached' = attached + 1
  /\ UNCHANGED <<snapshotVars, argVars, replaced, phase, call, pos, current, base, results>>

AttachRaises ==
  /\ phase = "binding" /\ attached + 1 \in DOMAIN Roles
  /\ Attach(lf, Roles[attached + 1], current) = Raised
  /\ Raise

\* lf.select(columns of the schema)
Project ==
  /\ phase = "binding" /\ attached + 1 \notin DOMAIN Roles
  /\ Select(lf, schema.columns) # Raised
  /\ lf' = Select(lf, schema.columns)
  /\ phase' = "pricing"
  /\ UNCHANGED <<snapshotVars, argVars, replaced, call, pos, current, attached, base, results>>

ProjectRaises ==
  /\ phase = "binding" /\ attached + 1 \notin DOMAIN Roles
  /\ Select(lf, schema.columns) = Raised
  /\ Raise

\* _select_values: the ids and the value under the suffix's name.
SelectValues(suffix) ==
  Renamed(Select(lf, IdColumns \cup {schema.price}), schema.price, suffix)

NextCall ==
  IF call < Len(scenarios)
  THEN StartCall(call + 1)
  ELSE phase' = "done" /\ UNCHANGED <<call, pos, current, attached, lf>>

SelectBase ==
  /\ phase = "pricing" /\ call = 0
  /\ base' = SelectValues("base")
  /\ NextCall
  /\ UNCHANGED <<snapshotVars, argVars, replaced, results>>

Minus(x, y) == IF Null \in {x, y} THEN Null ELSE x - y

\* base.join(shocked, on=id_columns, how="left") with the difference.
JoinShocked ==
  /\ phase = "pricing" /\ call > 0
  /\ LET joined == LeftJoin(base, SelectValues("shocked"),
                            {[left |-> c, right |-> c] : c \in IdColumns})
         columns == joined.columns \cup {"diff"}
     IN  results' = Append(results, MapCells(joined, columns,
           LAMBDA c : [x \in columns |-> IF x = "diff"
                                         THEN Minus(c["shocked"], c["base"])
                                         ELSE c[x]]))
  /\ NextCall
  /\ UNCHANGED <<snapshotVars, argVars, replaced, base>>

Next ==
  \/ Assemble \/ RepriceUnder
  \/ ApplyChange \/ ChangeRaises \/ CallPricer
  \/ AttachRole \/ AttachRaises \/ Project \/ ProjectRaises
  \/ SelectBase \/ JoinShocked

Spec == Init /\ [][Next]_vars

-------------------------------------------------------------------------------
TypeOK ==
  /\ registered \in Seq(SourceCandidates) /\ Len(registered) <= MaxSources
  /\ checked \in BOOLEAN
  /\ trades \in TradeFrames /\ schema \in Schemas /\ scenarios \in ScenarioSets
  /\ replaced \in 0..MaxReplaced
  /\ phase \in {"market", "shocking", "binding", "pricing", "done", "raised"}
  /\ call \in 0..Len(scenarios) /\ pos \in 0..Len(Shock)
  /\ attached \in 0..Len(Roles)
  /\ lf # Raised => IsFrame(lf)
  /\ base # Raised => IsFrame(base)
  /\ \A k \in DOMAIN results : IsFrame(results[k])

\* The usage under which a trade's market data is meant to be unambiguous:
\* the snapshot was validated, the shocks leave the quote keys alone, and
\* every role looks its row up by at least the keys that are unique.
AvoidsKeys ==
  \A k \in DOMAIN scenarios : \A i \in DOMAIN scenarios[k] :
    LET change == scenarios[k][i]
    IN  change.source \in DOMAIN market =>
          change.column \notin market[change.source].unique_by

CoversKeys(role) ==
  role.source \in DOMAIN market =>
    /\ market[role.source].unique_by # {}
    /\ market[role.source].unique_by \subseteq RightKeys(role)

WellKeyed ==
  /\ market # NoMarket /\ checked /\ AvoidsKeys
  /\ \A n \in DOMAIN Roles : CoversKeys(Roles[n])

(* Every pricer call of reprice_under, the base and each scenario, reads a  *)
(* snapshot whose quote keys are unique when the snapshot it was given      *)
(* passed validate_unique_keys and the shocks touch no key column: neither  *)
(* the order of changes nor an earlier scenario can reintroduce a duplicate. *)
PricedOnUniqueKeys ==
  phase \notin {"market", "raised"} /\ checked /\ AvoidsKeys => KeysUnique(current)

(* bind never loses a trade, whatever the market lacks; and of a validated  *)
(* market, however many roles are joined, it gives every trade one row.     *)
TradesKept ==
  phase \in {"binding", "pricing"} =>
    \A t \in trades.rows :
      LET rows == {r \in lf.rows : Origin(r) = Origin(t)}
      IN  /\ rows # {}
          /\ WellKeyed => \A p, q \in rows : p = q

\* What a role should publish for a trade: the values of the matching quotes,
\* or null when there is none.
QuotesFor(t, role, snapshot) ==
  LET date == FixedDate(role.fixing, t.cells)
      found == {q \in snapshot[role.source].data.rows :
        /\ \A b \in role.exact :
             t.cells[b.left] # Null /\ t.cells[b.left] = q.cells[b.right]
        /\ \A l \in role.literal : l.value # Null /\ l.value = q.cells[l.right]
        /\ role.fixing # Unset =>
             date # Null /\ date = q.cells[role.fixing.quote]}
  IN  IF found = {} THEN {Null} ELSE {q.cells[role.value] : q \in found}

RoleNames == {Roles[n].name : n \in DOMAIN Roles}

\* What attaching the roles puts in the frame beside what they publish: keys
\* it drops again, and the value column of a role the frame shadows.
Byproducts ==
  (UNION {Transient(Roles[n]) : n \in DOMAIN Roles})
    \cup {v \o "_right" : v \in {Roles[n].value : n \in DOMAIN Roles} \ {Unset}}

\* The role looks up by columns of the trade itself, not by what another
\* role publishes or leaves behind.
KeyedByTrade(role) ==
  LET dates == IF role.fixing = Unset THEN {} ELSE FixingColumns(role.fixing)
  IN  {b.left : b \in role.exact} \cup dates
        \subseteq trades.columns \ ((RoleNames \ {role.name}) \cup Byproducts)

\* Nothing the frame holds has the name of the value column the role reads,
\* and nothing left behind the name the role publishes.
Unshadowed(role) ==
  /\ role.name \notin Byproducts
  /\ role.value = role.name
       \/ role.value \notin trades.columns \cup RoleNames \cup Byproducts

Published(role) ==
  \A r \in lf.rows : \A t \in trades.rows :
    Origin(r) = Origin(t) => r.cells[role.name] \in QuotesFor(t, role, current)

(* A bound row carries, for each role, the quote of the scenario's market   *)
(* that the trade's keys, literals and fixing date select, in whatever order *)
(* the roles were attached, unless a column of the frame has the name of the *)
(* value the role reads.                                                    *)
PublishedIsTheQuote ==
  phase = "pricing" =>
    \A n \in DOMAIN Roles :
      KeyedByTrade(Roles[n]) /\ Unshadowed(Roles[n]) => Published(Roles[n])

(* core/market.py says a requirement pulls its output columns from the      *)
(* source and roles.py that the role publishes the value read: whatever     *)
(* other columns the trades carry.                                          *)
AlwaysTheQuote ==
  phase = "pricing" =>
    \A n \in DOMAIN Roles : KeyedByTrade(Roles[n]) => Published(Roles[n])

Shocked(snapshot, shock) == FoldLeft(ModifySource, snapshot, shock)

(* With ids that identify the trades and that no role writes to, each       *)
(* scenario has one row per trade, with the base value of that same trade,  *)
(* the quote under that scenario's shock alone applied to the given         *)
(* snapshot, and their difference.                                          *)
ScenarioRowsPaired ==
  LET ids(c) == Restrict(c, IdColumns)
      identified ==
        /\ IdColumns \subseteq trades.columns \ (RoleNames \cup Byproducts)
        /\ \A p, q \in trades.rows :
             /\ p # q => ids(p.cells) # ids(q.cells)
             /\ \A c \in IdColumns : p.cells[c] # Null
  IN  WellKeyed /\ identified =>
        \A k \in DOMAIN results : \A t \in trades.rows :
          LET rows == {r \in results[k].rows : ids(r.cells) = ids(t.cells)}
          IN  /\ Cardinality(rows) = 1
              /\ \A r \in rows : \A n \in DOMAIN Roles :
                   LET role == Roles[n]
                   IN  role.name = schema.price /\ KeyedByTrade(role) /\ Unshadowed(role)
                       => /\ r.cells["base"] \in QuotesFor(t, role, market)
                          /\ r.cells["shocked"] \in
                               QuotesFor(t, role, Shocked(market, scenarios[k]))
                          /\ r.cells["diff"] = Minus(r.cells["shocked"], r.cells["base"])
===============================================================================
