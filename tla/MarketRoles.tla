----------------------------- MODULE MarketRoles ------------------------------
(***************************************************************************)
(* Market roles (market_data/roles.py), the keyed join they are resolved    *)
(* with (core/market.py) and the vocabulary that declares them              *)
(* (semantic.py).  A role names the column it publishes, the source and the *)
(* value column it reads, and how a trade finds its row: contract columns,  *)
(* literals, and a date derived from the contract.                          *)
(***************************************************************************)
EXTENDS MarketSnapshot, SequencesExt

CONSTANT Unset \* a field of a role, or of a fixing, that was never given

(* A date expression is a contract column plus a number of days; a fixing   *)
(* is such an expression, or one per value of a selector column.            *)
FixedDate(fixing, cells) ==
  LET Holds(b) == fixing.selector # Unset /\ cells[fixing.selector] = b.value
      first == CHOOSE i \in DOMAIN fixing.branches :
                 /\ Holds(fixing.branches[i])
                 /\ \A j \in 1..(i - 1) : ~Holds(fixing.branches[j])
      date == IF \E i \in DOMAIN fixing.branches : Holds(fixing.branches[i])
              THEN fixing.branches[first].date ELSE fixing.default
  IN  IF cells[date.column] = Null THEN Null ELSE cells[date.column] + date.days

\* Fixing.expr raises: no rule, no branch, or a conditional with no otherwise.
FixingIncomplete(fixing) ==
  \/ fixing.default = Unset
  \/ fixing.selector # Unset /\ fixing.branches = <<>>

FixingColumns(fixing) ==
  ({fixing.selector} \ {Unset})
    \cup {b.date.column : b \in Range(fixing.branches)} \cup {fixing.default.column}

\* The fluent declaration of a role.
Role(name) == [name |-> name, source |-> Unset, value |-> Unset, exact |-> {},
               literal |-> {}, fixing |-> Unset]
Read(role, source, column) == [role EXCEPT !.source = source, !.value = column]
By(role, left, right) ==
  [role EXCEPT !.exact = @ \cup {[left |-> left, right |-> right]}]
TempLeft(role, right) == "__const_" \o role.name \o "_" \o right
ByLiteral(role, right, value) ==
  [role EXCEPT !.literal =
     @ \cup {[left |-> TempLeft(role, right), right |-> right, value |-> value]}]
FixingOn(role, quote, selector, branches, default) ==
  [role EXCEPT !.fixing = [quote |-> quote, selector |-> selector,
                           branches |-> branches, default |-> default]]
ForTenor(role, left) == By(role, left, "tenor_days")
ForExpiry(role, left) == By(role, left, "expiry")
ForStrike(role, left) == By(role, left, "strike")

\* SemanticRole.source: the preset value column read from another source; a
\* role without one raises before anything is priced.
FromSource(role, source) ==
  IF role.value = Unset THEN Raised ELSE Read(role, source, role.value)

\* CURVES.zero_rate / discount_factor, FIXINGS.value, VOLS.implied: a preset
\* read, and a literal key when a name is given.
CurveRole(column, curve, as) ==
  LET role == Read(Role(as), "curves", column)
  IN  IF curve = Unset THEN role ELSE ByLiteral(role, "curve", curve)
FixingRole(pair, as) ==
  LET role == Read(Role(as), "fixings", "value")
  IN  IF pair = Unset THEN role ELSE ByLiteral(role, "currency_pair", pair)
VolRole(pair, as) ==
  LET role == Read(Role(as), "vol_surface", "implied_vol")
  IN  IF pair = Unset THEN role ELSE ByLiteral(role, "currency_pair", pair)

\* roles_of: along the MRO, the first role of a name wins; a class without a
\* role of its own is Unset.
RolesOf(mro) ==
  FoldLeft(LAMBDA roles, role :
             IF role = Unset \/ \E n \in DOMAIN roles : roles[n].name = role.name
             THEN roles ELSE Append(roles, role),
           <<>>, mro)

FixColumn(role) == "__fix_" \o role.name

Transient(role) ==
  {l.left : l \in role.literal}
    \cup (IF role.fixing = Unset THEN {} ELSE {FixColumn(role)})

Bindings(role) ==
  role.exact
    \cup {[left |-> l.left, right |-> l.right] : l \in role.literal}
    \cup (IF role.fixing = Unset THEN {}
          ELSE {[left |-> FixColumn(role), right |-> role.fixing.quote]})

\* MarketRequirement's two sides of the join.
LeftKeys(role) == {b.left : b \in Bindings(role)}
RightKeys(role) == {b.right : b \in Bindings(role)}

\* The frame with the literal and fixing key columns of a role added.
WithKeys(lf, role) ==
  IF \/ lf = Raised
     \/ /\ role.fixing # Unset
        /\ FixingIncomplete(role.fixing)
     \/ /\ role.fixing # Unset
        /\ ~(FixingColumns(role.fixing) \subseteq lf.columns)
  THEN Raised
  ELSE LET columns == lf.columns \cup Transient(role)
           Cell(c, x) ==
             IF role.fixing # Unset /\ x = FixColumn(role)
             THEN FixedDate(role.fixing, c)
             ELSE IF \E l \in role.literal : l.left = x
             THEN (CHOOSE l \in role.literal : l.left = x).value
             ELSE c[x]
       IN  MapCells(lf, columns, LAMBDA c : [x \in columns |-> Cell(c, x)])

\* MarketRequirement.attach: a left join of the key and value columns, which
\* refuses to overwrite a column that is not one of its keys, drops a key the
\* output overwrites, and renames the value column to the output.
Quotes(role, snapshot) ==
  LET keys == RightKeys(role)
  IN  IF \/ role.source = Unset \/ role.value = Unset
         \/ role.source \notin DOMAIN snapshot
         \/ role.value \in keys
         \/ Cardinality(keys) # Cardinality(Bindings(role))
      THEN Raised
      ELSE Select(snapshot[role.source].data, keys \cup {role.value})

\* Mutant: an inner join, which loses the trades without a quote.
RequireInner(lf, role, snapshot) ==
  LET right == Quotes(role, snapshot)
      joined == LeftJoin(lf, right, Bindings(role))
      inner == IF joined = Raised THEN Raised
               ELSE Frame(joined.columns, {r \in joined.rows : Last(r.id) # <<>>})
  IN  IF lf = Raised \/ role.name \in lf.columns \ LeftKeys(role) THEN Raised
      ELSE Renamed(Without(inner, LeftKeys(role) \cap {role.name} \cap lf.columns),
                   role.value, role.name)

Require(lf, role, snapshot) ==
  LET joined == LeftJoin(lf, Quotes(role, snapshot), Bindings(role))
  IN  IF lf = Raised \/ role.name \in lf.columns \ LeftKeys(role) THEN Raised
      ELSE Renamed(Without(joined, LeftKeys(role) \cap {role.name} \cap lf.columns),
                   role.value, role.name)

\* MarketRole.attach
Attach(lf, role, snapshot) ==
  Without(Require(WithKeys(lf, role), role, snapshot), Transient(role))
===============================================================================
