---------------------------- MODULE ScenarioProofs ----------------------------
(***************************************************************************)
(* Proofs about ScenarioPricing: that what a pricer call reads has unique    *)
(* quote keys, that binding keeps every trade, once, and gives it the quotes *)
(* its keys select, and that each scenario pairs base and shocked values.    *)
(*                                                                          *)
(* KeyInv is about the snapshots, BindInv about the rows of the frame roles  *)
(* are attached to, CarryInv about their cells and PairInv about the frames  *)
(* of the scenarios; each step needs the ones before.                        *)
(***************************************************************************)
EXTENDS ScenarioPricing, FiniteSetTheorems, WellFoundedInduction, TLAPS

IsSnapshot(m) == \A n \in DOMAIN m : IsSource(m[n])

SameKeys(m, other) ==
  /\ DOMAIN m = DOMAIN other
  /\ \A n \in DOMAIN m : m[n].unique_by = other[n].unique_by

LEMMA ByNameMembers ==
  ASSUME NEW sources \in Seq(SourceCandidates), NEW n \in DOMAIN ByName(sources)
  PROVE  ByName(sources)[n] \in Range(sources)
<1> DEFINE last == {i \in DOMAIN sources :
             \A j \in DOMAIN sources : sources[j].name = sources[i].name => j <= i}
<1>1. DOMAIN ByName(sources) = {sources[i].name : i \in last}
  BY DEF ByName
<1>2. PICK i \in last : sources[i].name = n
  BY <1>1
<1>3. (CHOOSE k \in last : sources[k].name = n) \in last
  BY <1>2
<1>4. ByName(sources)[n] = sources[CHOOSE k \in last : sources[k].name = n]
  BY <1>1 DEF ByName
<1> QED
  BY <1>3, <1>4 DEF Range

LEMMA SourcesAreRange ==
  ASSUME NEW sources \in Seq(SourceCandidates)
  PROVE  Range(sources) \subseteq SourceCandidates
BY DEF Range

(* A change of a column outside the key leaves the keys, the columns and    *)
(* the uniqueness of every source as they were.                             *)
LEMMA ModifyKeepsSources ==
  ASSUME NEW m, IsSnapshot(m), NEW change, Modifiable(m, change)
  PROVE  /\ IsSnapshot(ModifySource(m, change))
         /\ SameKeys(ModifySource(m, change), m)
<1> DEFINE new == ModifySource(m, change)
           s == m[change.source]
           Cells(c) == [c EXCEPT ![change.column] = change.fn[@]]
           rows == {[id |-> r.id, cells |-> Cells(r.cells)] : r \in s.data.rows}
           data == [columns |-> s.data.columns, rows |-> rows]
<1>1. change.source \in DOMAIN m /\ change.column \in s.data.columns
  BY DEF Modifiable
<1>2. new = [m EXCEPT ![change.source] = [s EXCEPT !.data = data]]
  BY DEF ModifySource, MapCells, Frame
<1>3. IsSource(s)
  BY <1>1 DEF IsSnapshot
<1>4. DOMAIN new = DOMAIN m
      /\ new[change.source] = [s EXCEPT !.data = data]
      /\ \A n \in DOMAIN m : n # change.source => new[n] = m[n]
  BY <1>1, <1>2
<1> HIDE DEF new
<1>5. DOMAIN new[change.source] = {"name", "data", "unique_by"}
      /\ new[change.source].unique_by = s.unique_by
      /\ new[change.source].data = data
  BY <1>3, <1>4 DEF IsSource
<1>6. \A r \in rows : DOMAIN r.cells = s.data.columns
                      /\ r.id \in Seq(Nat) /\ Len(r.id) = 1
  BY <1>3 DEF IsSource, IsFrame
<1>7. IsSource(new[change.source])
  BY <1>3, <1>5, <1>6 DEF IsSource, IsFrame
<1>8. IsSnapshot(new)
  BY <1>4, <1>7 DEF IsSnapshot
<1>9. SameKeys(new, m)
  BY <1>4, <1>5 DEF SameKeys
<1> QED
  BY <1>8, <1>9 DEF new

LEMMA ModifyKeepsUniqueKeys ==
  ASSUME NEW m, IsSnapshot(m), NEW change, Modifiable(m, change),
         change.column \notin m[change.source].unique_by,
         KeysUnique(m)
  PROVE  KeysUnique(ModifySource(m, change))
<1> DEFINE new == ModifySource(m, change)
           s == m[change.source]
           Cells(c) == [c EXCEPT ![change.column] = change.fn[@]]
           rows == {[id |-> r.id, cells |-> Cells(r.cells)] : r \in s.data.rows}
           data == [columns |-> s.data.columns, rows |-> rows]
<1>1. change.source \in DOMAIN m
  BY DEF Modifiable
<1>2. new = [m EXCEPT ![change.source] = [s EXCEPT !.data = data]]
  BY DEF ModifySource, MapCells, Frame
<1>3. IsSource(s) /\ UniqueKeys(s)
  BY <1>1 DEF IsSnapshot, KeysUnique
<1>4. DOMAIN new = DOMAIN m
      /\ new[change.source] = [s EXCEPT !.data = data]
      /\ \A n \in DOMAIN m : n # change.source => new[n] = m[n]
  BY <1>1, <1>2
<1> HIDE DEF new
<1>5. new[change.source].unique_by = s.unique_by
      /\ new[change.source].data.rows = rows
  BY <1>3, <1>4 DEF IsSource
<1>6. ASSUME s.unique_by # {}, NEW p \in rows, NEW q \in rows, p # q
      PROVE  \E k \in s.unique_by : p.cells[k] # q.cells[k]
  <2>1. PICK a \in s.data.rows : p = [id |-> a.id, cells |-> Cells(a.cells)]
    OBVIOUS
  <2>2. PICK b \in s.data.rows : q = [id |-> b.id, cells |-> Cells(b.cells)]
    OBVIOUS
  <2>3. a # b
    BY <1>6, <2>1, <2>2
  <2>4. PICK k \in s.unique_by : a.cells[k] # b.cells[k]
    BY <1>3, <1>6, <2>3 DEF UniqueKeys
  <2>5. k # change.column /\ k \in s.data.columns
    BY <1>3 DEF IsSource
  <2>6. k \in DOMAIN a.cells /\ k \in DOMAIN b.cells
    BY <1>3, <2>5 DEF IsSource, IsFrame
  <2>7. p.cells[k] = a.cells[k] /\ q.cells[k] = b.cells[k]
    BY <2>1, <2>2, <2>5, <2>6
  <2> QED
    BY <2>4, <2>7
<1>7. UniqueKeys(new[change.source])
  BY <1>5, <1>6 DEF UniqueKeys
<1> QED
  BY <1>3, <1>4, <1>7 DEF KeysUnique, new

(* What the snapshot and the snapshot of the call under way keep.  current  *)
(* has the names and keys of market, so that what was checked of market can  *)
(* be said of it.                                                            *)
SnapshotInv ==
  /\ registered \in Seq(SourceCandidates)
  /\ checked \in BOOLEAN
  /\ market # NoMarket => IsSnapshot(market)
  /\ checked => KeysUnique(market)

CallInv ==
  /\ scenarios \in ScenarioSets /\ call \in 0..Len(scenarios) /\ pos \in Nat
  /\ phase # "market" =>
       /\ market # NoMarket /\ IsSnapshot(current) /\ SameKeys(current, market)
       /\ checked /\ AvoidsKeys => KeysUnique(current)

KeyInv == SnapshotInv /\ CallInv

LEMMA SnapshotStep ==
  ASSUME SnapshotInv, [Next]_vars
  PROVE  SnapshotInv'
<1>1. CASE Assemble
  <2>1. CASE \E s \in SourceCandidates : Register(s)
    BY <2>1 DEF Register, SnapshotInv
  <2>2. CASE \E validate \in BOOLEAN : Build(validate)
    <3>1. PICK validate \in BOOLEAN : Build(validate)
      BY <2>2
    <3>2. market' = ByName(registered) /\ checked' = validate /\ UNCHANGED registered
          /\ (validate => \A s \in Range(registered) : UniqueKeys(s))
      BY <3>1 DEF Build
    <3>3. \A n \in DOMAIN market' : market'[n] \in Range(registered)
      BY <3>2, ByNameMembers DEF SnapshotInv
    <3>4. IsSnapshot(market')
      BY <3>3, SourcesAreRange, SnapshotAssumption DEF SnapshotInv, IsSnapshot
    <3>5. checked' => KeysUnique(market')
      BY <3>2, <3>3 DEF KeysUnique
    <3> QED
      BY <3>2, <3>4, <3>5 DEF SnapshotInv
  <2>3. CASE Validate
    BY <2>3 DEF Validate, SnapshotInv
  <2>4. CASE \E s \in SourceCandidates : WithSource(s)
    <3>1. PICK s \in SourceCandidates : WithSource(s)
      BY <2>4
    <3>2. IsSnapshot(market')
      BY <3>1, SnapshotAssumption DEF WithSource, SnapshotInv, IsSnapshot
    <3> QED
      BY <3>1, <3>2 DEF WithSource, SnapshotInv
  <2> QED
    BY <1>1, <2>1, <2>2, <2>3, <2>4 DEF Assemble
<1>2. CASE UNCHANGED snapshotVars
  BY <1>2 DEF snapshotVars, SnapshotInv
<1>3. Next /\ ~Assemble => UNCHANGED snapshotVars
  BY DEF Next, RepriceUnder, ApplyChange, ChangeRaises, CallPricer, AttachRole,
         AttachRaises, Project, ProjectRaises, SelectBase, JoinShocked, Raise
<1> QED
  BY <1>1, <1>2, <1>3 DEF vars

\* A new call starts from the snapshot reprice_under was given.
LEMMA StartKeepsCallInv ==
  ASSUME KeyInv, market # NoMarket, NEW n \in 0..Len(scenarios), StartCall(n),
         UNCHANGED <<snapshotVars, argVars>>
  PROVE  CallInv'
<1>1. current' = market /\ call' = n /\ pos' = 0 /\ UNCHANGED <<market, checked, scenarios>>
  BY DEF StartCall, snapshotVars, argVars
<1>2. AvoidsKeys' = AvoidsKeys
  BY <1>1 DEF AvoidsKeys
<1> QED
  BY <1>1, <1>2 DEF KeyInv, SnapshotInv, CallInv, SameKeys

LEMMA CallStep ==
  ASSUME KeyInv, [Next]_vars
  PROVE  CallInv'
<1>1. CASE Assemble
  BY <1>1 DEF Assemble, KeyInv, CallInv, argVars, callVars
<1>2. CASE RepriceUnder
  <2>1. 0 \in 0..Len(scenarios)
    BY PricingAssumption DEF KeyInv, CallInv, IsList
  <2> QED
    BY <1>2, <2>1, StartKeepsCallInv DEF RepriceUnder
<1>3. CASE ApplyChange
  <2> DEFINE change == Shock[pos + 1]
  <2>1. /\ phase = "shocking" /\ pos < Len(Shock) /\ Modifiable(current, change)
        /\ current' = ModifySource(current, change) /\ pos' = pos + 1
        /\ UNCHANGED <<market, checked, scenarios, call, phase>>
    BY <1>3 DEF ApplyChange, snapshotVars, argVars
  <2>2. IsSnapshot(current) /\ SameKeys(current, market)
    BY <2>1 DEF KeyInv, CallInv
  <2>3. IsSnapshot(current') /\ SameKeys(current', market)
    <3>1. IsSnapshot(current') /\ SameKeys(current', current)
      BY <2>1, <2>2, ModifyKeepsSources
    <3> QED
      BY <2>2, <3>1 DEF SameKeys
  <2>4. call # 0
    <3> SUFFICES ASSUME call = 0 PROVE FALSE
      OBVIOUS
    <3>1. Len(Shock) = 0
      BY DEF Shock
    <3> QED
      BY <2>1, <3>1 DEF KeyInv, CallInv
  <2>5. call \in DOMAIN scenarios /\ pos + 1 \in DOMAIN scenarios[call]
        /\ change = scenarios[call][pos + 1]
    BY <2>1, <2>4, PricingAssumption DEF KeyInv, CallInv, IsList, Shock
  <2>6. AvoidsKeys' = AvoidsKeys
    BY <2>1 DEF AvoidsKeys
  <2>7. checked /\ AvoidsKeys => KeysUnique(current')
    <3> SUFFICES ASSUME checked, AvoidsKeys PROVE KeysUnique(current')
      OBVIOUS
    <3>1. change.source \in DOMAIN market /\ change.source \in DOMAIN current
      BY <2>1, <2>2 DEF Modifiable, SameKeys
    <3>2. change.column \notin current[change.source].unique_by
      BY <2>2, <2>5, <3>1 DEF AvoidsKeys, SameKeys
    <3>3. KeysUnique(current)
      BY <2>1 DEF KeyInv, CallInv
    <3> QED
      BY <2>1, <2>2, <3>2, <3>3, ModifyKeepsUniqueKeys
  <2> QED
    BY <2>1, <2>3, <2>6, <2>7 DEF KeyInv, CallInv
<1>4. CASE SelectBase \/ JoinShocked
  <2>1. NextCall /\ phase = "pricing" /\ UNCHANGED <<snapshotVars, argVars>>
    BY <1>4 DEF SelectBase, JoinShocked
  <2>2. market # NoMarket
    BY <2>1 DEF KeyInv, CallInv
  <2>3. CASE call < Len(scenarios)
    <3>1. call + 1 \in 0..Len(scenarios)
      BY <2>3, PricingAssumption DEF KeyInv, CallInv, IsList
    <3> QED
      BY <2>1, <2>2, <2>3, <3>1, StartKeepsCallInv DEF NextCall
  <2>4. CASE ~(call < Len(scenarios))
    <3>1. UNCHANGED <<call, pos, current, market, checked, scenarios>>
      BY <2>1, <2>4 DEF NextCall, snapshotVars, argVars
    <3>2. AvoidsKeys' = AvoidsKeys
      BY <3>1 DEF AvoidsKeys
    <3> QED
      BY <2>1, <3>1, <3>2 DEF KeyInv, CallInv
  <2> QED
    BY <2>3, <2>4
<1>5. CASE \/ ChangeRaises \/ CallPricer \/ AttachRole \/ AttachRaises
           \/ Project \/ ProjectRaises
  <2>1. phase # "market" /\ UNCHANGED <<market, checked, scenarios, call, pos, current>>
    BY <1>5 DEF ChangeRaises, CallPricer, AttachRole, AttachRaises, Project,
                ProjectRaises, Raise, snapshotVars, argVars, callVars
  <2>2. AvoidsKeys' = AvoidsKeys
    BY <2>1 DEF AvoidsKeys
  <2> QED
    BY <2>1, <2>2 DEF KeyInv, CallInv
<1>6. CASE UNCHANGED vars
  <2>1. UNCHANGED <<market, checked, scenarios, call, pos, current, phase>>
    BY <1>6 DEF vars, snapshotVars, argVars, callVars
  <2>2. AvoidsKeys' = AvoidsKeys
    BY <2>1 DEF AvoidsKeys
  <2> QED
    BY <2>1, <2>2 DEF KeyInv, CallInv
<1> QED
  BY <1>1, <1>2, <1>3, <1>4, <1>5, <1>6 DEF Next

LEMMA KeyInvariant == Spec => []KeyInv
<1>1. Init => KeyInv
  <2> SUFFICES ASSUME Init PROVE KeyInv
    OBVIOUS
  <2>1. 0 \in 0..Len(scenarios)
    BY PricingAssumption DEF Init, IsList
  <2>2. SnapshotInv
    <3>1. registered \in Seq(SourceCandidates)
      BY DEF Init, SnapshotInit
    <3>2. checked \in BOOLEAN /\ ~checked
      BY DEF Init, SnapshotInit
    <3>3. market = NoMarket
      BY DEF Init, SnapshotInit
    <3> QED
      BY <3>1, <3>2, <3>3 DEF SnapshotInv
  <2>3. phase = "market"
    BY DEF Init
  <2>4. CallInv
    BY <2>1, <2>3 DEF Init, CallInv
  <2> QED
    BY <2>2, <2>4 DEF KeyInv
<1>2. KeyInv /\ [Next]_vars => KeyInv'
  BY SnapshotStep, CallStep DEF KeyInv
<1> QED
  BY <1>1, <1>2, PTL DEF Spec

\* A validated snapshot stays unambiguous under every shock that leaves its
\* quote keys alone, in the base call and in each scenario of reprice_under.
THEOREM ScenariosReadUniqueKeys == Spec => []PricedOnUniqueKeys
<1>1. KeyInv => PricedOnUniqueKeys
  BY DEF KeyInv, CallInv, PricedOnUniqueKeys
<1> QED
  BY <1>1, KeyInvariant, PTL

-------------------------------------------------------------------------------
(* Binding: every step of attaching a role gives each row the rows that come *)
(* from it, and one of them when its partner is unique.                      *)
Lineage(f) == \A r \in f.rows : r.id \in RowId /\ Len(r.id) >= 1
Covers(f) == \A t \in trades.rows : \E r \in f.rows : Origin(r) = Origin(t)
OneEach(f) == \A p, q \in f.rows : Origin(p) = Origin(q) => p = q
Kept(f) == f # Raised /\ Lineage(f) /\ Covers(f) /\ (WellKeyed => OneEach(f))

\* g has f's rows with other cells.
Derived(f, g) ==
  \E F \in [f.rows -> g.rows] :
    /\ \A s \in g.rows : \E r \in f.rows : s = F[r]
    /\ \A r \in f.rows : F[r].id = r.id

LEMMA DerivedIsKept ==
  ASSUME NEW f, NEW g, Kept(f), g # Raised, Derived(f, g)
  PROVE  Kept(g)
<1>1. PICK F \in [f.rows -> g.rows] :
        /\ \A s \in g.rows : \E r \in f.rows : s = F[r]
        /\ \A r \in f.rows : F[r].id = r.id
  BY DEF Derived
<1>2. Lineage(g)
  BY <1>1 DEF Kept, Lineage
<1>3. Covers(g)
  BY <1>1 DEF Kept, Covers, Origin
<1>4. WellKeyed => OneEach(g)
  BY <1>1 DEF Kept, OneEach, Origin
<1> QED
  BY <1>2, <1>3, <1>4 DEF Kept

LEMMA SelectIsKept ==
  ASSUME NEW f, NEW columns, Select(f, columns) # Raised, Kept(f)
  PROVE  Kept(Select(f, columns))
<1> DEFINE g == Select(f, columns)
           Row(r) == [id |-> r.id, cells |-> Restrict(r.cells, columns)]
<1>1. g.rows = {Row(r) : r \in f.rows}
  BY DEF Select, MapCells, Frame
<1>2. [r \in f.rows |-> Row(r)] \in [f.rows -> g.rows]
  BY <1>1
<1>3. Derived(f, g)
  BY <1>1, <1>2 DEF Derived
<1> QED
  BY <1>3, DerivedIsKept

LEMMA WithoutIsKept ==
  ASSUME NEW f, NEW columns, Without(f, columns) # Raised, Kept(f)
  PROVE  Kept(Without(f, columns))
BY SelectIsKept DEF Without, Kept

LEMMA RenamedIsKept ==
  ASSUME NEW f, NEW old, NEW new, Renamed(f, old, new) # Raised, Kept(f)
  PROVE  Kept(Renamed(f, old, new))
<1>1. CASE old = new
  BY <1>1 DEF Renamed
<1>2. CASE old # new
  <2> DEFINE g == Renamed(f, old, new)
             columns == (f.columns \ {old}) \cup {new}
             Row(r) == [id |-> r.id, cells |->
               [x \in columns |-> IF x = new THEN r.cells[old] ELSE r.cells[x]]]
  <2>1. g.rows = {Row(r) : r \in f.rows}
    BY <1>2 DEF Renamed, MapCells, Frame, Kept
  <2>2. [r \in f.rows |-> Row(r)] \in [f.rows -> g.rows]
    BY <2>1
  <2>3. Derived(f, g)
    BY <2>1, <2>2 DEF Derived
  <2> QED
    BY <2>3, DerivedIsKept
<1> QED
  BY <1>1, <1>2

LEMMA WithKeysIsKept ==
  ASSUME NEW f, NEW role, WithKeys(f, role) # Raised, Kept(f)
  PROVE  Kept(WithKeys(f, role))
<1> DEFINE g == WithKeys(f, role)
           columns == f.columns \cup Transient(role)
           Cell(c, x) ==
             IF role.fixing # Unset /\ x = FixColumn(role)
             THEN FixedDate(role.fixing, c)
             ELSE IF \E l \in role.literal : l.left = x
             THEN (CHOOSE l \in role.literal : l.left = x).value
             ELSE c[x]
           Row(r) == [id |-> r.id, cells |-> [x \in columns |-> Cell(r.cells, x)]]
<1>1. g.rows = {Row(r) : r \in f.rows}
  BY DEF WithKeys, MapCells, Frame
<1>2. [r \in f.rows |-> Row(r)] \in [f.rows -> g.rows]
  BY <1>1
<1>3. Derived(f, g)
  BY <1>1, <1>2 DEF Derived
<1> QED
  BY <1>3, DerivedIsKept

LEMMA JoinIsKept ==
  ASSUME NEW f, NEW right, NEW on, LeftJoin(f, right, on) # Raised, Kept(f),
         \A r \in right.rows : r.id \in Seq(Nat),
         WellKeyed => \A l \in f.rows : \A a, b \in Matches(l, right, on) : a = b
  PROVE  Kept(LeftJoin(f, right, on))
<1> DEFINE g == LeftJoin(f, right, on)
           payload == right.columns \ {k.right : k \in on}
           columns == f.columns \cup {Suffixed(f, c) : c \in payload}
           From(x) == CHOOSE c \in payload : Suffixed(f, c) = x
           Pair(l, r) == [id |-> Append(l.id, r.id),
                          cells |-> [x \in columns |-> IF x \in f.columns
                                       THEN l.cells[x] ELSE r.cells[From(x)]]]
<1>1. g.rows = UNION {{Pair(l, r) : r \in Partners(l, right, on)} : l \in f.rows}
  BY DEF LeftJoin, Frame
<1>2. \A l \in f.rows : /\ Partners(l, right, on) # {}
                        /\ \A r \in Partners(l, right, on) : r.id \in Seq(Nat)
                        /\ WellKeyed => \A a, b \in Partners(l, right, on) : a = b
  <2> SUFFICES ASSUME NEW l \in f.rows
               PROVE  /\ Partners(l, right, on) # {}
                      /\ \A r \in Partners(l, right, on) : r.id \in Seq(Nat)
                      /\ WellKeyed => \A a, b \in Partners(l, right, on) : a = b
    OBVIOUS
  <2>1. CASE Matches(l, right, on) # {}
    <3>1. Partners(l, right, on) = Matches(l, right, on)
      BY <2>1 DEF Partners
    <3>2. Matches(l, right, on) \subseteq right.rows
      BY DEF Matches
    <3> QED
      BY <2>1, <3>1, <3>2
  <2>2. CASE Matches(l, right, on) = {}
    <3>1. Partners(l, right, on)
            = {[id |-> <<>>, cells |-> [c \in right.columns |-> Null]]}
      BY <2>2 DEF Partners
    <3>2. \A r \in Partners(l, right, on) : r.id = <<>>
      BY <3>1
    <3> QED
      BY <3>1, <3>2
  <2> QED
    BY <2>1, <2>2
<1>3. ASSUME NEW l \in f.rows, NEW r \in Partners(l, right, on)
      PROVE  /\ Pair(l, r).id \in RowId /\ Len(Pair(l, r).id) >= 1
             /\ Origin(Pair(l, r)) = Origin(l)
  <2>1. l.id \in RowId /\ Len(l.id) >= 1 /\ r.id \in Nat \cup Seq(Nat)
    BY <1>2 DEF Kept, Lineage
  <2>2. Pair(l, r).id = Append(l.id, r.id)
    OBVIOUS
  <2> QED
    BY <2>1, <2>2 DEF RowId, Origin
<1>4. \A s \in g.rows : \E l \in f.rows : \E r \in Partners(l, right, on) : s = Pair(l, r)
  BY <1>1
<1>5. ASSUME NEW l \in f.rows, NEW r \in Partners(l, right, on)
      PROVE  Pair(l, r) \in g.rows
  <2>1. Pair(l, r) \in {Pair(l, x) : x \in Partners(l, right, on)}
    OBVIOUS
  <2> HIDE DEF Pair
  <2> QED
    BY <1>1, <2>1
<1> HIDE DEF g, Pair
<1>6. Lineage(g)
  BY <1>3, <1>4 DEF Lineage
<1>7. Covers(g)
  BY <1>2, <1>3, <1>5 DEF Covers, Kept
<1>8. WellKeyed => OneEach(g)
  BY <1>2, <1>3, <1>4 DEF OneEach, Kept
<1> QED
  BY <1>6, <1>7, <1>8 DEF Kept, g

(* A role that covers the key of a source with unique keys finds at most one *)
(* quote for a row.                                                          *)
LEMMA QuotesUnambiguous ==
  ASSUME KeyInv, phase # "market", NEW n \in DOMAIN Roles,
         Quotes(Roles[n], current) # Raised
  PROVE  /\ \A r \in Quotes(Roles[n], current).rows : r.id \in Seq(Nat)
         /\ WellKeyed => \A l : \A a, b \in
              Matches(l, Quotes(Roles[n], current), Bindings(Roles[n])) : a = b
<1> DEFINE role == Roles[n]
           right == Quotes(role, current)
           source == current[role.source]
           keys == RightKeys(role)
           columns == keys \cup {role.value}
           Row(r) == [id |-> r.id, cells |-> Restrict(r.cells, columns)]
<1>1. role.source \in DOMAIN current /\ right = Select(source.data, columns)
  BY DEF Quotes
<1>2. IsSource(source) /\ SameKeys(current, market)
  BY <1>1 DEF KeyInv, CallInv, IsSnapshot
<1>3. right.rows = {Row(r) : r \in source.data.rows}
  <2>1. Select(source.data, columns) # Raised
    BY <1>1
  <2> HIDE DEF source, columns
  <2> QED
    BY <1>1, <2>1 DEF Select, MapCells, Frame
<1>4. \A r \in right.rows : r.id \in Seq(Nat)
  <2>1. \A r \in source.data.rows : r.id \in Seq(Nat)
    BY <1>2 DEF IsSource
  <2>2. ASSUME NEW r \in right.rows PROVE \E s \in source.data.rows : r.id = s.id
    <3>1. PICK s \in source.data.rows : r = Row(s)
      BY <1>3
    <3> QED
      BY <3>1
  <2> QED
    BY <2>1, <2>2
<1>5. ASSUME WellKeyed, NEW l, NEW a \in Matches(l, right, Bindings(role)),
             NEW b \in Matches(l, right, Bindings(role))
      PROVE  a = b
  <2>1. UniqueKeys(source) /\ source.unique_by # {} /\ source.unique_by \subseteq keys
    <3>1. KeysUnique(current)
      BY <1>5 DEF WellKeyed, KeyInv, CallInv
    <3>2. CoversKeys(role) /\ role.source \in DOMAIN market
      BY <1>1, <1>2, <1>5 DEF WellKeyed, SameKeys
    <3> QED
      BY <1>1, <1>2, <3>1, <3>2 DEF CoversKeys, KeysUnique, SameKeys
  <2>2. a \in right.rows /\ b \in right.rows
    BY DEF Matches
  <2>3. PICK x \in source.data.rows : a = Row(x)
    BY <1>3, <2>2
  <2>4. PICK y \in source.data.rows : b = Row(y)
    BY <1>3, <2>2
  <2>5. ASSUME NEW k \in source.unique_by PROVE x.cells[k] = y.cells[k]
    <3>1. PICK c \in Bindings(role) : k = c.right
      BY <2>1 DEF RightKeys
    <3>2. a.cells[k] = b.cells[k]
      BY <3>1 DEF Matches
    <3>3. k \in columns
      BY <2>1
    <3>4. a.cells[k] = x.cells[k] /\ b.cells[k] = y.cells[k]
      BY <2>3, <2>4, <3>3 DEF Restrict
    <3> QED
      BY <3>2, <3>4
  <2>6. x = y
    BY <2>1, <2>5 DEF UniqueKeys
  <2> QED
    BY <2>3, <2>4, <2>6
<1> QED
  BY <1>4, <1>5

LEMMA AttachIsKept ==
  ASSUME KeyInv, phase # "market", NEW n \in DOMAIN Roles, Kept(lf),
         Attach(lf, Roles[n], current) # Raised
  PROVE  Kept(Attach(lf, Roles[n], current))
<1> DEFINE role == Roles[n]
           keyed == WithKeys(lf, role)
           quotes == Quotes(role, current)
           joined == LeftJoin(keyed, quotes, Bindings(role))
           overwritten == LeftKeys(role) \cap {role.name} \cap keyed.columns
           dropped == Without(joined, overwritten)
           named == Renamed(dropped, role.value, role.name)
<1>1. Require(keyed, role, current) # Raised
  BY DEF Attach, Without
<1>2. keyed # Raised /\ Require(keyed, role, current) = named
  BY <1>1 DEF Require
<1>3. dropped # Raised
  BY <1>1, <1>2 DEF Renamed
<1>4. joined # Raised
  BY <1>3 DEF Without
<1>5. quotes # Raised
  BY <1>4 DEF LeftJoin
<1>6. Kept(keyed)
  BY <1>2, WithKeysIsKept
<1>7. Kept(joined)
  <2>1. \A r \in quotes.rows : r.id \in Seq(Nat)
    BY <1>5, QuotesUnambiguous
  <2>2. WellKeyed => \A l \in keyed.rows : \A a, b \in Matches(l, quotes, Bindings(role)) : a = b
    BY <1>5, QuotesUnambiguous
  <2> HIDE DEF keyed, quotes, role
  <2> QED
    BY <1>4, <1>6, <2>1, <2>2, JoinIsKept
<1>8. Kept(named)
  <2>1. Kept(dropped)
    BY <1>3, <1>7, WithoutIsKept
  <2>2. named # Raised
    BY <1>1, <1>2
  <2> QED
    BY <2>1, <2>2, RenamedIsKept
<1> QED
  BY <1>2, <1>8, WithoutIsKept DEF Attach

LEMMA TradesAreKept ==
  ASSUME trades \in TradeFrames
  PROVE  Kept(trades)
<1>1. trades # Raised
  BY PricingAssumption
<1>2. \A r \in trades.rows : r.id \in RowId /\ Len(r.id) = 1
  BY PricingAssumption
<1>3. \A p, q \in trades.rows : Origin(p) = Origin(q) => p = q
  <2> SUFFICES ASSUME NEW p \in trades.rows, NEW q \in trades.rows, Origin(p) = Origin(q)
               PROVE  p = q
    OBVIOUS
  <2>1. p.id = q.id
    BY <1>2 DEF Origin, RowId
  <2> QED
    BY <2>1, PricingAssumption
<1>4. Lineage(trades)
  BY <1>2 DEF Lineage
<1>5. Covers(trades)
  BY DEF Covers
<1>6. OneEach(trades)
  BY <1>3 DEF OneEach
<1> QED
  BY <1>1, <1>4, <1>5, <1>6 DEF Kept

BindInv ==
  /\ trades \in TradeFrames
  /\ phase \in {"binding", "pricing"} => Kept(lf)

\* Whether the market is well keyed is settled once pricing has begun.
LEMMA KeptIsStable ==
  ASSUME UNCHANGED <<market, checked, scenarios, schema>>
  PROVE  WellKeyed' = WellKeyed
<1>1. AvoidsKeys' = AvoidsKeys
  BY DEF AvoidsKeys
<1>2. Roles' = Roles /\ \A role : CoversKeys(role)' = CoversKeys(role)
  BY DEF Roles, CoversKeys
<1> QED
  BY <1>1, <1>2 DEF WellKeyed

LEMMA KeptNext ==
  ASSUME UNCHANGED <<market, checked, scenarios, schema, trades>>, Kept(lf')
  PROVE  Kept(lf)'
BY KeptIsStable DEF Kept, Lineage, Covers, OneEach

LEMMA BindStep ==
  ASSUME KeyInv, BindInv, [Next]_vars
  PROVE  BindInv'
<1>1. trades' = trades
  BY DEF Next, Assemble, RepriceUnder, ApplyChange, ChangeRaises, CallPricer, AttachRole,
         AttachRaises, Project, ProjectRaises, SelectBase, JoinShocked, Raise, argVars, vars
<1>2. SUFFICES ASSUME phase' \in {"binding", "pricing"} PROVE Kept(lf)'
  BY <1>1 DEF BindInv
<1>3. CASE CallPricer
  <2>1. lf' = trades /\ UNCHANGED <<market, checked, scenarios, schema, trades>>
    BY <1>3 DEF CallPricer, snapshotVars, argVars
  <2>2. Kept(lf')
    BY <2>1, TradesAreKept DEF BindInv
  <2> QED
    BY <2>1, <2>2, KeptNext
<1>4. CASE AttachRole
  <2>1. /\ phase = "binding" /\ attached + 1 \in DOMAIN Roles
        /\ lf' = Attach(lf, Roles[attached + 1], current) /\ lf' # Raised
        /\ UNCHANGED <<market, checked, scenarios, schema, trades>>
    BY <1>4 DEF AttachRole, snapshotVars, argVars
  <2>2. Kept(lf)
    BY <2>1 DEF BindInv
  <2>3. Kept(lf')
    BY <2>1, <2>2, AttachIsKept
  <2> QED
    BY <2>1, <2>3, KeptNext
<1>5. CASE Project
  <2>1. /\ phase = "binding" /\ lf' = Select(lf, schema.columns) /\ lf' # Raised
        /\ UNCHANGED <<market, checked, scenarios, schema, trades>>
    BY <1>5 DEF Project, snapshotVars, argVars
  <2>2. Kept(lf')
    BY <2>1, SelectIsKept DEF BindInv
  <2> QED
    BY <2>1, <2>2, KeptNext
<1>6. CASE UNCHANGED vars
  <2>1. UNCHANGED <<market, checked, scenarios, schema, trades, lf, phase>>
    BY <1>6 DEF vars, snapshotVars, argVars, callVars
  <2>2. Kept(lf')
    BY <1>2, <2>1 DEF BindInv
  <2> QED
    BY <2>1, <2>2, KeptNext
<1>7. CASE \/ Assemble \/ RepriceUnder \/ ApplyChange \/ ChangeRaises \/ AttachRaises
           \/ ProjectRaises \/ SelectBase \/ JoinShocked
  <2>1. phase' \notin {"binding", "pricing"}
    BY <1>7 DEF Assemble, RepriceUnder, ApplyChange, ChangeRaises, AttachRaises,
         ProjectRaises, SelectBase, JoinShocked, Raise, NextCall, StartCall
  <2> QED
    BY <1>2, <2>1
<1> QED
  BY <1>3, <1>4, <1>5, <1>6, <1>7 DEF Next

\* bind loses no trade, and duplicates none when the market was validated,
\* its keys were not shocked and every role covers them: whatever the roles,
\* the trades and the quotes are, and in whatever order roles are attached.
THEOREM BindKeepsTrades == Spec => []TradesKept
<1>1. Init => BindInv
  BY DEF Init, BindInv
<1>2. KeyInv /\ BindInv /\ [Next]_vars => BindInv'
  BY BindStep
<1>3. BindInv => TradesKept
  BY DEF BindInv, TradesKept, Kept, Covers, OneEach
<1> QED
  BY <1>1, <1>2, <1>3, KeyInvariant, PTL DEF Spec
LEMMA Induction ==
  ASSUME NEW N, N \subseteq Nat, 0 \in N, \A n \in N : n + 1 \in N
  PROVE  N = Nat
<1> DEFINE T == Nat \ N
           R == {p \in Nat \X Nat : p[1] < p[2]}
<1>1. IsWellFoundedOn(R, Nat)
  BY NatLessThanWellFounded DEF OpToRel
<1> HIDE DEF R
<1>2. T # {} => \E n \in T : \A m \in T : <<m, n>> \notin R
  BY <1>1, WFMin
<1>3. \A m, n \in Nat : <<m, n>> \notin R => ~(m < n)
  BY DEF R
<1>4. ASSUME NEW n \in T, \A m \in T : <<m, n>> \notin R PROVE FALSE
  <2>1. n - 1 \in Nat /\ n - 1 + 1 = n /\ n - 1 < n
    OBVIOUS
  <2>2. n - 1 \notin T
    BY <1>3, <1>4, <2>1
  <2> QED
    BY <2>1, <2>2
<1> QED
  BY <1>2, <1>4

LEMMA InitialIndices ==
  /\ 1..0 = {}
  /\ \A n \in Nat :
       /\ 1..(n + 1) \in SUBSET (1..(n + 1)) /\ 1..n \in SUBSET (1..(n + 1))
       /\ 1..(n + 1) # {} /\ Max(1..(n + 1)) = n + 1 /\ (1..(n + 1)) \ {n + 1} = 1..n
       /\ \A S \in SUBSET (1..(n + 1)) :
            /\ n + 1 \in S => Max(S) = n + 1
            /\ S \ {n + 1} \in SUBSET (1..n)
            /\ n + 1 \notin S => S \ {Max(S)} \in SUBSET (1..n) /\ S \in SUBSET (1..n)
<1>1. 1..0 = {}
  OBVIOUS
<1>2. ASSUME NEW n \in Nat, NEW S \in SUBSET (1..(n + 1)), n + 1 \in S
      PROVE  Max(S) = n + 1
  <2>1. \A y \in S : n + 1 >= y
    OBVIOUS
  <2>2. \A x \in S : (\A y \in S : x >= y) => x = n + 1
    <3> SUFFICES ASSUME NEW x \in S, \A y \in S : x >= y PROVE x = n + 1
      OBVIOUS
    <3>1. x >= n + 1 /\ n + 1 >= x /\ x \in Nat
      BY <1>2, <2>1
    <3> QED
      BY <3>1
  <2> QED
    BY <1>2, <2>1, <2>2 DEF Max
<1>3. \A n \in Nat : 1..(n + 1) # {} /\ (1..(n + 1)) \ {n + 1} = 1..n
                     /\ n + 1 \in 1..(n + 1) /\ 1..n \subseteq 1..(n + 1)
  OBVIOUS
<1>4. ASSUME NEW n \in Nat, NEW S \in SUBSET (1..(n + 1))
      PROVE  /\ S \ {n + 1} \in SUBSET (1..n)
             /\ n + 1 \notin S => S \ {Max(S)} \in SUBSET (1..n) /\ S \in SUBSET (1..n)
  <2>1. \A x \in S : x # n + 1 => x \in 1..n
    OBVIOUS
  <2> QED
    BY <2>1
<1>5. \A n \in Nat : Max(1..(n + 1)) = n + 1
  BY <1>2, <1>3
<1> QED
  BY <1>1, <1>2, <1>3, <1>4, <1>5

\* One class of the MRO more.
WithRole(roles, role) ==
  IF role = Unset \/ \E n \in DOMAIN roles : roles[n].name = role.name
  THEN roles ELSE Append(roles, role)

LEMMA RolesAreChain ==
  ASSUME NEW mro, IsList(mro)
  PROVE  \E J : /\ J[0] = <<>>
                /\ \A k \in 0..(Len(mro) - 1) : J[k + 1] = WithRole(J[k], mro[k + 1])
                /\ RolesOf(mro) = J[Len(mro)]
<1> DEFINE Iter(n, it) ==
             it = [S \in SUBSET (1..n) |->
                     IF S = {} THEN <<>>
                     ELSE WithRole(it[S \ {Max(S)}], mro[Max(S)])]
           N == {n \in Nat : \E it : Iter(n, it)}
<1>1. 0 \in N
  <2>1. Iter(0, [S \in SUBSET (1..0) |-> <<>>])
    BY InitialIndices
  <2> QED
    BY <2>1
<1>2. ASSUME NEW n \in N PROVE n + 1 \in N
  <2>1. PICK it : Iter(n, it)
    OBVIOUS
  <2> DEFINE more == [S \in SUBSET (1..(n + 1)) |->
                        IF n + 1 \in S
                        THEN WithRole(it[S \ {n + 1}], mro[n + 1])
                        ELSE it[S]]
  <2>2. ASSUME NEW S \in SUBSET (1..(n + 1))
        PROVE  more[S] = IF S = {} THEN <<>>
                         ELSE WithRole(more[S \ {Max(S)}], mro[Max(S)])
    <3>1. CASE n + 1 \in S
      <4>1. Max(S) = n + 1 /\ S # {}
        BY <3>1, InitialIndices
      <4>2. S \ {n + 1} \in SUBSET (1..(n + 1)) /\ n + 1 \notin S \ {n + 1}
        OBVIOUS
      <4>3. more[S \ {n + 1}] = it[S \ {n + 1}]
        BY <4>2
      <4> QED
        BY <3>1, <4>1, <4>3
    <3>2. CASE n + 1 \notin S
      <4>1. S \ {Max(S)} \in SUBSET (1..n) /\ S \in SUBSET (1..n)
        BY <3>2, InitialIndices
      <4>2. S \ {Max(S)} \in SUBSET (1..(n + 1)) /\ n + 1 \notin S \ {Max(S)}
        BY <3>2
      <4>3. more[S \ {Max(S)}] = it[S \ {Max(S)}] /\ more[S] = it[S]
        BY <3>2, <4>2
      <4>4. it[S] = IF S = {} THEN <<>>
                    ELSE WithRole(it[S \ {Max(S)}], mro[Max(S)])
        BY <2>1, <4>1
      <4> QED
        BY <4>3, <4>4
    <3> QED
      BY <3>1, <3>2
  <2>3. Iter(n + 1, more)
    <3> HIDE DEF more
    <3>1. more = [S \in SUBSET (1..(n + 1)) |-> more[S]]
      BY DEF more
    <3> QED
      BY <2>2, <3>1
  <2> HIDE DEF Iter, more
  <2> QED
    BY <2>3
<1>3. N = Nat
  <2> HIDE DEF N
  <2>1. N \subseteq Nat
    BY DEF N
  <2> QED
    BY <1>1, <1>2, <2>1, Induction
<1> DEFINE n == Len(mro)
           it == CHOOSE f : Iter(n, f)
<1>4. n \in Nat /\ DOMAIN mro = 1..n
  BY DEF IsList
<1>5. Iter(n, it)
  <2> HIDE DEF Iter
  <2>1. \E f : Iter(n, f)
    BY <1>3, <1>4
  <2> QED
    BY <2>1
<1>6. RolesOf(mro) = it[1..n]
  <2>1. RolesOf(mro) =
          (CHOOSE f : f = [S \in SUBSET (DOMAIN mro) |->
                     IF S = {} THEN <<>>
                     ELSE WithRole(f[S \ {Max(S)}], mro[Max(S)])])[DOMAIN mro]
    BY DEF RolesOf, WithRole, FoldLeft, MapThenFoldSet
  <2> HIDE DEF n
  <2> QED
    BY <2>1, <1>4
<1> DEFINE J == [k \in 0..n |-> it[1..k]]
<1> HIDE DEF it
<1>7. it[{}] = <<>>
  BY <1>4, <1>5
<1>8. ASSUME NEW k \in 0..(n - 1)
      PROVE  it[1..(k + 1)] = WithRole(it[1..k], mro[k + 1])
  <2>1. k \in Nat /\ 1..(k + 1) \in SUBSET (1..n)
    BY <1>4
  <2>2. 1..(k + 1) # {} /\ Max(1..(k + 1)) = k + 1 /\ (1..(k + 1)) \ {k + 1} = 1..k
    BY <2>1, InitialIndices
  <2>3. \A S \in SUBSET (1..n) : it[S] = IF S = {} THEN <<>>
                     ELSE WithRole(it[S \ {Max(S)}], mro[Max(S)])
    BY <1>5
  <2> QED
    BY <2>1, <2>2, <2>3
<1>9. J[0] = <<>> /\ J[n] = RolesOf(mro)
  BY <1>4, <1>6, <1>7, InitialIndices
<1>10. \A k \in 0..(n - 1) : J[k + 1] = WithRole(J[k], mro[k + 1])
  BY <1>4, <1>8
<1> QED
  BY <1>9, <1>10


LEMMA ShockedIsChain ==
  ASSUME NEW m, NEW shock, IsList(shock)
  PROVE  \E J : /\ J[0] = m
                /\ \A k \in 0..(Len(shock) - 1) : J[k + 1] = ModifySource(J[k], shock[k + 1])
                /\ Shocked(m, shock) = J[Len(shock)]
<1> DEFINE Iter(n, it) ==
             it = [S \in SUBSET (1..n) |->
                     IF S = {} THEN m
                     ELSE ModifySource(it[S \ {Max(S)}], shock[Max(S)])]
           N == {n \in Nat : \E it : Iter(n, it)}
<1>1. 0 \in N
  <2>1. Iter(0, [S \in SUBSET (1..0) |-> m])
    BY InitialIndices
  <2> QED
    BY <2>1
<1>2. ASSUME NEW n \in N PROVE n + 1 \in N
  <2>1. PICK it : Iter(n, it)
    OBVIOUS
  <2> DEFINE more == [S \in SUBSET (1..(n + 1)) |->
                        IF n + 1 \in S
                        THEN ModifySource(it[S \ {n + 1}], shock[n + 1])
                        ELSE it[S]]
  <2>2. ASSUME NEW S \in SUBSET (1..(n + 1))
        PROVE  more[S] = IF S = {} THEN m
                         ELSE ModifySource(more[S \ {Max(S)}], shock[Max(S)])
    <3>1. CASE n + 1 \in S
      <4>1. Max(S) = n + 1 /\ S # {}
        BY <3>1, InitialIndices
      <4>2. S \ {n + 1} \in SUBSET (1..(n + 1)) /\ n + 1 \notin S \ {n + 1}
        OBVIOUS
      <4>3. more[S \ {n + 1}] = it[S \ {n + 1}]
        BY <4>2
      <4> QED
        BY <3>1, <4>1, <4>3
    <3>2. CASE n + 1 \notin S
      <4>1. S \ {Max(S)} \in SUBSET (1..n) /\ S \in SUBSET (1..n)
        BY <3>2, InitialIndices
      <4>2. S \ {Max(S)} \in SUBSET (1..(n + 1)) /\ n + 1 \notin S \ {Max(S)}
        BY <3>2
      <4>3. more[S \ {Max(S)}] = it[S \ {Max(S)}] /\ more[S] = it[S]
        BY <3>2, <4>2
      <4>4. it[S] = IF S = {} THEN m
                    ELSE ModifySource(it[S \ {Max(S)}], shock[Max(S)])
        BY <2>1, <4>1
      <4> QED
        BY <4>3, <4>4
    <3> QED
      BY <3>1, <3>2
  <2>3. Iter(n + 1, more)
    <3> HIDE DEF more
    <3>1. more = [S \in SUBSET (1..(n + 1)) |-> more[S]]
      BY DEF more
    <3> QED
      BY <2>2, <3>1
  <2> HIDE DEF Iter, more
  <2> QED
    BY <2>3
<1>3. N = Nat
  <2> HIDE DEF N
  <2>1. N \subseteq Nat
    BY DEF N
  <2> QED
    BY <1>1, <1>2, <2>1, Induction
<1> DEFINE n == Len(shock)
           it == CHOOSE f : Iter(n, f)
<1>4. n \in Nat /\ DOMAIN shock = 1..n
  BY DEF IsList
<1>5. Iter(n, it)
  <2> HIDE DEF Iter
  <2>1. \E f : Iter(n, f)
    BY <1>3, <1>4
  <2> QED
    BY <2>1
<1>6. Shocked(m, shock) = it[1..n]
  <2>1. Shocked(m, shock) =
          (CHOOSE f : f = [S \in SUBSET (DOMAIN shock) |->
                     IF S = {} THEN m
                     ELSE ModifySource(f[S \ {Max(S)}], shock[Max(S)])])[DOMAIN shock]
    BY DEF Shocked, FoldLeft, MapThenFoldSet
  <2> HIDE DEF n
  <2> QED
    BY <2>1, <1>4
<1> DEFINE J == [k \in 0..n |-> it[1..k]]
<1> HIDE DEF it
<1>7. it[{}] = m
  BY <1>4, <1>5
<1>8. ASSUME NEW k \in 0..(n - 1)
      PROVE  it[1..(k + 1)] = ModifySource(it[1..k], shock[k + 1])
  <2>1. k \in Nat /\ 1..(k + 1) \in SUBSET (1..n)
    BY <1>4
  <2>2. 1..(k + 1) # {} /\ Max(1..(k + 1)) = k + 1 /\ (1..(k + 1)) \ {k + 1} = 1..k
    BY <2>1, InitialIndices
  <2>3. \A S \in SUBSET (1..n) : it[S] = IF S = {} THEN m
                     ELSE ModifySource(it[S \ {Max(S)}], shock[Max(S)])
    BY <1>5
  <2> QED
    BY <2>1, <2>2, <2>3
<1>9. J[0] = m /\ J[n] = Shocked(m, shock)
  BY <1>4, <1>6, <1>7, InitialIndices
<1>10. \A k \in 0..(n - 1) : J[k + 1] = ModifySource(J[k], shock[k + 1])
  BY <1>4, <1>8
<1> QED
  BY <1>9, <1>10


\* roles_of gives each name once, and only roles the schema declares.
LEMMA RolesApart ==
  ASSUME schema \in Schemas
  PROVE  /\ Len(Roles) \in Nat /\ DOMAIN Roles = 1..Len(Roles)
         /\ \A i, j \in DOMAIN Roles : Roles[i].name = Roles[j].name => i = j
         /\ \A i \in DOMAIN Roles : IsRole(Roles[i]) /\ Roles[i].name \in schema.columns
<1> DEFINE mro == schema.mro
           R == {mro[i] : i \in {j \in DOMAIN mro : mro[j] # Unset}}
           Apart(s) == \A i, j \in 1..Len(s) : s[i].name = s[j].name => i = j
           n == Len(mro)
<1>1. IsList(mro) /\ n \in Nat /\ DOMAIN mro = 1..n
  BY PricingAssumption DEF IsList
<1>2. \A role \in R : IsRole(role) /\ role.name \in schema.columns
  <2>1. \A i \in DOMAIN mro : mro[i] # Unset => IsRole(mro[i]) /\ mro[i].name \in schema.columns
    BY PricingAssumption
  <2> QED
    BY <2>1
<1>3. PICK J : /\ J[0] = <<>>
               /\ \A k \in 0..(n - 1) : J[k + 1] = WithRole(J[k], mro[k + 1])
               /\ RolesOf(mro) = J[n]
  BY <1>1, RolesAreChain
<1> HIDE DEF mro, n
<1>4. ASSUME NEW s \in Seq(R), Apart(s), NEW i \in DOMAIN mro
      PROVE  WithRole(s, mro[i]) \in Seq(R) /\ Apart(WithRole(s, mro[i]))
  <2>1. CASE mro[i] = Unset \/ \E k \in DOMAIN s : s[k].name = mro[i].name
    BY <1>4, <2>1 DEF WithRole
  <2>2. CASE ~(mro[i] = Unset \/ \E k \in DOMAIN s : s[k].name = mro[i].name)
    <3>1. mro[i] \in R /\ WithRole(s, mro[i]) = Append(s, mro[i])
      BY <2>2 DEF WithRole
    <3> DEFINE m == Len(s)
               t == Append(s, mro[i])
    <3>2. m \in Nat /\ t \in Seq(R) /\ Len(t) = m + 1 /\ t[m + 1] = mro[i]
          /\ DOMAIN s = 1..m /\ \A k \in 1..m : t[k] = s[k]
      BY <3>1
    <3> HIDE DEF t, m
    <3>3. \A k \in 1..(m + 1) : k = m + 1 \/ k \in 1..m
      BY <3>2
    <3>4. \A k \in 1..m : t[k].name # mro[i].name
      BY <2>2, <3>2
    <3>5. \A j, k \in 1..m : t[j].name = t[k].name => j = k
      BY <1>4, <3>2 DEF m
    <3>6. Apart(t)
      BY <3>2, <3>3, <3>4, <3>5
    <3> QED
      BY <3>1, <3>2, <3>6 DEF t
  <2> QED
    BY <2>1, <2>2
<1> DEFINE Good(s) == s \in Seq(R) /\ Apart(s)
           N == {k \in Nat : k <= n => Good(J[k])}
<1>5. 0 \in N
  <2>1. Good(<<>>)
    OBVIOUS
  <2> HIDE DEF Good
  <2> QED
    BY <1>3, <2>1
<1>6. ASSUME NEW k \in N PROVE k + 1 \in N
  <2> SUFFICES ASSUME k + 1 <= n PROVE Good(J[k + 1])
    OBVIOUS
  <2>1. k \in 0..(n - 1) /\ k <= n /\ k + 1 \in DOMAIN mro
    BY <1>1
  <2>2. J[k + 1] = WithRole(J[k], mro[k + 1]) /\ Good(J[k])
    BY <1>3, <2>1
  <2> QED
    BY <1>4, <2>1, <2>2
<1>7. Good(Roles)
  <2> HIDE DEF Good
  <2>1. N \subseteq Nat
    OBVIOUS
  <2> HIDE DEF N
  <2>2. N = Nat
    BY <1>5, <1>6, <2>1, Induction
  <2> QED
    BY <1>1, <1>3, <2>2 DEF N, Roles, mro
<1> QED
  BY <1>2, <1>7

\* The least index of a non-empty set of indices.
LEMMA LeastIndex ==
  ASSUME NEW S, S \subseteq Nat, S # {}
  PROVE  \E i \in S : \A j \in S : i <= j
<1> DEFINE N == {k \in Nat : (\E i \in S : i <= k) => \E i \in S : \A j \in S : i <= j}
<1>1. 0 \in N
  OBVIOUS
<1>2. ASSUME NEW k \in N PROVE k + 1 \in N
  <2> SUFFICES ASSUME NEW i \in S, i <= k + 1 PROVE \E a \in S : \A j \in S : a <= j
    OBVIOUS
  <2>1. CASE \E a \in S : a <= k
    BY <2>1
  <2>2. CASE ~\E a \in S : a <= k
    <3>1. \A j \in S : i <= j
      BY <2>2
    <3> QED
      BY <3>1
  <2> QED
    BY <2>1, <2>2
<1>3. N = Nat
  <2>1. N \subseteq Nat
    OBVIOUS
  <2> HIDE DEF N
  <2> QED
    BY <1>1, <1>2, <2>1, Induction
<1>4. PICK k \in S : TRUE
  OBVIOUS
<1>5. k \in Nat /\ k <= k
  BY <1>4
<1> QED
  BY <1>3, <1>5

\* The date a fixing derives depends on its own columns only.
LEMMA FixedDateAgrees ==
  ASSUME NEW fixing, IsList(fixing.branches), ~FixingIncomplete(fixing),
         NEW c, NEW d, \A x \in FixingColumns(fixing) : c[x] = d[x]
  PROVE  FixedDate(fixing, c) = FixedDate(fixing, d)
<1> DEFINE branches == fixing.branches
           Holds(cells, b) == fixing.selector # Unset /\ cells[fixing.selector] = b.value
           First(cells) == CHOOSE i \in DOMAIN branches :
                             /\ Holds(cells, branches[i])
                             /\ \A j \in 1..(i - 1) : ~Holds(cells, branches[j])
           Some(cells) == \E i \in DOMAIN branches : Holds(cells, branches[i])
           Date(cells) == IF Some(cells) THEN branches[First(cells)].date ELSE fixing.default
           At(cells) == IF cells[Date(cells).column] = Null THEN Null
                        ELSE cells[Date(cells).column] + Date(cells).days
<1>1. DOMAIN branches = 1..Len(branches) /\ Len(branches) \in Nat
  BY DEF IsList
<1>2. \A b : Holds(c, b) <=> Holds(d, b)
  BY DEF FixingColumns
<1>3. FixedDate(fixing, c) = At(c) /\ FixedDate(fixing, d) = At(d)
  BY DEF FixedDate
<1> HIDE DEF Holds
<1>4. ASSUME NEW cells, Some(cells)
      PROVE  /\ First(cells) \in DOMAIN branches
             /\ Holds(cells, branches[First(cells)])
             /\ \A j \in 1..(First(cells) - 1) : ~Holds(cells, branches[j])
  <2> DEFINE S == {i \in DOMAIN branches : Holds(cells, branches[i])}
  <2>1. S \subseteq Nat /\ S # {}
    BY <1>1, <1>4
  <2>2. PICK i \in S : \A j \in S : i <= j
    <3> HIDE DEF S
    <3> QED
      BY <2>1, LeastIndex
  <2>3. \A j \in 1..(i - 1) : j \notin S /\ j \in DOMAIN branches
    BY <1>1, <2>1, <2>2
  <2>4. i \in DOMAIN branches /\ Holds(cells, branches[i])
        /\ \A j \in 1..(i - 1) : ~Holds(cells, branches[j])
    BY <2>2, <2>3
  <2> QED
    BY <2>4
<1>5. Some(c) <=> Some(d)
  BY <1>2
<1>6. Date(c) = Date(d)
  <2>1. ASSUME Some(c) PROVE First(c) = First(d)
    <3> DEFINE i == First(c)
               j == First(d)
    <3>1. /\ i \in DOMAIN branches /\ Holds(c, branches[i])
          /\ \A k \in 1..(i - 1) : ~Holds(c, branches[k])
      BY <1>4, <2>1
    <3>2. /\ j \in DOMAIN branches /\ Holds(c, branches[j])
          /\ \A k \in 1..(j - 1) : ~Holds(c, branches[k])
      BY <1>2, <1>4, <1>5, <2>1
    <3> HIDE DEF i, j
    <3>3. ~(i < j) /\ ~(j < i)
      BY <1>1, <3>1, <3>2
    <3>4. i = j
      BY <1>1, <3>1, <3>2, <3>3
    <3> QED
      BY <3>4 DEF i, j
  <2> HIDE DEF First
  <2> QED
    BY <1>5, <2>1
<1>7. Date(c).column \in FixingColumns(fixing)
  <2>1. ASSUME Some(c) PROVE branches[First(c)] \in Range(branches)
    <3>1. First(c) \in DOMAIN branches
      BY <1>4, <2>1
    <3> HIDE DEF First
    <3> QED
      BY <3>1 DEF Range
  <2> HIDE DEF First
  <2> QED
    BY <2>1 DEF FixingColumns
<1>8. c[Date(c).column] = d[Date(c).column]
  BY <1>7
<1> HIDE DEF Date
<1>9. At(c) = At(d)
  BY <1>6, <1>8
<1> QED
  BY <1>3, <1>9

-----------------------------------------------------------------------------
(* What a role reads for a row.  KeyedRow is the row with its key columns    *)
(* added; what it is joined with is the quote QuotesFor says.                *)
KeyCell(role, c, x) ==
  IF role.fixing # Unset /\ x = FixColumn(role)
  THEN FixedDate(role.fixing, c)
  ELSE IF \E l \in role.literal : l.left = x
  THEN (CHOOSE l \in role.literal : l.left = x).value
  ELSE c[x]

KeyedRow(f, role, r) ==
  [id |-> r.id,
   cells |-> [x \in f.columns \cup Transient(role) |-> KeyCell(role, r.cells, x)]]

LEMMA KeyedRows ==
  ASSUME NEW f, NEW role, WithKeys(f, role) # Raised
  PROVE  /\ f # Raised
         /\ WithKeys(f, role).columns = f.columns \cup Transient(role)
         /\ WithKeys(f, role).rows = {KeyedRow(f, role, r) : r \in f.rows}
         /\ role.fixing # Unset => /\ ~FixingIncomplete(role.fixing)
                                   /\ FixingColumns(role.fixing) \subseteq f.columns
BY DEF WithKeys, MapCells, Frame, KeyedRow, KeyCell

LEMMA KeyCells ==
  ASSUME NEW role, IsRole(role), NEW c
  PROVE  /\ \A x : x \notin Transient(role) => KeyCell(role, c, x) = c[x]
         /\ \A l \in role.literal : KeyCell(role, c, l.left) = l.value
         /\ role.fixing # Unset =>
              KeyCell(role, c, FixColumn(role)) = FixedDate(role.fixing, c)
<1>1. \A x : x \notin Transient(role) => KeyCell(role, c, x) = c[x]
  BY DEF KeyCell, Transient
<1>2. ASSUME NEW l \in role.literal PROVE KeyCell(role, c, l.left) = l.value
  <2>1. (CHOOSE m \in role.literal : m.left = l.left) \in role.literal
        /\ (CHOOSE m \in role.literal : m.left = l.left).left = l.left
    OBVIOUS
  <2>2. (CHOOSE m \in role.literal : m.left = l.left) = l
    BY <2>1 DEF IsRole
  <2>3. ~(role.fixing # Unset /\ l.left = FixColumn(role))
    BY DEF IsRole
  <2> QED
    BY <2>2, <2>3 DEF KeyCell
<1> QED
  BY <1>1, <1>2 DEF KeyCell

LEMMA PartnerIsAQuote ==
  ASSUME NEW role, IsRole(role), Transient(role) \subseteq Byproducts,
         KeyedByTrade(role), NEW snapshot, Quotes(role, snapshot) # Raised,
         NEW f, WithKeys(f, role) # Raised,
         LeftKeys(role) \subseteq f.columns \cup Transient(role),
         NEW r, NEW t,
         \A x \in f.columns \cap trades.columns :
           x \notin (RoleNames \ {role.name}) \cup Byproducts => r.cells[x] = t.cells[x],
         NEW p \in Partners(KeyedRow(f, role, r), Quotes(role, snapshot), Bindings(role))
  PROVE  p.cells[role.value] \in QuotesFor(t, role, snapshot)
<1> DEFINE l == KeyedRow(f, role, r)
           right == Quotes(role, snapshot)
           on == Bindings(role)
           data == snapshot[role.source].data
           columns == RightKeys(role) \cup {role.value}
           Row(q) == [id |-> q.id, cells |-> Restrict(q.cells, columns)]
           date == FixedDate(role.fixing, t.cells)
           Found(q) ==
             /\ \A b \in role.exact :
                  t.cells[b.left] # Null /\ t.cells[b.left] = q.cells[b.right]
             /\ \A m \in role.literal : m.value # Null /\ m.value = q.cells[m.right]
             /\ role.fixing # Unset =>
                  date # Null /\ date = q.cells[role.fixing.quote]
<1>1. /\ right.columns = columns
      /\ right.rows = {Row(q) : q \in data.rows}
  <2>1. right = Select(data, columns) /\ right # Raised
    BY DEF Quotes
  <2> HIDE DEF right, data, columns
  <2> QED
    BY <2>1 DEF Select, MapCells, Frame
<1>2. \A b \in role.exact : l.cells[b.left] = t.cells[b.left]
  <2> SUFFICES ASSUME NEW b \in role.exact PROVE l.cells[b.left] = t.cells[b.left]
    OBVIOUS
  <2>1. b.left \in trades.columns
        /\ b.left \notin (RoleNames \ {role.name}) \cup Byproducts
    BY DEF KeyedByTrade
  <2>2. b.left \in f.columns \cup Transient(role) /\ b.left \notin Transient(role)
    BY <2>1 DEF LeftKeys, Bindings
  <2> QED
    BY <2>1, <2>2, KeyCells DEF KeyedRow
<1>3. \A m \in role.literal : l.cells[m.left] = m.value
  <2>1. \A m \in role.literal : m.left \in Transient(role)
    BY DEF Transient
  <2> QED
    BY <2>1, KeyCells DEF KeyedRow
<1>4. ASSUME role.fixing # Unset PROVE l.cells[FixColumn(role)] = date
  <2>1. FixColumn(role) \in Transient(role)
    BY <1>4 DEF Transient
  <2>2. l.cells[FixColumn(role)] = FixedDate(role.fixing, r.cells)
    BY <1>4, <2>1, KeyCells DEF KeyedRow
  <2>3. \A x \in FixingColumns(role.fixing) : r.cells[x] = t.cells[x]
    BY <1>4, KeyedRows DEF KeyedByTrade
  <2> QED
    BY <1>4, <2>2, <2>3, KeyedRows, FixedDateAgrees DEF IsRole
<1>5. ASSUME NEW q PROVE (\A k \in on : /\ l.cells[k.left] # Null
                                       /\ l.cells[k.left] = Row(q).cells[k.right])
                         <=> Found(q)
  <2>1. \A k \in on : Row(q).cells[k.right] = q.cells[k.right]
    BY DEF RightKeys, Restrict
  <2> HIDE DEF l, Row, date
  <2>2. \A k \in on : \/ k \in role.exact
                      \/ \E m \in role.literal : k = [left |-> m.left, right |-> m.right]
                      \/ role.fixing # Unset /\ k = [left |-> FixColumn(role),
                                                     right |-> role.fixing.quote]
    BY DEF Bindings
  <2>3. /\ role.exact \subseteq on
        /\ \A m \in role.literal : [left |-> m.left, right |-> m.right] \in on
        /\ role.fixing # Unset =>
             [left |-> FixColumn(role), right |-> role.fixing.quote] \in on
    BY DEF Bindings
  <2> HIDE DEF on
  <2>4. ASSUME Found(q), NEW k \in on
        PROVE  l.cells[k.left] # Null /\ l.cells[k.left] = q.cells[k.right]
    BY <1>2, <1>3, <1>4, <2>2, <2>4
  <2>5. ASSUME \A k \in on : l.cells[k.left] # Null /\ l.cells[k.left] = q.cells[k.right]
        PROVE  Found(q)
    BY <1>2, <1>3, <1>4, <2>3, <2>5
  <2> QED
    BY <2>1, <2>4, <2>5
<1>6. QuotesFor(t, role, snapshot) =
        IF \E q \in data.rows : Found(q)
        THEN {q.cells[role.value] : q \in {q \in data.rows : Found(q)}} ELSE {Null}
  <2> DEFINE found == {q \in data.rows : Found(q)}
  <2>1. QuotesFor(t, role, snapshot) =
          IF found = {} THEN {Null} ELSE {q.cells[role.value] : q \in found}
    BY DEF QuotesFor
  <2>2. found = {} <=> ~\E q \in data.rows : Found(q)
    OBVIOUS
  <2> HIDE DEF Found, data
  <2> QED
    BY <2>1, <2>2
<1> HIDE DEF Found
<1>7. Matches(l, right, on) = {Row(q) : q \in {q \in data.rows : Found(q)}}
  <2> HIDE DEF l, on, data, Row, right
  <2> QED
    BY <1>1, <1>5 DEF Matches
<1>8. \A q : Row(q).cells[role.value] = q.cells[role.value]
  BY DEF Restrict
<1>9. CASE Matches(l, right, on) # {}
  <2>1. p \in Matches(l, right, on)
    BY <1>9 DEF Partners
  <2> HIDE DEF l, on, data, Row, right
  <2>2. PICK q \in data.rows : Found(q) /\ p = Row(q)
    BY <1>7, <2>1
  <2> QED
    BY <1>6, <1>8, <2>2
<1>10. CASE Matches(l, right, on) = {}
  <2>1. p = [id |-> <<>>, cells |-> [c \in right.columns |-> Null]]
    BY <1>10 DEF Partners
  <2>2. p.cells[role.value] = Null
    BY <1>1, <2>1
  <2>3. ~\E q \in data.rows : Found(q)
    <3> HIDE DEF l, on, data, Row, right
    <3> QED
      BY <1>7, <1>10
  <2> QED
    BY <1>6, <2>2, <2>3
<1> QED
  BY <1>9, <1>10

-----------------------------------------------------------------------------
(* What attaching a role does to the cells of a row.                         *)
LEMMA SelectedRows ==
  ASSUME NEW f, NEW columns, Select(f, columns) # Raised
  PROVE  /\ columns \subseteq f.columns /\ Select(f, columns).columns = columns
         /\ \A s \in Select(f, columns).rows : \E r \in f.rows :
              s.id = r.id /\ DOMAIN s.cells = columns
              /\ \A x \in columns : s.cells[x] = r.cells[x]
         /\ \A r \in f.rows : \E s \in Select(f, columns).rows : s.id = r.id
<1> DEFINE Row(r) == [id |-> r.id, cells |-> Restrict(r.cells, columns)]
<1>1. /\ columns \subseteq f.columns /\ Select(f, columns).columns = columns
      /\ Select(f, columns).rows = {Row(r) : r \in f.rows}
  BY DEF Select, MapCells, Frame
<1>2. \A r : /\ Row(r).id = r.id /\ DOMAIN Row(r).cells = columns
             /\ \A x \in columns : Row(r).cells[x] = r.cells[x]
  BY DEF Restrict
<1> HIDE DEF Row
<1> QED
  BY <1>1, <1>2

LEMMA WithoutRows ==
  ASSUME NEW f, NEW columns, Without(f, columns) # Raised
  PROVE  /\ f # Raised /\ Without(f, columns).columns = f.columns \ columns
         /\ \A s \in Without(f, columns).rows : \E r \in f.rows :
              s.id = r.id /\ DOMAIN s.cells = f.columns \ columns
              /\ \A x \in f.columns \ columns : s.cells[x] = r.cells[x]
<1> DEFINE kept == f.columns \ columns
<1>1. f # Raised /\ Without(f, columns) = Select(f, kept)
  BY DEF Without
<1> HIDE DEF kept
<1>2. /\ Select(f, kept).columns = kept
      /\ \A s \in Select(f, kept).rows : \E r \in f.rows :
           s.id = r.id /\ DOMAIN s.cells = kept /\ \A x \in kept : s.cells[x] = r.cells[x]
  BY <1>1, SelectedRows
<1> QED
  BY <1>1, <1>2 DEF kept

LEMMA RenamedRows ==
  ASSUME NEW f, IsFrame(f), NEW old, NEW new, Renamed(f, old, new) # Raised,
         NEW g, g = Renamed(f, old, new)
  PROVE  /\ f # Raised
         /\ old # new => old \in f.columns /\ g.columns = (f.columns \ {old}) \cup {new}
         /\ old = new => g.columns = f.columns
         /\ \A s \in g.rows : \E r \in f.rows :
              s.id = r.id /\ DOMAIN s.cells = g.columns
              /\ \A x \in g.columns :
                   s.cells[x] = IF x = new THEN r.cells[old] ELSE r.cells[x]
<1>1. CASE old = new
  BY <1>1 DEF Renamed, IsFrame
<1>2. CASE old # new
  <2> DEFINE columns == (f.columns \ {old}) \cup {new}
             Row(r) == [id |-> r.id, cells |->
               [x \in columns |-> IF x = new THEN r.cells[old] ELSE r.cells[x]]]
  <2>1. /\ f # Raised /\ old \in f.columns /\ g.columns = columns
        /\ g.rows = {Row(r) : r \in f.rows}
    BY <1>2 DEF Renamed, MapCells, Frame
  <2>2. \A r : /\ Row(r).id = r.id /\ DOMAIN Row(r).cells = columns
               /\ \A x \in columns :
                    Row(r).cells[x] = IF x = new THEN r.cells[old] ELSE r.cells[x]
    OBVIOUS
  <2> HIDE DEF Row, columns
  <2>3. \A s \in g.rows : \E r \in f.rows :
          s.id = r.id /\ DOMAIN s.cells = g.columns
          /\ \A x \in g.columns :
               s.cells[x] = IF x = new THEN r.cells[old] ELSE r.cells[x]
    BY <2>1, <2>2
  <2> QED
    BY <1>2, <2>1, <2>3 DEF columns
<1> QED
  BY <1>1, <1>2

\* A join that brings one column: under its own name, or under the suffixed one.
LEMMA JoinedRows ==
  ASSUME NEW f, NEW right, NEW on, LeftJoin(f, right, on) # Raised,
         NEW value, right.columns = {k.right : k \in on} \cup {value},
         value \notin {k.right : k \in on},
         NEW V, V = Suffixed(f, value)
  PROVE  /\ f # Raised /\ right # Raised /\ {k.left : k \in on} \subseteq f.columns
         /\ LeftJoin(f, right, on).columns = f.columns \cup {V}
         /\ V \notin f.columns
         /\ value \in f.columns => V = value \o "_right"
         /\ value \notin f.columns => V = value
         /\ \A s \in LeftJoin(f, right, on).rows :
              \E l \in f.rows : \E p \in Partners(l, right, on) :
                /\ s.id = Append(l.id, p.id) /\ DOMAIN s.cells = f.columns \cup {V}
                /\ \A x \in f.columns : s.cells[x] = l.cells[x]
                /\ s.cells[V] = p.cells[value]
<1> DEFINE g == LeftJoin(f, right, on)
           payload == right.columns \ {k.right : k \in on}
           columns == f.columns \cup {Suffixed(f, c) : c \in payload}
           From(x) == CHOOSE c \in payload : Suffixed(f, c) = x
           Pair(l, r) == [id |-> Append(l.id, r.id),
                          cells |-> [x \in columns |-> IF x \in f.columns
                                       THEN l.cells[x] ELSE r.cells[From(x)]]]
<1>1. payload = {value}
  OBVIOUS
<1>2. /\ f # Raised /\ right # Raised /\ {k.left : k \in on} \subseteq f.columns
      /\ ~\E c \in payload : c \in f.columns /\ Suffixed(f, c) \in f.columns
      /\ g.columns = columns
      /\ g.rows = UNION {{Pair(l, r) : r \in Partners(l, right, on)} : l \in f.rows}
  BY DEF LeftJoin, Frame
<1>3. /\ value \in f.columns => V = value \o "_right"
      /\ value \notin f.columns => V = value
      /\ V \notin f.columns
  BY <1>1, <1>2 DEF Suffixed
<1>4. columns = f.columns \cup {V} /\ From(V) = value
  BY <1>1
<1> HIDE DEF payload, From
<1>5. \A l, r : /\ Pair(l, r).id = Append(l.id, r.id)
                /\ DOMAIN Pair(l, r).cells = columns
                /\ \A x \in f.columns : Pair(l, r).cells[x] = l.cells[x]
                /\ Pair(l, r).cells[V] = r.cells[value]
  BY <1>3, <1>4
<1> HIDE DEF Pair, columns, g
<1>6. \A s \in g.rows : \E l \in f.rows : \E r \in Partners(l, right, on) : s = Pair(l, r)
  BY <1>2
<1>7. \A s \in g.rows :
        \E l \in f.rows : \E p \in Partners(l, right, on) :
          /\ s.id = Append(l.id, p.id) /\ DOMAIN s.cells = f.columns \cup {V}
          /\ \A x \in f.columns : s.cells[x] = l.cells[x]
          /\ s.cells[V] = p.cells[value]
  BY <1>4, <1>5, <1>6
<1> QED
  BY <1>2, <1>3, <1>4, <1>7 DEF g

(* A role reads its value into its own column, and leaves every column that  *)
(* is neither that one nor a by-product as it was.                           *)
LeavesIn(role, other) ==
  /\ Transient(role) \subseteq other
  /\ role.value # Unset => role.value \o "_right" \in other

FromRow(g, s, role, other, f, r, p) ==
  /\ Origin(s) = Origin(r)
  /\ \A x \in g.columns : x \notin {role.name} \cup other =>
       x \in f.columns /\ s.cells[x] = r.cells[x]
  /\ role.name \in g.columns
     /\ (role.value = role.name \/ role.value \notin f.columns \cup Transient(role))
     => s.cells[role.name] = p.cells[role.value]

Attached(f, role, snapshot, other, g) ==
  /\ WithKeys(f, role) # Raised /\ Quotes(role, snapshot) # Raised
  /\ LeftKeys(role) \subseteq f.columns \cup Transient(role)
  /\ g.columns \subseteq f.columns \cup {role.name} \cup other
  /\ \A s \in g.rows :
       /\ DOMAIN s.cells = g.columns
       /\ \E r \in f.rows :
          \E p \in Partners(KeyedRow(f, role, r), Quotes(role, snapshot), Bindings(role)) :
            FromRow(g, s, role, other, f, r, p)

LEMMA AttachedRows ==
  ASSUME NEW f, Lineage(f), NEW role, NEW snapshot,
         \A q \in Quotes(role, snapshot).rows : q.id \in Seq(Nat),
         NEW other, LeavesIn(role, other),
         NEW g, g = Attach(f, role, snapshot), g # Raised
  PROVE  Attached(f, role, snapshot, other, g)
<1> DEFINE keyed == WithKeys(f, role)
           quotes == Quotes(role, snapshot)
           on == Bindings(role)
           value == role.value
           name == role.name
           joined == LeftJoin(keyed, quotes, on)
           overwritten == LeftKeys(role) \cap {name} \cap keyed.columns
           dropped == Without(joined, overwritten)
           named == Renamed(dropped, value, name)
           V == Suffixed(keyed, value)
<1>1. Require(keyed, role, snapshot) # Raised /\ g = Without(named, Transient(role))
      /\ keyed # Raised /\ ~(name \in keyed.columns \ LeftKeys(role)) /\ named # Raised
  <2>1. Require(keyed, role, snapshot) # Raised
    BY DEF Attach, Without
  <2> QED
    BY <2>1 DEF Require, Attach
<1>2. dropped # Raised
  BY <1>1 DEF Renamed
<1>3. joined # Raised /\ quotes # Raised
  BY <1>2 DEF Without, LeftJoin
<1>4. /\ quotes.columns = {k.right : k \in on} \cup {value}
      /\ value \notin {k.right : k \in on} /\ value # Unset
  <2> DEFINE read == RightKeys(role) \cup {value}
             data == snapshot[role.source].data
  <2>1. quotes = Select(data, read)
        /\ value \notin RightKeys(role) /\ value # Unset
    BY <1>3 DEF Quotes
  <2>2. quotes.columns = read
    <3> HIDE DEF quotes, read, data
    <3>1. Select(data, read) # Raised
      BY <1>3, <2>1
    <3> QED
      BY <2>1, <3>1, SelectedRows
  <2> QED
    BY <2>1, <2>2 DEF RightKeys
<1>5. /\ keyed.columns = f.columns \cup Transient(role)
      /\ keyed.rows = {KeyedRow(f, role, r) : r \in f.rows}
  BY <1>1, KeyedRows
<1> HIDE DEF keyed, quotes, on
<1>6. /\ {k.left : k \in on} \subseteq keyed.columns
      /\ joined.columns = keyed.columns \cup {V} /\ V \notin keyed.columns
      /\ value \in keyed.columns => V = value \o "_right"
      /\ value \notin keyed.columns => V = value
      /\ \A s \in joined.rows :
           \E l \in keyed.rows : \E p \in Partners(l, quotes, on) :
             /\ s.id = Append(l.id, p.id) /\ DOMAIN s.cells = keyed.columns \cup {V}
             /\ \A x \in keyed.columns : s.cells[x] = l.cells[x]
             /\ s.cells[V] = p.cells[value]
  <2>1. V = Suffixed(keyed, value) /\ LeftJoin(keyed, quotes, on) # Raised
        /\ joined = LeftJoin(keyed, quotes, on)
    BY <1>3
  <2> HIDE DEF V, value, joined
  <2>2. /\ {k.left : k \in on} \subseteq keyed.columns
        /\ joined.columns = keyed.columns \cup {V} /\ V \notin keyed.columns
        /\ value \in keyed.columns => V = value \o "_right"
        /\ value \notin keyed.columns => V = value
    BY <1>4, <2>1, JoinedRows
  <2>3. \A s \in joined.rows :
           \E l \in keyed.rows : \E p \in Partners(l, quotes, on) :
             /\ s.id = Append(l.id, p.id) /\ DOMAIN s.cells = keyed.columns \cup {V}
             /\ \A x \in keyed.columns : s.cells[x] = l.cells[x]
             /\ s.cells[V] = p.cells[value]
    BY <1>4, <2>1, JoinedRows
  <2> QED
    BY <2>2, <2>3
<1> HIDE DEF joined
<1>7. /\ dropped.columns = joined.columns \ overwritten
      /\ IsFrame(dropped)
      /\ \A s \in dropped.rows : \E r \in joined.rows :
           s.id = r.id /\ \A x \in dropped.columns : s.cells[x] = r.cells[x]
  <2> HIDE DEF overwritten
  <2>1. Without(joined, overwritten) # Raised /\ dropped = Without(joined, overwritten)
    BY <1>2
  <2> HIDE DEF dropped
  <2>2. /\ dropped.columns = joined.columns \ overwritten
        /\ \A s \in dropped.rows : \E r \in joined.rows :
             s.id = r.id /\ DOMAIN s.cells = joined.columns \ overwritten
             /\ \A x \in joined.columns \ overwritten : s.cells[x] = r.cells[x]
    BY <2>1, WithoutRows
  <2> QED
    BY <2>2 DEF IsFrame
<1> HIDE DEF dropped
<1>8. /\ value # name => /\ value \in dropped.columns
                         /\ named.columns = (dropped.columns \ {value}) \cup {name}
      /\ value = name => named.columns = dropped.columns
      /\ \A s \in named.rows : \E r \in dropped.rows :
           s.id = r.id /\ \A x \in named.columns :
                            s.cells[x] = IF x = name THEN r.cells[value] ELSE r.cells[x]
  BY <1>1, <1>7, RenamedRows
<1> HIDE DEF named
<1>9. /\ g.columns = named.columns \ Transient(role)
      /\ \A s \in g.rows : DOMAIN s.cells = g.columns
      /\ \A s \in g.rows : \E r \in named.rows :
           s.id = r.id /\ \A x \in g.columns : s.cells[x] = r.cells[x]
  <2> DEFINE transient == Transient(role)
  <2>1. Without(named, transient) # Raised /\ g = Without(named, transient)
    BY <1>1
  <2> HIDE DEF transient
  <2>2. /\ g.columns = named.columns \ transient
        /\ \A s \in g.rows : \E r \in named.rows :
             s.id = r.id /\ DOMAIN s.cells = named.columns \ transient
             /\ \A x \in named.columns \ transient : s.cells[x] = r.cells[x]
    BY <2>1, WithoutRows
  <2> QED
    BY <2>2 DEF transient
<1>10. V \in {value} \cup other
  BY <1>4, <1>6 DEF LeavesIn
<1>11. g.columns \subseteq f.columns \cup {name} \cup other
  BY <1>5, <1>6, <1>7, <1>8, <1>9, <1>10 DEF LeavesIn
<1>12. ASSUME NEW x \in g.columns, x \notin {name} \cup other
       PROVE  x \in named.columns /\ x \in dropped.columns /\ x \in keyed.columns
              /\ x \in f.columns /\ x \notin Transient(role)
  <2>1. x \in named.columns /\ x \in dropped.columns /\ x # value
    BY <1>8, <1>9, <1>12
  <2> QED
    BY <1>5, <1>6, <1>7, <1>10, <1>12, <2>1 DEF LeavesIn
<1>13. ASSUME name \in g.columns, value = name \/ value \notin f.columns \cup Transient(role)
       PROVE  name \in named.columns /\ value \in dropped.columns /\ V = value
  <2>1. name \in named.columns /\ value \in dropped.columns
    BY <1>8, <1>9, <1>13
  <2>2. value \notin keyed.columns
    BY <1>1, <1>5, <1>7, <1>13, <2>1
  <2> QED
    BY <1>6, <2>1, <2>2
<1>14. ASSUME NEW s \in g.rows
       PROVE  \E r \in f.rows : \E p \in Partners(KeyedRow(f, role, r), quotes, on) :
                FromRow(g, s, role, other, f, r, p)
  <2>1. PICK n \in named.rows :
          s.id = n.id /\ \A x \in g.columns : s.cells[x] = n.cells[x]
    BY <1>9
  <2>2. PICK d \in dropped.rows :
          n.id = d.id /\ \A x \in named.columns :
                           n.cells[x] = IF x = name THEN d.cells[value] ELSE d.cells[x]
    BY <1>8
  <2>3. PICK j \in joined.rows :
          d.id = j.id /\ \A x \in dropped.columns : d.cells[x] = j.cells[x]
    BY <1>7
  <2>4. PICK l \in keyed.rows : \E p \in Partners(l, quotes, on) :
             /\ j.id = Append(l.id, p.id)
             /\ \A x \in keyed.columns : j.cells[x] = l.cells[x]
             /\ j.cells[V] = p.cells[value]
    BY <1>6
  <2>5. PICK p \in Partners(l, quotes, on) :
             /\ j.id = Append(l.id, p.id)
             /\ \A x \in keyed.columns : j.cells[x] = l.cells[x]
             /\ j.cells[V] = p.cells[value]
    BY <2>4
  <2>6. PICK r \in f.rows : l = KeyedRow(f, role, r)
    BY <1>5
  <2>7. Origin(s) = Origin(r)
    <3>1. r.id \in Seq(Nat \cup Seq(Nat)) /\ Len(r.id) >= 1 /\ l.id = r.id
      BY <2>6 DEF Lineage, RowId, KeyedRow
    <3>2. p.id \in Nat \cup Seq(Nat)
      <4>1. CASE Matches(l, quotes, on) # {}
        BY <4>1 DEF Partners, Matches, quotes
      <4>2. CASE Matches(l, quotes, on) = {}
        <5>1. p = [id |-> <<>>, cells |-> [c \in quotes.columns |-> Null]]
          BY <4>2 DEF Partners
        <5>2. p.id = <<>>
          BY <5>1
        <5> QED
          BY <5>2
      <4> QED
        BY <4>1, <4>2
    <3>3. s.id = Append(r.id, p.id)
      BY <2>1, <2>2, <2>3, <2>5, <3>1
    <3> QED
      BY <3>1, <3>2, <3>3 DEF Origin
  <2>8. ASSUME NEW x \in g.columns, x \notin {name} \cup other
        PROVE  x \in f.columns /\ s.cells[x] = r.cells[x]
    <3>1. x \in named.columns /\ x \in dropped.columns /\ x \in keyed.columns
          /\ x \in f.columns /\ x \notin Transient(role) /\ x # name
      BY <1>12, <2>8
    <3>2. s.cells[x] = l.cells[x]
      BY <2>1, <2>2, <2>3, <2>5, <3>1
    <3>3. l.cells[x] = KeyCell(role, r.cells, x)
      BY <2>6, <3>1 DEF KeyedRow
    <3>4. KeyCell(role, r.cells, x) = r.cells[x]
      BY <3>1 DEF KeyCell, Transient
    <3> QED
      BY <3>1, <3>2, <3>3, <3>4
  <2>9. ASSUME name \in g.columns, value = name \/ value \notin f.columns \cup Transient(role)
        PROVE  s.cells[name] = p.cells[value]
    <3>1. name \in named.columns /\ value \in dropped.columns /\ V = value
      BY <1>13, <2>9
    <3>2. s.cells[name] = n.cells[name]
      BY <2>1, <2>9
    <3>3. n.cells[name] = d.cells[value]
      BY <2>2, <3>1
    <3>4. d.cells[value] = j.cells[V]
      BY <2>3, <3>1
    <3> QED
      BY <2>5, <3>2, <3>3, <3>4
  <2> QED
    BY <2>5, <2>6, <2>7, <2>8, <2>9 DEF FromRow
<1>15. LeftKeys(role) \subseteq f.columns \cup Transient(role)
  BY <1>5, <1>6 DEF LeftKeys, on
<1> QED
  BY <1>1, <1>3, <1>9, <1>11, <1>14, <1>15 DEF keyed, quotes, on, Attached

LEMMA RolesLeave ==
  ASSUME NEW i \in DOMAIN Roles
  PROVE  LeavesIn(Roles[i], Byproducts)
<1> DEFINE transients == {Transient(Roles[n]) : n \in DOMAIN Roles}
           values == {Roles[n].value : n \in DOMAIN Roles}
           suffixed == {v \o "_right" : v \in values \ {Unset}}
           T == Transient(Roles[i])
           v == Roles[i].value
<1>1. Byproducts = (UNION transients) \cup suffixed
  BY DEF Byproducts
<1>2. T \in transients /\ v \in values
  OBVIOUS
<1> HIDE DEF transients, values, T, v
<1>3. v # Unset => v \o "_right" \in suffixed
  BY <1>2
<1> HIDE DEF suffixed
<1>4. suffixed \subseteq Byproducts
  BY <1>1
<1>5. T \subseteq Byproducts
  BY <1>1, <1>2
<1> QED
  BY <1>3, <1>4, <1>5 DEF LeavesIn, T, v

-----------------------------------------------------------------------------
(* Binding, role by role.  After the first k roles, a row of the frame has   *)
(* the columns of its trade that no role wrote to, and for each of those k   *)
(* roles, as long as its column is there, a quote of the trade.              *)
Quoted(f, r, t, role, snapshot) ==
  KeyedByTrade(role) /\ Unshadowed(role) /\ role.name \in f.columns
    => r.cells[role.name] \in QuotesFor(t, role, snapshot)

FirstNames(k) == {Roles[n].name : n \in 1..k}

Carries(f, k, snapshot) ==
  /\ IsFrame(f) /\ f.columns \subseteq trades.columns \cup FirstNames(k) \cup Byproducts
  /\ \A r \in f.rows :
       /\ \E t \in trades.rows : Origin(r) = Origin(t)
       /\ \A t \in trades.rows : Origin(r) = Origin(t) =>
            /\ \A x \in f.columns \cap trades.columns :
                 x \notin FirstNames(k) \cup Byproducts => r.cells[x] = t.cells[x]
            /\ \A n \in 1..k : Quoted(f, r, t, Roles[n], snapshot)

LEMMA AttachCarries ==
  ASSUME KeyInv, phase # "market", schema \in Schemas, Kept(lf),
         NEW k \in Nat, NEW n, n = k + 1, n \in DOMAIN Roles, Carries(lf, k, current),
         NEW g, g = Attach(lf, Roles[n], current), g # Raised
  PROVE  Carries(g, n, current)
<1> DEFINE role == Roles[n]
           name == role.name
           quotes == Quotes(role, current)
<1>1. /\ IsRole(role) /\ \A j \in 1..k : j \in DOMAIN Roles /\ Roles[j].name # name
      /\ FirstNames(n) = FirstNames(k) \cup {name}
      /\ FirstNames(k) \subseteq RoleNames \ {name}
  <2>1. /\ DOMAIN Roles = 1..Len(Roles) /\ Len(Roles) \in Nat
        /\ \A i, j \in DOMAIN Roles : Roles[i].name = Roles[j].name => i = j
        /\ \A i \in DOMAIN Roles : IsRole(Roles[i])
    BY RolesApart
  <2>2. \A j \in 1..n : j \in 1..k \/ j = n
    OBVIOUS
  <2>3. \A j \in 1..k : j \in 1..n /\ j \in DOMAIN Roles /\ j # n
    BY <2>1
  <2>4. n \in 1..n
    OBVIOUS
  <2>5. \A j \in 1..k : Roles[j].name # name
    BY <2>1, <2>3
  <2>6. FirstNames(n) = FirstNames(k) \cup {name}
    BY <2>2, <2>3, <2>4 DEF FirstNames
  <2>7. FirstNames(k) \subseteq RoleNames \ {name}
    BY <2>3, <2>5 DEF FirstNames, RoleNames
  <2> QED
    BY <2>1, <2>3, <2>5, <2>6, <2>7
<1>2. LeavesIn(role, Byproducts)
  BY RolesLeave
<1>3. quotes # Raised => \A q \in quotes.rows : q.id \in Seq(Nat)
  BY QuotesUnambiguous
<1>4. Attached(lf, role, current, Byproducts, g)
  <2>1. quotes # Raised
    <3> DEFINE keyed == WithKeys(lf, role)
               joined == LeftJoin(keyed, quotes, Bindings(role))
               dropped == Without(joined, LeftKeys(role) \cap {name} \cap keyed.columns)
    <3>1. Require(keyed, role, current) # Raised
      BY DEF Attach, Without
    <3>2. Renamed(dropped, role.value, name) # Raised
      BY <3>1 DEF Require
    <3>3. dropped # Raised
      BY <3>2 DEF Renamed
    <3>4. joined # Raised
      BY <3>3 DEF Without
    <3> QED
      BY <3>4 DEF LeftJoin
  <2>2. \A q \in quotes.rows : q.id \in Seq(Nat)
    BY <1>3, <2>1
  <2> QED
    BY <1>2, <2>2, AttachedRows DEF Kept
<1> HIDE DEF role, quotes
<1>5. g.columns \subseteq trades.columns \cup FirstNames(n) \cup Byproducts
  BY <1>1, <1>4 DEF Carries, Attached
<1>6. ASSUME NEW s \in g.rows
      PROVE  /\ \E t \in trades.rows : Origin(s) = Origin(t)
             /\ \A t \in trades.rows : Origin(s) = Origin(t) =>
                  /\ \A x \in g.columns \cap trades.columns :
                       x \notin FirstNames(n) \cup Byproducts => s.cells[x] = t.cells[x]
                  /\ \A j \in 1..n : Quoted(g, s, t, Roles[j], current)
  <2>1. PICK r \in lf.rows :
               \E p \in Partners(KeyedRow(lf, role, r), quotes, Bindings(role)) : FromRow(g, s, role, Byproducts, lf, r, p)
    BY <1>4 DEF Attached, quotes
  <2>2. PICK p \in Partners(KeyedRow(lf, role, r), quotes, Bindings(role)) : FromRow(g, s, role, Byproducts, lf, r, p)
    BY <2>1
  <2>3. \E t \in trades.rows : Origin(s) = Origin(t)
    BY <2>2 DEF Carries, FromRow
  <2>4. ASSUME NEW t \in trades.rows, Origin(s) = Origin(t)
        PROVE  /\ \A x \in g.columns \cap trades.columns :
                    x \notin FirstNames(n) \cup Byproducts => s.cells[x] = t.cells[x]
               /\ \A j \in 1..n : Quoted(g, s, t, Roles[j], current)
    <3>1. /\ \A x \in lf.columns \cap trades.columns :
               x \notin FirstNames(k) \cup Byproducts => r.cells[x] = t.cells[x]
          /\ \A j \in 1..k : Quoted(lf, r, t, Roles[j], current)
      BY <2>2, <2>4 DEF Carries, FromRow
    <3>2. \A x \in g.columns \cap trades.columns :
               x \notin FirstNames(n) \cup Byproducts => s.cells[x] = t.cells[x]
      BY <1>1, <2>2, <3>1 DEF FromRow
    <3>3. ASSUME NEW j \in 1..k PROVE Quoted(g, s, t, Roles[j], current)
      <4> DEFINE other == Roles[j]
      <4> SUFFICES ASSUME KeyedByTrade(other), Unshadowed(other), other.name \in g.columns
                   PROVE  s.cells[other.name] \in QuotesFor(t, other, current)
        BY DEF Quoted
      <4>1. other.name \notin Byproducts /\ other.name # name
        BY <1>1 DEF Unshadowed
      <4>2. other.name \in lf.columns /\ s.cells[other.name] = r.cells[other.name]
        BY <2>2, <4>1 DEF FromRow
      <4> QED
        BY <3>1, <4>2 DEF Quoted
    <3>4. Quoted(g, s, t, role, current)
      <4> SUFFICES ASSUME KeyedByTrade(role), Unshadowed(role), name \in g.columns
                   PROVE  s.cells[name] \in QuotesFor(t, role, current)
        BY DEF Quoted
      <4>1. role.value = name \/ role.value \notin lf.columns \cup Transient(role)
        BY <1>1, <1>2 DEF Unshadowed, Carries, LeavesIn
      <4>2. s.cells[name] = p.cells[role.value]
        BY <2>2, <4>1 DEF FromRow
      <4>3. \A x \in lf.columns \cap trades.columns :
              x \notin (RoleNames \ {role.name}) \cup Byproducts => r.cells[x] = t.cells[x]
        BY <1>1, <3>1
      <4>4. p.cells[role.value] \in QuotesFor(t, role, current)
        <5>1. Quotes(role, current) # Raised
              /\ p \in Partners(KeyedRow(lf, role, r), Quotes(role, current), Bindings(role))
          BY <1>4, <2>2 DEF quotes, Attached
        <5> QED
          BY <1>1, <1>2, <1>4, <4>3, <5>1, PartnerIsAQuote DEF LeavesIn, Attached
      <4> QED
        BY <4>2, <4>4
    <3>5. \A j \in 1..n : j \in 1..k \/ j = n
      OBVIOUS
    <3> QED
      BY <3>2, <3>3, <3>4, <3>5 DEF role
  <2> QED
    BY <2>3, <2>4
<1>7. IsFrame(g)
  BY <1>4 DEF IsFrame, Attached
<1> QED
  BY <1>5, <1>6, <1>7 DEF Carries

LEMMA SelectCarries ==
  ASSUME NEW f, NEW k, NEW snapshot, Carries(f, k, snapshot), NEW columns,
         NEW g, g = Select(f, columns), g # Raised
  PROVE  g.columns = columns /\ Carries(g, k, snapshot)
<1>1. /\ columns \subseteq f.columns /\ g.columns = columns
      /\ \A s \in g.rows : \E r \in f.rows :
           s.id = r.id /\ DOMAIN s.cells = columns
           /\ \A x \in columns : s.cells[x] = r.cells[x]
  BY SelectedRows
<1>2. IsFrame(g) /\ g.columns \subseteq trades.columns \cup FirstNames(k) \cup Byproducts
  BY <1>1 DEF IsFrame, Carries
<1>3. ASSUME NEW s \in g.rows
      PROVE  /\ \E t \in trades.rows : Origin(s) = Origin(t)
             /\ \A t \in trades.rows : Origin(s) = Origin(t) =>
                  /\ \A x \in g.columns \cap trades.columns :
                       x \notin FirstNames(k) \cup Byproducts => s.cells[x] = t.cells[x]
                  /\ \A n \in 1..k : Quoted(g, s, t, Roles[n], snapshot)
  <2>1. PICK r \in f.rows : s.id = r.id /\ \A x \in columns : s.cells[x] = r.cells[x]
    BY <1>1
  <2>2. Origin(s) = Origin(r)
    BY <2>1 DEF Origin
  <2>3. /\ \E t \in trades.rows : Origin(r) = Origin(t)
        /\ \A t \in trades.rows : Origin(r) = Origin(t) =>
             /\ \A x \in f.columns \cap trades.columns :
                  x \notin FirstNames(k) \cup Byproducts => r.cells[x] = t.cells[x]
             /\ \A n \in 1..k : Quoted(f, r, t, Roles[n], snapshot)
    BY DEF Carries
  <2>4. \A t \in trades.rows, n \in 1..k :
          Quoted(f, r, t, Roles[n], snapshot) => Quoted(g, s, t, Roles[n], snapshot)
    BY <1>1, <2>1 DEF Quoted
  <2> QED
    BY <1>1, <2>1, <2>2, <2>3, <2>4
<1> QED
  BY <1>1, <1>2, <1>3 DEF Carries

LEMMA TradesCarry ==
  ASSUME trades \in TradeFrames, NEW snapshot
  PROVE  Carries(trades, 0, snapshot)
<1>1. \A p, q \in trades.rows : Origin(p) = Origin(q) => p = q
  BY TradesAreKept, PricingAssumption DEF Kept, OneEach, Origin, RowId
<1>2. 1..0 = {}
  OBVIOUS
<1> QED
  BY <1>1, <1>2, PricingAssumption DEF Carries

\* The roles and what the trades are matched by are settled from the start.
LEMMA UsageIsStable ==
  ASSUME UNCHANGED <<trades, schema>>
  PROVE  /\ Roles' = Roles /\ RoleNames' = RoleNames /\ Byproducts' = Byproducts
         /\ \A role : /\ KeyedByTrade(role)' = KeyedByTrade(role)
                      /\ Unshadowed(role)' = Unshadowed(role)
<1>1. Roles' = Roles
  BY DEF Roles
<1>2. RoleNames' = RoleNames
  BY <1>1 DEF RoleNames
<1>3. Byproducts' = Byproducts
  BY <1>1 DEF Byproducts
<1>4. \A role : KeyedByTrade(role)' = KeyedByTrade(role)
  BY <1>2, <1>3 DEF KeyedByTrade
<1>5. \A role : Unshadowed(role)' = Unshadowed(role)
  BY <1>2, <1>3 DEF Unshadowed
<1> QED
  BY <1>1, <1>2, <1>3, <1>4, <1>5

LEMMA CarriesNext ==
  ASSUME UNCHANGED <<trades, schema>>
  PROVE  /\ Carries(lf', attached', current') => Carries(lf, attached, current)'
         /\ Carries(lf', Len(Roles), current') => Carries(lf, Len(Roles), current)'
<1>1. Roles' = Roles /\ Byproducts' = Byproducts /\ UNCHANGED trades
      /\ \A role : /\ KeyedByTrade(role)' = KeyedByTrade(role)
                   /\ Unshadowed(role)' = Unshadowed(role)
  BY UsageIsStable
<1>2. \A f, r, t, role, snapshot :
        Quoted(f, r, t, role, snapshot)' = Quoted(f, r, t, role, snapshot)
  BY <1>1 DEF Quoted
<1>3. \A k : FirstNames(k)' = FirstNames(k)
  BY <1>1 DEF FirstNames
<1>4. \A f, k, snapshot : Carries(f, k, snapshot)' <=> Carries(f, k, snapshot)
  BY <1>1, <1>2, <1>3 DEF Carries
<1> QED
  BY <1>1, <1>4


CarryInv ==
  /\ schema \in Schemas
  /\ phase = "shocking" => attached = 0
  /\ phase = "binding" =>
       attached \in 0..Len(Roles) /\ Carries(lf, attached, current)
  /\ phase = "pricing" =>
       lf.columns = schema.columns /\ Carries(lf, Len(Roles), current)

LEMMA CarryStep ==
  ASSUME KeyInv, BindInv, CarryInv, [Next]_vars
  PROVE  CarryInv'
<1>1. UNCHANGED <<trades, schema>>
  BY DEF Next, Assemble, RepriceUnder, ApplyChange, ChangeRaises, CallPricer, AttachRole,
         AttachRaises, Project, ProjectRaises, SelectBase, JoinShocked, Raise, argVars, vars
<1>2. /\ schema' \in Schemas /\ Roles' = Roles
      /\ DOMAIN Roles = 1..Len(Roles) /\ Len(Roles) \in Nat
  BY <1>1, RolesApart, UsageIsStable DEF CarryInv
<1>3. CASE CallPricer
  <2>1. phase' = "binding" /\ lf' = trades /\ attached' = 0
    BY <1>3 DEF CallPricer, CarryInv
  <2>2. Carries(lf', attached', current')
    BY <2>1, TradesCarry DEF BindInv
  <2> QED
    BY <1>1, <1>2, <2>1, <2>2, CarriesNext DEF CarryInv
<1>4. CASE AttachRole
  <2> DEFINE n == attached + 1
             g == Attach(lf, Roles[n], current)
  <2>1. /\ phase = "binding" /\ phase' = "binding" /\ n \in DOMAIN Roles
        /\ lf' = g /\ g # Raised /\ attached' = n /\ current' = current
    BY <1>4 DEF AttachRole
  <2>2. attached \in Nat /\ Carries(lf, attached, current) /\ Kept(lf)
    BY <1>2, <2>1 DEF CarryInv, BindInv
  <2> HIDE DEF g
  <2>3. Carries(g, n, current)
    BY <2>1, <2>2, AttachCarries DEF CarryInv, g
  <2>4. Carries(lf', attached', current')
    BY <2>1, <2>3
  <2>5. n \in 0..Len(Roles)
    BY <1>2, <2>1, <2>2
  <2> QED
    BY <1>1, <1>2, <2>1, <2>4, <2>5, CarriesNext DEF CarryInv
<1>5. CASE Project
  <2> DEFINE g == Select(lf, schema.columns)
  <2>1. /\ phase = "binding" /\ phase' = "pricing" /\ attached + 1 \notin DOMAIN Roles
        /\ lf' = g /\ g # Raised /\ current' = current
    BY <1>5 DEF Project
  <2>2. attached = Len(Roles) /\ Carries(lf, Len(Roles), current)
    <3>1. attached \in 0..Len(Roles) /\ Carries(lf, attached, current)
      BY <2>1 DEF CarryInv
    <3>2. attached + 1 \notin 1..Len(Roles) /\ Len(Roles) \in Nat
      BY <1>2, <2>1
    <3>3. attached = Len(Roles)
      BY <3>1, <3>2
    <3> QED
      BY <3>1, <3>3
  <2> HIDE DEF g
  <2>3. g.columns = schema.columns /\ Carries(g, Len(Roles), current)
    BY <2>1, <2>2, SelectCarries DEF g
  <2> QED
    BY <1>1, <1>2, <2>1, <2>3, CarriesNext DEF CarryInv
<1>6. CASE UNCHANGED vars
  <2>1. UNCHANGED <<lf, phase, attached, current>>
    BY <1>6 DEF vars, callVars
  <2> QED
    BY <1>1, <1>2, <2>1, CarriesNext DEF CarryInv
<1>7. CASE RepriceUnder \/ SelectBase \/ JoinShocked
  <2>1. phase' = "done" \/ (phase' = "shocking" /\ attached' = 0)
    <3>1. CASE RepriceUnder
      BY <3>1 DEF RepriceUnder, StartCall
    <3>2. CASE SelectBase \/ JoinShocked
      <4>1. NextCall
        BY <3>2 DEF SelectBase, JoinShocked
      <4>2. CASE call < Len(scenarios)
        BY <4>1, <4>2 DEF NextCall, StartCall
      <4>3. CASE ~(call < Len(scenarios))
        BY <4>1, <4>3 DEF NextCall
      <4> QED
        BY <4>2, <4>3
    <3> QED
      BY <1>7, <3>1, <3>2
  <2> QED
    BY <1>2, <2>1 DEF CarryInv
<1>8. CASE Assemble \/ ApplyChange \/ ChangeRaises \/ AttachRaises \/ ProjectRaises
  <2>1. \/ phase' \in {"market", "raised"}
        \/ phase = "shocking" /\ phase' = "shocking" /\ attached' = attached
    BY <1>8 DEF Assemble, ApplyChange, ChangeRaises, AttachRaises, ProjectRaises, Raise, callVars
  <2> QED
    BY <1>2, <2>1 DEF CarryInv
<1> QED
  BY <1>3, <1>4, <1>5, <1>6, <1>7, <1>8 DEF Next

LEMMA CarryInvariant == Spec => [](KeyInv /\ BindInv /\ CarryInv)
<1>1. Init => BindInv /\ CarryInv
  BY DEF Init, BindInv, CarryInv
<1>2. KeyInv /\ BindInv /\ CarryInv /\ [Next]_vars => BindInv' /\ CarryInv'
  BY BindStep, CarryStep
<1> QED
  BY <1>1, <1>2, KeyInvariant, PTL DEF Spec

\* A bound row carries, for each role that looks up by columns of the trade
\* and whose names nothing shadows, the quote the trade selects in the market
\* of the call under way: whatever the other roles are and in whatever order
\* they are attached.
THEOREM RolesPublishTheirQuote == Spec => []PublishedIsTheQuote
<1>1. KeyInv /\ BindInv /\ CarryInv => PublishedIsTheQuote
  <2> SUFFICES ASSUME CarryInv, phase = "pricing", NEW n \in DOMAIN Roles,
                      KeyedByTrade(Roles[n]), Unshadowed(Roles[n]),
                      NEW r \in lf.rows, NEW t \in trades.rows, Origin(r) = Origin(t)
               PROVE  r.cells[Roles[n].name] \in QuotesFor(t, Roles[n], current)
    BY DEF PublishedIsTheQuote, Published
  <2>1. n \in 1..Len(Roles) /\ Roles[n].name \in lf.columns
    BY RolesApart DEF CarryInv
  <2>2. Quoted(lf, r, t, Roles[n], current)
    BY <2>1 DEF CarryInv, Carries
  <2> QED
    BY <2>1, <2>2 DEF Quoted
<1> QED
  BY <1>1, CarryInvariant, PTL

-----------------------------------------------------------------------------
(* Pairing.  Values(f, column, m) says that f holds, for each trade, one row *)
(* with the trade's ids and, under that name, its value under the market m.  *)
Identified ==
  /\ IdColumns \subseteq trades.columns \ (RoleNames \cup Byproducts)
  /\ \A p, q \in trades.rows :
       /\ p # q => Restrict(p.cells, IdColumns) # Restrict(q.cells, IdColumns)
       /\ \A c \in IdColumns : p.cells[c] # Null

Prices(role) == role.name = schema.price /\ KeyedByTrade(role) /\ Unshadowed(role)

Values(f, column, snapshot) ==
  /\ f # Raised /\ f.columns = IdColumns \cup {column}
  /\ Lineage(f) /\ Covers(f) /\ OneEach(f)
  /\ \A r \in f.rows :
       /\ \E t \in trades.rows : Origin(r) = Origin(t)
       /\ \A t \in trades.rows : Origin(r) = Origin(t) =>
            /\ \A c \in IdColumns : r.cells[c] = t.cells[c]
            /\ \A n \in DOMAIN Roles :
                 Prices(Roles[n]) => r.cells[column] \in QuotesFor(t, Roles[n], snapshot)

LEMMA SelectedValues ==
  ASSUME BindInv, CarryInv, phase = "pricing", WellKeyed, Identified,
         NEW column \in {"base", "shocked"}
  PROVE  Values(SelectValues(column), column, current)
<1> DEFINE f == Select(lf, IdColumns \cup {schema.price})
           v == SelectValues(column)
           price == schema.price
<1>1. /\ Kept(lf) /\ lf.columns = schema.columns /\ Carries(lf, Len(Roles), current)
      /\ schema \in Schemas /\ DOMAIN Roles = 1..Len(Roles)
  BY RolesApart DEF BindInv, CarryInv
<1>2. IdColumns \cup {price} \subseteq lf.columns /\ price \notin IdColumns
      /\ column \notin IdColumns
  BY <1>1, PricingAssumption
<1>3. f # Raised
  <2>1. f = Frame(IdColumns \cup {price}, f.rows)
    BY <1>1, <1>2 DEF Select, MapCells, Frame, Kept
  <2> HIDE DEF f
  <2>2. Frame(IdColumns \cup {price}, f.rows) # Raised
    BY DEF Frame, Raised
  <2> QED
    BY <2>1, <2>2
<1>4. Kept(f)
  BY <1>1, <1>3, SelectIsKept
<1>5. f.columns = IdColumns \cup {price} /\ Carries(f, Len(Roles), current)
  <2> DEFINE columns == IdColumns \cup {price}
  <2>1. f = Select(lf, columns)
    OBVIOUS
  <2> HIDE DEF f, columns
  <2>2. f.columns = columns /\ Carries(f, Len(Roles), current)
    BY <1>1, <1>3, <2>1, SelectCarries
  <2> QED
    BY <2>2 DEF columns
<1>6. v = Renamed(f, price, column)
  BY DEF SelectValues
<1> HIDE DEF f, v
<1>7. v # Raised
  <2>1. CASE price = column
    BY <1>3, <1>6, <2>1 DEF Renamed
  <2>2. CASE price # column
    <3>1. v = Frame((f.columns \ {price}) \cup {column}, v.rows)
      BY <1>2, <1>3, <1>5, <1>6, <2>2 DEF Renamed, MapCells, Frame
    <3>2. Frame((f.columns \ {price}) \cup {column}, v.rows) # Raised
      BY DEF Frame, Raised
    <3> QED
      BY <3>1, <3>2
  <2> QED
    BY <2>1, <2>2
<1>8. Kept(v)
  BY <1>4, <1>6, <1>7, RenamedIsKept
<1>9. /\ v.columns = IdColumns \cup {column}
      /\ \A s \in v.rows : \E r \in f.rows :
           s.id = r.id /\ \A x \in v.columns :
                            s.cells[x] = IF x = column THEN r.cells[price] ELSE r.cells[x]
  <2>1. IsFrame(f)
    BY <1>5 DEF Carries
  <2>2. /\ price # column => v.columns = (f.columns \ {price}) \cup {column}
        /\ price = column => v.columns = f.columns
        /\ \A s \in v.rows : \E r \in f.rows :
             s.id = r.id /\ \A x \in v.columns :
                              s.cells[x] = IF x = column THEN r.cells[price] ELSE r.cells[x]
    BY <1>6, <1>7, <2>1, RenamedRows
  <2>3. v.columns = IdColumns \cup {column}
    BY <1>2, <1>5, <2>2
  <2> QED
    BY <2>2, <2>3
<1>10. ASSUME NEW s \in v.rows
       PROVE  /\ \E t \in trades.rows : Origin(s) = Origin(t)
              /\ \A t \in trades.rows : Origin(s) = Origin(t) =>
                   /\ \A c \in IdColumns : s.cells[c] = t.cells[c]
                   /\ \A n \in DOMAIN Roles :
                        Prices(Roles[n]) => s.cells[column] \in QuotesFor(t, Roles[n], current)
  <2>1. PICK r \in f.rows :
          s.id = r.id /\ \A x \in v.columns :
                           s.cells[x] = IF x = column THEN r.cells[price] ELSE r.cells[x]
    BY <1>9
  <2>2. Origin(s) = Origin(r)
    BY <2>1 DEF Origin
  <2>3. \E t \in trades.rows : Origin(s) = Origin(t)
    BY <1>5, <2>2 DEF Carries
  <2>4. ASSUME NEW t \in trades.rows, Origin(s) = Origin(t)
        PROVE  /\ \A c \in IdColumns : s.cells[c] = t.cells[c]
               /\ \A n \in DOMAIN Roles :
                    Prices(Roles[n]) => s.cells[column] \in QuotesFor(t, Roles[n], current)
    <3>1. /\ \A x \in f.columns \cap trades.columns :
               x \notin FirstNames(Len(Roles)) \cup Byproducts => r.cells[x] = t.cells[x]
          /\ \A n \in 1..Len(Roles) : Quoted(f, r, t, Roles[n], current)
      BY <1>5, <2>2, <2>4 DEF Carries
    <3>2. FirstNames(Len(Roles)) = RoleNames
      BY <1>1 DEF FirstNames, RoleNames
    <3>3. \A c \in IdColumns : s.cells[c] = t.cells[c]
      BY <1>2, <1>5, <1>9, <2>1, <3>1, <3>2 DEF Identified
    <3>4. s.cells[column] = r.cells[price] /\ price \in f.columns
      BY <1>5, <1>9, <2>1
    <3>5. ASSUME NEW n \in DOMAIN Roles, Prices(Roles[n])
          PROVE  s.cells[column] \in QuotesFor(t, Roles[n], current)
      BY <1>1, <3>1, <3>4, <3>5 DEF Prices, Quoted
    <3> QED
      BY <3>3, <3>5
  <2> QED
    BY <2>3, <2>4
<1> QED
  BY <1>7, <1>8, <1>9, <1>10 DEF Values, Kept, v

\* The frame of a scenario, from the base values and the shocked ones.
OnIds == {[left |-> c, right |-> c] : c \in IdColumns}
PairColumns == IdColumns \cup {"base", "shocked", "diff"}

Differences(b, v) ==
  LET joined == LeftJoin(b, v, OnIds)
      columns == joined.columns \cup {"diff"}
  IN  MapCells(joined, columns,
        LAMBDA c : [x \in columns |-> IF x = "diff" THEN Minus(c["shocked"], c["base"])
                                      ELSE c[x]])

PairRow(l, p) ==
  [id |-> Append(l.id, p.id),
   cells |-> [x \in PairColumns |->
                IF x = "diff" THEN Minus(p.cells["shocked"], l.cells["base"])
                ELSE IF x = "shocked" THEN p.cells["shocked"] ELSE l.cells[x]]]

LEMMA OnTheIds ==
  /\ \A k \in OnIds : k.left = k.right /\ k.left \in IdColumns
  /\ \A c \in IdColumns : \E k \in OnIds : k.left = c /\ k.right = c
<1>1. \A c \in IdColumns : [left |-> c, right |-> c] \in OnIds
  BY DEF OnIds
<1>2. \A c \in IdColumns : \E k \in OnIds : k.left = c /\ k.right = c
  <2> SUFFICES ASSUME NEW c \in IdColumns PROVE \E k \in OnIds : k.left = c /\ k.right = c
    OBVIOUS
  <2>1. [left |-> c, right |-> c] \in OnIds
    BY <1>1
  <2> WITNESS [left |-> c, right |-> c] \in OnIds
  <2> QED
    OBVIOUS
<1>3. \A k \in OnIds : k.left = k.right /\ k.left \in IdColumns
  BY DEF OnIds
<1> QED
  BY <1>2, <1>3

LEMMA DifferenceRows ==
  ASSUME NEW b, NEW v, b # Raised, v # Raised,
         b.columns = IdColumns \cup {"base"}, v.columns = IdColumns \cup {"shocked"}
  PROVE  \A s : s \in Differences(b, v).rows <=>
           \E l \in b.rows : \E p \in Partners(l, v, OnIds) : s = PairRow(l, p)
<1> DEFINE joined == LeftJoin(b, v, OnIds)
           payload == v.columns \ {k.right : k \in OnIds}
           columns == b.columns \cup {Suffixed(b, c) : c \in payload}
           From(x) == CHOOSE c \in payload : Suffixed(b, c) = x
           Pair(l, r) == [id |-> Append(l.id, r.id),
                          cells |-> [x \in columns |-> IF x \in b.columns
                                       THEN l.cells[x] ELSE r.cells[From(x)]]]
           Final(r) == [id |-> r.id,
                        cells |-> [x \in PairColumns |->
                           IF x = "diff" THEN Minus(r.cells["shocked"], r.cells["base"])
                           ELSE r.cells[x]]]
<1>1. IdColumns # {} /\ "base" \notin IdColumns /\ "shocked" \notin IdColumns
      /\ "diff" \notin IdColumns
  BY PricingAssumption
<1>2. {k.right : k \in OnIds} = IdColumns /\ {k.left : k \in OnIds} = IdColumns /\ OnIds # {}
  <2>1. /\ \A k \in OnIds : k.left = k.right /\ k.left \in IdColumns
        /\ \A c \in IdColumns : \E k \in OnIds : k.left = c /\ k.right = c
    BY OnTheIds
  <2> QED
    BY <1>1, <2>1
<1>3. payload = {"shocked"}
  BY <1>1, <1>2
<1>4. Suffixed(b, "shocked") = "shocked"
  BY <1>1 DEF Suffixed
<1>5. columns = IdColumns \cup {"base", "shocked"} /\ From("shocked") = "shocked"
  BY <1>3, <1>4
<1>6. ~\E c \in payload : c \in b.columns /\ Suffixed(b, c) \in b.columns
  BY <1>1, <1>3
<1>7. joined = Frame(columns, UNION {{Pair(l, r) : r \in Partners(l, v, OnIds)} : l \in b.rows})
  BY <1>2, <1>6 DEF LeftJoin
<1>8. joined.columns \cup {"diff"} = PairColumns
  BY <1>5, <1>7 DEF Frame, PairColumns
<1>9. Differences(b, v).rows = {Final(r) : r \in joined.rows}
  BY <1>8 DEF Differences, MapCells, Frame
<1>10. \A l, p : Final(Pair(l, p)) = PairRow(l, p)
  <2> SUFFICES ASSUME NEW l, NEW p PROVE Final(Pair(l, p)) = PairRow(l, p)
    OBVIOUS
  <2> DEFINE c == Pair(l, p).cells
  <2>1. c["shocked"] = p.cells["shocked"] /\ c["base"] = l.cells["base"]
        /\ \A x \in IdColumns : c[x] = l.cells[x]
    BY <1>1, <1>5
  <2>2. Pair(l, p).id = Append(l.id, p.id)
    OBVIOUS
  <2> HIDE DEF Pair
  <2>3. Final(Pair(l, p)).cells = PairRow(l, p).cells
    BY <1>1, <2>1 DEF PairRow, PairColumns
  <2> QED
    BY <2>2, <2>3 DEF PairRow
<1>11. \A s : s \in joined.rows <=>
         \E l \in b.rows : \E p \in Partners(l, v, OnIds) : s = Pair(l, p)
  <2>1. joined.rows = UNION {{Pair(l, r) : r \in Partners(l, v, OnIds)} : l \in b.rows}
    BY <1>7 DEF Frame
  <2> HIDE DEF Pair, joined
  <2> QED
    BY <2>1
<1> HIDE DEF Pair, Final, joined
<1> QED
  BY <1>9, <1>10, <1>11

\* The shocked row a base row is joined with: the one of the same trade.
LEMMA PartnersPaired ==
  ASSUME Identified, NEW b, NEW v, NEW m, NEW n, Values(b, "base", m), Values(v, "shocked", n),
         NEW l \in b.rows, NEW t \in trades.rows, Origin(l) = Origin(t)
  PROVE  /\ Partners(l, v, OnIds) = {p \in v.rows : Origin(p) = Origin(t)}
         /\ \E p \in v.rows : Origin(p) = Origin(t)
<1>1. \A c \in IdColumns : l.cells[c] = t.cells[c] /\ l.cells[c] # Null
  BY DEF Values, Identified
<1>2. ASSUME NEW p \in v.rows
      PROVE  p \in Matches(l, v, OnIds) <=> Origin(p) = Origin(t)
  <2>1. PICK u \in trades.rows : Origin(p) = Origin(u)
    BY DEF Values
  <2>2. \A c \in IdColumns : p.cells[c] = u.cells[c]
    BY <2>1 DEF Values
  <2>3. p \in Matches(l, v, OnIds) <=> \A c \in IdColumns : l.cells[c] = p.cells[c]
    <3>1. /\ \A k \in OnIds : k.left = k.right /\ k.left \in IdColumns
          /\ \A c \in IdColumns : \E k \in OnIds : k.left = c /\ k.right = c
      BY OnTheIds
    <3> QED
      BY <1>1, <3>1 DEF Matches
  <2>4. (\A c \in IdColumns : l.cells[c] = p.cells[c]) <=> u = t
    <3>1. (\A c \in IdColumns : t.cells[c] = u.cells[c])
            => Restrict(t.cells, IdColumns) = Restrict(u.cells, IdColumns)
      BY DEF Restrict
    <3> QED
      BY <1>1, <2>2, <3>1 DEF Identified
  <2>5. ASSUME Origin(p) = Origin(t) PROVE \A c \in IdColumns : l.cells[c] = p.cells[c]
    BY <1>1, <2>5 DEF Values
  <2> QED
    BY <2>1, <2>3, <2>4, <2>5
<1>3. \E p \in v.rows : Origin(p) = Origin(t)
  BY DEF Values, Covers
<1>4. Matches(l, v, OnIds) = {p \in v.rows : Origin(p) = Origin(t)}
  BY <1>2 DEF Matches
<1> QED
  BY <1>3, <1>4 DEF Partners

PairedFor(f, t, m, n) ==
  LET rows == {r \in f.rows : Restrict(r.cells, IdColumns) = Restrict(t.cells, IdColumns)}
  IN  /\ Cardinality(rows) = 1
      /\ \A r \in rows : \A k \in DOMAIN Roles : Prices(Roles[k]) =>
           /\ r.cells["base"] \in QuotesFor(t, Roles[k], m)
           /\ r.cells["shocked"] \in QuotesFor(t, Roles[k], n)
           /\ r.cells["diff"] = Minus(r.cells["shocked"], r.cells["base"])

LEMMA DifferencesPaired ==
  ASSUME Identified, NEW b, NEW v, NEW m, NEW n, Values(b, "base", m), Values(v, "shocked", n),
         NEW t \in trades.rows
  PROVE  PairedFor(Differences(b, v), t, m, n)
<1> DEFINE f == Differences(b, v)
           Ids(c) == Restrict(c, IdColumns)
           rows == {r \in f.rows : Ids(r.cells) = Ids(t.cells)}
<1>1. PICK l \in b.rows : Origin(l) = Origin(t)
  BY DEF Values, Covers
<1>2. PICK p \in v.rows : Origin(p) = Origin(t)
  BY DEF Values, Covers
<1>3. Partners(l, v, OnIds) = {p}
  <2>1. \A q \in v.rows : Origin(q) = Origin(t) => q = p
    BY <1>2 DEF Values, OneEach
  <2> QED
    BY <1>1, <1>2, <2>1, PartnersPaired
<1>4. \A s : s \in f.rows <=>
        \E k \in b.rows : \E q \in Partners(k, v, OnIds) : s = PairRow(k, q)
  BY DifferenceRows DEF Values
<1> HIDE DEF f
<1>5. \A k, q : \A c \in IdColumns : PairRow(k, q).cells[c] = k.cells[c]
  BY PricingAssumption DEF PairRow, PairColumns
<1>6. PairRow(l, p) \in rows
  <2>1. \A c \in IdColumns : l.cells[c] = t.cells[c]
    BY <1>1 DEF Values
  <2>2. Ids(PairRow(l, p).cells) = Ids(t.cells)
    BY <1>5, <2>1 DEF Restrict
  <2> QED
    BY <1>3, <1>4, <2>2
<1>7. ASSUME NEW s \in rows PROVE s = PairRow(l, p)
  <2>1. PICK k \in b.rows : \E q \in Partners(k, v, OnIds) : s = PairRow(k, q)
    BY <1>4
  <2>2. PICK q \in Partners(k, v, OnIds) : s = PairRow(k, q)
    BY <2>1
  <2>3. PICK u \in trades.rows : Origin(k) = Origin(u)
    BY DEF Values
  <2>4. \A c \in IdColumns : s.cells[c] = u.cells[c]
    BY <1>5, <2>2, <2>3 DEF Values
  <2>5. u = t
    <3>1. Ids(s.cells) = Ids(t.cells) /\ Ids(s.cells) = Ids(u.cells)
      BY <2>4 DEF Restrict
    <3> QED
      BY <3>1 DEF Identified
  <2>6. k = l
    BY <1>1, <2>3, <2>5 DEF Values, OneEach
  <2> QED
    BY <1>3, <2>2, <2>6
<1>8. rows = {PairRow(l, p)}
  <2> HIDE DEF rows
  <2> QED
    BY <1>6, <1>7
<1>9. Cardinality(rows) = 1
  BY <1>8, FS_Singleton
<1>10. ASSUME NEW k \in DOMAIN Roles, Prices(Roles[k])
       PROVE  LET r == PairRow(l, p)
              IN  /\ r.cells["base"] \in QuotesFor(t, Roles[k], m)
                  /\ r.cells["shocked"] \in QuotesFor(t, Roles[k], n)
                  /\ r.cells["diff"] = Minus(r.cells["shocked"], r.cells["base"])
  <2>1. l.cells["base"] \in QuotesFor(t, Roles[k], m)
    BY <1>1, <1>10 DEF Values
  <2>2. p.cells["shocked"] \in QuotesFor(t, Roles[k], n)
    BY <1>2, <1>10 DEF Values
  <2>3. /\ PairRow(l, p).cells["base"] = l.cells["base"]
        /\ PairRow(l, p).cells["shocked"] = p.cells["shocked"]
        /\ PairRow(l, p).cells["diff"] = Minus(p.cells["shocked"], l.cells["base"])
    BY DEF PairRow, PairColumns
  <2> QED
    BY <2>1, <2>2, <2>3
<1> QED
  BY <1>8, <1>9, <1>10 DEF PairedFor, f

(* The snapshots a shock goes through.                                       *)
Chain(m, shock) ==
  CHOOSE J : /\ J[0] = m
             /\ \A k \in 0..(Len(shock) - 1) : J[k + 1] = ModifySource(J[k], shock[k + 1])
             /\ Shocked(m, shock) = J[Len(shock)]

LEMMA ChainFacts ==
  ASSUME NEW m, NEW shock, IsList(shock)
  PROVE  /\ Chain(m, shock)[0] = m
         /\ \A k \in 0..(Len(shock) - 1) :
              Chain(m, shock)[k + 1] = ModifySource(Chain(m, shock)[k], shock[k + 1])
         /\ Shocked(m, shock) = Chain(m, shock)[Len(shock)]
<1> DEFINE P(J) == /\ J[0] = m
                   /\ \A k \in 0..(Len(shock) - 1) :
                        J[k + 1] = ModifySource(J[k], shock[k + 1])
                   /\ Shocked(m, shock) = J[Len(shock)]
<1>1. \E J : P(J)
  <2> DEFINE last == Shocked(m, shock)
  <2>1. last = Shocked(m, shock)
    OBVIOUS
  <2> HIDE DEF last
  <2>2. PICK J : /\ J[0] = m
                 /\ \A k \in 0..(Len(shock) - 1) :
                      J[k + 1] = ModifySource(J[k], shock[k + 1])
                 /\ last = J[Len(shock)]
    BY <2>1, ShockedIsChain
  <2>3. P(J)
    BY <2>1, <2>2
  <2> HIDE DEF P
  <2> QED
    BY <2>3
<1>2. Chain(m, shock) = CHOOSE J : P(J)
  BY DEF Chain
<1>3. P(Chain(m, shock))
  <2> HIDE DEF P
  <2> QED
    BY <1>1, <1>2
<1> QED
  BY <1>3

\* The shock of the call under way is one of the scenarios, or none.
LEMMA ShockIsList ==
  ASSUME CallInv
  PROVE  /\ IsList(Shock) /\ Len(scenarios) \in Nat
         /\ call = 0 => Shocked(market, Shock) = market
         /\ call # 0 => call \in 1..Len(scenarios) /\ Shock = scenarios[call]
<1>1. Len(scenarios) \in Nat /\ DOMAIN scenarios = 1..Len(scenarios)
      /\ \A k \in DOMAIN scenarios : IsList(scenarios[k])
  BY PricingAssumption DEF CallInv, IsList
<1>2. CASE call = 0
  <2>1. Shock = <<>> /\ IsList(<<>>) /\ Len(<<>>) = 0
    BY <1>2 DEF Shock, IsList
  <2>2. Shocked(market, <<>>) = market
    BY <2>1, ChainFacts
  <2> QED
    BY <1>1, <1>2, <2>1, <2>2
<1>3. CASE call # 0
  <2>1. call \in 1..Len(scenarios) /\ Shock = scenarios[call]
    BY <1>1, <1>3 DEF CallInv, Shock
  <2> QED
    BY <1>1, <1>3, <2>1
<1> QED
  BY <1>2, <1>3

Usage == WellKeyed /\ Identified

ResultPaired(k) ==
  \A t \in trades.rows :
    PairedFor(results[k], t, market, Shocked(market, scenarios[k]))

PairInv ==
  /\ \E S : results \in Seq(S)
  /\ phase = "market" => results = <<>>
  /\ phase \in {"shocking", "binding", "pricing"} =>
       /\ Len(results) = IF call = 0 THEN 0 ELSE call - 1
       /\ pos \in 0..Len(Shock) /\ current = Chain(market, Shock)[pos]
       /\ phase # "shocking" => pos = Len(Shock)
       /\ call # 0 /\ Usage => Values(base, "base", market)
  /\ Usage => \A k \in DOMAIN results : ResultPaired(k)

LEMMA PairingIsStable ==
  ASSUME UNCHANGED <<trades, schema>>
  PROVE  /\ Identified' = Identified
         /\ \A f, c, m : Values(f, c, m)' <=> Values(f, c, m)
         /\ \A f, t, m, n : PairedFor(f, t, m, n)' <=> PairedFor(f, t, m, n)
<1>1. Roles' = Roles /\ RoleNames' = RoleNames /\ Byproducts' = Byproducts
      /\ \A role : /\ KeyedByTrade(role)' = KeyedByTrade(role)
                   /\ Unshadowed(role)' = Unshadowed(role)
  BY UsageIsStable
<1>2. \A role : Prices(role)' = Prices(role)
  BY <1>1 DEF Prices
<1>3. Identified' = Identified
  BY <1>1 DEF Identified
<1>4. \A f, c, m : Values(f, c, m)' <=> Values(f, c, m)
  BY <1>1, <1>2 DEF Values, Covers, OneEach, Lineage
<1>5. \A f, t, m, n : PairedFor(f, t, m, n)' <=> PairedFor(f, t, m, n)
  BY <1>1, <1>2 DEF PairedFor
<1> QED
  BY <1>3, <1>4, <1>5

LEMMA PairStep ==
  ASSUME KeyInv, BindInv, CarryInv, PairInv, [Next]_vars
  PROVE  PairInv'
<1> DEFINE active == {"shocking", "binding", "pricing"}
<1>1. UNCHANGED <<trades, schema, scenarios>>
  BY DEF Next, Assemble, RepriceUnder, ApplyChange, ChangeRaises, CallPricer, AttachRole,
         AttachRaises, Project, ProjectRaises, SelectBase, JoinShocked, Raise, argVars, vars
<1>2. CASE Assemble
  <2>1. phase' = "market" /\ results' = <<>>
    BY <1>2 DEF Assemble, callVars, PairInv
  <2>2. results' \in Seq({}) /\ DOMAIN results' = {}
    BY <2>1
  <2> QED
    BY <2>1, <2>2 DEF PairInv
<1>3. CASE ~Assemble
  <2>1. UNCHANGED <<market, checked>>
    BY <1>3 DEF Next, RepriceUnder, ApplyChange, ChangeRaises, CallPricer, AttachRole,
         AttachRaises, Project, ProjectRaises, SelectBase, JoinShocked, Raise,
         snapshotVars, vars
  <2>2. /\ Usage' = Usage
        /\ \A f, c, m : Values(f, c, m)' <=> Values(f, c, m)
        /\ \A f, t, m, n : PairedFor(f, t, m, n)' <=> PairedFor(f, t, m, n)
    BY <1>1, <2>1, KeptIsStable, PairingIsStable DEF Usage
  <2>3. ASSUME results' = results
        PROVE  /\ \E S : results' \in Seq(S)
               /\ phase = "market" => results' = <<>>
               /\ Usage' => \A k \in DOMAIN results' : ResultPaired(k)'
    <3>1. \A k \in DOMAIN results : ResultPaired(k)' <=> ResultPaired(k)
      BY <1>1, <2>1, <2>2, <2>3 DEF ResultPaired
    <3> QED
      BY <2>2, <2>3, <3>1 DEF PairInv
  <2>4. ASSUME NEW n \in 0..Len(scenarios), StartCall(n)
        PROVE  /\ phase' = "shocking" /\ call' = n
               /\ pos' \in 0..Len(Shock)' /\ current' = (Chain(market, Shock)[pos])'
    <3>1. phase' = "shocking" /\ call' = n /\ pos' = 0 /\ current' = market
      BY <2>4 DEF StartCall
    <3>2. Shock' = IF n = 0 THEN <<>> ELSE scenarios[n]
      BY <1>1, <3>1 DEF Shock
    <3>3. IsList(Shock')
      <4>1. Len(scenarios) \in Nat /\ DOMAIN scenarios = 1..Len(scenarios)
            /\ \A k \in DOMAIN scenarios : IsList(scenarios[k])
        BY PricingAssumption DEF KeyInv, CallInv, IsList
      <4>2. IsList(<<>>)
        BY DEF IsList
      <4> QED
        BY <3>2, <4>1, <4>2
    <3>4. Chain(market', Shock')[0] = market' /\ Len(Shock') \in Nat
      BY <3>3, ChainFacts DEF IsList
    <3> QED
      BY <2>1, <3>1, <3>4
  <2>5. CASE RepriceUnder
    <3>1. phase = "market" /\ StartCall(0) /\ results' = results
      BY <2>5 DEF RepriceUnder
    <3>2. 0 \in 0..Len(scenarios)
      BY ShockIsList DEF KeyInv
    <3>3. /\ phase' = "shocking" /\ call' = 0 /\ pos' \in 0..Len(Shock)'
          /\ current' = (Chain(market, Shock)[pos])'
      BY <2>4, <3>1, <3>2
    <3>4. results' = <<>>
      BY <3>1 DEF PairInv
    <3> QED
      BY <2>3, <3>1, <3>3, <3>4 DEF PairInv
  <2>6. CASE ApplyChange
    <3>1. /\ phase = "shocking" /\ phase' = "shocking" /\ pos < Len(Shock) /\ pos' = pos + 1
          /\ current' = ModifySource(current, Shock[pos + 1])
          /\ UNCHANGED <<call, base, results>>
      BY <2>6 DEF ApplyChange
    <3>2. Shock' = Shock
      BY <1>1, <3>1 DEF Shock
    <3>3. IsList(Shock) /\ Len(Shock) \in Nat
      BY ShockIsList DEF KeyInv, IsList
    <3>4. pos \in 0..(Len(Shock) - 1) /\ pos + 1 \in 0..Len(Shock)
      BY <3>1, <3>3 DEF PairInv
    <3>5. current' = Chain(market, Shock)[pos + 1]
      BY <3>1, <3>3, <3>4, ChainFacts DEF PairInv
    <3> QED
      BY <2>1, <2>2, <2>3, <3>1, <3>2, <3>4, <3>5 DEF PairInv
  <2>7. CASE CallPricer \/ AttachRole \/ Project \/ UNCHANGED vars
    <3>1. /\ UNCHANGED <<call, pos, current, base, results>>
          /\ \/ phase \in {"shocking", "binding"} /\ phase' \in {"binding", "pricing"}
                /\ (phase = "shocking" => pos = Len(Shock))
             \/ phase' = phase
      BY <2>7 DEF CallPricer, AttachRole, Project, vars, callVars
    <3>2. Shock' = Shock
      BY <1>1, <3>1 DEF Shock
    <3>3. phase' \in active /\ phase' # phase => phase \in active
      BY <3>1
    <3> QED
      BY <2>1, <2>2, <2>3, <3>1, <3>2, <3>3 DEF PairInv
  <2>8. CASE ChangeRaises \/ AttachRaises \/ ProjectRaises
    <3>1. phase' = "raised" /\ results' = results
      BY <2>8 DEF ChangeRaises, AttachRaises, ProjectRaises, Raise, callVars
    <3> QED
      BY <2>3, <3>1 DEF PairInv
  <2>9. ASSUME phase = "pricing"
        PROVE  current = Shocked(market, Shock)
    BY <2>9, ShockIsList, ChainFacts DEF KeyInv, PairInv
  <2>10. CASE SelectBase
    <3>1. /\ phase = "pricing" /\ call = 0 /\ base' = SelectValues("base") /\ NextCall
          /\ results' = results
      BY <2>10 DEF SelectBase
    <3>2. current = market
      BY <2>9, <3>1, ShockIsList DEF KeyInv
    <3>3. Usage => Values(base', "base", market)
      BY <3>1, <3>2, SelectedValues DEF Usage
    <3>4. Len(results) = 0
      BY <3>1 DEF PairInv
    <3>5. CASE call < Len(scenarios)
      <4>1. StartCall(1) /\ 1 \in 0..Len(scenarios)
        BY <3>1, <3>5, ShockIsList DEF NextCall, KeyInv
      <4>2. /\ phase' = "shocking" /\ call' = 1 /\ pos' \in 0..Len(Shock)'
            /\ current' = (Chain(market, Shock)[pos])'
        BY <2>4, <4>1
      <4> QED
        BY <2>1, <2>2, <2>3, <3>1, <3>3, <3>4, <4>2 DEF PairInv
    <3>6. CASE ~(call < Len(scenarios))
      <4>1. phase' = "done"
        BY <3>1, <3>6 DEF NextCall
      <4> QED
        BY <2>3, <3>1, <4>1 DEF PairInv
    <3> QED
      BY <3>5, <3>6
  <2>11. CASE JoinShocked
    <3> DEFINE d == Differences(base, SelectValues("shocked"))
    <3>1. /\ phase = "pricing" /\ call > 0 /\ results' = Append(results, d)
          /\ NextCall /\ base' = base
      BY <2>11 DEF JoinShocked, Differences, OnIds
    <3>2. /\ call \in 1..Len(scenarios) /\ Shock = scenarios[call] /\ Len(scenarios) \in Nat
      BY <3>1, ShockIsList DEF KeyInv, CallInv
    <3>3. Usage => \A t \in trades.rows :
            PairedFor(d, t, market, Shocked(market, scenarios[call]))
      <4> SUFFICES ASSUME Usage, NEW t \in trades.rows
                   PROVE  PairedFor(d, t, market, Shocked(market, scenarios[call]))
        OBVIOUS
      <4>1. Values(base, "base", market)
        BY <3>1, <3>2 DEF PairInv
      <4>2. Values(SelectValues("shocked"), "shocked", Shocked(market, scenarios[call]))
        BY <2>9, <3>1, <3>2, SelectedValues DEF Usage
      <4> QED
        BY <4>1, <4>2, DifferencesPaired DEF Usage
    <3> HIDE DEF d
    <3>4. PICK S : results \in Seq(S)
      BY DEF PairInv
    <3>5. Len(results) = call - 1
      BY <3>1, <3>2 DEF PairInv
    <3>6. /\ results' \in Seq(S \cup {d}) /\ Len(results') = call
          /\ DOMAIN results' = 1..call /\ results'[call] = d
          /\ \A k \in 1..(call - 1) : k \in DOMAIN results /\ results'[k] = results[k]
      <4>1. results \in Seq(S \cup {d}) /\ d \in S \cup {d}
        BY <3>4
      <4> QED
        BY <3>1, <3>2, <3>5, <4>1
    <3>7. Usage' => \A k \in DOMAIN results' : ResultPaired(k)'
      <4> SUFFICES ASSUME Usage, NEW k \in 1..call PROVE ResultPaired(k)'
        BY <2>2, <3>6
      <4>1. CASE k = call
        BY <1>1, <2>1, <2>2, <3>3, <3>6, <4>1 DEF ResultPaired
      <4>2. CASE k # call
        <5>1. k \in DOMAIN results /\ results'[k] = results[k]
          BY <3>2, <3>6, <4>2
        <5>2. ResultPaired(k)
          BY <5>1 DEF PairInv
        <5> QED
          BY <1>1, <2>1, <2>2, <5>1, <5>2 DEF ResultPaired
      <4> QED
        BY <4>1, <4>2
    <3>8. CASE call < Len(scenarios)
      <4>1. StartCall(call + 1) /\ call + 1 \in 0..Len(scenarios)
        BY <3>1, <3>2, <3>8 DEF NextCall
      <4>2. /\ phase' = "shocking" /\ call' = call + 1 /\ pos' \in 0..Len(Shock)'
            /\ current' = (Chain(market, Shock)[pos])'
        BY <2>4, <4>1
      <4>3. Usage' => Values(base, "base", market)'
        BY <2>1, <2>2, <3>1, <3>2 DEF PairInv
      <4>4. Len(results') = IF call' = 0 THEN 0 ELSE call' - 1
        BY <3>2, <3>6, <4>2
      <4> QED
        BY <3>6, <3>7, <4>2, <4>3, <4>4 DEF PairInv
    <3>9. CASE ~(call < Len(scenarios))
      <4>1. phase' = "done"
        BY <3>1, <3>9 DEF NextCall
      <4> QED
        BY <3>6, <3>7, <4>1 DEF PairInv
    <3> QED
      BY <3>8, <3>9
  <2> QED
    BY <1>3, <2>5, <2>6, <2>7, <2>8, <2>10, <2>11 DEF Next
<1> QED
  BY <1>2, <1>3

\* With ids that identify the trades, each scenario's frame has one row per
\* trade: its base value, its value under that scenario's shock of the given
\* snapshot, and their difference; neither the other scenarios nor the other
\* roles matter.
THEOREM ScenariosArePaired == Spec => []ScenarioRowsPaired
<1>1. Init => PairInv
  <2> SUFFICES ASSUME Init PROVE PairInv
    OBVIOUS
  <2>1. results = <<>> /\ phase = "market"
    BY DEF Init
  <2>2. results \in Seq({}) /\ DOMAIN results = {}
    BY <2>1
  <2> QED
    BY <2>1, <2>2 DEF PairInv
<1>2. KeyInv /\ BindInv /\ CarryInv /\ PairInv /\ [Next]_vars => PairInv'
  BY PairStep
<1>3. PairInv => ScenarioRowsPaired
  BY DEF PairInv, ScenarioRowsPaired, ResultPaired, PairedFor, Usage, Identified, Prices
<1> QED
  BY <1>1, <1>2, <1>3, CarryInvariant, PTL DEF Spec
===============================================================================
