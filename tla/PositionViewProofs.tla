-------------------------- MODULE PositionViewProofs ---------------------------
(***************************************************************************)
(* Proofs about PositionView, the folds it uses and structures.             *)
(*                                                                          *)
(* Declarations: the columns of an orderly view never meet, so a namespace   *)
(* finds its own source's cells in the joined frame, which is followed join  *)
(* by join.  Measures: a view implements the FormulaGraph of its measures,   *)
(* so the order stage adds them in is a list of its terms.  Rows: joins to   *)
(* frames with one row for each key, the measures and the published columns  *)
(* keep one row for each position, and a fold puts each in one group.        *)
(***************************************************************************)
EXTENDS PositionView, SequenceTheorems, FiniteSetTheorems, WellFoundedInduction, TLAPS

\* What the i-th source brings, and what it is joined to, under their names
\* in the joined frame.
Brought(i) ==
  {Physical(sources[i], c) : c \in sources[i].schema \ sources[i].keys}
JoinedBefore(i) ==
  spine.schema \cup
    UNION {{Physical(sources[j], c) : c \in sources[j].schema} : j \in 1..(i - 1)}

\* The declared columns of a source are new to the frame it is joined to, so
\* no join renames one and each physical name stands for one column.
ColumnsApart ==
  orderly => \A i \in DOMAIN sources : Brought(i) \cap JoinedBefore(i) = {}

\* A namespace is the one its source was declared with.
NamespaceOf(s) == Namespace(s.schema, s.keys, s.prefix)
NamespacesKept ==
  orderly => \A i \in DOMAIN sources :
               /\ sources[i].name \in DOMAIN ns
               /\ ns[sources[i].name] = NamespaceOf(sources[i])

\* No two sources have a name in common, so a name stands for one frame.
NamesApart ==
  orderly => \A i, j \in DOMAIN sources : sources[i].name = sources[j].name => i = j

SpineFirst == orderly /\ sources # <<>> => spine # Unset

DeclarationInv ==
  /\ sources \in Seq(SourceCalls)
  /\ SpineFirst
  /\ NamespacesKept
  /\ NamesApart
  /\ ColumnsApart

LEMMA NamespaceNames ==
  ASSUME NEW s, NEW c
  PROVE  Physical(NamespaceOf(s), c) = Physical(s, c)
BY DEF Physical, NamespaceOf, Namespace

LEMMA InitDeclaration == Init => DeclarationInv
BY DEF Init, DeclarationInv, SpineFirst, NamespacesKept, NamesApart, ColumnsApart

(* Only spine() and source() touch the joins.  A spine that comes after a    *)
(* source, and a name that comes twice, make the view disorderly for good.   *)
LEMMA SpineKeeps ==
  ASSUME DeclarationInv, NEW call \in SpineCalls, Spine(call)
  PROVE  DeclarationInv'
<1>1. sources' = sources /\ spine' = call /\ orderly' = (orderly /\ sources = <<>>)
  BY DEF Spine
<1>2. orderly' => sources' = <<>>
  BY <1>1
<1>3. ASSUME orderly', NEW i \in DOMAIN sources'
      PROVE  FALSE
  <2>1. sources' = <<>>
    BY <1>2, <1>3
  <2> QED
    BY <2>1, <1>3
<1>4. sources' \in Seq(SourceCalls)
  BY <1>1 DEF DeclarationInv
<1>5. spine' # Unset
  BY <1>1, PositionAssumption
<1> QED
  BY <1>3, <1>4, <1>5 DEF DeclarationInv, SpineFirst, NamespacesKept, NamesApart, ColumnsApart

LEMMA SourceKeeps ==
  ASSUME DeclarationInv, NEW s \in SourceCalls, Source(s)
  PROVE  DeclarationInv'
<1> DEFINE n == Len(sources)
<1>1. /\ {Physical(s, c) : c \in s.schema \ s.keys} \cap Existing = {}
      /\ sources' = Append(sources, s) /\ UNCHANGED spine
      /\ orderly' = (orderly /\ spine # Unset /\ s.name \notin DOMAIN ns)
      /\ ns' = [x \in DOMAIN ns \cup {s.name} |->
                  IF x = s.name THEN NamespaceOf(s) ELSE ns[x]]
  BY DEF Source, SetNamespace, NamespaceOf
<1>2. /\ sources \in Seq(SourceCalls) /\ n \in Nat
      /\ sources' \in Seq(SourceCalls) /\ DOMAIN sources = 1..n
      /\ DOMAIN sources' = 1..(n + 1) /\ sources'[n + 1] = s
      /\ \A i \in 1..n : sources'[i] = sources[i]
  BY <1>1 DEF DeclarationInv
<1>3. SpineFirst'
  BY <1>1 DEF SpineFirst
<1>4. ASSUME orderly'
      PROVE  \A i \in 1..n : /\ sources[i].name \in DOMAIN ns
                             /\ sources[i].name # s.name
                             /\ ns[sources[i].name] = NamespaceOf(sources[i])
  BY <1>1, <1>2, <1>4 DEF DeclarationInv, NamespacesKept
<1>5. NamespacesKept'
  <2> SUFFICES ASSUME orderly', NEW i \in 1..(n + 1)
               PROVE  /\ sources'[i].name \in DOMAIN ns'
                      /\ ns'[sources'[i].name] = NamespaceOf(sources'[i])
    BY <1>2 DEF NamespacesKept, NamespaceOf
  <2>1. CASE i = n + 1
    BY <2>1, <1>1, <1>2
  <2>2. CASE i \in 1..n
    BY <2>2, <1>1, <1>2, <1>4
  <2> QED
    BY <1>2, <2>1, <2>2
<1>7. NamesApart'
  <2> SUFFICES ASSUME orderly', NEW i \in 1..(n + 1), NEW j \in 1..(n + 1),
                      sources'[i].name = sources'[j].name
               PROVE  i = j
    BY <1>2 DEF NamesApart
  <2>1. CASE i = n + 1 /\ j = n + 1
    BY <2>1
  <2>2. CASE i \in 1..n /\ j \in 1..n
    BY <2>2, <1>1, <1>2 DEF DeclarationInv, NamesApart
  <2>3. ~(i = n + 1 /\ j \in 1..n) /\ ~(j = n + 1 /\ i \in 1..n)
    BY <1>2, <1>4
  <2> QED
    BY <1>2, <2>1, <2>2, <2>3
<1>6. ColumnsApart'
  <2> SUFFICES ASSUME orderly', NEW i \in 1..(n + 1)
               PROVE  Brought(i)' \cap JoinedBefore(i)' = {}
    BY <1>2 DEF ColumnsApart
  <2>1. JoinedBefore(i)' = JoinedBefore(i)
    <3> DEFINE Was(j) == {Physical(sources[j], c) : c \in sources[j].schema}
               Is(j) == {Physical(sources'[j], c) : c \in sources'[j].schema}
    <3>1. \A j \in 1..(i - 1) : Is(j) = Was(j)
      BY <1>2
    <3>2. JoinedBefore(i)' = spine.schema \cup UNION {Is(j) : j \in 1..(i - 1)}
      BY <1>1 DEF JoinedBefore, Physical
    <3>3. JoinedBefore(i) = spine.schema \cup UNION {Was(j) : j \in 1..(i - 1)}
      BY DEF JoinedBefore
    <3> HIDE DEF Was, Is
    <3> QED
      BY <3>1, <3>2, <3>3
  <2>2. CASE i \in 1..n
    <3>1. Brought(i)' = Brought(i)
      BY <2>2, <1>2 DEF Brought, Physical
    <3> QED
      BY <3>1, <2>1, <2>2, <1>1, <1>2 DEF DeclarationInv, ColumnsApart
  <2>3. CASE i = n + 1
    <3>1. Brought(i)' = {Physical(s, c) : c \in s.schema \ s.keys}
      BY <2>3, <1>2 DEF Brought, Physical
    <3>2. spine.schema \subseteq Existing
      BY <1>1 DEF Existing
    <3>3. ASSUME NEW j \in 1..n, NEW c \in sources[j].schema
          PROVE  Physical(sources[j], c) \in Existing
      <4>1. Physical(ns[sources[j].name], c) = Physical(sources[j], c)
        BY <1>4, NamespaceNames
      <4>2. Physical(ns[sources[j].name], c) \in Existing
        BY <3>3, <1>2 DEF Existing
      <4> QED
        BY <4>1, <4>2
    <3>4. JoinedBefore(i) \subseteq Existing
      BY <3>2, <3>3, <2>3, <1>2 DEF JoinedBefore
    <3> QED
      BY <3>1, <3>4, <2>1, <1>1
  <2> QED
    BY <2>2, <2>3, <1>2
<1> QED
  BY <1>2, <1>3, <1>5, <1>6, <1>7 DEF DeclarationInv

LEMMA OthersKeep ==
  ASSUME DeclarationInv, UNCHANGED joinVars
  PROVE  DeclarationInv'
<1>1. UNCHANGED <<spine, sources, ns, nsOrder, orderly>>
  BY DEF joinVars
<1>2. SpineFirst'
  BY <1>1 DEF DeclarationInv, SpineFirst
<1>3. NamespacesKept'
  BY <1>1 DEF DeclarationInv, NamespacesKept, NamespaceOf, Namespace
<1>4. ASSUME NEW i PROVE Brought(i)' = Brought(i) /\ JoinedBefore(i)' = JoinedBefore(i)
  BY <1>1 DEF Brought, JoinedBefore, Physical
<1>5. ColumnsApart'
  BY <1>1, <1>4 DEF DeclarationInv, ColumnsApart
<1>6. NamesApart'
  BY <1>1 DEF DeclarationInv, NamesApart
<1> QED
  BY <1>1, <1>2, <1>3, <1>5, <1>6 DEF DeclarationInv

LEMMA DeclarationInvariant == Spec => []DeclarationInv
<1>1. DeclarationInv /\ [Next]_vars => DeclarationInv'
  <2> SUFFICES ASSUME DeclarationInv, [Next]_vars PROVE DeclarationInv'
    OBVIOUS
  <2>1. ASSUME NEW call \in SpineCalls, Spine(call) PROVE DeclarationInv'
    BY <2>1, SpineKeeps
  <2>2. ASSUME NEW s \in SourceCalls, Source(s) PROVE DeclarationInv'
    BY <2>2, SourceKeeps
  <2>3. ASSUME NEW call \in LetCalls, Let(call) PROVE DeclarationInv'
    BY <2>3, OthersKeep DEF Let
  <2>4. ASSUME NEW schema \in Outputs \cup {Unset}, Returns(schema) PROVE DeclarationInv'
    BY <2>4, OthersKeep DEF Returns
  <2>5. ASSUME NEW keys \in KeySets, By(keys) PROVE DeclarationInv'
    BY <2>5, OthersKeep DEF By
  <2>6. CASE ChangeFold
    BY <2>6, OthersKeep DEF ChangeFold
  <2>7. CASE UNCHANGED vars
    BY <2>7, OthersKeep DEF vars
  <2> QED
    BY <2>1, <2>2, <2>3, <2>4, <2>5, <2>6, <2>7 DEF Next
<1> QED
  BY InitDeclaration, <1>1, PTL DEF Spec

(* _check_conflicts (view.py:156) does what it is there for: while the spine *)
(* comes first and no name comes twice, whatever the schemas, keys and       *)
(* prefixes, every column a source brings is new to what it is joined to.    *)
THEOREM OrderlyColumnsApart == Spec => []ColumnsApart
<1>1. DeclarationInv => ColumnsApart
  BY DEF DeclarationInv
<1> QED
  BY <1>1, DeclarationInvariant, PTL

-----------------------------------------------------------------------------
(* Grouping parts the rows: each is in a group, and in no second one.        *)
LEMMA GroupsPart ==
  ASSUME NEW frame, NEW keys
  PROVE  /\ \A r \in frame.rows : \E g \in Groups(frame, keys) : r \in g
         /\ \A g, h \in Groups(frame, keys) : g \cap h # {} => g = h
         /\ \A g \in Groups(frame, keys) :
              /\ g \subseteq frame.rows /\ g # {}
              /\ \A p, r \in g : Restrict(p.cells, keys) = Restrict(r.cells, keys)
<1> DEFINE KeysOf(r) == Restrict(r.cells, keys)
           GroupOf(r) == {p \in frame.rows : KeysOf(p) = KeysOf(r)}
<1>1. Groups(frame, keys) = {GroupOf(r) : r \in frame.rows}
  BY DEF Groups
<1> HIDE DEF KeysOf
<1>2. \A r \in frame.rows : r \in GroupOf(r)
  OBVIOUS
<1>3. ASSUME NEW r \in frame.rows, NEW s \in frame.rows, GroupOf(r) \cap GroupOf(s) # {}
      PROVE  GroupOf(r) = GroupOf(s)
  BY <1>3
<1>4. \A g \in Groups(frame, keys) :
        g \subseteq frame.rows /\ g # {} /\ \A p, r \in g : KeysOf(p) = KeysOf(r)
  BY <1>1
<1>5. \A r \in frame.rows : \E g \in Groups(frame, keys) : r \in g
  BY <1>1, <1>2
<1>6. \A g, h \in Groups(frame, keys) : g \cap h # {} => g = h
  BY <1>1, <1>3
<1> QED
  BY <1>4, <1>5, <1>6 DEF KeysOf

(* A frame whose rows have ids of their own. *)
Identified(frame) == \A p, r \in frame.rows : p.id = r.id => p = r

(* compute (fold.py:211) over a fold with a plain sum, the fold every view's *)
(* by() makes: each row that is not null adds to one group and no other,     *)
(* that group has the row's keys, and nothing else is added to any.          *)
THEOREM SumsCountRowsOnce ==
  ASSUME NEW frame, IsFrame(frame), Identified(frame),
         NEW keys, NEW aggs, NEW c \in DOMAIN aggs, NEW column,
         aggs[c] = Agg("sum", column), keys \cap DOMAIN aggs = {},
         NEW f, f = [keys |-> keys, schema |-> Unset, aggs |-> aggs],
         Compute(f, frame) # Raised
  PROVE  /\ \A r \in frame.rows : r.cells[column] # Null =>
              \E g \in Compute(f, frame).rows :
                /\ \A k \in keys : g.cells[k] = r.cells[k]
                /\ \A h \in Compute(f, frame).rows :
                     <<r.id, r.cells[column]>> \in h.cells[c] <=> h = g
         /\ \A h \in Compute(f, frame).rows : \A v \in h.cells[c] :
              \E r \in frame.rows : v = <<r.id, r.cells[column]>> /\ v[2] # Null
<1> DEFINE Row(g) == FoldRow(f, g)
           Adds(g) == {v \in {<<r.id, r.cells[column]>> : r \in g} : v[2] # Null}
           groups == Groups(frame, keys)
<1>1. Compute(f, frame).rows = {Row(g) : g \in groups}
  <2>1. f.keys = keys /\ f.aggs = aggs /\ f.schema = Unset
    OBVIOUS
  <2>2. Compute(f, frame) =
          Frame(keys \cup DOMAIN aggs, {Row(g) : g \in groups})
    BY <2>1 DEF Compute
  <2> QED
    BY <2>2 DEF Frame
<1>2. keys \subseteq frame.columns
  BY DEF Compute
<1>3. ASSUME NEW g PROVE Row(g).cells[c] = Adds(g)
  <2>1. Reduced(aggs[c], g) = Adds(g)
    BY DEF Reduced, Filtered, Value, Agg
  <2> QED
    BY <2>1 DEF FoldRow
<1>4. ASSUME NEW g \in groups, NEW k \in keys, NEW r \in g
      PROVE  Row(g).cells[k] = r.cells[k]
  <2>1. PICK p \in g : p = CHOOSE q \in g : TRUE
    OBVIOUS
  <2>2. Restrict(p.cells, keys) = Restrict(r.cells, keys)
    BY GroupsPart
  <2>3. DOMAIN p.cells = frame.columns /\ DOMAIN r.cells = frame.columns
    BY GroupsPart DEF IsFrame
  <2>4. Restrict(p.cells, keys)[k] = p.cells[k] /\ Restrict(r.cells, keys)[k] = r.cells[k]
    BY <2>3, <1>2 DEF Restrict
  <2> QED
    BY <2>1, <2>2, <2>4 DEF FoldRow
<1>5. ASSUME NEW g \in groups, NEW r \in frame.rows,
             <<r.id, r.cells[column]>> \in Adds(g)
      PROVE  r \in g
  <2>1. PICK p \in g : <<r.id, r.cells[column]>> = <<p.id, p.cells[column]>>
    BY <1>5
  <2>2. p \in frame.rows
    BY GroupsPart
  <2> QED
    BY <2>1, <2>2 DEF Identified
<1>6. ASSUME NEW r \in frame.rows, r.cells[column] # Null
      PROVE  \E g \in Compute(f, frame).rows :
               /\ \A k \in keys : g.cells[k] = r.cells[k]
               /\ \A h \in Compute(f, frame).rows :
                    <<r.id, r.cells[column]>> \in h.cells[c] <=> h = g
  <2>1. PICK g \in groups : r \in g
    BY GroupsPart
  <2>2. <<r.id, r.cells[column]>> \in Adds(g)
    BY <2>1, <1>6
  <2>3. ASSUME NEW h \in groups, <<r.id, r.cells[column]>> \in Adds(h)
        PROVE  h = g
    BY <2>1, <2>3, <1>5, GroupsPart
  <2>4. \A k \in keys : Row(g).cells[k] = r.cells[k]
    BY <2>1, <1>4
  <2> HIDE DEF Row, Adds
  <2>5. \A h \in groups : <<r.id, r.cells[column]>> \in Row(h).cells[c] <=> Row(h) = Row(g)
    BY <1>3, <2>2, <2>3
  <2> QED
    BY <1>1, <2>1, <2>4, <2>5
<1>7. ASSUME NEW h \in Compute(f, frame).rows, NEW v \in h.cells[c]
      PROVE  \E r \in frame.rows : v = <<r.id, r.cells[column]>> /\ v[2] # Null
  <2>1. PICK g \in groups : h = Row(g)
    BY <1>1
  <2>2. v \in Adds(g)
    BY <1>3, <1>7, <2>1
  <2> QED
    BY <2>2, GroupsPart
<1> QED
  BY <1>6, <1>7

LEMMA AppendFacts ==
  ASSUME NEW T, NEW s \in Seq(T), NEW e \in T
  PROVE  /\ Append(s, e) \in Seq(T) /\ Len(Append(s, e)) = Len(s) + 1
         /\ Append(s, e)[Len(s) + 1] = e
         /\ \A i \in 1..Len(s) : Append(s, e)[i] = s[i]
OBVIOUS

\* The id of a stored row, and of the row it is joined with.
LEMMA AppendToOne ==
  ASSUME NEW T, NEW s, s \in Seq(T), NEW n, n = 1, Len(s) = n, NEW e
  PROVE  Append(s, e) = <<s[1], e>>
<1> DEFINE U == T \cup {e}
           p == Append(s, e)
           q == <<s[1], e>>
<1>1. s \in Seq(U) /\ e \in U
  <2>1. DOMAIN s = 1..1 /\ s = [i \in 1..1 |-> s[i]] /\ s[1] \in T
    OBVIOUS
  <2> QED
    BY <2>1
<1>2. q \in Seq(U) /\ Len(q) = 2 /\ q[1] = s[1] /\ q[2] = e
  BY <1>1
<1>3. /\ p \in Seq(U) /\ Len(p) = Len(s) + 1 /\ p[Len(s) + 1] = e
      /\ \A i \in 1..Len(s) : p[i] = s[i]
  <2> HIDE DEF U
  <2>1. s \in Seq(U)
    BY <1>1
  <2>2. e \in U
    BY <1>1
  <2> QED
    BY <2>1, <2>2, AppendFacts
<1> HIDE DEF p, q, U
<1>4. Len(p) = 2 /\ p[1] = s[1] /\ p[2] = e
  BY <1>3
<1>5. Len(p) = Len(q) /\ \A i \in 1..Len(p) : p[i] = q[i]
  BY <1>2, <1>4
<1>6. p = q
  BY <1>2, <1>3, <1>5, SeqEqual
<1> QED
  BY <1>6 DEF p, q

\* The row two joined rows make when no right column needs a suffix.
JoinedRow(columns, left, l, r) ==
  [id |-> Append(l.id, r.id),
   cells |-> [x \in columns |-> IF x \in left.columns THEN l.cells[x] ELSE r.cells[x]]]
JoinedRows(columns, left, right, on) ==
  UNION {{JoinedRow(columns, left, l, r) : r \in Partners(l, right, on)} : l \in left.rows}

(* A join on columns both sides have, whose right side brings only new ones,  *)
(* raises nothing and renames nothing.                                      *)
LEMMA JoinApart ==
  ASSUME NEW left, NEW right, NEW on, left # Raised, right # Raised, on # {},
         {k.left : k \in on} \subseteq left.columns,
         {k.right : k \in on} \subseteq right.columns,
         NEW new, new = right.columns \ {k.right : k \in on},
         new \cap left.columns = {},
         NEW all, all = left.columns \cup new
  PROVE  LeftJoin(left, right, on) = Frame(all, JoinedRows(all, left, right, on))
<1> DEFINE payload == right.columns \ {k.right : k \in on}
           columns == left.columns \cup {Suffixed(left, c) : c \in payload}
           From(x) == CHOOSE c \in payload : Suffixed(left, c) = x
           Pair(l, r) == [id |-> Append(l.id, r.id),
                          cells |-> [x \in columns |-> IF x \in left.columns
                                                       THEN l.cells[x] ELSE r.cells[From(x)]]]
           rows == UNION {{Pair(l, r) : r \in Partners(l, right, on)} : l \in left.rows}
<1>1. \A c \in payload : Suffixed(left, c) = c
  BY DEF Suffixed
<1>2. columns = all
  BY <1>1
<1>3. ASSUME NEW x \in columns, x \notin left.columns PROVE From(x) = x
  <2>1. x \in payload
    BY <1>1, <1>3
  <2> QED
    BY <1>1, <2>1
<1>4. ~ \E c \in payload : c \in left.columns /\ Suffixed(left, c) \in left.columns
  BY <1>1
<1>5. LeftJoin(left, right, on) = Frame(columns, rows)
  BY <1>4 DEF LeftJoin
<1>6. ASSUME NEW l, NEW r PROVE Pair(l, r) = JoinedRow(all, left, l, r)
  <2> HIDE DEF columns, From
  <2> QED
    BY <1>2, <1>3 DEF JoinedRow
<1> HIDE DEF Pair, columns
<1>7. rows = JoinedRows(all, left, right, on)
  <2> DEFINE Was(l) == {Pair(l, r) : r \in Partners(l, right, on)}
             Is(l) == {JoinedRow(all, left, l, r) : r \in Partners(l, right, on)}
  <2>1. \A l : Was(l) = Is(l)
    BY <1>6
  <2> HIDE DEF Was, Is
  <2>2. UNION {Was(l) : l \in left.rows} = UNION {Is(l) : l \in left.rows}
    BY <2>1
  <2> QED
    BY <2>2 DEF Was, Is, JoinedRows
<1> QED
  BY <1>2, <1>5, <1>7

-----------------------------------------------------------------------------
(* Structures.  The stage has a row for each leg and each price of it, and   *)
(* one for a leg without a price.                                           *)
LegRow(l, r) ==
  [id |-> Append(l.id, r.id),
   cells |-> [x \in StructureLeg \cup InstrumentValue \cup {"leg_value"} |->
     IF x = "leg_value"
     THEN Term("*", <<l.cells["quantity"], l.cells["weight"], r.cells["value"]>>)
     ELSE IF x \in StructureLeg THEN l.cells[x] ELSE r.cells[x]]]

PricesOf(values, l) ==
  {v \in values.rows : \A k \in InstrumentKey :
     l.cells[k] # Null /\ v.cells[k] = l.cells[k]}

\* The partners of a leg: its prices, or a row of nulls.
Price(v) == [id |-> v.id, cells |-> Restrict(v.cells, InstrumentValue)]
NoPrice == [id |-> <<>>, cells |-> [c \in InstrumentValue |-> Null]]
PricesOrNone(values, l) ==
  IF PricesOf(values, l) = {} THEN {NoPrice} ELSE {Price(v) : v \in PricesOf(values, l)}

LEMMA SameNames ==
  ASSUME NEW keys
  PROVE  /\ SameName(keys) = {[left |-> k, right |-> k] : k \in keys}
         /\ {k.left : k \in SameName(keys)} = keys
         /\ {k.right : k \in SameName(keys)} = keys
<1>1. SameName(keys) = {[left |-> k, right |-> k] : k \in keys}
  BY DEF SameName
<1>2. \A p \in SameName(keys) : p.left \in keys /\ p.right \in keys
  BY <1>1
<1>3. \A k \in keys : \E p \in SameName(keys) : p.left = k /\ p.right = k
  <2> SUFFICES ASSUME NEW k \in keys
               PROVE  \E p \in SameName(keys) : p.left = k /\ p.right = k
    OBVIOUS
  <2>1. [left |-> k, right |-> k] \in SameName(keys)
    BY <1>1
  <2> QED
    BY <2>1
<1> QED
  BY <1>1, <1>2, <1>3

LEMMA StageRows ==
  ASSUME NEW legs, IsTable(legs, StructureLeg), NEW values, IsTable(values, InstrumentValue)
  PROVE  StructureStage(legs, values) =
           Frame(StructureLeg \cup InstrumentValue \cup {"leg_value"},
                 UNION {{LegRow(l, r) : r \in PricesOrNone(values, l)} : l \in legs.rows})
<1> DEFINE right == Select(values, InstrumentValue)
           on == SameName(InstrumentKey)
           new == {"value", "currency"}
           columns == StructureLeg \cup InstrumentValue
           Row(l, r) == JoinedRow(columns, legs, l, r)
           joined == LeftJoin(legs, right, on)
<1>1. right = Frame(InstrumentValue, {Price(v) : v \in values.rows})
  <2>1. values # Raised /\ values.columns = InstrumentValue
    BY DEF IsTable, Frame, Raised
  <2> QED
    BY <2>1 DEF Select, MapCells, Price
<1>2. /\ legs # Raised /\ right # Raised /\ legs.columns = StructureLeg
      /\ right.columns = InstrumentValue /\ right.rows = {Price(v) : v \in values.rows}
  <2>1. legs # Raised /\ legs.columns = StructureLeg
    BY DEF IsTable, Frame, Raised
  <2> HIDE DEF right
  <2> DEFINE rows == {Price(v) : v \in values.rows}
  <2>2. right = Frame(InstrumentValue, rows)
    BY <1>1
  <2> HIDE DEF rows
  <2>3. right # Raised /\ right.columns = InstrumentValue /\ right.rows = rows
    BY <2>2 DEF Frame, Raised
  <2> QED
    BY <2>1, <2>3 DEF rows
<1>3. {k.left : k \in on} = InstrumentKey /\ {k.right : k \in on} = InstrumentKey
      /\ on = {[left |-> k, right |-> k] : k \in InstrumentKey}
  BY SameNames
<1>4. ASSUME NEW l PROVE Partners(l, right, on) = PricesOrNone(values, l)
  <2>1. ASSUME NEW v \in values.rows
        PROVE  (\A k \in InstrumentKey : Price(v).cells[k] = v.cells[k])
    BY DEF Price, Restrict, InstrumentKey, InstrumentValue
  <2>2. Matches(l, right, on) = {p \in right.rows : \A k \in InstrumentKey :
                                   l.cells[k] # Null /\ l.cells[k] = p.cells[k]}
    BY <1>3 DEF Matches
  <2>3. Matches(l, right, on) = {Price(v) : v \in PricesOf(values, l)}
    BY <2>1, <2>2, <1>2 DEF PricesOf
  <2>4. Matches(l, right, on) = {} <=> PricesOf(values, l) = {}
    BY <2>3
  <2> QED
    BY <2>3, <2>4, <1>2 DEF Partners, PricesOrNone, NoPrice
<1>5. joined = Frame(columns, JoinedRows(columns, legs, right, on))
  <2>1. on # {}
    BY <1>3 DEF InstrumentKey
  <2>2. new = right.columns \ {k.right : k \in on} /\ new \cap legs.columns = {}
    BY <1>2, <1>3 DEF InstrumentKey, InstrumentValue, StructureLeg
  <2>3. legs.columns \cup new = columns
    BY <1>2 DEF InstrumentValue, StructureLeg
  <2>4. /\ {k.left : k \in on} \subseteq legs.columns
        /\ {k.right : k \in on} \subseteq right.columns
    BY <1>2, <1>3 DEF InstrumentKey, InstrumentValue, StructureLeg
  <2>5. columns = legs.columns \cup new
    BY <2>3
  <2>6. legs # Raised /\ right # Raised
    BY <1>2
  <2> HIDE DEF right, on, new, columns
  <2> QED
    BY <2>1, <2>2, <2>4, <2>5, <2>6, JoinApart
<1> DEFINE Valued(c) == [x \in DOMAIN c \cup {"leg_value"} |->
                           IF x = "leg_value"
                           THEN Term("*", <<c["quantity"], c["weight"], c["value"]>>)
                           ELSE c[x]]
           Leg(j) == [id |-> j.id, cells |-> Valued(j.cells)]
<1>6. joined # Raised /\ joined.columns = columns
      /\ joined.rows = UNION {{Row(l, r) : r \in Partners(l, right, on)} : l \in legs.rows}
  BY <1>5 DEF Frame, Raised, JoinedRows
<1>7. StructureStage(legs, values) =
        Frame(columns \cup {"leg_value"}, {Leg(j) : j \in joined.rows})
  BY <1>6 DEF StructureStage, MapCells
<1>8. ASSUME NEW l, NEW r PROVE Leg(Row(l, r)) = LegRow(l, r)
  <2>1. Row(l, r).id = Append(l.id, r.id)
        /\ Row(l, r).cells = [x \in columns |-> IF x \in StructureLeg THEN l.cells[x]
                                                ELSE r.cells[x]]
    BY <1>2 DEF JoinedRow
  <2>2. /\ Row(l, r).cells["quantity"] = l.cells["quantity"]
        /\ Row(l, r).cells["weight"] = l.cells["weight"]
        /\ Row(l, r).cells["value"] = r.cells["value"]
    BY <2>1 DEF StructureLeg, InstrumentValue
  <2>3. "leg_value" \notin columns
    BY DEF StructureLeg, InstrumentValue
  <2> HIDE DEF Row, columns
  <2>4. Valued(Row(l, r).cells) =
          [x \in columns \cup {"leg_value"} |->
             IF x = "leg_value"
             THEN Term("*", <<l.cells["quantity"], l.cells["weight"], r.cells["value"]>>)
             ELSE IF x \in StructureLeg THEN l.cells[x] ELSE r.cells[x]]
    BY <2>1, <2>2
  <2> QED
    BY <2>1, <2>4 DEF LegRow, columns
<1>9. {Leg(j) : j \in joined.rows}
        = UNION {{LegRow(l, r) : r \in PricesOrNone(values, l)} : l \in legs.rows}
  <2> DEFINE rows == UNION {{LegRow(l, r) : r \in PricesOrNone(values, l)} : l \in legs.rows}
  <2>1. \A j \in joined.rows : \E l \in legs.rows : \E r \in PricesOrNone(values, l) :
          j = Row(l, r)
    BY <1>4, <1>6
  <2>2. \A l \in legs.rows : \A r \in PricesOrNone(values, l) : Row(l, r) \in joined.rows
    <3>1. \A l \in legs.rows : \A r \in Partners(l, right, on) : Row(l, r) \in joined.rows
      <4> HIDE DEF Row
      <4> QED
        BY <1>6
    <3> QED
      BY <1>4, <3>1
  <2> HIDE DEF Leg, Row, joined
  <2>3. \A j \in joined.rows : Leg(j) \in rows
    <3> SUFFICES ASSUME NEW j \in joined.rows PROVE Leg(j) \in rows
      OBVIOUS
    <3>0. PICK l \in legs.rows : \E r \in PricesOrNone(values, l) : j = Row(l, r)
      BY <2>1
    <3>1. PICK r \in PricesOrNone(values, l) : j = Row(l, r)
      BY <3>0
    <3>2. LegRow(l, r) \in {LegRow(l, q) : q \in PricesOrNone(values, l)}
      OBVIOUS
    <3> QED
      BY <3>1, <3>2, <1>8
  <2>4. \A x \in rows : \E j \in joined.rows : x = Leg(j)
    <3> SUFFICES ASSUME NEW x \in rows PROVE \E j \in joined.rows : x = Leg(j)
      OBVIOUS
    <3>0. PICK l \in legs.rows : \E r \in PricesOrNone(values, l) : x = LegRow(l, r)
      OBVIOUS
    <3>1. PICK r \in PricesOrNone(values, l) : x = LegRow(l, r)
      BY <3>0
    <3> QED
      BY <3>1, <2>2, <1>8
  <2> HIDE DEF rows
  <2>5. {Leg(j) : j \in joined.rows} = rows
    BY <2>3, <2>4
  <2> QED
    BY <2>5 DEF rows
<1> HIDE DEF Leg, joined
<1> QED
  BY <1>7, <1>9

LEMMA LegRowCells ==
  ASSUME NEW l, NEW r
  PROVE  /\ LegRow(l, r).id = Append(l.id, r.id)
         /\ DOMAIN LegRow(l, r).cells = StructureLeg \cup InstrumentValue \cup {"leg_value"}
         /\ LegRow(l, r).cells["structure_id"] = l.cells["structure_id"]
         /\ LegRow(l, r).cells["leg_value"] =
              Term("*", <<l.cells["quantity"], l.cells["weight"], r.cells["value"]>>)
<1>1. "structure_id" \in StructureLeg /\ "leg_value" \notin StructureLeg
  BY DEF StructureLeg
<1> QED
  BY <1>1 DEF LegRow

LEMMA StageHas ==
  ASSUME NEW legs, IsTable(legs, StructureLeg), NEW values, IsTable(values, InstrumentValue)
  PROVE  /\ \A s \in StructureStage(legs, values).rows : \E l \in legs.rows :
              \E r \in PricesOrNone(values, l) : s = LegRow(l, r)
         /\ \A l \in legs.rows : \A r \in PricesOrNone(values, l) :
              LegRow(l, r) \in StructureStage(legs, values).rows
<1> DEFINE OfLeg(l) == {LegRow(l, r) : r \in PricesOrNone(values, l)}
<1>1. StructureStage(legs, values).rows = UNION {OfLeg(l) : l \in legs.rows}
  BY StageRows DEF Frame
<1>2. \A l : \A r \in PricesOrNone(values, l) : LegRow(l, r) \in OfLeg(l)
  OBVIOUS
<1>3. \A l : \A s \in OfLeg(l) : \E r \in PricesOrNone(values, l) : s = LegRow(l, r)
  OBVIOUS
<1> HIDE DEF OfLeg
<1> QED
  BY <1>1, <1>2, <1>3

\* The stage of a structure, and the row structure_value_fold makes of it.
LegRows(legs, values, id) ==
  {s \in StructureStage(legs, values).rows : s.cells["structure_id"] = id}
LegAdds(legs, values, id) ==
  {<<s.id, s.cells["leg_value"]>> : s \in LegRows(legs, values, id)}

LEMMA StructureRows ==
  ASSUME NEW legs, IsTable(legs, StructureLeg), NEW values, IsTable(values, InstrumentValue)
  PROVE  /\ {s.cells["structure_id"] : s \in StructureValue(legs, values).rows}
              = {s.cells["structure_id"] : s \in StructureStage(legs, values).rows}
         /\ \A s \in StructureValue(legs, values).rows :
              LET adds == LegAdds(legs, values, s.cells["structure_id"])
              IN  s.cells["value"] = IF \E v \in adds : v[2] = Null THEN Null ELSE adds
<1> DEFINE stage == StructureStage(legs, values)
           keys == {"structure_id"}
           agg == Agg("strict_sum", "leg_value")
           aggs == [c \in {"value"} |-> agg]
           f == structure_value_fold
           columns == {"structure_id", "value"}
           all == StructureLeg \cup InstrumentValue \cup {"leg_value"}
           groups == Groups(stage, keys)
           Row(g) == FoldRow(f, g)
           Shown(s) == [id |-> s.id, cells |-> Restrict(s.cells, columns)]
           Adds(g) == {<<s.id, s.cells["leg_value"]>> : s \in g}
<1>1. f.keys = keys /\ f.schema = columns /\ f.aggs = aggs
  <2> DEFINE none == [c \in {} |-> Unset]
  <2>1. NewFold = [keys |-> {}, schema |-> Unset, aggs |-> none]
    BY DEF NewFold
  <2>2. columns \ keys \subseteq DOMAIN aggs /\ DOMAIN aggs \subseteq columns
    OBVIOUS
  <2> HIDE DEF none, keys, aggs, columns
  <2>3. FoldBy(NewFold, keys) = [keys |-> keys, schema |-> Unset, aggs |-> none]
    BY <2>1 DEF FoldBy
  <2>4. ~ReturnsRaises(FoldBy(NewFold, keys), columns, aggs)
    BY <2>2, <2>3 DEF ReturnsRaises
  <2>5. structure_value_fold = [FoldBy(NewFold, keys) EXCEPT !.schema = columns, !.aggs = aggs]
    BY <2>4 DEF FoldReturns, structure_value_fold, keys, columns, aggs
  <2> QED
    BY <2>3, <2>5
<1> HIDE DEF f
<1>2. stage # Raised /\ stage.columns = all
  <2>1. stage = Frame(all, stage.rows)
    BY StageRows DEF Frame
  <2> HIDE DEF stage, all
  <2> QED
    BY <2>1 DEF Frame, Raised
<1>3. AggColumns(agg) = {"leg_value"}
  BY DEF AggColumns, Agg
<1> DEFINE grouped == Frame(keys \cup DOMAIN aggs, {Row(g) : g \in groups})
<1>4. StructureValue(legs, values) = IF f.schema = Unset THEN grouped
                                     ELSE Select(grouped, f.schema)
  <2>1. f.keys = keys /\ f.aggs = aggs
    BY <1>1
  <2>2. ~ \/ f.keys = {} \/ stage = Raised
          \/ ~(f.keys \subseteq stage.columns)
          \/ f.keys \cap DOMAIN f.aggs # {}
          \/ \E c \in DOMAIN f.aggs : ~(AggColumns(f.aggs[c]) \subseteq stage.columns)
    <3>1. f.keys # {} /\ f.keys \subseteq stage.columns
      BY <1>1, <1>2 DEF StructureLeg
    <3>2. DOMAIN f.aggs = {"value"} /\ f.aggs["value"] = agg
      BY <1>1
    <3>3. f.keys \cap DOMAIN f.aggs = {}
      BY <1>1
    <3> HIDE DEF f, stage, agg
    <3> QED
      BY <1>2, <1>3, <3>1, <3>2, <3>3
  <2> HIDE DEF f, stage
  <2>3. StructureValue(legs, values) = Compute(f, stage)
    BY DEF StructureValue, stage, f
  <2> QED
    BY <2>1, <2>2, <2>3 DEF Compute
<1>5. ASSUME NEW g
      PROVE  /\ DOMAIN Row(g).cells = columns
             /\ Row(g).cells["structure_id"] = (CHOOSE r \in g : TRUE).cells["structure_id"]
             /\ Row(g).cells["value"] = IF \E v \in Adds(g) : v[2] = Null
                                        THEN Null ELSE Adds(g)
  <2> DEFINE sum == {v \in Adds(g) : v[2] # Null}
  <2>1. Reduced(agg, g) = IF sum = Adds(g) THEN sum ELSE Null
    BY DEF Reduced, Filtered, Value, Agg
  <2>2. Reduced(agg, g) = IF \E v \in Adds(g) : v[2] = Null THEN Null ELSE Adds(g)
    <3> HIDE DEF Adds
    <3> QED
      BY <2>1
  <2>3. f.keys = keys /\ f.aggs = aggs /\ DOMAIN aggs = {"value"} /\ aggs["value"] = agg
    BY <1>1
  <2> HIDE DEF f, agg, Adds
  <2> QED
    BY <2>2, <2>3 DEF FoldRow
<1>6. \/ StructureValue(legs, values).rows = {Row(g) : g \in groups}
      \/ StructureValue(legs, values).rows = {Shown(s) : s \in {Row(g) : g \in groups}}
  <2> DEFINE rows == {Row(g) : g \in groups}
  <2>1. keys \cup DOMAIN aggs = columns
    OBVIOUS
  <2> HIDE DEF rows, columns
  <2>2. grouped.rows = rows /\ grouped.columns = columns /\ grouped # Raised
    BY <2>1 DEF Frame, Raised, rows
  <2> HIDE DEF grouped
  <2>3. Select(grouped, columns).rows = {Shown(s) : s \in rows}
    BY <2>2 DEF Select, MapCells, Frame
  <2>4. f.schema = columns
    BY <1>1 DEF columns
  <2> HIDE DEF f, Shown
  <2> QED
    BY <1>4, <2>2, <2>3, <2>4 DEF rows
<1>7. \A s \in StructureValue(legs, values).rows : \E g \in groups :
        \A c \in columns : s.cells[c] = Row(g).cells[c]
  <2>1. ASSUME NEW g, NEW c \in columns PROVE Shown(Row(g)).cells[c] = Row(g).cells[c]
    <3> HIDE DEF Row
    <3> QED
      BY DEF Restrict
  <2> HIDE DEF Row, Shown, groups, columns
  <2> QED
    BY <1>6, <2>1
<1>8. \A g \in groups : \E s \in StructureValue(legs, values).rows :
        \A c \in columns : s.cells[c] = Row(g).cells[c]
  <2>1. ASSUME NEW g, NEW c \in columns PROVE Shown(Row(g)).cells[c] = Row(g).cells[c]
    <3> HIDE DEF Row
    <3> QED
      BY DEF Restrict
  <2> HIDE DEF Row, Shown, groups, columns
  <2> QED
    BY <1>6, <2>1
<1>9. \A g \in groups : /\ \A r \in g : g = LegRows(legs, values, r.cells["structure_id"])
                        /\ g # {} /\ g \subseteq stage.rows
  <2>1. \A r \in stage.rows : DOMAIN r.cells = all
    <3> SUFFICES ASSUME NEW s \in stage.rows PROVE DOMAIN s.cells = all
      OBVIOUS
    <3>1. PICK l \in legs.rows : \E r \in PricesOrNone(values, l) : s = LegRow(l, r)
      BY StageHas
    <3> QED
      BY <3>1, LegRowCells
  <2>2. \A p, r \in stage.rows : Restrict(p.cells, keys) = Restrict(r.cells, keys)
          <=> p.cells["structure_id"] = r.cells["structure_id"]
    BY <2>1 DEF Restrict, StructureLeg
  <2>3. groups = {{p \in stage.rows : Restrict(p.cells, keys) = Restrict(r.cells, keys)} :
                    r \in stage.rows}
    BY DEF Groups
  <2>4. \A r \in stage.rows : 
          {p \in stage.rows : Restrict(p.cells, keys) = Restrict(r.cells, keys)}
            = LegRows(legs, values, r.cells["structure_id"])
    <3> HIDE DEF keys
    <3> QED
      BY <2>2 DEF LegRows
  <2>5. groups = {LegRows(legs, values, r.cells["structure_id"]) : r \in stage.rows}
    <3> HIDE DEF keys, groups, stage
    <3> QED
      BY <2>3, <2>4
  <2> HIDE DEF groups
  <2> QED
    BY <2>5 DEF LegRows
<1>10. \A r \in stage.rows : \E g \in groups : r \in g
  BY GroupsPart
<1> HIDE DEF stage, groups, Row, columns
<1>11. \A g \in groups : \E r \in g : Row(g).cells["structure_id"] = r.cells["structure_id"]
  <2> SUFFICES ASSUME NEW g \in groups
               PROVE  \E r \in g : Row(g).cells["structure_id"] = r.cells["structure_id"]
    OBVIOUS
  <2>1. (CHOOSE r \in g : TRUE) \in g
    BY <1>9
  <2> QED
    BY <1>5, <2>1
<1>12. "structure_id" \in columns /\ "value" \in columns
  BY DEF columns
<1>13. {s.cells["structure_id"] : s \in StructureValue(legs, values).rows}
         = {s.cells["structure_id"] : s \in stage.rows}
  <2>1. \A s \in StructureValue(legs, values).rows : \E r \in stage.rows :
          s.cells["structure_id"] = r.cells["structure_id"]
    BY <1>7, <1>9, <1>11, <1>12
  <2>2. ASSUME NEW r \in stage.rows
        PROVE  \E s \in StructureValue(legs, values).rows :
                 s.cells["structure_id"] = r.cells["structure_id"]
    <3>1. PICK g \in groups : r \in g
      BY <1>10
    <3>2. PICK p \in g : Row(g).cells["structure_id"] = p.cells["structure_id"]
      BY <1>11
    <3>3. g = LegRows(legs, values, p.cells["structure_id"])
      BY <1>9
    <3>4. r.cells["structure_id"] = p.cells["structure_id"]
      BY <3>1, <3>3 DEF LegRows
    <3>5. PICK s \in StructureValue(legs, values).rows :
            \A c \in columns : s.cells[c] = Row(g).cells[c]
      BY <1>8
    <3> QED
      BY <1>12, <3>2, <3>4, <3>5
  <2> QED
    BY <2>1, <2>2
<1>14. ASSUME NEW s \in StructureValue(legs, values).rows,
              NEW adds, adds = LegAdds(legs, values, s.cells["structure_id"])
       PROVE  s.cells["value"] = IF \E v \in adds : v[2] = Null THEN Null ELSE adds
  <2>1. PICK g \in groups : \A c \in columns : s.cells[c] = Row(g).cells[c]
    BY <1>7
  <2>2. PICK p \in g : Row(g).cells["structure_id"] = p.cells["structure_id"]
    BY <1>11
  <2>3. g = LegRows(legs, values, s.cells["structure_id"])
    BY <1>9, <1>12, <2>1, <2>2
  <2>4. Adds(g) = adds
    BY <1>14, <2>3 DEF LegAdds
  <2>5. Row(g).cells["value"] = IF \E v \in Adds(g) : v[2] = Null THEN Null ELSE Adds(g)
    BY <1>5
  <2> QED
    BY <1>12, <2>1, <2>4, <2>5
<1> QED
  BY <1>13, <1>14 DEF stage

(* "Sum a column, returning null if any contributing row is null"            *)
(* (fold.py:125): for all legs and prices, a structure has a value exactly   *)
(* when each of its legs has one, and then it is the sum of every leg once.  *)
THEOREM UnpricedStructures == Spec => []UnpricedHasNoValue
<1>1. UnpricedHasNoValue
  <2> SUFFICES ASSUME NEW legs \in Legs,
                      NEW values \in {deal.frames[InstrumentValue] : deal \in Deals},
                      UniqueOn(values, InstrumentKey)
               PROVE
        LET result == StructureValue(legs, values)
            PriceOf(l) == PricesOf(values, l)
            Priced(l) == \E v \in PriceOf(l) :
                           Null \notin {l.cells["quantity"], l.cells["weight"], v.cells["value"]}
            LegsOf(id) == {l \in legs.rows : l.cells["structure_id"] = id}
        IN    /\ {s.cells["structure_id"] : s \in result.rows}
                   = {l.cells["structure_id"] : l \in legs.rows}
              /\ \A s \in result.rows :
                   LET mine == LegsOf(s.cells["structure_id"])
                   IN  s.cells["value"] =
                         IF \E l \in mine : ~Priced(l) THEN Null
                         ELSE UNION {{<<<<Origin(l), v.id>>,
                                        <<"*", <<l.cells["quantity"], l.cells["weight"],
                                                 v.cells["value"]>>>>>> : v \in PriceOf(l)} :
                                       l \in mine}
    BY DEF UnpricedHasNoValue, PricesOf
  <2> DEFINE stage == StructureStage(legs, values)
             result == StructureValue(legs, values)
             Product(l, v) == <<"*", <<l.cells["quantity"], l.cells["weight"],
                                       v.cells["value"]>>>>
             NoNull(l, v) ==
               Null \notin {l.cells["quantity"], l.cells["weight"], v.cells["value"]}
             Priced(l) == \E v \in PricesOf(values, l) : NoNull(l, v)
             LegsOf(id) == {l \in legs.rows : l.cells["structure_id"] = id}
             AddsOf(l) == {<<<<Origin(l), v.id>>, Product(l, v)>> : v \in PricesOf(values, l)}
  <2>1. /\ IsTable(legs, StructureLeg) /\ IsTable(values, InstrumentValue)
        /\ \A l \in legs.rows : \A v \in values.rows : Null # Product(l, v)
    BY PositionAssumption
  <2>2. \A l : PricesOf(values, l) \subseteq values.rows
    BY DEF PricesOf
  \* What a leg adds: its one price's product, or null.
  <2>3. ASSUME NEW l \in legs.rows, NEW v \in PricesOf(values, l)
        PROVE  /\ LegRow(l, Price(v)) \in stage.rows
               /\ LegRow(l, Price(v)).id = <<Origin(l), v.id>>
               /\ LegRow(l, Price(v)).cells["leg_value"] =
                    IF NoNull(l, v) THEN Product(l, v) ELSE Null
    <3>1. Price(v) \in PricesOrNone(values, l)
      <4>1. PricesOf(values, l) # {}
        OBVIOUS
      <4> QED
        BY <4>1 DEF PricesOrNone
    <3>2. LegRow(l, Price(v)) \in stage.rows
      BY <2>1, <3>1, StageHas
    <3>3. Price(v).id = v.id /\ Price(v).cells["value"] = v.cells["value"]
      BY DEF Price, Restrict, InstrumentValue
    <3>5. Append(l.id, v.id) = <<Origin(l), v.id>>
      <4>1. l.id \in Seq(Nat) /\ Len(l.id) = 1
        BY <2>1 DEF IsTable
      <4>2. Append(l.id, v.id) = <<l.id[1], v.id>>
        BY <4>1, AppendToOne
      <4> QED
        BY <4>2 DEF Origin
    <3>6. LegRow(l, Price(v)).id = <<Origin(l), v.id>>
      BY <3>3, <3>5, LegRowCells
    <3>7. Term("*", <<l.cells["quantity"], l.cells["weight"], v.cells["value"]>>)
            = IF NoNull(l, v) THEN Product(l, v) ELSE Null
      BY DEF Term
    <3>8. LegRow(l, Price(v)).cells["leg_value"] =
            Term("*", <<l.cells["quantity"], l.cells["weight"], v.cells["value"]>>)
      BY <3>3, LegRowCells
    <3> QED
      BY <3>2, <3>6, <3>7, <3>8
  <2>4. ASSUME NEW l \in legs.rows, PricesOf(values, l) = {}
        PROVE  /\ LegRow(l, NoPrice) \in stage.rows
               /\ LegRow(l, NoPrice).cells["leg_value"] = Null
    <3>1. NoPrice \in PricesOrNone(values, l)
      BY <2>4 DEF PricesOrNone
    <3>2. LegRow(l, NoPrice) \in stage.rows
      BY <2>1, <3>1, StageHas
    <3>3. NoPrice.cells["value"] = Null
      BY DEF NoPrice, InstrumentValue
    <3>4. Term("*", <<l.cells["quantity"], l.cells["weight"], Null>>) = Null
      BY DEF Term
    <3> QED
      BY <3>2, <3>3, <3>4, LegRowCells
  <2>5. ASSUME NEW l \in legs.rows, NEW v \in PricesOf(values, l), NEW w \in PricesOf(values, l)
        PROVE  v = w
    <3>1. v \in values.rows /\ w \in values.rows
          /\ \A k \in InstrumentKey : v.cells[k] = w.cells[k]
      BY DEF PricesOf
    <3> QED
      BY <3>1 DEF UniqueOn
  <2>6. ASSUME NEW s \in stage.rows
        PROVE  \E l \in legs.rows :
                 /\ s.cells["structure_id"] = l.cells["structure_id"]
                 /\ \/ \E v \in PricesOf(values, l) : s = LegRow(l, Price(v))
                    \/ PricesOf(values, l) = {} /\ s = LegRow(l, NoPrice)
    <3>1. PICK l \in legs.rows : \E r \in PricesOrNone(values, l) : s = LegRow(l, r)
      BY <2>1, StageHas
    <3>2. PICK r \in PricesOrNone(values, l) : s = LegRow(l, r)
      BY <3>1
    <3>3. s.cells["structure_id"] = l.cells["structure_id"]
      BY <3>2, LegRowCells
    <3>4. \/ \E v \in PricesOf(values, l) : r = Price(v)
          \/ PricesOf(values, l) = {} /\ r = NoPrice
      BY DEF PricesOrNone
    <3> QED
      BY <3>2, <3>3, <3>4
  <2>7. ASSUME NEW l \in legs.rows
        PROVE  \E s \in stage.rows : /\ s.cells["structure_id"] = l.cells["structure_id"]
                                     /\ ~Priced(l) => s.cells["leg_value"] = Null
    <3>1. CASE PricesOf(values, l) = {}
      BY <2>4, <3>1, LegRowCells
    <3>2. CASE PricesOf(values, l) # {}
      <4>1. PICK v \in PricesOf(values, l) : TRUE
        BY <3>2
      <4>2. LegRow(l, Price(v)).cells["structure_id"] = l.cells["structure_id"]
        BY LegRowCells
      <4>3. ~Priced(l) => ~NoNull(l, v)
        OBVIOUS
      <4> HIDE DEF Priced, NoNull
      <4> QED
        BY <2>3, <4>2, <4>3
    <3> QED
      BY <3>1, <3>2
  <2> HIDE DEF Product, NoNull, stage, result
  <2>8. {s.cells["structure_id"] : s \in result.rows}
          = {l.cells["structure_id"] : l \in legs.rows}
    <3>1. {s.cells["structure_id"] : s \in result.rows}
            = {s.cells["structure_id"] : s \in stage.rows}
      BY <2>1, StructureRows DEF stage, result
    <3>2. {s.cells["structure_id"] : s \in stage.rows}
            = {l.cells["structure_id"] : l \in legs.rows}
      BY <2>6, <2>7
    <3> QED
      BY <3>1, <3>2
  <2>9. ASSUME NEW s \in result.rows, NEW mine, mine = LegsOf(s.cells["structure_id"])
        PROVE  s.cells["value"] = IF \E l \in mine : ~Priced(l) THEN Null
                                  ELSE UNION {AddsOf(l) : l \in mine}
    <3> DEFINE id == s.cells["structure_id"]
               adds == LegAdds(legs, values, id)
    <3>1. s.cells["value"] = IF \E v \in adds : v[2] = Null THEN Null ELSE adds
      BY <2>1, StructureRows DEF result
    <3>2. adds = {<<r.id, r.cells["leg_value"]>> : r \in
                    {q \in stage.rows : q.cells["structure_id"] = id}}
      BY DEF LegAdds, LegRows, stage
    <3>3. CASE \E l \in mine : ~Priced(l)
      <4>1. PICK l \in mine : ~Priced(l)
        BY <3>3
      <4>2. l \in legs.rows /\ l.cells["structure_id"] = id
        BY <2>9
      <4>3. PICK r \in stage.rows : /\ r.cells["structure_id"] = id
                                    /\ r.cells["leg_value"] = Null
        BY <2>7, <4>1, <4>2
      <4>4. <<r.id, r.cells["leg_value"]>> \in adds
        BY <3>2, <4>3
      <4>5. \E v \in adds : v[2] = Null
        BY <4>3, <4>4
      <4> HIDE DEF adds
      <4> QED
        BY <3>1, <3>3, <4>5
    <3>4. CASE \A l \in mine : Priced(l)
      <4>1. ASSUME NEW l \in mine, NEW v \in PricesOf(values, l)
            PROVE  /\ l \in legs.rows /\ l.cells["structure_id"] = id
                   /\ LegRow(l, Price(v)).cells["leg_value"] = Product(l, v)
                   /\ Product(l, v) # Null
        <5>1. l \in legs.rows /\ l.cells["structure_id"] = id
          BY <2>9
        <5>2. PICK w \in PricesOf(values, l) : NoNull(l, w)
          BY <3>4
        <5>3. w = v
          BY <2>5, <5>1
        <5> QED
          BY <2>1, <2>2, <2>3, <5>1, <5>2, <5>3 DEF Product
      <4>2. ASSUME NEW x \in adds
            PROVE  x[2] # Null /\ \E l \in mine : x \in AddsOf(l)
        <5>1. PICK r \in stage.rows : x = <<r.id, r.cells["leg_value"]>>
                                      /\ r.cells["structure_id"] = id
          BY <3>2
        <5>2. PICK l \in legs.rows :
                /\ r.cells["structure_id"] = l.cells["structure_id"]
                /\ \/ \E v \in PricesOf(values, l) : r = LegRow(l, Price(v))
                   \/ PricesOf(values, l) = {} /\ r = LegRow(l, NoPrice)
          BY <2>6
        <5>3. l \in mine
          BY <2>9, <5>1, <5>2
        <5>4. PricesOf(values, l) # {}
          BY <3>4, <5>3
        <5>5. PICK v \in PricesOf(values, l) : r = LegRow(l, Price(v))
          BY <5>2, <5>4
        <5>6. x = <<<<Origin(l), v.id>>, Product(l, v)>> /\ Product(l, v) # Null
          BY <2>3, <4>1, <5>1, <5>3, <5>5
        <5> QED
          BY <5>3, <5>6
      <4>3. ASSUME NEW l \in mine, NEW x \in AddsOf(l) PROVE x \in adds
        <5>1. PICK v \in PricesOf(values, l) : x = <<<<Origin(l), v.id>>, Product(l, v)>>
          OBVIOUS
        <5> DEFINE r == LegRow(l, Price(v))
        <5>2. r \in stage.rows /\ r.cells["structure_id"] = id
              /\ r.id = <<Origin(l), v.id>> /\ r.cells["leg_value"] = Product(l, v)
          BY <2>3, <4>1, LegRowCells
        <5> HIDE DEF r
        <5> QED
          BY <3>2, <5>1, <5>2
      <4> HIDE DEF adds, AddsOf
      <4>4. adds = UNION {AddsOf(l) : l \in mine}
        BY <4>2, <4>3
      <4> QED
        BY <3>1, <3>4, <4>2, <4>4
    <3> QED
      BY <3>3, <3>4
  <2> QED
    BY <2>8, <2>9 DEF Product, NoNull, result
<1> QED
  BY <1>1, PTL

-----------------------------------------------------------------------------
(* Folds over sequences.  A fold is computed by a function on sets of        *)
(* indices; on the first k indices it has folded the first k elements.       *)
LEMMA Induction ==
  ASSUME NEW N, N \subseteq Nat, 0 \in N, \A n \in N : n + 1 \in N
  PROVE  N = Nat
<1> DEFINE T == Nat \ N
           R == {p \in Nat \X Nat : p[1] < p[2]}
<1>1. IsWellFoundedOn(R, Nat)
  BY NatLessThanWellFounded DEF OpToRel
<1> HIDE DEF R
<1>2. T # {} => \E n \in T : \A m \in T : <<m, n>> \notin R
  BY <1>1, WFMin
<1>3. \A m, n \in Nat : <<m, n>> \notin R => ~(m < n)
  BY DEF R
<1>4. ASSUME NEW n \in T, \A m \in T : <<m, n>> \notin R PROVE FALSE
  <2>1. n - 1 \in Nat /\ n - 1 + 1 = n /\ n - 1 < n
    OBVIOUS
  <2>2. n - 1 \notin T
    BY <1>3, <1>4, <2>1
  <2> QED
    BY <2>1, <2>2
<1> QED
  BY <1>2, <1>4

LEMMA InitialIndices ==
  /\ 1..0 = {}
  /\ \A n \in Nat :
       /\ 1..(n + 1) \in SUBSET (1..(n + 1)) /\ 1..n \in SUBSET (1..(n + 1))
       /\ 1..(n + 1) # {} /\ Max(1..(n + 1)) = n + 1 /\ (1..(n + 1)) \ {n + 1} = 1..n
       /\ \A S \in SUBSET (1..(n + 1)) :
            /\ n + 1 \in S => Max(S) = n + 1
            /\ S \ {n + 1} \in SUBSET (1..n)
            /\ n + 1 \notin S => S \ {Max(S)} \in SUBSET (1..n) /\ S \in SUBSET (1..n)
<1>1. 1..0 = {}
  OBVIOUS
<1>2. ASSUME NEW n \in Nat, NEW S \in SUBSET (1..(n + 1)), n + 1 \in S
      PROVE  Max(S) = n + 1
  <2>1. \A y \in S : n + 1 >= y
    OBVIOUS
  <2>2. \A x \in S : (\A y \in S : x >= y) => x = n + 1
    <3> SUFFICES ASSUME NEW x \in S, \A y \in S : x >= y PROVE x = n + 1
      OBVIOUS
    <3>1. x >= n + 1 /\ n + 1 >= x /\ x \in Nat
      BY <1>2, <2>1
    <3> QED
      BY <3>1
  <2> QED
    BY <1>2, <2>1, <2>2 DEF Max
<1>3. \A n \in Nat : 1..(n + 1) # {} /\ (1..(n + 1)) \ {n + 1} = 1..n
                     /\ n + 1 \in 1..(n + 1) /\ 1..n \subseteq 1..(n + 1)
  OBVIOUS
<1>4. ASSUME NEW n \in Nat, NEW S \in SUBSET (1..(n + 1))
      PROVE  /\ S \ {n + 1} \in SUBSET (1..n)
             /\ n + 1 \notin S => S \ {Max(S)} \in SUBSET (1..n) /\ S \in SUBSET (1..n)
  <2>1. \A x \in S : x # n + 1 => x \in 1..n
    OBVIOUS
  <2> QED
    BY <2>1
<1>5. \A n \in Nat : Max(1..(n + 1)) = n + 1
  BY <1>2, <1>3
<1> QED
  BY <1>1, <1>2, <1>3, <1>4, <1>5

(* The joined frames of a view, one for each source joined so far.           *)
JoinOne(deal, left, s) ==
  IF s.name \notin deal.given THEN Raised
  ELSE LeftJoin(left, Prefixed(FrameOf(deal, s.name), s), SameName(s.keys))

LEMMA JoinedIsChain ==
  ASSUME NEW deal, sources \in Seq(SourceCalls)
  PROVE  \E J : /\ J[0] = deal.spine
                /\ \A k \in 0..(Len(sources) - 1) :
                     J[k + 1] = JoinOne(deal, J[k], sources[k + 1])
                /\ Joined(deal) = J[Len(sources)]
<1> DEFINE Iter(n, it) ==
             it = [S \in SUBSET (1..n) |->
                     IF S = {} THEN deal.spine
                     ELSE JoinOne(deal, it[S \ {Max(S)}], sources[Max(S)])]
           N == {n \in Nat : \E it : Iter(n, it)}
<1>1. 0 \in N
  <2>1. Iter(0, [S \in SUBSET (1..0) |-> deal.spine])
    BY InitialIndices
  <2> QED
    BY <2>1
<1>2. ASSUME NEW n \in N PROVE n + 1 \in N
  <2>1. PICK it : Iter(n, it)
    OBVIOUS
  <2> DEFINE more == [S \in SUBSET (1..(n + 1)) |->
                        IF n + 1 \in S
                        THEN JoinOne(deal, it[S \ {n + 1}], sources[n + 1])
                        ELSE it[S]]
  <2>2. ASSUME NEW S \in SUBSET (1..(n + 1))
        PROVE  more[S] = IF S = {} THEN deal.spine
                         ELSE JoinOne(deal, more[S \ {Max(S)}], sources[Max(S)])
    <3>1. CASE n + 1 \in S
      <4>1. Max(S) = n + 1 /\ S # {}
        BY <3>1, InitialIndices
      <4>2. S \ {n + 1} \in SUBSET (1..(n + 1)) /\ n + 1 \notin S \ {n + 1}
        OBVIOUS
      <4>3. more[S \ {n + 1}] = it[S \ {n + 1}]
        BY <4>2
      <4> QED
        BY <3>1, <4>1, <4>3
    <3>2. CASE n + 1 \notin S
      <4>1. S \ {Max(S)} \in SUBSET (1..n) /\ S \in SUBSET (1..n)
        BY <3>2, InitialIndices
      <4>2. S \ {Max(S)} \in SUBSET (1..(n + 1)) /\ n + 1 \notin S \ {Max(S)}
        BY <3>2
      <4>3. more[S \ {Max(S)}] = it[S \ {Max(S)}] /\ more[S] = it[S]
        BY <3>2, <4>2
      <4>4. it[S] = IF S = {} THEN deal.spine
                    ELSE JoinOne(deal, it[S \ {Max(S)}], sources[Max(S)])
        BY <2>1, <4>1
      <4> QED
        BY <4>3, <4>4
    <3> QED
      BY <3>1, <3>2
  <2>3. Iter(n + 1, more)
    <3> HIDE DEF more
    <3>1. more = [S \in SUBSET (1..(n + 1)) |-> more[S]]
      BY DEF more
    <3> QED
      BY <2>2, <3>1
  <2> HIDE DEF Iter, more
  <2> QED
    BY <2>3
<1>3. N = Nat
  <2> HIDE DEF N
  <2>1. N \subseteq Nat
    BY DEF N
  <2> QED
    BY <1>1, <1>2, <2>1, Induction
<1> DEFINE n == Len(sources)
           it == CHOOSE f : Iter(n, f)
<1>4. n \in Nat /\ DOMAIN sources = 1..n
  OBVIOUS
<1>5. Iter(n, it)
  <2> HIDE DEF Iter
  <2>1. \E f : Iter(n, f)
    BY <1>3, <1>4
  <2> QED
    BY <2>1
<1>6. Joined(deal) = it[1..n]
  <2>1. Joined(deal) =
          (CHOOSE f : f = [S \in SUBSET (DOMAIN sources) |->
                     IF S = {} THEN deal.spine
                     ELSE JoinOne(deal, f[S \ {Max(S)}], sources[Max(S)])])[DOMAIN sources]
    BY DEF Joined, JoinOne, FoldLeft, MapThenFoldSet
  <2> HIDE DEF n
  <2> QED
    BY <2>1, <1>4
<1> DEFINE J == [k \in 0..n |-> it[1..k]]
<1> HIDE DEF it
<1>7. it[{}] = deal.spine
  BY <1>4, <1>5
<1>8. ASSUME NEW k \in 0..(n - 1)
      PROVE  it[1..(k + 1)] = JoinOne(deal, it[1..k], sources[k + 1])
  <2>1. k \in Nat /\ 1..(k + 1) \in SUBSET (1..n)
    BY <1>4
  <2>2. 1..(k + 1) # {} /\ Max(1..(k + 1)) = k + 1 /\ (1..(k + 1)) \ {k + 1} = 1..k
    BY <2>1, InitialIndices
  <2>3. \A S \in SUBSET (1..n) : it[S] = IF S = {} THEN deal.spine
                     ELSE JoinOne(deal, it[S \ {Max(S)}], sources[Max(S)])
    BY <1>5
  <2> QED
    BY <2>1, <2>2, <2>3
<1>9. J[0] = deal.spine /\ J[n] = Joined(deal)
  BY <1>4, <1>6, <1>7, InitialIndices
<1>10. \A k \in 0..(n - 1) : J[k + 1] = JoinOne(deal, J[k], sources[k + 1])
  BY <1>4, <1>8
<1> QED
  BY <1>9, <1>10

-----------------------------------------------------------------------------
(* Joins in order.  Right(deal, i) is what the i-th source is joined with.   *)
Right(deal, i) == Prefixed(FrameOf(deal, sources[i].name), sources[i])

LEMMA FrameOfSource ==
  ASSUME DeclarationInv, orderly, NEW deal \in Deals, NEW i \in DOMAIN sources
  PROVE  /\ FrameOf(deal, sources[i].name) = deal.frames[sources[i].schema]
         /\ IsTable(FrameOf(deal, sources[i].name), sources[i].schema)
         /\ sources[i] \in SourceCalls /\ sources[i].keys \subseteq sources[i].schema
<1> DEFINE I == {j \in 1..Len(sources) : sources[j].name = sources[i].name}
<1>1. DOMAIN sources = 1..Len(sources) /\ Len(sources) \in Nat /\ sources[i] \in SourceCalls
  BY DEF DeclarationInv
<1>2. I = {i}
  BY <1>1 DEF DeclarationInv, NamesApart
<1>3. Max(I) = i
  <2>1. i \in I /\ \A x \in I : x = i
    BY <1>2
  <2>2. i >= i
    BY <1>1
  <2> HIDE DEF I
  <2> QED
    BY <2>1, <2>2 DEF Max
<1>4. SelectLastInSeq(sources, LAMBDA s : s.name = sources[i].name) = i
  BY <1>2, <1>3 DEF SelectLastInSeq
<1>5. FrameOf(deal, sources[i].name) = deal.frames[sources[i].schema]
  BY <1>4 DEF FrameOf
<1> QED
  BY <1>1, <1>5, PositionAssumption

LEMMA RightIsPrefixed ==
  ASSUME DeclarationInv, orderly, NEW deal \in Deals, NEW i \in DOMAIN sources,
         Right(deal, i) # Raised,
         NEW s, s = sources[i], NEW f, f = FrameOf(deal, sources[i].name)
  PROVE  /\ Right(deal, i).columns = {Physical(s, c) : c \in s.schema}
         /\ \A c, d \in s.schema : Physical(s, c) = Physical(s, d) => c = d
         /\ \A q \in Right(deal, i).rows :
              /\ DOMAIN q.cells = Right(deal, i).columns
              /\ \E r \in f.rows : /\ q.id = r.id
                                   /\ \A c \in s.schema : q.cells[Physical(s, c)] = r.cells[c]
         /\ \A r \in f.rows : \E q \in Right(deal, i).rows : q.id = r.id
<1> DEFINE Old(x) == CHOOSE c \in f.columns : Physical(s, c) = x
           Cells(cells) == [x \in {Physical(s, c) : c \in DOMAIN cells} |-> cells[Old(x)]]
           Row(r) == [id |-> r.id, cells |-> Cells(r.cells)]
           columns == {Physical(s, c) : c \in f.columns}
<1>1. IsTable(f, s.schema) /\ f.columns = s.schema
  BY FrameOfSource DEF IsTable, Frame
<1>2. Right(deal, i) = Prefixed(f, s)
  BY DEF Right
<1>3. \A c, d \in f.columns : Physical(s, c) = Physical(s, d) => c = d
  BY <1>2 DEF Prefixed
<1>4. Prefixed(f, s) = Frame(columns, {Row(r) : r \in f.rows})
  BY <1>3 DEF Prefixed, MapCells
<1>5. ASSUME NEW r \in f.rows
      PROVE  /\ Row(r).id = r.id /\ DOMAIN Row(r).cells = columns
             /\ \A c \in f.columns : Row(r).cells[Physical(s, c)] = r.cells[c]
  <2>1. DOMAIN r.cells = f.columns
    BY <1>1 DEF IsTable, IsFrame
  <2>2. Row(r).id = r.id /\ Row(r).cells = [x \in columns |-> r.cells[Old(x)]]
    BY <2>1
  <2>3. \A c \in f.columns : Old(Physical(s, c)) = c
    BY <1>3
  <2> HIDE DEF Row, Old
  <2> QED
    BY <2>2, <2>3
<1>6. /\ Right(deal, i).columns = columns
      /\ Right(deal, i).rows = {Row(r) : r \in f.rows}
  <2> HIDE DEF Row, columns
  <2> QED
    BY <1>2, <1>4 DEF Frame
<1> HIDE DEF Row, columns
<1>7. \A q \in Right(deal, i).rows :
        /\ DOMAIN q.cells = Right(deal, i).columns
        /\ \E r \in f.rows : /\ q.id = r.id
                             /\ \A c \in s.schema : q.cells[Physical(s, c)] = r.cells[c]
  BY <1>1, <1>5, <1>6
<1>8. \A r \in f.rows : \E q \in Right(deal, i).rows : q.id = r.id
  BY <1>5, <1>6
<1>9. Right(deal, i).columns = {Physical(s, c) : c \in s.schema}
  BY <1>1, <1>6 DEF columns
<1> QED
  BY <1>1, <1>3, <1>7, <1>8, <1>9

(* What one join does: the columns of the source are added, none renamed.    *)
LEMMA SourceJoined ==
  ASSUME DeclarationInv, orderly, NEW deal \in Deals, NEW i \in DOMAIN sources,
         NEW left, left.columns = JoinedBefore(i),
         JoinOne(deal, left, sources[i]) # Raised
  PROVE  /\ left # Raised /\ Right(deal, i) # Raised
         /\ sources[i].keys # {} /\ sources[i].keys \subseteq left.columns
         /\ JoinOne(deal, left, sources[i]) =
              Frame(JoinedBefore(i + 1),
                    JoinedRows(JoinedBefore(i + 1), left, Right(deal, i),
                               SameName(sources[i].keys)))
         /\ Brought(i) \cap left.columns = {} /\ Brought(i) \subseteq JoinedBefore(i + 1)
         /\ Brought(i) \subseteq Right(deal, i).columns
         /\ left.columns \subseteq JoinedBefore(i + 1)
<1> DEFINE s == sources[i]
           right == Right(deal, i)
           on == SameName(s.keys)
           new == Brought(i)
           all == JoinedBefore(i + 1)
<1>1. DOMAIN sources = 1..Len(sources) /\ Len(sources) \in Nat /\ i \in Nat /\ i >= 1
  BY DEF DeclarationInv
<1>2. s.keys \subseteq s.schema
  BY FrameOfSource
<1>3. JoinOne(deal, left, s) = LeftJoin(left, right, on)
  BY DEF JoinOne, Right
<1>4. LeftJoin(left, right, on) # Raised
  BY <1>3
<1>5. left # Raised /\ right # Raised /\ on # {} /\ {k.left : k \in on} \subseteq left.columns
  <2> HIDE DEF on, right
  <2> QED
    BY <1>4 DEF LeftJoin
<1>6. {k.left : k \in on} = s.keys /\ {k.right : k \in on} = s.keys
  BY SameNames
<1>7. s.keys # {} /\ s.keys \subseteq left.columns
  BY <1>5, <1>6 DEF SameName
<1>8. /\ right.columns = {Physical(s, c) : c \in s.schema}
      /\ \A c, d \in s.schema : Physical(s, c) = Physical(s, d) => c = d
  BY <1>5, RightIsPrefixed
<1>9. \A k \in s.keys : Physical(s, k) = k
  BY DEF Physical
<1>10. new = {Physical(s, c) : c \in s.schema \ s.keys}
  BY DEF Brought
<1> HIDE DEF s, right, on, new
<1>11. s.keys \subseteq right.columns
  BY <1>2, <1>8, <1>9
<1>12. new = right.columns \ s.keys
  <2>1. \A c \in s.schema \ s.keys : Physical(s, c) \notin s.keys
    BY <1>2, <1>8, <1>9
  <2>2. \A c \in s.schema : Physical(s, c) \in s.keys \/ c \in s.schema \ s.keys
    BY <1>9
  <2> QED
    BY <1>8, <1>10, <2>1, <2>2
<1>13. new \cap left.columns = {}
  BY DEF DeclarationInv, ColumnsApart, new
<1>14. all = left.columns \cup new
  <2> DEFINE Part(j) == {Physical(sources[j], c) : c \in sources[j].schema}
  <2>1. 1..i = 1..(i - 1) \cup {i} /\ (i + 1) - 1 = i
    BY <1>1
  <2>2. JoinedBefore(i) = spine.schema \cup UNION {Part(j) : j \in 1..(i - 1)}
        /\ all = spine.schema \cup UNION {Part(j) : j \in 1..((i + 1) - 1)}
    BY DEF JoinedBefore
  <2>3. Part(i) = right.columns
    BY <1>8 DEF s
  <2> HIDE DEF Part, all
  <2>4. all = JoinedBefore(i) \cup Part(i)
    BY <2>1, <2>2
  <2> QED
    BY <2>3, <2>4, <1>7, <1>11, <1>12
<1>15. LeftJoin(left, right, on) = Frame(all, JoinedRows(all, left, right, on))
  <2>1. {k.left : k \in on} \subseteq left.columns /\ {k.right : k \in on} \subseteq right.columns
        /\ new = right.columns \ {k.right : k \in on}
    BY <1>5, <1>6, <1>11, <1>12
  <2> HIDE DEF all
  <2> QED
    BY <1>5, <1>13, <1>14, <2>1, JoinApart
<1> HIDE DEF all
<1>16. new \subseteq all /\ new \subseteq right.columns /\ left.columns \subseteq all
  BY <1>12, <1>14
<1> QED
  BY <1>3, <1>5, <1>7, <1>13, <1>15, <1>16 DEF s, right, on, new, all

(* The frame joined to the first k sources holds, under the name a source's  *)
(* namespace gives a column, the cell of the source's own row.               *)
JoinId == Seq(Nat \cup Seq(Nat))
CellOf(deal, i, row, c) ==
  IF Partner(deal, i, row) = {} THEN Null
  ELSE (CHOOSE r \in Partner(deal, i, row) : TRUE).cells[c]
FollowsSources(deal, k, f) ==
  /\ f.columns = JoinedBefore(k + 1)
  /\ \A row \in f.rows : row.id \in JoinId /\ Len(row.id) = k + 1
  /\ \A row \in f.rows : \A i \in 1..k : \A c \in sources[i].schema \ sources[i].keys :
       row.cells[Physical(sources[i], c)] = CellOf(deal, i, row, c)

LEMMA JoinedRowsMembers ==
  ASSUME NEW columns, NEW left, NEW right, NEW on
  PROVE  /\ \A row \in JoinedRows(columns, left, right, on) : \E l \in left.rows :
              \E r \in Partners(l, right, on) : row = JoinedRow(columns, left, l, r)
         /\ \A l \in left.rows : \A r \in Partners(l, right, on) :
              JoinedRow(columns, left, l, r) \in JoinedRows(columns, left, right, on)
<1> DEFINE Of(l) == {JoinedRow(columns, left, l, r) : r \in Partners(l, right, on)}
<1>1. JoinedRows(columns, left, right, on) = UNION {Of(l) : l \in left.rows}
  BY DEF JoinedRows
<1>2. \A l : \A r \in Partners(l, right, on) : JoinedRow(columns, left, l, r) \in Of(l)
  OBVIOUS
<1>3. \A l : \A row \in Of(l) : \E r \in Partners(l, right, on) :
        row = JoinedRow(columns, left, l, r)
  OBVIOUS
<1> HIDE DEF Of
<1> QED
  BY <1>1, <1>2, <1>3

LEMMA RowCells ==
  ASSUME NEW columns, NEW left, NEW l, NEW r
  PROVE  /\ JoinedRow(columns, left, l, r).id = Append(l.id, r.id)
         /\ DOMAIN JoinedRow(columns, left, l, r).cells = columns
         /\ \A x \in columns : JoinedRow(columns, left, l, r).cells[x] =
              IF x \in left.columns THEN l.cells[x] ELSE r.cells[x]
BY DEF JoinedRow

\* The partner of a row is one row of the source, or a row of nulls.
LEMMA PartnerOfRow ==
  ASSUME DeclarationInv, orderly, NEW deal \in Deals, NEW i \in DOMAIN sources,
         Right(deal, i) # Raised, NEW l, NEW on,
         NEW r \in Partners(l, Right(deal, i), on),
         NEW s, s = sources[i], NEW f, f = FrameOf(deal, sources[i].name)
  PROVE  \/ /\ r.id = <<>> /\ \A x \in Right(deal, i).columns : r.cells[x] = Null
            /\ {q \in f.rows : q.id = r.id} = {}
         \/ \E p \in f.rows :
              /\ p.id = r.id /\ r.id \in Seq(Nat) /\ {q \in f.rows : q.id = r.id} = {p}
              /\ \A c \in s.schema : r.cells[Physical(s, c)] = p.cells[c]
<1>1. IsTable(f, s.schema)
  BY FrameOfSource
<1>2. \A q \in f.rows : q.id # <<>>
  BY <1>1 DEF IsTable
<1>3. CASE Matches(l, Right(deal, i), on) # {}
  <2>1. r \in Right(deal, i).rows
    BY <1>3 DEF Partners, Matches
  <2>2. PICK p \in f.rows : r.id = p.id /\ \A c \in s.schema : r.cells[Physical(s, c)] = p.cells[c]
    BY <2>1, RightIsPrefixed
  <2>3. p.id \in Seq(Nat) /\ {q \in f.rows : q.id = r.id} = {p}
    BY <1>1, <2>2 DEF IsTable
  <2> QED
    BY <2>2, <2>3
<1>4. CASE Matches(l, Right(deal, i), on) = {}
  <2>1. r = [id |-> <<>>, cells |-> [c \in Right(deal, i).columns |-> Null]]
    BY <1>4 DEF Partners
  <2> QED
    BY <1>2, <2>1
<1> QED
  BY <1>3, <1>4

LEMMA FollowsStep ==
  ASSUME DeclarationInv, orderly, NEW deal \in Deals, NEW k \in Nat, k + 1 \in DOMAIN sources,
         NEW left, FollowsSources(deal, k, left),
         NEW next, next = JoinOne(deal, left, sources[k + 1]), next # Raised
  PROVE  FollowsSources(deal, k + 1, next)
<1> DEFINE s == sources[k + 1]
           right == Right(deal, k + 1)
           on == SameName(s.keys)
           all == JoinedBefore(k + 1 + 1)
<1>1. left.columns = JoinedBefore(k + 1)
  BY DEF FollowsSources
<1>2. /\ right # Raised /\ next = Frame(all, JoinedRows(all, left, right, on))
      /\ Brought(k + 1) \cap left.columns = {} /\ Brought(k + 1) \subseteq all
      /\ Brought(k + 1) \subseteq right.columns /\ left.columns \subseteq all
  BY <1>1, SourceJoined
<1>3. next.columns = all /\ next.rows = JoinedRows(all, left, right, on)
  BY <1>2 DEF Frame
<1>4. SUFFICES ASSUME NEW row \in next.rows
               PROVE  /\ row.id \in JoinId /\ Len(row.id) = k + 1 + 1
                      /\ \A i \in 1..(k + 1) : \A c \in sources[i].schema \ sources[i].keys :
                           row.cells[Physical(sources[i], c)] = CellOf(deal, i, row, c)
  BY <1>3 DEF FollowsSources
<1> HIDE DEF s, right, on, all
<1>5. PICK l \in left.rows : \E r \in Partners(l, right, on) : row = JoinedRow(all, left, l, r)
  BY <1>3, JoinedRowsMembers
<1>6. PICK r \in Partners(l, right, on) : row = JoinedRow(all, left, l, r)
  BY <1>5
<1>7. /\ row.id = Append(l.id, r.id)
      /\ \A x \in all : row.cells[x] = IF x \in left.columns THEN l.cells[x] ELSE r.cells[x]
  BY <1>6, RowCells
<1>8. l.id \in JoinId /\ Len(l.id) = k + 1
  BY DEF FollowsSources
<1> DEFINE f == FrameOf(deal, s.name)
<1>9. \/ /\ r.id = <<>> /\ \A x \in right.columns : r.cells[x] = Null
         /\ {q \in f.rows : q.id = r.id} = {}
      \/ \E p \in f.rows :
           /\ p.id = r.id /\ r.id \in Seq(Nat) /\ {q \in f.rows : q.id = r.id} = {p}
           /\ \A c \in s.schema : r.cells[Physical(s, c)] = p.cells[c]
  BY <1>2, PartnerOfRow DEF s, right
<1>10. r.id \in Nat \cup Seq(Nat)
  <2>1. <<>> \in Seq(Nat)
    OBVIOUS
  <2>2. r.id = <<>> \/ r.id \in Seq(Nat)
    <3> HIDE DEF f
    <3> QED
      BY <1>9
  <2> QED
    BY <2>1, <2>2
<1>11. /\ row.id \in JoinId /\ Len(row.id) = Len(l.id) + 1 /\ row.id[Len(l.id) + 1] = r.id
       /\ \A j \in 1..Len(l.id) : row.id[j] = l.id[j]
  BY <1>7, <1>8, <1>10, AppendFacts DEF JoinId
<1>12. ASSUME NEW i \in 1..k, NEW c \in sources[i].schema \ sources[i].keys
       PROVE  row.cells[Physical(sources[i], c)] = CellOf(deal, i, row, c)
  <2>1. row.id[i + 1] = l.id[i + 1]
    <3>1. i + 1 \in 1..(k + 1)
      OBVIOUS
    <3> QED
      BY <1>8, <1>11, <3>1
  <2>2. CellOf(deal, i, row, c) = CellOf(deal, i, l, c)
    BY <2>1 DEF CellOf, Partner
  <2>3. Physical(sources[i], c) \in left.columns
    BY <1>1 DEF JoinedBefore
  <2>4. l.cells[Physical(sources[i], c)] = CellOf(deal, i, l, c)
    BY DEF FollowsSources
  <2> QED
    BY <1>2, <1>7, <2>2, <2>3, <2>4
<1>13. ASSUME NEW c \in s.schema \ s.keys
       PROVE  row.cells[Physical(s, c)] = CellOf(deal, k + 1, row, c)
  <2>1. Physical(s, c) \in Brought(k + 1)
    BY DEF Brought, s
  <2>2. row.cells[Physical(s, c)] = r.cells[Physical(s, c)]
    BY <1>2, <1>7, <2>1
  <2>3. row.id[k + 1 + 1] = r.id
    BY <1>8, <1>11
  <2>4. Partner(deal, k + 1, row) = {q \in f.rows : q.id = r.id}
    BY <2>3 DEF Partner, s
  <2> HIDE DEF f
  <2>5. CASE {q \in f.rows : q.id = r.id} = {} /\ \A x \in right.columns : r.cells[x] = Null
    BY <1>2, <2>1, <2>2, <2>4, <2>5 DEF CellOf
  <2>6. CASE \E p \in f.rows : /\ {q \in f.rows : q.id = r.id} = {p}
                               /\ \A d \in s.schema : r.cells[Physical(s, d)] = p.cells[d]
    <3>1. PICK p : /\ Partner(deal, k + 1, row) = {p}
                   /\ r.cells[Physical(s, c)] = p.cells[c]
      BY <2>4, <2>6
    <3>2. CellOf(deal, k + 1, row, c) = p.cells[c]
      BY <3>1 DEF CellOf
    <3> QED
      BY <2>2, <3>1, <3>2
  <2> QED
    BY <1>9, <2>5, <2>6 DEF f
<1>14. 1..(k + 1) = 1..k \cup {k + 1}
  OBVIOUS
<1> QED
  BY <1>8, <1>11, <1>12, <1>13, <1>14 DEF s

LEMMA SpineFollows ==
  ASSUME NEW deal \in Deals, deal.spine.columns = spine.schema
  PROVE  FollowsSources(deal, 0, deal.spine)
<1>1. IsTable(deal.spine, deal.spine.columns)
  BY PositionAssumption
<1>2. deal.spine.columns = JoinedBefore(0 + 1)
  BY DEF JoinedBefore
<1>3. \A row \in deal.spine.rows : row.id \in JoinId /\ Len(row.id) = 0 + 1
  BY <1>1 DEF IsTable, JoinId
<1> QED
  BY <1>2, <1>3 DEF FollowsSources

LEMMA JoinedFollows ==
  ASSUME DeclarationInv, orderly, NEW deal \in Deals, deal.spine.columns = spine.schema,
         Joined(deal) # Raised
  PROVE  FollowsSources(deal, Len(sources), Joined(deal))
<1> DEFINE n == Len(sources)
<1>1. sources \in Seq(SourceCalls) /\ n \in Nat /\ DOMAIN sources = 1..n
  BY DEF DeclarationInv
<1>2. PICK J : /\ J[0] = deal.spine
               /\ \A k \in 0..(n - 1) : J[k + 1] = JoinOne(deal, J[k], sources[k + 1])
               /\ Joined(deal) = J[n]
  BY <1>1, JoinedIsChain
<1> HIDE DEF n
<1> DEFINE N == {k \in Nat : k <= n /\ J[k] # Raised => FollowsSources(deal, k, J[k])}
<1>3. 0 \in N
  BY <1>2, SpineFollows
<1>4. ASSUME NEW k \in N PROVE k + 1 \in N
  <2> SUFFICES ASSUME k + 1 <= n, J[k + 1] # Raised
               PROVE  FollowsSources(deal, k + 1, J[k + 1])
    OBVIOUS
  <2>1. k \in Nat /\ k \in 0..(n - 1) /\ k + 1 \in DOMAIN sources /\ k <= n
    BY <1>1
  <2>2. J[k + 1] = JoinOne(deal, J[k], sources[k + 1])
    BY <1>2, <2>1
  <2>3. J[k] # Raised
    BY <2>2 DEF JoinOne, LeftJoin
  <2>4. FollowsSources(deal, k, J[k])
    BY <2>1, <2>3
  <2> QED
    BY <2>1, <2>2, <2>4, FollowsStep
<1>5. N = Nat
  <2> HIDE DEF N
  <2>1. N \subseteq Nat
    BY DEF N
  <2> QED
    BY <1>3, <1>4, <2>1, Induction
<1> QED
  BY <1>1, <1>2, <1>5 DEF n

(* "position_value.value.value resolves to a var for the joined value        *)
(* column" (view.py:69): whatever the sources, their keys and prefixes, and  *)
(* whatever the frames hold, the column a namespace stands for is its own    *)
(* source's, row by row, in every view declared in order.                    *)
THEOREM NamespacesReadTheirSource == Spec => []NamespaceIsItsSource
<1>1. DeclarationInv => NamespaceIsItsSource
  <2> SUFFICES ASSUME DeclarationInv, orderly, spine # Unset, NEW deal \in Deals,
                      deal.spine.columns = spine.schema, Joined(deal) # Raised,
                      NEW row \in Joined(deal).rows, NEW i \in DOMAIN sources,
                      NEW c \in sources[i].schema \ sources[i].keys
               PROVE  row.cells[Physical(ns[sources[i].name], c)] = CellOf(deal, i, row, c)
    BY DEF NamespaceIsItsSource, CellOf
  <2>1. Physical(ns[sources[i].name], c) = Physical(sources[i], c)
    BY NamespaceNames DEF DeclarationInv, NamespacesKept
  <2>2. i \in 1..Len(sources)
    BY DEF DeclarationInv
  <2> QED
    BY <2>1, <2>2, JoinedFollows DEF FollowsSources
<1> QED
  BY <1>1, DeclarationInvariant, PTL

-----------------------------------------------------------------------------
(* The graph of a view's measures, with what is proved of it.                *)
GP == INSTANCE FormulaGraphProofs WITH
        Schemas <- {}, View <- {"output"}, ViewTerms <- Outputs,
        Exprs <- Expressions, MaxTerms <- MaxMeasures

LEMMA GraphAssumption == GP!FormulaAssumption
BY NameAssumption DEF GP!FormulaAssumption, Expressions

\* Every reference that is resolved is a name.
Named ==
  /\ DOMAIN terms \subseteq Name
  /\ output \in Outputs \cup {Unset}
  /\ nsOrder \in Seq(DOMAIN ns)
  /\ \A n \in DOMAIN ns : \A c \in ns[n].schema : Physical(ns[n], c) \in Name

LEMMA MinIsLeast ==
  ASSUME NEW I, I \subseteq Nat, I # {}
  PROVE  Min(I) \in I /\ \A j \in I : Min(I) <= j
<1> DEFINE R == {p \in Nat \X Nat : p[1] < p[2]}
<1>1. IsWellFoundedOn(R, Nat)
  BY NatLessThanWellFounded DEF OpToRel
<1>2. \A m, n \in Nat : <<m, n>> \notin R => n <= m
  OBVIOUS
<1> HIDE DEF R
<1>3. PICK i \in I : \A j \in I : <<j, i>> \notin R
  BY <1>1, WFMin
<1>4. \A j \in I : i <= j
  BY <1>2, <1>3
<1> QED
  BY <1>4 DEF Min

LEMMA ResolvedIsName ==
  ASSUME Named, NEW ref, Resolve(ref) # Unresolved
  PROVE  Resolve(ref) \in Name
<1>1. CASE ref.source # Unset
  BY <1>1 DEF Resolve, Named
<1>2. CASE ref.source = Unset
  <2> DEFINE name == ref.column
             first == SelectInSeq(nsOrder, LAMBDA n : name \in ns[n].schema)
  <2>1. Resolve(ref) = Col(name) /\ Col(name) # Unresolved
    BY <1>2 DEF Resolve
  <2>2. first = 0 \/ (nsOrder[first] \in DOMAIN ns /\ name \in ns[nsOrder[first]].schema)
    <3> DEFINE I == {i \in 1..Len(nsOrder) : name \in ns[nsOrder[i]].schema}
    <3>1. first = IF I # {} THEN Min(I) ELSE 0
      BY DEF SelectInSeq
    <3>2. \A i \in I : nsOrder[i] \in DOMAIN ns /\ name \in ns[nsOrder[i]].schema
      BY DEF Named
    <3>3. I \subseteq Nat
      OBVIOUS
    <3> HIDE DEF I, first
    <3> QED
      BY <3>1, <3>2, <3>3, MinIsLeast
  <2> QED
    BY <2>1, <2>2 DEF Col, Named
<1> QED
  BY <1>1, <1>2

LEMMA SetNamespaceNames ==
  ASSUME Named, NEW name, NEW namespace, SetNamespace(name, namespace),
         \A c \in namespace.schema : Physical(namespace, c) \in Name
  PROVE  /\ nsOrder' \in Seq(DOMAIN ns')
         /\ \A n \in DOMAIN ns' : \A c \in ns'[n].schema : Physical(ns'[n], c) \in Name
<1>1. /\ ns' = [n \in DOMAIN ns \cup {name} |-> IF n = name THEN namespace ELSE ns[n]]
      /\ nsOrder' = IF name \in DOMAIN ns THEN nsOrder ELSE Append(nsOrder, name)
  BY DEF SetNamespace
<1> DEFINE D == DOMAIN ns \cup {name}
<1>2. DOMAIN ns' = D /\ name \in D /\ DOMAIN ns \subseteq D
  BY <1>1
<1>3. nsOrder \in Seq(D)
  BY DEF Named
<1>4. nsOrder' \in Seq(D)
  <2> HIDE DEF D
  <2> QED
    BY <1>1, <1>2, <1>3
<1> QED
  BY <1>1, <1>2, <1>4 DEF Named

(* One step of the view: the graph does a step of its own or none.           *)
LEMMA ViewStep ==
  ASSUME Named, [Next]_vars
  PROVE  Named' /\ [GP!Next]_GP!vars
<1>1. ASSUME NEW call \in SpineCalls, Spine(call)
      PROVE  Named' /\ UNCHANGED graphVars
  <2> DEFINE n == Namespace(call.schema, {}, Unset)
  <2>1. SetNamespace(call.name, n) /\ UNCHANGED <<output, graphVars>>
    BY <1>1 DEF Spine
  <2>2. \A c \in n.schema : Physical(n, c) \in Name
    BY NameAssumption DEF Namespace, Physical
  <2> HIDE DEF n
  <2> QED
    BY <2>1, <2>2, SetNamespaceNames DEF Named, graphVars
<1>2. ASSUME NEW s \in SourceCalls, Source(s)
      PROVE  Named' /\ UNCHANGED graphVars
  <2> DEFINE n == Namespace(s.schema, s.keys, s.prefix)
  <2>1. SetNamespace(s.name, n) /\ UNCHANGED <<output, graphVars>>
    BY <1>2 DEF Source
  <2>2. \A c \in n.schema : Physical(n, c) \in Name
    BY NameAssumption DEF Namespace, Physical
  <2> HIDE DEF n
  <2> QED
    BY <2>1, <2>2, SetNamespaceNames DEF Named, graphVars
<1>3. ASSUME NEW call \in LetCalls, Let(call)
      PROVE  Named' /\ \E name \in Name, expr \in Expressions : GP!Let(name, expr)
  <2> DEFINE expr == [i \in DOMAIN call.refs |-> Resolve(call.refs[i])]
  <2>1. /\ Unresolved \notin Range(expr) /\ G!Let(call.name, expr)
        /\ UNCHANGED <<joinVars, output>>
    BY <1>3 DEF Let
  <2>2. call.name \in Name /\ Len(call.refs) \in Nat /\ DOMAIN call.refs = 1..Len(call.refs)
    BY NameAssumption
  <2>3. \A i \in DOMAIN call.refs : expr[i] \in Name
    <3> SUFFICES ASSUME NEW i \in DOMAIN call.refs PROVE expr[i] \in Name
      OBVIOUS
    <3>1. expr[i] = Resolve(call.refs[i]) /\ expr[i] # Unresolved
      BY <2>1 DEF Range
    <3> QED
      BY <3>1, ResolvedIsName
  <2>4. expr \in Expressions
    <3>1. expr = [i \in 1..Len(call.refs) |-> expr[i]]
      BY <2>2
    <3> HIDE DEF expr
    <3> QED
      BY <2>2, <2>3, <3>1 DEF Expressions
  <2> HIDE DEF expr
  <2>5. GP!Let(call.name, expr)
    BY <2>1 DEF G!Let, GP!Let, G!Register, GP!Register, G!HasSchema, GP!HasSchema,
                G!ToSet, GP!ToSet, G!Cardinality, GP!Cardinality
  <2>6. DOMAIN terms' = DOMAIN terms \cup {call.name}
    BY <2>1 DEF G!Let, G!Register
  <2> QED
    BY <2>1, <2>2, <2>4, <2>5, <2>6 DEF Named, joinVars
<1>4. ASSUME NEW schema \in Outputs \cup {Unset}, Returns(schema)
      PROVE  Named' /\ \E targets \in Outputs : GP!Returns("output", targets)
  <2> DEFINE resolved == IF schema # Unset THEN schema ELSE output
  <2>1. /\ resolved # Unset /\ output' = resolved /\ G!Returns("output", resolved)
        /\ UNCHANGED joinVars
    BY <1>4 DEF Returns
  <2>2. resolved \in Outputs
    BY <2>1 DEF Named
  <2> HIDE DEF resolved
  <2>3. GP!Returns("output", resolved) /\ UNCHANGED terms
    BY <2>1 DEF G!Returns, GP!Returns
  <2> QED
    BY <2>1, <2>2, <2>3 DEF Named, joinVars
<1>5. ASSUME UNCHANGED <<joinVars, output, graphVars>>
      PROVE  Named' /\ UNCHANGED graphVars
  BY <1>5 DEF Named, joinVars, graphVars
<1>6. UNCHANGED graphVars => UNCHANGED GP!vars
  BY DEF graphVars, GP!vars
<1>7. CASE \E call \in SpineCalls : Spine(call)
  BY <1>1, <1>6, <1>7
<1>8. CASE \E s \in SourceCalls : Source(s)
  BY <1>2, <1>6, <1>8
<1>9. CASE \E call \in LetCalls : Let(call)
  BY <1>3, <1>9 DEF GP!Next
<1>10. CASE \E schema \in Outputs \cup {Unset} : Returns(schema)
  BY <1>4, <1>10 DEF GP!Next
<1>11. CASE (\E keys \in KeySets : By(keys)) \/ ChangeFold \/ UNCHANGED vars
  <2>1. UNCHANGED <<joinVars, output, graphVars>>
    BY <1>11 DEF By, ChangeFold, vars
  <2> QED
    BY <1>5, <1>6, <2>1
<1> QED
  BY <1>7, <1>8, <1>9, <1>10, <1>11 DEF Next

(* let, add and returns do to _g what a FormulaGraph does, the references     *)
(* resolved to names first (view.py:183, 205): a view implements a graph of  *)
(* its measures, whatever namespaces and measures are declared in between.   *)
THEOREM MeasuresFormGraph == Spec => GP!Spec
<1>1. Init => Named /\ GP!Init
  BY DEF Init, G!Init, GP!Init, Named
<1>2. Named /\ [Next]_vars => Named' /\ [GP!Next]_GP!vars
  BY ViewStep
<1> QED
  BY <1>1, <1>2, PTL DEF Spec, GP!Spec

LEMMA GraphInvariance == Spec => []GP!IInv
<1>1. GP!Spec => []GP!IInv
  BY GraphAssumption, GP!Invariance
<1> QED
  BY <1>1, MeasuresFormGraph, PTL

(* A view is planned as graphs are: planning refuses exactly the measures    *)
(* that use a cycle, and stage's columns mean what the inlined measures do.  *)
COROLLARY ViewsPlanAsGraphs == Spec => [](GP!RaisesOnlyOnCycle /\ GP!MaterializedIsInlined)
<1>1. GP!Spec => []GP!RaisesOnlyOnCycle
  BY GraphAssumption, GP!CyclesAreRefused
<1>2. GP!Spec => []GP!MaterializedIsInlined
  BY GraphAssumption, GP!MaterializedMeansInlined
<1> QED
  BY <1>1, <1>2, MeasuresFormGraph, PTL

LEMMA OrderIsNames ==
  ASSUME GP!IInv
  PROVE  G!TopologicalOrder \in Seq(Name)
<1>1. GP!IsTerms(terms)
  BY GraphAssumption, GP!TermsAreTerms
<1>2. GP!TypeOK /\ order \in Seq(Name)
  BY DEF GP!IInv
<1>3. GP!ToSet(order) = DOMAIN terms
  BY <1>2 DEF GP!TypeOK
<1>4. GP!TopologicalOrder = GP!VisitAll(GP!Visit(terms), GP!Unvisited, order).done
  BY GraphAssumption, GP!TopologicalOrderIsVisit
<1>5. GP!TopologicalOrder \in Seq(Name)
  BY <1>1, <1>2, <1>3, <1>4, GraphAssumption, GP!OrderIsTopological
<1>6. G!TopologicalOrder = GP!TopologicalOrder
  BY DEF G!TopologicalOrder, GP!TopologicalOrder, FoldLeft, MapThenFoldSet,
         G!FoldLeft, GP!FoldLeft, G!MapThenFoldSet, GP!MapThenFoldSet, G!Max, GP!Max
<1> QED
  BY <1>5, <1>6

-----------------------------------------------------------------------------
(* stage: one with_columns after another, over the joined frame.             *)
StageOne(targets, f, n) == IF n \in G!Reachable(targets) THEN WithTerm(f, n) ELSE f
Staged(targets, base, s) == FoldLeft(LAMBDA f, n : StageOne(targets, f, n), base, s)

LEMMA StagedIsChain ==
  ASSUME NEW targets, NEW base, NEW s \in Seq(Name)
  PROVE  \E J : /\ J[0] = base
                /\ \A k \in 0..(Len(s) - 1) : J[k + 1] = StageOne(targets, J[k], s[k + 1])
                /\ Staged(targets, base, s) = J[Len(s)]
<1> DEFINE Iter(n, it) ==
             it = [S \in SUBSET (1..n) |->
                     IF S = {} THEN base
                     ELSE StageOne(targets, it[S \ {Max(S)}], s[Max(S)])]
           N == {n \in Nat : \E it : Iter(n, it)}
<1>1. 0 \in N
  <2>1. Iter(0, [S \in SUBSET (1..0) |-> base])
    BY InitialIndices
  <2> QED
    BY <2>1
<1>2. ASSUME NEW n \in N PROVE n + 1 \in N
  <2>1. PICK it : Iter(n, it)
    OBVIOUS
  <2> DEFINE more == [S \in SUBSET (1..(n + 1)) |->
                        IF n + 1 \in S
                        THEN StageOne(targets, it[S \ {n + 1}], s[n + 1])
                        ELSE it[S]]
  <2>2. ASSUME NEW S \in SUBSET (1..(n + 1))
        PROVE  more[S] = IF S = {} THEN base
                         ELSE StageOne(targets, more[S \ {Max(S)}], s[Max(S)])
    <3>1. CASE n + 1 \in S
      <4>1. Max(S) = n + 1 /\ S # {}
        BY <3>1, InitialIndices
      <4>2. S \ {n + 1} \in SUBSET (1..(n + 1)) /\ n + 1 \notin S \ {n + 1}
        OBVIOUS
      <4>3. more[S \ {n + 1}] = it[S \ {n + 1}]
        BY <4>2
      <4> QED
        BY <3>1, <4>1, <4>3
    <3>2. CASE n + 1 \notin S
      <4>1. S \ {Max(S)} \in SUBSET (1..n) /\ S \in SUBSET (1..n)
        BY <3>2, InitialIndices
      <4>2. S \ {Max(S)} \in SUBSET (1..(n + 1)) /\ n + 1 \notin S \ {Max(S)}
        BY <3>2
      <4>3. more[S \ {Max(S)}] = it[S \ {Max(S)}] /\ more[S] = it[S]
        BY <3>2, <4>2
      <4>4. it[S] = IF S = {} THEN base
                    ELSE StageOne(targets, it[S \ {Max(S)}], s[Max(S)])
        BY <2>1, <4>1
      <4> QED
        BY <4>3, <4>4
    <3> QED
      BY <3>1, <3>2
  <2>3. Iter(n + 1, more)
    <3> HIDE DEF more
    <3>1. more = [S \in SUBSET (1..(n + 1)) |-> more[S]]
      BY DEF more
    <3> QED
      BY <2>2, <3>1
  <2> HIDE DEF Iter, more
  <2> QED
    BY <2>3
<1>3. N = Nat
  <2> HIDE DEF N
  <2>1. N \subseteq Nat
    BY DEF N
  <2> QED
    BY <1>1, <1>2, <2>1, Induction
<1> DEFINE n == Len(s)
           it == CHOOSE f : Iter(n, f)
<1>4. n \in Nat /\ DOMAIN s = 1..n
  OBVIOUS
<1>5. Iter(n, it)
  <2> HIDE DEF Iter
  <2>1. \E f : Iter(n, f)
    BY <1>3, <1>4
  <2> QED
    BY <2>1
<1>6. Staged(targets, base, s) = it[1..n]
  <2>1. Staged(targets, base, s) =
          (CHOOSE f : f = [S \in SUBSET (DOMAIN s) |->
                     IF S = {} THEN base
                     ELSE StageOne(targets, f[S \ {Max(S)}], s[Max(S)])])[DOMAIN s]
    BY DEF Staged, FoldLeft, MapThenFoldSet
  <2> HIDE DEF n
  <2> QED
    BY <2>1, <1>4
<1> DEFINE J == [k \in 0..n |-> it[1..k]]
<1> HIDE DEF it
<1>7. it[{}] = base
  BY <1>4, <1>5
<1>8. ASSUME NEW k \in 0..(n - 1)
      PROVE  it[1..(k + 1)] = StageOne(targets, it[1..k], s[k + 1])
  <2>1. k \in Nat /\ 1..(k + 1) \in SUBSET (1..n)
    BY <1>4
  <2>2. 1..(k + 1) # {} /\ Max(1..(k + 1)) = k + 1 /\ (1..(k + 1)) \ {k + 1} = 1..k
    BY <2>1, InitialIndices
  <2>3. \A S \in SUBSET (1..n) : it[S] = IF S = {} THEN base
                     ELSE StageOne(targets, it[S \ {Max(S)}], s[Max(S)])
    BY <1>5
  <2> QED
    BY <2>1, <2>2, <2>3
<1>9. J[0] = base /\ J[n] = Staged(targets, base, s)
  BY <1>4, <1>6, <1>7, InitialIndices
<1>10. \A k \in 0..(n - 1) : J[k + 1] = StageOne(targets, J[k], s[k + 1])
  BY <1>4, <1>8
<1> QED
  BY <1>9, <1>10

-----------------------------------------------------------------------------
(* One row for each position.  The id of a row begins with the position it    *)
(* was made from, which determines the row.                                  *)
OneRowEach(deal, f) ==
  /\ \A r \in f.rows : r.id \in JoinId /\ Len(r.id) >= 1
  /\ \A r \in f.rows : \E p \in deal.spine.rows : Origin(r) = Origin(p)
  /\ \A p \in deal.spine.rows : \E r \in f.rows : Origin(r) = Origin(p)
  /\ \A p, r \in f.rows : Origin(p) = Origin(r) => p = r

\* The same rows with other cells.
Recelled(f, g) == \E F \in [f.rows -> g.rows] :
                    /\ \A s \in g.rows : \E r \in f.rows : s = F[r]
                    /\ \A r \in f.rows : F[r].id = r.id

LEMMA RecelledKeeps ==
  ASSUME NEW deal, NEW f, NEW g, OneRowEach(deal, f), Recelled(f, g)
  PROVE  OneRowEach(deal, g)
<1>1. PICK F \in [f.rows -> g.rows] :
        /\ \A s \in g.rows : \E r \in f.rows : s = F[r]
        /\ \A r \in f.rows : F[r].id = r.id
  BY DEF Recelled
<1> QED
  BY <1>1 DEF OneRowEach, Origin

LEMMA SpineRows ==
  ASSUME NEW deal \in Deals
  PROVE  OneRowEach(deal, deal.spine)
<1>1. IsTable(deal.spine, deal.spine.columns)
  BY PositionAssumption
<1>2. ASSUME NEW p \in deal.spine.rows, NEW r \in deal.spine.rows, Origin(p) = Origin(r)
      PROVE  p = r
  <2>1. p.id \in Seq(Nat) /\ r.id \in Seq(Nat) /\ Len(p.id) = 1 /\ Len(r.id) = 1
    BY <1>1 DEF IsTable
  <2>2. \A i \in 1..Len(p.id) : p.id[i] = r.id[i]
    BY <1>2, <2>1 DEF Origin
  <2>3. p.id = r.id
    BY <2>1, <2>2, SeqEqual
  <2> QED
    BY <1>1, <2>3 DEF IsTable
<1>3. \A r \in deal.spine.rows : r.id \in JoinId /\ Len(r.id) >= 1
  <2>1. \A r \in deal.spine.rows : r.id \in Seq(Nat) /\ Len(r.id) = 1
    BY <1>1 DEF IsTable
  <2>2. \A r \in deal.spine.rows : r.id \in JoinId
    BY <2>1 DEF JoinId
  <2> QED
    BY <2>1, <2>2
<1> QED
  BY <1>2, <1>3 DEF OneRowEach

LEMMA MaxIsMember ==
  ASSUME NEW n \in Nat, NEW I, I \subseteq 1..n, I # {}
  PROVE  Max(I) \in I
<1> DEFINE K == {n - i : i \in I}
<1>1. K \subseteq Nat /\ K # {} /\ \A i \in I : n - i \in K
  <2>1. \A i \in I : i \in Nat /\ n - i \in Nat
    OBVIOUS
  <2>2. \A i \in I : n - i \in K
    OBVIOUS
  <2> QED
    BY <2>1, <2>2
<1>2. PICK i \in I : n - i = Min(K)
  <2>1. Min(K) \in K
    <3> HIDE DEF K
    <3> QED
      BY <1>1, MinIsLeast
  <2> QED
    BY <2>1
<1> HIDE DEF K
<1>3. \A j \in I : n - i <= n - j
  BY <1>1, <1>2, MinIsLeast
<1>4. \A j \in I : i >= j
  BY <1>3
<1> QED
  BY <1>4 DEF Max

LEMMA FrameOfIsTable ==
  ASSUME sources \in Seq(SourceCalls), NEW deal \in Deals, NEW i \in DOMAIN sources
  PROVE  \A r \in FrameOf(deal, sources[i].name).rows : r.id \in Seq(Nat)
<1> DEFINE n == Len(sources)
           I == {j \in 1..n : sources[j].name = sources[i].name}
           last == SelectLastInSeq(sources, LAMBDA s : s.name = sources[i].name)
<1>1. n \in Nat /\ DOMAIN sources = 1..n /\ \A j \in DOMAIN sources : sources[j] \in SourceCalls
  OBVIOUS
<1>2. i \in I
  BY <1>1
<1>3. last = Max(I)
  BY <1>2 DEF SelectLastInSeq
<1>4. I \subseteq 1..n
  OBVIOUS
<1> HIDE DEF n, I
<1>5. Max(I) \in I
  BY <1>1, <1>2, <1>4, MaxIsMember
<1>6. last \in DOMAIN sources
  BY <1>1, <1>3, <1>4, <1>5
<1> HIDE DEF last
<1>7. IsTable(deal.frames[sources[last].schema], sources[last].schema)
  BY <1>1, <1>6, PositionAssumption
<1>8. FrameOf(deal, sources[i].name) = deal.frames[sources[last].schema]
  BY DEF FrameOf, last
<1> QED
  BY <1>7, <1>8 DEF IsTable

LEMMA RightIds ==
  ASSUME sources \in Seq(SourceCalls), NEW deal \in Deals, NEW i \in DOMAIN sources,
         Right(deal, i) # Raised
  PROVE  \A r \in Right(deal, i).rows : r.id \in Seq(Nat)
<1> DEFINE f == FrameOf(deal, sources[i].name)
           s == sources[i]
           columns == {Physical(s, c) : c \in f.columns}
           Old(x) == CHOOSE c \in f.columns : Physical(s, c) = x
           Row(r) == [id |-> r.id,
                      cells |-> [x \in {Physical(s, c) : c \in DOMAIN r.cells} |->
                                   r.cells[Old(x)]]]
<1>1. Right(deal, i) = Frame(columns, {Row(r) : r \in f.rows})
  BY DEF Right, Prefixed, MapCells
<1> HIDE DEF columns
<1>2. Right(deal, i).rows = {Row(r) : r \in f.rows}
  BY <1>1 DEF Frame
<1>3. \A r \in f.rows : Row(r).id \in Seq(Nat)
  BY FrameOfIsTable
<1> HIDE DEF Row, f
<1> QED
  BY <1>2, <1>3

(* A join to a frame with one row for each key: every row meets exactly one,  *)
(* its match or the row of nulls, and keeps its place.                       *)
LEMMA JoinKeeps ==
  ASSUME NEW deal, NEW f, NEW right, NEW keys, NEW on, on = SameName(keys),
         LeftJoin(f, right, on) # Raised, OneRowEach(deal, f),
         \A r \in right.rows : r.id \in Seq(Nat), UniqueOn(right, keys)
  PROVE  OneRowEach(deal, LeftJoin(f, right, on))
<1> DEFINE g == LeftJoin(f, right, on)
           payload == right.columns \ {k.right : k \in on}
           columns == f.columns \cup {Suffixed(f, c) : c \in payload}
           From(x) == CHOOSE c \in payload : Suffixed(f, c) = x
           Pair(l, r) == [id |-> Append(l.id, r.id),
                          cells |-> [x \in columns |-> IF x \in f.columns
                                       THEN l.cells[x] ELSE r.cells[From(x)]]]
<1>1. g.rows = UNION {{Pair(l, r) : r \in Partners(l, right, on)} : l \in f.rows}
  BY DEF LeftJoin, Frame
<1>2. ASSUME NEW l, NEW p \in Matches(l, right, on), NEW r \in Matches(l, right, on)
      PROVE  p = r
  <2>1. \A k \in keys : [left |-> k, right |-> k] \in on
    BY DEF SameName
  <2>2. p \in right.rows /\ r \in right.rows
        /\ \A k \in on : p.cells[k.right] = l.cells[k.left] /\ r.cells[k.right] = l.cells[k.left]
    BY DEF Matches
  <2>3. \A k \in keys : p.cells[k] = r.cells[k]
    <3> SUFFICES ASSUME NEW k \in keys PROVE p.cells[k] = r.cells[k]
      OBVIOUS
    <3> DEFINE b == [left |-> k, right |-> k]
    <3>1. b \in on /\ b.left = k /\ b.right = k
      BY <2>1
    <3> HIDE DEF b
    <3> QED
      BY <2>2, <3>1
  <2> QED
    BY <2>2, <2>3 DEF UniqueOn
<1>3. ASSUME NEW l
      PROVE  /\ Partners(l, right, on) # {}
             /\ \A r \in Partners(l, right, on) : r.id \in Seq(Nat)
             /\ \A p, r \in Partners(l, right, on) : p = r
  <2>1. CASE Matches(l, right, on) # {}
    <3>1. Partners(l, right, on) = Matches(l, right, on)
      BY <2>1 DEF Partners
    <3>2. Matches(l, right, on) \subseteq right.rows
      BY DEF Matches
    <3> QED
      BY <1>2, <2>1, <3>1, <3>2
  <2>2. CASE Matches(l, right, on) = {}
    <3>1. Partners(l, right, on) = {[id |-> <<>>, cells |-> [c \in right.columns |-> Null]]}
      BY <2>2 DEF Partners
    <3>2. \A r \in Partners(l, right, on) : r.id = <<>>
      BY <3>1
    <3> QED
      BY <3>1, <3>2
  <2> QED
    BY <2>1, <2>2
<1>4. ASSUME NEW l \in f.rows, NEW r \in Partners(l, right, on)
      PROVE  /\ Pair(l, r).id \in JoinId /\ Len(Pair(l, r).id) >= 1
             /\ Origin(Pair(l, r)) = Origin(l)
  <2>1. l.id \in JoinId /\ Len(l.id) >= 1 /\ r.id \in Nat \cup Seq(Nat)
    BY <1>3 DEF OneRowEach
  <2>2. Pair(l, r).id = Append(l.id, r.id)
    OBVIOUS
  <2> QED
    BY <2>1, <2>2 DEF JoinId, Origin
<1>5. \A s \in g.rows : \E l \in f.rows : \E r \in Partners(l, right, on) : s = Pair(l, r)
  <2> DEFINE Of(l) == {Pair(l, r) : r \in Partners(l, right, on)}
  <2>1. \A l : \A s \in Of(l) : \E r \in Partners(l, right, on) : s = Pair(l, r)
    OBVIOUS
  <2>2. g.rows = UNION {Of(l) : l \in f.rows}
    BY <1>1
  <2> HIDE DEF Of, g, Pair
  <2> QED
    BY <2>1, <2>2
<1>6. ASSUME NEW l \in f.rows, NEW r \in Partners(l, right, on)
      PROVE  Pair(l, r) \in g.rows
  <2>1. Pair(l, r) \in {Pair(l, x) : x \in Partners(l, right, on)}
    OBVIOUS
  <2> HIDE DEF Pair
  <2> QED
    BY <1>1, <2>1
<1> HIDE DEF g, Pair
<1>7. \A s \in g.rows : s.id \in JoinId /\ Len(s.id) >= 1
  BY <1>4, <1>5
<1>8. \A s \in g.rows : \E p \in deal.spine.rows : Origin(s) = Origin(p)
  BY <1>4, <1>5 DEF OneRowEach
<1>9. \A p \in deal.spine.rows : \E s \in g.rows : Origin(s) = Origin(p)
  <2> SUFFICES ASSUME NEW p \in deal.spine.rows
               PROVE  \E s \in g.rows : Origin(s) = Origin(p)
    OBVIOUS
  <2>1. PICK l \in f.rows : Origin(l) = Origin(p)
    BY DEF OneRowEach
  <2>2. PICK r \in Partners(l, right, on) : TRUE
    BY <1>3
  <2> QED
    BY <1>4, <1>6, <2>1, <2>2
<1>10. \A s, t \in g.rows : Origin(s) = Origin(t) => s = t
  <2> SUFFICES ASSUME NEW s \in g.rows, NEW t \in g.rows, Origin(s) = Origin(t)
               PROVE  s = t
    OBVIOUS
  <2>1. PICK l \in f.rows : \E r \in Partners(l, right, on) : s = Pair(l, r)
    BY <1>5
  <2>2. PICK r \in Partners(l, right, on) : s = Pair(l, r)
    BY <2>1
  <2>3. PICK m \in f.rows : \E r_1 \in Partners(m, right, on) : t = Pair(m, r_1)
    BY <1>5
  <2>4. PICK q \in Partners(m, right, on) : t = Pair(m, q)
    BY <2>3
  <2>5. l = m
    BY <1>4, <2>2, <2>4 DEF OneRowEach
  <2> QED
    BY <1>3, <2>2, <2>4, <2>5
<1> QED
  BY <1>7, <1>8, <1>9, <1>10 DEF OneRowEach, g

LEMMA JoinedRowEach ==
  ASSUME sources \in Seq(SourceCalls), NEW deal \in Deals, Joined(deal) # Raised,
         \A i \in DOMAIN sources : UniqueOn(Right(deal, i), sources[i].keys)
  PROVE  OneRowEach(deal, Joined(deal))
<1> DEFINE n == Len(sources)
<1>1. n \in Nat /\ DOMAIN sources = 1..n
  OBVIOUS
<1>2. PICK J : /\ J[0] = deal.spine
               /\ \A k \in 0..(n - 1) : J[k + 1] = JoinOne(deal, J[k], sources[k + 1])
               /\ Joined(deal) = J[n]
  BY JoinedIsChain
<1> HIDE DEF n
<1> DEFINE N == {k \in Nat : k <= n /\ J[k] # Raised => OneRowEach(deal, J[k])}
<1>3. 0 \in N
  BY <1>2, SpineRows
<1>4. ASSUME NEW k \in N PROVE k + 1 \in N
  <2> SUFFICES ASSUME k + 1 <= n, J[k + 1] # Raised PROVE OneRowEach(deal, J[k + 1])
    OBVIOUS
  <2>1. k \in Nat /\ k \in 0..(n - 1) /\ k + 1 \in DOMAIN sources /\ k <= n
    BY <1>1
  <2>2. J[k + 1] = JoinOne(deal, J[k], sources[k + 1])
    BY <1>2, <2>1
  <2> DEFINE right == Right(deal, k + 1)
             keys == sources[k + 1].keys
  <2>3. J[k + 1] = LeftJoin(J[k], right, SameName(keys))
    BY <2>2 DEF JoinOne, Right
  <2>4. UniqueOn(right, keys)
    BY <2>1
  <2>5. right # Raised /\ J[k] # Raised
    <3> HIDE DEF right, keys
    <3> QED
      BY <2>3 DEF LeftJoin
  <2>6. \A r \in right.rows : r.id \in Seq(Nat)
    BY <2>1, <2>5, RightIds
  <2>7. OneRowEach(deal, J[k])
    BY <2>1, <2>5
  <2> HIDE DEF right, keys
  <2> QED
    BY <2>3, <2>4, <2>6, <2>7, JoinKeeps
<1>5. N = Nat
  <2> HIDE DEF N
  <2>1. N \subseteq Nat
    BY DEF N
  <2> QED
    BY <1>3, <1>4, <2>1, Induction
<1> QED
  BY <1>1, <1>2, <1>5 DEF n

LEMMA StageOneKeeps ==
  ASSUME NEW deal, NEW targets, NEW f, NEW n, StageOne(targets, f, n) # Raised,
         OneRowEach(deal, f)
  PROVE  OneRowEach(deal, StageOne(targets, f, n))
<1>1. CASE n \notin G!Reachable(targets)
  BY <1>1 DEF StageOne
<1>2. CASE n \in G!Reachable(targets)
  <2> DEFINE g == WithTerm(f, n)
             Cells(c) == [x \in DOMAIN c \cup {n} |->
                            IF x # n THEN c[x]
                            ELSE Term(n, [i \in DOMAIN terms[n] |-> c[terms[n][i]]])]
             Row(r) == [id |-> r.id, cells |-> Cells(r.cells)]
  <2>1. StageOne(targets, f, n) = g
    BY <1>2 DEF StageOne
  <2>2. g = Frame(f.columns \cup {n}, {Row(r) : r \in f.rows})
    BY <2>1 DEF WithTerm, MapCells
  <2> HIDE DEF Cells
  <2>3. g.rows = {Row(r) : r \in f.rows}
    BY <2>2 DEF Frame
  <2>4. [r \in f.rows |-> Row(r)] \in [f.rows -> g.rows]
    BY <2>3
  <2>5. Recelled(f, g)
    BY <2>3, <2>4 DEF Recelled
  <2> QED
    BY <2>1, <2>5, RecelledKeeps
<1> QED
  BY <1>1, <1>2

LEMMA StagedKeeps ==
  ASSUME NEW deal, NEW targets, NEW base, NEW s \in Seq(Name),
         Staged(targets, base, s) # Raised, base # Raised => OneRowEach(deal, base)
  PROVE  OneRowEach(deal, Staged(targets, base, s))
<1> DEFINE n == Len(s)
<1>1. n \in Nat
  OBVIOUS
<1>2. PICK J : /\ J[0] = base
               /\ \A k \in 0..(n - 1) : J[k + 1] = StageOne(targets, J[k], s[k + 1])
               /\ Staged(targets, base, s) = J[n]
  BY StagedIsChain
<1> HIDE DEF n
<1> DEFINE N == {k \in Nat : k <= n /\ J[k] # Raised => OneRowEach(deal, J[k])}
<1>3. 0 \in N
  BY <1>2
<1>4. ASSUME NEW k \in N PROVE k + 1 \in N
  <2> SUFFICES ASSUME k + 1 <= n, J[k + 1] # Raised PROVE OneRowEach(deal, J[k + 1])
    OBVIOUS
  <2>1. k \in Nat /\ k \in 0..(n - 1) /\ k <= n
    BY <1>1
  <2>2. J[k + 1] = StageOne(targets, J[k], s[k + 1])
    BY <1>2, <2>1
  <2>3. J[k] # Raised
    BY <2>2 DEF StageOne, WithTerm
  <2>4. OneRowEach(deal, J[k])
    BY <2>1, <2>3
  <2> QED
    BY <2>2, <2>4, StageOneKeeps
<1>5. N = Nat
  <2> HIDE DEF N
  <2>1. N \subseteq Nat
    BY DEF N
  <2> QED
    BY <1>3, <1>4, <2>1, Induction
<1> QED
  BY <1>1, <1>2, <1>5 DEF n

LEMMA PlanRowEach ==
  ASSUME sources \in Seq(SourceCalls), GP!IInv, NEW deal \in Deals, Plan(deal) # Raised,
         \A i \in DOMAIN sources : UniqueOn(Right(deal, i), sources[i].keys)
  PROVE  OneRowEach(deal, Plan(deal)) /\ IsFrame(Plan(deal))
<1> DEFINE targets == views["output"]
           stage == Stage(deal)
           joined == Joined(deal)
           out == Select(stage, targets)
           Row(r) == [id |-> r.id, cells |-> Restrict(r.cells, targets)]
<1>1. Plan(deal) = out
  BY DEF Plan
<1>2. stage # Raised
  BY <1>1 DEF Select
<1>3. stage = Staged(targets, joined, G!TopologicalOrder) /\ joined # Raised
  BY <1>2 DEF Stage, Staged, StageOne, FoldLeft, MapThenFoldSet
<1>4. OneRowEach(deal, joined)
  BY <1>3, JoinedRowEach
<1>5. OneRowEach(deal, stage)
  BY <1>2, <1>3, <1>4, OrderIsNames, StagedKeeps
<1> HIDE DEF stage, targets
<1>6. out = Frame(targets, {Row(r) : r \in stage.rows})
  BY <1>1 DEF Select, MapCells
<1>7. out.columns = targets /\ out.rows = {Row(r) : r \in stage.rows}
  BY <1>6 DEF Frame
<1>8. IsFrame(out)
  BY <1>7 DEF IsFrame, Restrict
<1>9. [r \in stage.rows |-> Row(r)] \in [stage.rows -> out.rows]
  BY <1>7
<1>10. Recelled(stage, out)
  BY <1>7, <1>9 DEF Recelled
<1> QED
  BY <1>1, <1>5, <1>8, <1>10, RecelledKeeps DEF out

-----------------------------------------------------------------------------
(* What compute gives: a row for each group, whose members are the rows with  *)
(* its keys.                                                                *)
RolledRow(f, g) ==
  [id |-> FoldRow(f, g).id,
   cells |-> IF f.schema = Unset THEN FoldRow(f, g).cells
             ELSE Restrict(FoldRow(f, g).cells, f.schema)]
MembersOf(f, out, row) == {r \in out.rows : \A k \in f.keys : row.cells[k] = r.cells[k]}

LEMMA RolledRows ==
  ASSUME NEW f, NEW out, NEW rolled, rolled = Compute(f, out), rolled # Raised,
         f.keys \subseteq rolled.columns
  PROVE  /\ \A row \in rolled.rows : \E g \in Groups(out, f.keys) : row = RolledRow(f, g)
         /\ \A g \in Groups(out, f.keys) : RolledRow(f, g) \in rolled.rows
         /\ f.keys \subseteq out.columns /\ f.keys \cap DOMAIN f.aggs = {}
         /\ \A g : \A k \in f.keys : RolledRow(f, g).cells[k] = (CHOOSE r \in g : TRUE).cells[k]
         /\ \A g : \A c \in DOMAIN f.aggs \cap rolled.columns :
              RolledRow(f, g).cells[c] = Reduced(f.aggs[c], g)
<1> DEFINE groups == Groups(out, f.keys)
           columns == f.keys \cup DOMAIN f.aggs
           rows == {FoldRow(f, g) : g \in groups}
           grouped == Frame(columns, rows)
           Shown(s) == [id |-> s.id, cells |-> Restrict(s.cells, f.schema)]
<1>1. rolled = IF f.schema = Unset THEN grouped ELSE Select(grouped, f.schema)
  BY DEF Compute
<1>2. f.keys \subseteq out.columns /\ f.keys \cap DOMAIN f.aggs = {}
  BY DEF Compute
<1> HIDE DEF groups, columns
<1>3. ASSUME NEW g
      PROVE  /\ DOMAIN FoldRow(f, g).cells = columns
             /\ \A k \in f.keys : FoldRow(f, g).cells[k] = (CHOOSE r \in g : TRUE).cells[k]
             /\ \A c \in DOMAIN f.aggs : FoldRow(f, g).cells[c] = Reduced(f.aggs[c], g)
  BY <1>2 DEF FoldRow, columns
<1>4. CASE f.schema = Unset
  <2>1. rolled.rows = rows /\ rolled.columns = columns
    <3> HIDE DEF rows
    <3> QED
      BY <1>1, <1>4 DEF Frame
  <2>2. \A g : RolledRow(f, g) = FoldRow(f, g)
    BY <1>4 DEF RolledRow, FoldRow
  <2>3. rolled.rows = {RolledRow(f, g) : g \in groups}
    BY <2>1, <2>2
  <2> QED
    BY <1>2, <1>3, <2>2, <2>3 DEF groups
<1>5. CASE f.schema # Unset
  <2>1. rolled = Frame(f.schema, {Shown(s) : s \in rows})
    <3> HIDE DEF rows
    <3>1. rolled = Select(grouped, f.schema) /\ grouped.rows = rows
      BY <1>1, <1>5 DEF Frame
    <3> QED
      BY <3>1 DEF Select, MapCells
  <2>2. rolled.columns = f.schema /\ rolled.rows = {Shown(s) : s \in rows}
    <3> HIDE DEF Shown, rows
    <3> QED
      BY <2>1 DEF Frame
  <2>3. \A g : RolledRow(f, g) = Shown(FoldRow(f, g))
    BY <1>5 DEF RolledRow
  <2>4. rolled.rows = {RolledRow(f, g) : g \in groups}
    <3> HIDE DEF Shown
    <3> QED
      BY <2>2, <2>3
  <2>5. \A g : \A c \in f.schema : RolledRow(f, g).cells[c] = FoldRow(f, g).cells[c]
    BY <2>3 DEF Restrict
  <2>6. \A g : \A c \in DOMAIN f.aggs \cap rolled.columns :
          RolledRow(f, g).cells[c] = Reduced(f.aggs[c], g)
    BY <1>3, <2>2, <2>5
  <2>7. \A g : \A k \in f.keys : RolledRow(f, g).cells[k] = (CHOOSE r \in g : TRUE).cells[k]
    BY <1>3, <2>2, <2>5
  <2> QED
    BY <1>2, <2>4, <2>6, <2>7 DEF groups
<1> QED
  BY <1>4, <1>5

LEMMA GroupIsMembers ==
  ASSUME NEW f, NEW out, IsFrame(out), f.keys \subseteq out.columns,
         NEW g \in Groups(out, f.keys), NEW row,
         \A k \in f.keys : row.cells[k] = (CHOOSE r \in g : TRUE).cells[k]
  PROVE  MembersOf(f, out, row) = g
<1> DEFINE keys == f.keys
           KeysOf(r) == Restrict(r.cells, keys)
           GroupOf(r) == {p \in out.rows : KeysOf(p) = KeysOf(r)}
<1>1. \A p, r \in out.rows : KeysOf(p) = KeysOf(r) <=> \A k \in keys : p.cells[k] = r.cells[k]
  BY DEF Restrict, IsFrame
<1>2. PICK first \in g : first = CHOOSE r \in g : TRUE
  BY GroupsPart
<1>3. PICK r \in out.rows : g = GroupOf(r)
  BY DEF Groups
<1>4. first \in out.rows /\ KeysOf(first) = KeysOf(r)
  BY <1>2, <1>3
<1>5. g = GroupOf(first)
  BY <1>3, <1>4
<1>6. MembersOf(f, out, row) = {p \in out.rows : \A k \in keys : p.cells[k] = first.cells[k]}
  BY <1>2 DEF MembersOf
<1> HIDE DEF KeysOf, keys
<1> QED
  BY <1>1, <1>4, <1>5, <1>6

AddsOf(agg, rows) == {<<r.id, r.cells[agg.column]>> : r \in rows}
NotNull(adds) == {v \in adds : v[2] # Null}

\* A sum, strict or not, is what the rows of its group add.
LEMMA SumsReduce ==
  ASSUME NEW agg, agg.op \in {"sum", "strict_sum"}, agg.weight = Unset, agg.where = Unset,
         NEW rows
  PROVE  Reduced(agg, rows) =
           IF agg.op = "strict_sum" /\ AddsOf(agg, rows) # NotNull(AddsOf(agg, rows))
           THEN Null ELSE NotNull(AddsOf(agg, rows))
<1> DEFINE adds == AddsOf(agg, rows)
<1>1. {<<r.id, Value(agg, r.cells)>> : r \in Filtered(agg, rows)} = adds
  BY DEF Value, Filtered, AddsOf
<1>2. CASE agg.op = "sum"
  BY <1>1, <1>2 DEF Reduced, NotNull
<1>3. CASE agg.op = "strict_sum"
  BY <1>1, <1>3 DEF Reduced, NotNull
<1> QED
  BY <1>2, <1>3

(* "one row per position" (view.py:132) and "sums every numeric measure"      *)
(* (view.py:220): whatever is joined, measured, published, grouped and       *)
(* declared on the fold, with one source row for each key a position is in   *)
(* one group and adds to each of its totals exactly once.                    *)
THEOREM PositionsCountedOnce == Spec => []TotalsCountPositionsOnce
<1>1. DeclarationInv /\ GP!IInv => TotalsCountPositionsOnce
  <2> SUFFICES ASSUME DeclarationInv, GP!IInv, NEW deal \in Deals
               PROVE
      LET out == Plan(deal)
          rolled == Compute(fold, out)
          Summed == {c \in DOMAIN fold.aggs \cap rolled.columns :
                       /\ fold.aggs[c].op \in {"sum", "strict_sum"}
                       /\ fold.aggs[c].weight = Unset /\ fold.aggs[c].where = Unset}
          Members(group) == {r \in out.rows : \A k \in fold.keys \cap rolled.columns :
                                               group.cells[k] = r.cells[k]}
          Adds(rows, c) == {<<r.id, r.cells[fold.aggs[c].column]>> : r \in rows}
          NonNull(adds) == {v \in adds : v[2] # Null}
      IN  (/\ rolled # Raised /\ fold.keys \subseteq rolled.columns
           /\ \A i \in DOMAIN sources :
                UniqueOn(Prefixed(FrameOf(deal, sources[i].name), sources[i]),
                         sources[i].keys)) =>
            /\ {Origin(r) : r \in out.rows} = {Origin(p) : p \in deal.spine.rows}
            /\ \A r, s \in out.rows : Origin(r) = Origin(s) => r = s
            /\ \A r \in out.rows :
                 Cardinality({group \in rolled.rows : r \in Members(group)}) = 1
            /\ \A group \in rolled.rows, c \in Summed :
                 LET adds == Adds(Members(group), c)
                 IN  group.cells[c] =
                       IF fold.aggs[c].op = "strict_sum" /\ adds # NonNull(adds)
                       THEN Null ELSE NonNull(adds)
    BY DEF TotalsCountPositionsOnce
  <2> DEFINE out == Plan(deal)
             rolled == Compute(fold, out)
             Summed == {c \in DOMAIN fold.aggs \cap rolled.columns :
                          /\ fold.aggs[c].op \in {"sum", "strict_sum"}
                          /\ fold.aggs[c].weight = Unset /\ fold.aggs[c].where = Unset}
             groups == Groups(out, fold.keys)
             Members(group) == {r \in out.rows : \A k \in fold.keys \cap rolled.columns :
                                               group.cells[k] = r.cells[k]}
             Adds(rows, c) == {<<r.id, r.cells[fold.aggs[c].column]>> : r \in rows}
             NonNull(adds) == {v \in adds : v[2] # Null}
  <2> SUFFICES ASSUME rolled # Raised, fold.keys \subseteq rolled.columns,
                      \A i \in DOMAIN sources :
                        UniqueOn(Prefixed(FrameOf(deal, sources[i].name), sources[i]),
                                 sources[i].keys)
               PROVE
            /\ {Origin(r) : r \in out.rows} = {Origin(p) : p \in deal.spine.rows}
            /\ \A r, s \in out.rows : Origin(r) = Origin(s) => r = s
            /\ \A r \in out.rows :
                 Cardinality({group \in rolled.rows : r \in Members(group)}) = 1
            /\ \A group \in rolled.rows, c \in Summed :
                 LET adds == Adds(Members(group), c)
                 IN  group.cells[c] =
                       IF fold.aggs[c].op = "strict_sum" /\ adds # NonNull(adds)
                       THEN Null ELSE NonNull(adds)
    OBVIOUS
  <2>1. out # Raised
    BY DEF Compute, rolled
  <2>2. OneRowEach(deal, out) /\ IsFrame(out)
    BY <2>1, PlanRowEach DEF DeclarationInv, Right
  <2>0. rolled = Compute(fold, out) /\ rolled # Raised /\ fold.keys \subseteq rolled.columns
    OBVIOUS
  <2> HIDE DEF out, rolled
  <2>3. /\ \A row \in rolled.rows : \E g \in groups : row = RolledRow(fold, g)
        /\ \A g \in groups : RolledRow(fold, g) \in rolled.rows
        /\ fold.keys \subseteq out.columns
        /\ \A g : \A k \in fold.keys :
             RolledRow(fold, g).cells[k] = (CHOOSE r \in g : TRUE).cells[k]
        /\ \A g : \A c \in DOMAIN fold.aggs \cap rolled.columns :
             RolledRow(fold, g).cells[c] = Reduced(fold.aggs[c], g)
    <3> HIDE DEF groups
    <3> DEFINE f == fold
    <3>1. f.keys \subseteq rolled.columns /\ rolled # Raised /\ rolled = Compute(f, out)
      BY <2>0
    <3>2. groups = Groups(out, f.keys)
      BY DEF groups
    <3> HIDE DEF f
    <3>3. \A row \in rolled.rows : \E g \in groups : row = RolledRow(f, g)
      BY ONLY <3>1, <3>2, RolledRows
    <3>4. \A g \in groups : RolledRow(f, g) \in rolled.rows
      BY ONLY <3>1, <3>2, RolledRows
    <3>5. f.keys \subseteq out.columns
      BY ONLY <3>1, <3>2, RolledRows
    <3>6. \A g : \A k \in f.keys :
             RolledRow(f, g).cells[k] = (CHOOSE r \in g : TRUE).cells[k]
      BY ONLY <3>1, RolledRows
    <3>7. \A g : \A c \in DOMAIN f.aggs \cap rolled.columns :
             RolledRow(f, g).cells[c] = Reduced(f.aggs[c], g)
      BY ONLY <3>1, RolledRows
    <3> QED
      BY <3>3, <3>4, <3>5, <3>6, <3>7 DEF f
  <2>4. \A g \in groups : Members(RolledRow(fold, g)) = g
    <3> SUFFICES ASSUME NEW g \in groups PROVE Members(RolledRow(fold, g)) = g
      OBVIOUS
    <3> DEFINE row == RolledRow(fold, g)
    <3>0. \A k \in fold.keys : row.cells[k] = (CHOOSE r \in g : TRUE).cells[k]
      BY <2>3
    <3> HIDE DEF row
    <3>1. MembersOf(fold, out, row) = g
      BY <2>2, <2>3, <3>0, GroupIsMembers
    <3>2. fold.keys \cap rolled.columns = fold.keys
      OBVIOUS
    <3> QED
      BY <3>1, <3>2 DEF MembersOf, row
  <2>5. {Origin(r) : r \in out.rows} = {Origin(p) : p \in deal.spine.rows}
    BY <2>2 DEF OneRowEach
  <2>6. \A r, s \in out.rows : Origin(r) = Origin(s) => r = s
    BY <2>2 DEF OneRowEach
  <2> HIDE DEF Members
  <2>7. ASSUME NEW r \in out.rows
        PROVE  Cardinality({group \in rolled.rows : r \in Members(group)}) = 1
    <3>1. PICK g \in groups : r \in g
      BY GroupsPart
    <3>2. \A h \in groups : r \in h => h = g
      BY <3>1, GroupsPart
    <3>3. {group \in rolled.rows : r \in Members(group)} = {RolledRow(fold, g)}
      BY <2>3, <2>4, <3>1, <3>2
    <3> QED
      BY <3>3, FS_Singleton
  <2>8. ASSUME NEW group \in rolled.rows, NEW c \in Summed,
               NEW adds, adds = Adds(Members(group), c)
        PROVE  group.cells[c] = IF fold.aggs[c].op = "strict_sum" /\ adds # NonNull(adds)
                                THEN Null ELSE NonNull(adds)
    <3>1. PICK g \in groups : group = RolledRow(fold, g)
      BY <2>3
    <3>2. adds = Adds(g, c)
      BY <2>4, <2>8, <3>1
    <3>3. group.cells[c] = Reduced(fold.aggs[c], g)
      BY <2>3, <3>1
    <3>4. /\ fold.aggs[c].op \in {"sum", "strict_sum"}
          /\ fold.aggs[c].weight = Unset /\ fold.aggs[c].where = Unset
      OBVIOUS
    <3>5. adds = AddsOf(fold.aggs[c], g) /\ NonNull(adds) = NotNull(adds)
      BY <3>2 DEF AddsOf, NotNull
    <3> HIDE DEF Summed, Adds, NonNull
    <3> QED
      BY <3>3, <3>4, <3>5, SumsReduce
  <2> QED
    BY <2>5, <2>6, <2>7, <2>8 DEF Members
<1> QED
  BY <1>1, DeclarationInvariant, GraphInvariance, PTL
===============================================================================
