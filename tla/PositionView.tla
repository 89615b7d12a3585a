----------------------------- MODULE PositionView ------------------------------
(***************************************************************************)
(* PositionView (schenberg/position/view.py): a spine of positions, sources  *)
(* joined to it in the order they were declared, measures over the joined    *)
(* columns, a published view, and the fold that rolls it up.                 *)
(*                                                                          *)
(* The measures are the terms of a FormulaGraph without an input schema.     *)
(* Structures are folded from the same instrument values, so the functions   *)
(* of schenberg/structure are here too.                                     *)
(***************************************************************************)
EXTENDS Structure, SequencesExt

CONSTANTS
  Name,          \* names of columns and measures
  NoInput,       \* input=None, for the graph
  SpineCalls,    \* the spine() calls callers make: name, schema
  SourceCalls,   \* the source() calls callers make: name, schema, keys, prefix
  LetCalls,      \* the let() calls: name and references, see Resolve
  Outputs,       \* output schemas: sets of columns
  Numeric,       \* the columns whose type hint is float or int
  KeySets,       \* the keys callers group by
  FoldReturnCalls, \* the returns() calls on a fold: schema and aggs
  Deals,         \* what plan is called with: spine and sources, by schema,
                 \* and the names given
  Legs,          \* frames of structure legs
  MaxSources, MaxMeasures, MaxFoldCalls

\* _SourceNamespace.physical, _prefix_non_key
Physical(s, column) ==
  IF s.prefix # Unset /\ column \notin s.keys THEN s.prefix \o column ELSE column

\* A frame as it comes from storage, validated against its schema.
IsTable(f, schema) ==
  /\ f = Frame(schema, f.rows) /\ IsFrame(f)
  /\ \A r \in f.rows : r.id \in Seq(Nat) /\ Len(r.id) = 1
  /\ \A p, q \in f.rows : p.id = q.id => p = q

ASSUME PositionAssumption ==
  /\ Unset \notin SpineCalls /\ Unset \notin Outputs
  /\ \A s \in SourceCalls : s.keys \subseteq s.schema
  /\ \A deal \in Deals :
       /\ IsTable(deal.spine, deal.spine.columns)
       /\ IsTable(deal.frames[InstrumentValue], InstrumentValue)
       /\ \A s \in SourceCalls : IsTable(deal.frames[s.schema], s.schema)
  /\ \A legs \in Legs : IsTable(legs, StructureLeg)
  \* A product of three numbers is not null.
  /\ \A legs \in Legs, deal \in Deals :
       \A l \in legs.rows, v \in deal.frames[InstrumentValue].rows :
         Null # <<"*", <<l.cells["quantity"], l.cells["weight"], v.cells["value"]>>>>

\* What callers refer to has a name, prefixed or not.
ASSUME NameAssumption ==
  /\ Outputs \subseteq SUBSET Name
  /\ \A call \in SpineCalls : call.schema \subseteq Name
  /\ \A s \in SourceCalls : \A c \in s.schema : c \in Name /\ Physical(s, c) \in Name
  /\ \A call \in LetCalls :
       call.name \in Name /\ Len(call.refs) \in Nat /\ DOMAIN call.refs = 1..Len(call.refs)
  /\ MaxMeasures \in Nat

VARIABLES
  spine,    \* _spine_name and _spine_schema, or Unset
  sources,  \* _sources
  ns,       \* _ns: name -> schema, keys, prefix
  nsOrder,  \* the insertion order of the dict _ns
  output,   \* _output
  input, terms, order, views, known, declared, \* the FormulaGraph _g
  fold,     \* the fold the view was asked for, or Unset
  calls,    \* calls on that fold
  orderly   \* ghost: the spine came before the sources and no name came twice

graphVars == <<input, terms, order, views, known, declared>>
joinVars == <<spine, sources, ns, nsOrder, orderly>>
foldVars == <<fold, calls>>
vars == <<joinVars, output, graphVars, foldVars>>

Expressions == Seq(Name)
G == INSTANCE FormulaGraph WITH
       Schemas <- {}, View <- {"output"}, ViewTerms <- Outputs,
       Exprs <- Expressions, MaxTerms <- MaxMeasures

Init ==
  /\ spine = Unset /\ sources = <<>> /\ nsOrder = <<>>
  /\ ns = [n \in {} |-> Unset]
  /\ output \in Outputs \cup {Unset}
  /\ G!Init
  /\ fold = Unset /\ calls = 0
  /\ orderly = TRUE

Namespace(schema, keys, prefix) == [schema |-> schema, keys |-> keys, prefix |-> prefix]

\* A dict keeps the place of a name that is assigned again.
SetNamespace(name, namespace) ==
  /\ ns' = [n \in DOMAIN ns \cup {name} |-> IF n = name THEN namespace ELSE ns[n]]
  /\ nsOrder' = IF name \in DOMAIN ns THEN nsOrder ELSE Append(nsOrder, name)

\* spine(schema, name): checked against nothing, and the last one counts.
Spine(call) ==
  /\ fold = Unset
  /\ spine' = call
  /\ SetNamespace(call.name, Namespace(call.schema, {}, Unset))
  /\ orderly' = (orderly /\ sources = <<>>)
  /\ UNCHANGED <<sources, output, graphVars, foldVars>>

\* Mutant: a source is checked against the spine alone.
SpineColumns == IF spine = Unset THEN {} ELSE spine.schema

\* _check_conflicts: the columns joined so far, under the names the
\* namespaces of this moment give them.
Existing ==
  (IF spine = Unset THEN {} ELSE spine.schema)
    \cup UNION {{Physical(ns[sources[i].name], c) : c \in sources[i].schema} :
                  i \in DOMAIN sources}

Source(s) ==
  /\ fold = Unset
  /\ Len(sources) < MaxSources
  /\ {Physical(s, c) : c \in s.schema \ s.keys} \cap Existing = {}
  /\ sources' = Append(sources, s)
  /\ SetNamespace(s.name, Namespace(s.schema, s.keys, s.prefix))
  /\ orderly' = (orderly /\ spine # Unset /\ s.name \notin DOMAIN ns)
  /\ UNCHANGED <<spine, output, graphVars, foldVars>>

(* A reference is view.<source>.<column> or view.col(<column>), resolved to  *)
(* a bare name when the call that holds it is made.                         *)
Unresolved == Unset

\* col(): a measure, else the first namespace that has the column.
Col(name) ==
  LET first == SelectInSeq(nsOrder, LAMBDA n : name \in ns[n].schema)
  IN  IF name \in DOMAIN terms THEN name
      ELSE IF first = 0 THEN Unresolved
      ELSE Physical(ns[nsOrder[first]], name)

Resolve(ref) ==
  IF ref.source = Unset THEN Col(ref.column)
  ELSE IF ref.source \notin DOMAIN ns THEN Unresolved
  ELSE IF ref.column \notin ns[ref.source].schema THEN Unresolved
  ELSE Physical(ns[ref.source], ref.column)

\* let(), and add() with the measures of measures.py, which call it.
Let(call) ==
  /\ fold = Unset
  /\ LET expr == [i \in DOMAIN call.refs |-> Resolve(call.refs[i])]
     IN  /\ Unresolved \notin Range(expr)
         /\ G!Let(call.name, expr)
  /\ UNCHANGED <<joinVars, output, foldVars>>

\* returns(schema), and returns() with the schema of the constructor.
Returns(schema) ==
  /\ fold = Unset
  /\ LET resolved == IF schema # Unset THEN schema ELSE output
     IN  /\ resolved # Unset
         /\ output' = resolved
         /\ G!Returns("output", resolved)
  /\ UNCHANGED <<joinVars, foldVars>>

\* by(*keys): the fold of the output, every number summed.
RollUp(schema, keys) ==
  FoldReturns(FoldBy(NewFold, keys), Unset,
              [c \in (schema \ keys) \cap Numeric |-> Agg("sum", c)])

\* The caller asks for the fold once the view is declared; it is a value of
\* its own, which later declarations would not change.
By(keys) ==
  /\ fold = Unset
  /\ output # Unset
  /\ keys \subseteq output
  /\ fold' = RollUp(output, keys)
  /\ UNCHANGED <<joinVars, output, graphVars, calls>>

\* Fold's own by() and returns(), on the fold in hand.
ChangeFold ==
  /\ fold # Unset /\ calls < MaxFoldCalls
  /\ calls' = calls + 1
  /\ \/ \E keys \in KeySets : fold' = FoldBy(fold, keys)
     \/ \E call \in FoldReturnCalls :
          /\ ~ReturnsRaises(fold, call.schema, call.aggs)
          /\ fold' = FoldReturns(fold, call.schema, call.aggs)
  /\ UNCHANGED <<joinVars, output, graphVars>>

Next ==
  \/ \E call \in SpineCalls : Spine(call)
  \/ \E s \in SourceCalls : Source(s)
  \/ \E call \in LetCalls : Let(call)
  \/ \E schema \in Outputs \cup {Unset} : Returns(schema)
  \/ \E keys \in KeySets : By(keys)
  \/ ChangeFold

Spec == Init /\ [][Next]_vars

-----------------------------------------------------------------------------
\* The interpretations.

\* The columns of the frame are prefixed, declared or not; polars refuses a
\* prefixed column that is named like a key.
Prefixed(frame, s) ==
  LET Old(x) == CHOOSE c \in frame.columns : Physical(s, c) = x
  IN  IF \E c, d \in frame.columns : c # d /\ Physical(s, c) = Physical(s, d)
      THEN Raised
      ELSE MapCells(frame, {Physical(s, c) : c \in frame.columns},
             LAMBDA cells : [x \in {Physical(s, c) : c \in DOMAIN cells} |-> cells[Old(x)]])

\* A caller gives one frame for each name, of the schema of the last source
\* with that name.
FrameOf(deal, name) ==
  LET last == SelectLastInSeq(sources, LAMBDA s : s.name = name)
  IN  deal.frames[sources[last].schema]

\* Mutant: a position with no match in some source is dropped.
InnerJoin(deal) ==
  LET join(left, s) ==
        LET right == Prefixed(FrameOf(deal, s.name), s)
            on == SameName(s.keys)
            joined == LeftJoin(left, right, on)
        IN  IF s.name \notin deal.given \/ joined = Raised THEN Raised
            ELSE [joined EXCEPT !.rows =
                    {r \in joined.rows : r.id[Len(r.id)] # <<>>}]
  IN  FoldLeft(join, deal.spine, sources)

\* _join: a left join for each source, in declaration order.
Joined(deal) ==
  LET join(left, s) ==
        IF s.name \notin deal.given THEN Raised
        ELSE LeftJoin(left, Prefixed(FrameOf(deal, s.name), s), SameName(s.keys))
  IN  FoldLeft(join, deal.spine, sources)

\* One with_columns: the term's column is added, or overwritten.
WithTerm(frame, n) ==
  IF frame = Raised \/ ~(G!Vars(n) \subseteq frame.columns) THEN Raised
  ELSE MapCells(frame, frame.columns \cup {n},
         LAMBDA c : [x \in DOMAIN c \cup {n} |->
                       IF x # n THEN c[x]
                       ELSE Term(n, [i \in DOMAIN terms[n] |-> c[terms[n][i]]])])

\* stage: the joined frame and every measure the output reaches.  plan: the
\* output schema's columns of it.
Stage(deal) ==
  LET targets == views["output"]
      joined == Joined(deal)
      reachable == G!Reachable(targets)
      with_columns(frame, n) == IF n \in reachable THEN WithTerm(frame, n) ELSE frame
  IN  IF \/ joined = Raised \/ G!PlanRaises(targets)
         \/ ~(G!RequiredInputs(targets) \subseteq joined.columns)
      THEN Raised
      ELSE FoldLeft(with_columns, joined, G!TopologicalOrder)

Plan(deal) == IF "output" \notin DOMAIN views THEN Raised
              ELSE Select(Stage(deal), views["output"])

-----------------------------------------------------------------------------
\* Properties.

TypeOK ==
  /\ G!TypeOK /\ input = NoInput
  /\ spine \in SpineCalls \cup {Unset}
  /\ \A i \in DOMAIN sources : sources[i] \in SourceCalls
  /\ DOMAIN ns = ToSet(nsOrder) /\ Len(nsOrder) = Cardinality(DOMAIN ns)
  /\ \A i \in DOMAIN sources : sources[i].name \in DOMAIN ns
  /\ output \in Outputs \cup {Unset}
  /\ "output" \in DOMAIN views => views["output"] \in Outputs
  /\ calls \in 0..MaxFoldCalls
  /\ orderly \in BOOLEAN

\* The rows of the i-th source a joined row was made with: none or one.
Partner(deal, i, row) ==
  {r \in FrameOf(deal, sources[i].name).rows : r.id = row.id[i + 1]}

\* "position_value.value.value resolves to a var for the joined value column"
\* (view.py:69).  Declared in order and without a name twice, no source's
\* column is ever another's: under the name its namespace gives, the joined
\* frame holds the cell of the source's own row, or null where none matched,
\* for keys taken from earlier sources, prefixes and all.
NamespaceIsItsSource ==
  (orderly /\ spine # Unset) =>
    \A deal \in Deals :
      LET joined == Joined(deal)
      IN  (deal.spine.columns = spine.schema /\ joined # Raised) =>
            \A row \in joined.rows, i \in DOMAIN sources :
              \A c \in sources[i].schema \ sources[i].keys :
                row.cells[Physical(ns[sources[i].name], c)] =
                  IF Partner(deal, i, row) = {} THEN Null
                  ELSE (CHOOSE r \in Partner(deal, i, row) : TRUE).cells[c]

\* A frame with one row for each key, as the schemas of the sources say.
UniqueOn(frame, keys) ==
  \A p, q \in frame.rows : (\A k \in keys : p.cells[k] = q.cells[k]) => p = q

\* "one row per position" (view.py:132) and "sums every numeric measure"
\* (view.py:220), whatever is joined, grouped and declared on the fold: with
\* one source row for each key, a position adds to one group, its own, exactly
\* once for each summed column that is not null, and a strict sum is null just
\* when a position of the group has a null.
TotalsCountPositionsOnce ==
  fold # Unset =>
    \A deal \in Deals :
      LET out == Plan(deal)
          rolled == Compute(fold, out)
          Summed == {c \in DOMAIN fold.aggs \cap rolled.columns :
                       /\ fold.aggs[c].op \in {"sum", "strict_sum"}
                       /\ fold.aggs[c].weight = Unset /\ fold.aggs[c].where = Unset}
          Members(group) == {r \in out.rows : \A k \in fold.keys \cap rolled.columns :
                                               group.cells[k] = r.cells[k]}
          Adds(rows, c) == {<<r.id, r.cells[fold.aggs[c].column]>> : r \in rows}
          NonNull(adds) == {v \in adds : v[2] # Null}
      IN  (/\ rolled # Raised /\ fold.keys \subseteq rolled.columns
           /\ \A i \in DOMAIN sources :
                UniqueOn(Prefixed(FrameOf(deal, sources[i].name), sources[i]),
                         sources[i].keys)) =>
            /\ {Origin(r) : r \in out.rows} = {Origin(p) : p \in deal.spine.rows}
            /\ \A r, s \in out.rows : Origin(r) = Origin(s) => r = s
            /\ \A r \in out.rows :
                 Cardinality({group \in rolled.rows : r \in Members(group)}) = 1
            /\ \A group \in rolled.rows, c \in Summed :
                 LET adds == Adds(Members(group), c)
                 IN  group.cells[c] =
                       IF fold.aggs[c].op = "strict_sum" /\ adds # NonNull(adds)
                       THEN Null ELSE NonNull(adds)

\* "Sum a column, returning null if any contributing row is null"
\* (fold.py:125): a structure has a value exactly when each of its legs has
\* one, and then every leg counts once, weighted by its own quantity.
UnpricedHasNoValue ==
  \A legs \in Legs, values \in {deal.frames[InstrumentValue] : deal \in Deals} :
    LET result == StructureValue(legs, values)
        PriceOf(l) == {v \in values.rows : \A k \in InstrumentKey :
                         l.cells[k] # Null /\ v.cells[k] = l.cells[k]}
        Priced(l) == \E v \in PriceOf(l) :
                       Null \notin {l.cells["quantity"], l.cells["weight"], v.cells["value"]}
        LegsOf(id) == {l \in legs.rows : l.cells["structure_id"] = id}
    IN  UniqueOn(values, InstrumentKey) =>
          /\ {s.cells["structure_id"] : s \in result.rows}
               = {l.cells["structure_id"] : l \in legs.rows}
          /\ \A s \in result.rows :
               LET mine == LegsOf(s.cells["structure_id"])
               IN  s.cells["value"] =
                     IF \E l \in mine : ~Priced(l) THEN Null
                     ELSE UNION {{<<<<Origin(l), v.id>>,
                                    <<"*", <<l.cells["quantity"], l.cells["weight"],
                                             v.cells["value"]>>>>>> : v \in PriceOf(l)} :
                                   l \in mine}
===============================================================================
