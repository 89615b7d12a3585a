--------------------------------- MODULE Fold ---------------------------------
(***************************************************************************)
(* Fold (schenberg/core/fold.py): rows grouped by keys, each output column   *)
(* reduced by one declared aggregation.                                     *)
(*                                                                          *)
(* A sum is abstracted to its contributions: the set of pairs of a row's id  *)
(* and the value it adds.  Two sums agree for every number the cells could   *)
(* hold exactly when their contributions do.                                *)
(***************************************************************************)
EXTENDS Frames

CONSTANTS Unset  \* None: no weight, no filter, no schema

\* Agg, as sum_, strict_sum_, first_, count_ and lit_ build it.  A filter is
\* a column and the value it must have.
Agg(op, column) == [op |-> op, column |-> column, weight |-> Unset, where |-> Unset]
Weighted(agg, weight) == [agg EXCEPT !.weight = weight]
Where(agg, column, value) == [agg EXCEPT !.where = [column |-> column, value |-> value]]
AggColumns(agg) ==
  (IF agg.op \in {"count", "lit"} THEN {} ELSE {agg.column})
    \cup (IF agg.weight = Unset THEN {} ELSE {agg.weight})
    \cup (IF agg.where = Unset THEN {} ELSE {agg.where.column})

\* polars arithmetic: null when an operand is.
Term(name, args) ==
  IF \E i \in DOMAIN args : args[i] = Null THEN Null ELSE <<name, args>>

\* What a row adds, and the rows that add: a null passes no filter.
Value(agg, cells) ==
  IF agg.weight = Unset THEN cells[agg.column]
  ELSE Term("*", <<cells[agg.column], cells[agg.weight]>>)
Filtered(agg, rows) ==
  IF agg.where = Unset THEN rows
  ELSE {r \in rows : r.cells[agg.where.column] = agg.where.value}

\* to_expr: sum skips nulls, strict_sum is null as soon as one row adds null,
\* count and lit look at no column.  first takes any row, frames here having no
\* order.
Reduced(agg, rows) ==
  LET kept == Filtered(agg, rows)
      values == {<<r.id, Value(agg, r.cells)>> : r \in kept}
      sum == {v \in values : v[2] # Null}
  IN  CASE agg.op = "sum" -> sum
        [] agg.op = "strict_sum" -> IF sum = values THEN sum ELSE Null
        [] agg.op = "count" -> Cardinality(rows)
        [] agg.op = "lit" -> agg.column
        [] agg.op = "first" ->
             IF kept = {} THEN Null
             ELSE Value(agg, (CHOOSE r \in kept : TRUE).cells)

NewFold == [keys |-> {}, schema |-> Unset, aggs |-> [c \in {} |-> Unset]]

\* by() replaces the keys and looks at nothing else.
FoldBy(fold, keys) == [fold EXCEPT !.keys = keys]

\* returns() raises unless every non-key field of the schema is aggregated and
\* nothing else is, by the keys the fold has at this moment.
ReturnsRaises(fold, schema, aggs) ==
  /\ schema # Unset
  /\ \/ ~(DOMAIN aggs \subseteq schema)
     \/ ~(schema \ fold.keys \subseteq DOMAIN aggs)
FoldReturns(fold, schema, aggs) ==
  IF ReturnsRaises(fold, schema, aggs) THEN Raised
  ELSE [fold EXCEPT !.schema = schema, !.aggs = aggs]

\* group_by: null is a key like another.
Groups(frame, keys) ==
  {{r \in frame.rows : Restrict(r.cells, keys) = Restrict(g.cells, keys)} : g \in frame.rows}

\* compute: a row per group, whose id is the ids it is made of.
FoldRow(fold, g) ==
  [id |-> <<{r.id : r \in g}>>,
   cells |-> [c \in fold.keys \cup DOMAIN fold.aggs |->
                IF c \in fold.keys THEN (CHOOSE r \in g : TRUE).cells[c]
                ELSE Reduced(fold.aggs[c], g)]]

Compute(fold, frame) ==
  LET grouped == Frame(fold.keys \cup DOMAIN fold.aggs,
                       {FoldRow(fold, g) : g \in Groups(frame, fold.keys)})
  IN  IF \/ fold.keys = {} \/ frame = Raised
         \/ ~(fold.keys \subseteq frame.columns)
         \/ fold.keys \cap DOMAIN fold.aggs # {}
         \/ \E c \in DOMAIN fold.aggs : ~(AggColumns(fold.aggs[c]) \subseteq frame.columns)
      THEN Raised
      ELSE IF fold.schema = Unset THEN grouped
      ELSE Select(grouped, fold.schema)
===============================================================================
