---------------------------- MODULE PricingFormula ----------------------------
(***************************************************************************)
(* Formula[Contract, Output](name) (schenberg/core/graph.py): the facade    *)
(* applications declare pricing formulas with.  It owns a FormulaGraph,     *)
(* whose terms are here the trees of expr.py, remembers an output schema,   *)
(* and publishes views that have exactly the columns of a schema.           *)
(***************************************************************************)
EXTENDS FormulaGraph, Expression

CONSTANTS Trees,        \* the expressions callers write
          OutputSchema, \* the column sets of the output schemas
          NoSchema,     \* a schema argument left out
          Mappings,     \* the **mapping of a returns call: functions to names
          Rows          \* the rows readers of a tree are compared on

ASSUME PricingFormulaAssumption ==
  /\ {IterVars(e) : e \in Trees} \subseteq Exprs
  /\ \E h \in 0..Height : /\ h * (MaxTerms + 1) <= Height
                         /\ \A e \in Trees : IsTree(e, h)
  /\ OutputSchema \subseteq SUBSET Name /\ NoSchema \notin OutputSchema
  /\ "output" \in View
  /\ Rows \subseteq [Name -> {NaN} \cup {<<x>> : x \in -Half..Half}]

VARIABLES body,    \* _terms with the trees: term -> tree
          mapping, \* _views with the columns: view -> (column -> name)
          schema,  \* _view_schemas
          output   \* _output

formulaVars == <<vars, body, mapping, schema, output>>

FormulaTypeOK ==
  /\ TypeOK
  /\ DOMAIN body = DOMAIN terms
  /\ \A t \in DOMAIN body : body[t] \in Trees /\ IterVars(body[t]) = terms[t]
  /\ DOMAIN mapping = DOMAIN views /\ DOMAIN schema = DOMAIN views
  /\ output \in OutputSchema \cup {NoSchema}

FormulaInit ==
  /\ Init
  /\ body = [t \in {} |-> <<>>]
  /\ mapping = [v \in {} |-> <<>>]
  /\ schema = [v \in {} |-> {}]
  /\ output \in OutputSchema \cup {NoSchema}

\* let and formula of the facade hand on to the graph.
Declare(name, tree) ==
  /\ Let(name, IterVars(tree)) \/ Formula(name, IterVars(tree))
  /\ body' = [t \in DOMAIN body \cup {name} |-> IF t = name THEN tree ELSE body[t]]
  /\ UNCHANGED <<mapping, schema, output>>

Given(asked) == IF asked = NoSchema THEN output ELSE asked

\* Mutant: a field without a mapping is left out of the view.
MappedOnly(columns, map) == [c \in columns \cap DOMAIN map |-> map[c]]

\* FormulaGraph.returns completes the mapping with the fields' own names.
Completed(columns, map) ==
  [c \in columns |-> IF c \in DOMAIN map THEN map[c] ELSE c]

NoMapping == [c \in {} |-> ""]

\* The graph's callers include this one.
ASSUME ViewTermsAssumption ==
  \A columns \in OutputSchema, map \in Mappings \cup {NoMapping} :
    DOMAIN map \subseteq columns =>
      {map[c] : c \in DOMAIN map} \cup (columns \ DOMAIN map) \in ViewTerms

Publish(view, columns, map) ==
  LET full == Completed(columns, map)
  IN  /\ Returns(view, {full[c] : c \in DOMAIN full})
      /\ mapping' = [v \in DOMAIN mapping \cup {view} |->
                       IF v = view THEN full ELSE mapping[v]]
      /\ schema' = [v \in DOMAIN schema \cup {view} |->
                      IF v = view THEN columns ELSE schema[v]]
      /\ UNCHANGED body

\* view(name, schema): fields that are no terms are passed through.
PublishView(view, columns) ==
  Publish(view, columns, [c \in columns \ DOMAIN terms |-> c]) /\ UNCHANGED output

\* returns(view, schema, **mapping): the schema is remembered first.
ReturnsView(view, asked, map) ==
  /\ Given(asked) # NoSchema
  /\ output' = Given(asked)
  /\ DOMAIN map \subseteq Given(asked)
  /\ Publish(view, Given(asked),
             IF map = NoMapping THEN [c \in Given(asked) \ DOMAIN terms |-> c] ELSE map)

\* The mapping names a column the schema has not: the graph raises, after the
\* facade has already taken the schema for its own.
ReturnsRejected(asked, map) ==
  /\ Given(asked) # NoSchema
  /\ ~(DOMAIN map \subseteq Given(asked))
  /\ output' = Given(asked)
  /\ UNCHANGED <<vars, body, mapping, schema>>

\* returns(schema) and returns(): a mapping given here would be ignored.
ReturnsOutput(asked) ==
  /\ Given(asked) # NoSchema
  /\ output' = Given(asked)
  /\ Publish("output", Given(asked), [c \in Given(asked) \ DOMAIN terms |-> c])

FormulaNext ==
  \/ \E name \in Name, tree \in Trees : Declare(name, tree)
  \/ \E view \in View, columns \in OutputSchema : PublishView(view, columns)
  \/ \E view \in View, asked \in OutputSchema \cup {NoSchema}, map \in Mappings :
       ReturnsView(view, asked, map)
  \/ \E asked \in OutputSchema \cup {NoSchema}, map \in Mappings : ReturnsRejected(asked, map)
  \/ \E asked \in OutputSchema \cup {NoSchema} : ReturnsOutput(asked)

FormulaSpec == FormulaInit /\ [][FormulaNext]_formulaVars

-----------------------------------------------------------------------------
\* _inline: variables that are terms are replaced by their trees, with the terms
\* that are being inlined on a stack.  Only used where Inlined says that no
\* cycle is met.
Substituted(e) ==
  LET inline[stack \in SUBSET Name] ==
        [n \in Name |->
           IF n \notin DOMAIN terms \/ n \in stack THEN <<"var", n>>
           ELSE Replaced(body[n], inline[stack \cup {n}])]
  IN  Replaced(e, inline[{}])

\* The columns a plan of targets leaves: one with_columns after another.
Columns(row, targets) ==
  LET reachable == Reachable(targets)
      with_columns(r, n) ==
        IF n \notin reachable THEN r ELSE [r EXCEPT ![n] = Polars(body[n], r)]
  IN  FoldLeft(with_columns, row, TopologicalOrder)

\* FormulaGraph.plan with the default materialized terms, then the select of
\* Formula.plan: the mapped columns, of which the schema's are kept.
Planned(view, row) ==
  LET columns == Columns(row, views[view])
  IN  [c \in schema[view] |->
         IF c \in DOMAIN mapping[view] THEN <<columns[mapping[view][c]]>>
         ELSE <<>>]

\* The trees of the graph: each term as declared and as inlined.
Formulas ==
  {body[t] : t \in DOMAIN body}
    \cup {Substituted(body[t]) : t \in {n \in DOMAIN body : ~Inlined[n].raises}}

-----------------------------------------------------------------------------
\* Properties.

\* Formula.plan of any view gives a value for every column of the schema the
\* view was published with, and it is what inlining gives, by the numeric
\* backend as well, whatever was published or rejected before and in whatever
\* order terms and views were declared.
PlannedIsInlined ==
  \A v \in DOMAIN views : ~PlanRaises(views[v]) =>
    \A row \in Rows : \A c \in schema[v] :
      /\ c \in DOMAIN mapping[v]
      /\ LET tree == Substituted(<<"var", mapping[v][c]>>)
         IN  ~ComparesNaN(tree, row) => Planned(v, row)[c] = <<Numeric(tree, row)>>
=============================================================================
