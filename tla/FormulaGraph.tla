---------------------------- MODULE FormulaGraph ----------------------------
(***************************************************************************)
(* FormulaGraph (schenberg/core/graph.py): terms registered one by one with *)
(* let and formula, views over them, and what plan, stage and the analyses  *)
(* compute from the registered terms.                                       *)
(*                                                                          *)
(* An expression is abstracted to the variables it mentions, in the order   *)
(* _iter_vars yields them.  A variable is a bare name: whether it means a   *)
(* term or an input column is decided when the graph is planned, by whether *)
(* a term of that name is registered by then.                               *)
(***************************************************************************)
EXTENDS DependencyGraph, SequencesExt

CONSTANTS Name,       \* names of terms and columns
          Schemas,    \* the column sets of the input schemas callers declare
          NoInput,    \* input=None: any column is accepted
          View,       \* view names
          ViewTerms,  \* the sets of terms callers ask views of
          Exprs,      \* the expressions callers register: the variables each
                      \* mentions, in order
          MaxTerms    \* bound on registered terms

ASSUME FormulaAssumption ==
  /\ Schemas \subseteq SUBSET Name
  /\ NoInput \notin Schemas
  /\ ViewTerms \subseteq SUBSET Name
  /\ Exprs \subseteq Seq(Name)
  /\ MaxTerms \in Nat

VARIABLES input,    \* _input_names, fixed by the constructor
          terms,    \* _terms: term -> the variables of its expression
          order,    \* the insertion order of the dict _terms
          views,    \* _views: view -> the names its columns map to
          known,    \* ghost: term -> the terms registered before it
          declared  \* ghost: the terms registered with formula over a schema

vars == <<input, terms, order, views, known, declared>>

HasSchema == input # NoInput

TypeOK ==
  /\ input \in Schemas \cup {NoInput}
  /\ DOMAIN terms \subseteq Name
  /\ \A t \in DOMAIN terms : terms[t] \in Exprs
  /\ ToSet(order) = DOMAIN terms /\ Len(order) = Cardinality(DOMAIN terms)
  /\ DOMAIN views \subseteq View
  /\ \A v \in DOMAIN views : views[v] \in ViewTerms
  /\ DOMAIN known = DOMAIN terms
  /\ declared \subseteq DOMAIN terms

Init ==
  /\ input \in Schemas \cup {NoInput}
  /\ terms = [t \in {} |-> <<>>]
  /\ order = <<>>
  /\ views = [v \in {} |-> {}]
  /\ known = [t \in {} |-> {}]
  /\ declared = {}

\* Mutants: a name may be registered again; a term may shadow a column.
RegisterAgain(name, expr) ==
  /\ HasSchema => name \notin input
  /\ name \notin ToSet(expr)
  /\ Cardinality(DOMAIN terms) < MaxTerms
  /\ terms' = [t \in DOMAIN terms \cup {name} |->
                 IF t = name THEN expr ELSE terms[t]]
  /\ order' = Append(order, name)
  /\ known' = [t \in DOMAIN known \cup {name} |->
                 IF t = name THEN DOMAIN terms ELSE known[t]]
  /\ UNCHANGED <<input, views>>

RegisterShadowing(name, expr) ==
  /\ name \notin DOMAIN terms
  /\ name \notin ToSet(expr)
  /\ Cardinality(DOMAIN terms) < MaxTerms
  /\ terms' = [t \in DOMAIN terms \cup {name} |->
                 IF t = name THEN expr ELSE terms[t]]
  /\ order' = Append(order, name)
  /\ known' = [t \in DOMAIN known \cup {name} |->
                 IF t = name THEN DOMAIN terms ELSE known[t]]
  /\ UNCHANGED <<input, views>>

\* let(name, expr): duplicates, shadowing and direct self-reference are
\* rejected; nothing asks whether the variables exist.
Register(name, expr) ==
  /\ name \notin DOMAIN terms
  /\ HasSchema => name \notin input
  /\ name \notin ToSet(expr)
  /\ Cardinality(DOMAIN terms) < MaxTerms
  /\ terms' = [t \in DOMAIN terms \cup {name} |->
                 IF t = name THEN expr ELSE terms[t]]
  /\ order' = Append(order, name)
  /\ known' = [t \in DOMAIN known \cup {name} |->
                 IF t = name THEN DOMAIN terms ELSE known[t]]
  /\ UNCHANGED <<input, views>>

Let(name, expr) == Register(name, expr) /\ UNCHANGED declared

\* Mutant: any name is taken for an input column.
ResolvesAny(param) == TRUE

\* formula(): a parameter is a term registered by now, else an input column;
\* with a schema anything else is rejected.  The namespace parameters (c,
\* contract, input, inputs) give the same columns by attribute.
Resolves(param) == (HasSchema /\ param \notin DOMAIN terms) => param \in input

Formula(name, expr) ==
  /\ \A param \in ToSet(expr) : Resolves(param)
  /\ Register(name, expr)
  /\ declared' = IF HasSchema THEN declared \cup {name} ELSE declared

\* returns(view, schema, **mapping): nothing asks whether the terms exist,
\* and declaring a view again replaces it.
Returns(view, targets) ==
  /\ views' = [v \in DOMAIN views \cup {view} |->
                 IF v = view THEN targets ELSE views[v]]
  /\ UNCHANGED <<input, terms, order, known, declared>>

Next ==
  \/ \E name \in Name, expr \in Exprs : Let(name, expr) \/ Formula(name, expr)
  \/ \E view \in View, targets \in ViewTerms : Returns(view, targets)

Spec == Init /\ [][Next]_vars

-----------------------------------------------------------------------------
\* The algorithms.

Vars(t) == ToSet(terms[t])

\* Edges of the term graph: a variable that is a term, to the term using it.
TermGraph ==
  [node |-> DOMAIN terms,
   edge |-> {e \in (DOMAIN terms) \X (DOMAIN terms) : e[1] \in Vars(e[2])}]

\* Mutant: what the targets use is forgotten.
TargetsOnly(targets) == targets \cap DOMAIN terms

\* _reachable: the terms among the targets and everything they use.
Reachable(targets) ==
  UNION {Required(TermGraph, t) : t \in targets \cap DOMAIN terms}

\* _inline substitutes terms recursively and raises when it meets a term that
\* is on its stack; the columns left in the tree are its required inputs.  The
\* trees of the targets are what plan computes without materialized terms.
Inlined ==
  LET inline[stack \in SUBSET Name] ==
        [n \in Name |->
           IF n \notin DOMAIN terms
           THEN [raises |-> FALSE, tree |-> [column |-> n], columns |-> {n}]
           ELSE IF n \in stack
           THEN [raises |-> TRUE, tree |-> [column |-> n], columns |-> {}]
           ELSE LET args == [i \in DOMAIN terms[n] |-> inline[stack \cup {n}][terms[n][i]]]
                IN  [raises |-> \E i \in DOMAIN args : args[i].raises,
                     tree |-> [term |-> n, args |-> [i \in DOMAIN args |-> args[i].tree]],
                     columns |-> UNION {args[i].columns : i \in DOMAIN args}]]
  IN  inline[{}]

\* required_inputs_for(targets)
RequiredInputs(targets) == UNION {Inlined[t].columns : t \in targets}

\* Mutant: terms are materialized in the order they were registered.
RegistrationOrder == order

\* topological_order: depth first, marking a term when it is entered, so a
\* cycle is cut where it is met and never reported.
TopologicalOrder ==
  LET visit[st \in [seen : SUBSET Name, done : Seq(Name)]] ==
        [n \in Name |->
           IF n \in st.seen \/ n \notin DOMAIN terms THEN st
           ELSE LET entered == [st EXCEPT !.seen = @ \cup {n}]
                    left == FoldLeft(LAMBDA acc, m : visit[acc][m], entered, terms[n])
                IN  [left EXCEPT !.done = Append(@, n)]]
  IN  FoldLeft(LAMBDA acc, n : visit[acc][n], [seen |-> {}, done |-> <<>>], order).done

\* _plan_materialized over a frame with the given columns, and stage: each
\* reachable term becomes a column, overwriting one of the same name; Missing
\* is a column polars would not find.
Missing == [missing |-> TRUE]

Materialized(columns, targets) ==
  LET frame == [n \in Name |-> IF n \in columns THEN [column |-> n] ELSE Missing]
      reachable == Reachable(targets)
      with_columns(f, n) ==
        IF n \notin reachable THEN f
        ELSE [f EXCEPT ![n] = [term |-> n,
                               args |-> [i \in DOMAIN terms[n] |-> f[terms[n][i]]]]]
  IN  FoldLeft(with_columns, frame, TopologicalOrder)

\* plan raises before it builds anything: _require_inputs inlines the targets.
PlanRaises(targets) == \E t \in targets : Inlined[t].raises

-----------------------------------------------------------------------------
\* Properties.

\* Terms whose variables were all resolved when they were registered: formula
\* over an input schema does that, let and a graph without schema do not.
Resolved(targets) == Reachable(targets) \subseteq declared

\* docs/concepts.md: "A FormulaGraph is a directed acyclic graph of named
\* terms".  A term that uses only declared ones is never on a cycle, however
\* let and formula are mixed elsewhere in the graph.
Acyclic ==
  \A t \in DOMAIN terms : Resolved({t}) => t \notin Ancestors(TermGraph, t)

\* The stack check of _inline reports a cycle exactly when the term uses,
\* directly or not, some term that uses itself; a cycle elsewhere in the
\* graph is no obstacle.
RaisesOnlyOnCycle ==
  \A n \in DOMAIN terms :
    Inlined[n].raises
      <=> \E m \in Reachable({n}) : m \in Ancestors(TermGraph, m)

\* The default plan and the legacy inlining give every column of a view the
\* same formula, whatever order terms were registered in and whatever else
\* the frame carries, even columns named like terms and cycles elsewhere.
MaterializedIsInlined ==
  \A v \in DOMAIN views : ~PlanRaises(views[v]) =>
    \A columns \in {RequiredInputs(views[v]), Name} :
      LET frame == Materialized(columns, views[v])
      IN  \A t \in views[v] : frame[t] = Inlined[t].tree

\* docs/concepts.md: "an already-defined term first, otherwise an input-schema
\* column".  A variable of a declared term is never captured by a term
\* registered later, so the term keeps the meaning it was declared with.
ResolutionKept ==
  \A t \in DOMAIN terms : t \in declared =>
    Vars(t) \cap DOMAIN terms \subseteq known[t]

\* What a declared term computes over declared terms never changes.
MeaningKept ==
  [][\A t \in declared : Resolved({t}) => Inlined'[t] = Inlined[t]]_vars
=============================================================================
