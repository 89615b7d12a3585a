---------------------------- MODULE ValuationPlan ----------------------------
(***************************************************************************)
(* The registration side of ValuationPlan                                   *)
(* (plugins/schenberg_distributed/schenberg_distributed/plan.py).           *)
(*                                                                          *)
(* A plan is built by calls of input, node and concat, in any order and     *)
(* from any code that holds the plan.  Each call checks everything before   *)
(* it changes anything, so a rejected call is a stuttering step.  Nothing   *)
(* is ever removed.                                                         *)
(***************************************************************************)
EXTENDS DependencyGraph

CONSTANTS Name,    \* the non-empty vertex names callers may use
          Source   \* the market source names nodes may declare

VARIABLES graph,   \* _graph: the rustworkx digraph, by name
          indices, \* _indices: name -> vertex index
          inputs,  \* _inputs: the names registered by input()
          nodes    \* _nodes: name -> ValuationNode of the other vertices

vars == <<graph, indices, inputs, nodes>>

Has(name) == name \in DOMAIN indices

\* A ValuationNode: its kind, the plan names it reads (the values of
\* bindings, or concat_inputs), and the market sources it declares.
ValuationNode ==
  [kind : {"function"}, reads : SUBSET Name, market_sources : SUBSET Source]
  \cup
  [kind : {"concat"}, reads : SUBSET Name, market_sources : {{}}]

TypeOK ==
  /\ graph \in [node : SUBSET Name, edge : SUBSET (Name \X Name)]
  /\ IsGraph(graph)
  /\ inputs \in SUBSET Name
  /\ DOMAIN nodes \in SUBSET Name
  /\ nodes \in [DOMAIN nodes -> ValuationNode]
  /\ DOMAIN indices = graph.node
  /\ indices \in [graph.node -> Nat]

BuildInit ==
  /\ graph = [node |-> {}, edge |-> {}]
  /\ indices = [n \in {} |-> 0]
  /\ inputs = {}
  /\ nodes = [n \in {} |-> 0]

\* Mutant: the index is not recorded.
AddVertexUnrecorded(name) == indices' = indices

\* _graph.add_node returns the next index; no vertex is ever removed.
AddVertex(name) ==
  indices' = [n \in DOMAIN indices \cup {name} |->
                IF n = name THEN Cardinality(DOMAIN indices) ELSE indices[n]]

\* Mutant: an input may take a name in use.
InputAgain(name) ==
  /\ AddVertex(name)
  /\ graph' = [node |-> graph.node \cup {name}, edge |-> graph.edge]
  /\ inputs' = inputs \cup {name}
  /\ UNCHANGED nodes

\* input(name, value)
Input(name) ==
  /\ ~Has(name)
  /\ AddVertex(name)
  /\ graph' = [node |-> graph.node \cup {name}, edge |-> graph.edge]
  /\ inputs' = inputs \cup {name}
  /\ UNCHANGED nodes

\* Mutants of _add_node: the name may be in use, the dependencies missing.
AddNodeReplacing(name, vnode) ==
  /\ \A dep \in vnode.reads : Has(dep)
  /\ AddVertex(name)
  /\ nodes' = [n \in DOMAIN nodes \cup {name} |->
                 IF n = name THEN vnode ELSE nodes[n]]
  /\ graph' = [node |-> graph.node \cup {name},
               edge |-> graph.edge \cup (vnode.reads \X {name})]
  /\ UNCHANGED inputs

AddNodeUnchecked(name, vnode) ==
  /\ ~Has(name)
  /\ AddVertex(name)
  /\ nodes' = [n \in DOMAIN nodes \cup {name} |->
                 IF n = name THEN vnode ELSE nodes[n]]
  /\ graph' = [node |-> graph.node \cup {name},
               edge |-> graph.edge \cup (vnode.reads \X {name})]
  /\ UNCHANGED inputs

\* _add_node, after _ensure_available and _ensure_dependencies
AddNode(name, vnode) ==
  /\ ~Has(name)
  /\ \A dep \in vnode.reads : Has(dep)
  /\ AddVertex(name)
  /\ nodes' = [n \in DOMAIN nodes \cup {name} |->
                 IF n = name THEN vnode ELSE nodes[n]]
  /\ graph' = [node |-> graph.node \cup {name},
               edge |-> graph.edge \cup (vnode.reads \X {name})]
  /\ UNCHANGED inputs

\* The decorator node(name, market_sources=..., **bindings) applied to a
\* function; every check is made when it is applied, none when it is built.
Node(name, bindings, market_sources) ==
  AddNode(name, [kind |-> "function", reads |-> bindings,
                 market_sources |-> market_sources])

\* concat(name, inputs)
Concat(name, concat_inputs) ==
  /\ concat_inputs # {}
  /\ AddNode(name, [kind |-> "concat", reads |-> concat_inputs,
                    market_sources |-> {}])

BuildNext ==
  \E name \in Name :
    \/ Input(name)
    \/ \E reads \in SUBSET Name, ms \in SUBSET Source : Node(name, reads, ms)
    \/ \E reads \in SUBSET Name : Concat(name, reads)

BuildSpec == BuildInit /\ [][BuildNext]_vars

-----------------------------------------------------------------------------
\* The queries.

\* Mutant: what the declaring nodes feed is forgotten.
AffectedDirectly(source) ==
  {n \in DOMAIN nodes : source \in nodes[n].market_sources}

\* affected_by_market_source(source)
AffectedByMarketSource(source) ==
  Affected(graph, {n \in DOMAIN nodes : source \in nodes[n].market_sources})

\* validate(): what every executor calls before it runs a target.
Validates ==
  /\ IsAcyclic(graph)
  /\ \A n \in DOMAIN nodes : \A dep \in nodes[n].reads : Has(dep)

-----------------------------------------------------------------------------
\* Properties.

\* The four structures a plan keeps describe one graph: every vertex is an
\* input or a node and never both, indices are dense and distinct, and the
\* edges into a vertex are what the registered node reads (executors look
\* arguments up through the node and order them through the graph).
StructuresAgree ==
  /\ graph.node = inputs \cup DOMAIN nodes
  /\ inputs \cap DOMAIN nodes = {}
  /\ \A m, n \in graph.node : indices[m] = indices[n] => m = n
  /\ \A n \in graph.node : indices[n] < Cardinality(graph.node)
  /\ \A n \in inputs : Predecessors(graph, n) = {}
  /\ \A n \in DOMAIN nodes : Predecessors(graph, n) = nodes[n].reads

\* Dependencies are registered before their dependents.
DependenciesFirst ==
  \A e \in graph.edge : indices[e[1]] < indices[e[2]]

\* validate() never raises on a plan built through its own methods: the
\* graph has no cycle and no dangling dependency.
AlwaysValid == Validates

\* affected_by_market_source walks forward from the declaring nodes and an
\* executor walks backward from its target; the two agree: a vertex is
\* affected exactly when running it runs a node that declares the source.
AffectedIsExact ==
  \A s \in Source, n \in graph.node :
    n \in AffectedByMarketSource(s)
      <=> \E m \in Required(graph, n) :
             m \in DOMAIN nodes /\ s \in nodes[m].market_sources

\* Registration only appends.  What a registered target needs never changes,
\* so a plan may grow under a live engine without changing its target, and
\* the vertices affected by a source are never dropped from its answer.
AppendOnly ==
  [][/\ \A n \in graph.node : Required(graph, n)' = Required(graph, n)
     /\ \A s \in Source :
          AffectedByMarketSource(s) \subseteq AffectedByMarketSource(s)']_vars
=============================================================================
