---------------------------- MODULE ExecutorProofs ----------------------------
(***************************************************************************)
(* Proofs about ValuationPlan and Executors: how a plan is built, and how   *)
(* it is run.                                                               *)
(*                                                                          *)
(* Building, for every set of names and sources: the inductive invariant    *)
(* BuildIInv adds to the type the finiteness of the vertex set, so that the *)
(* next index is larger than every index in use.  Everything about cycles   *)
(* follows from DependenciesFirst: the set of vertices with a larger index  *)
(* is closed forward and excludes its vertex.                               *)
(*                                                                          *)
(* Running, for every plan, target, context, number of workers and bound on *)
(* changes: that a run implements PlanRun needs to know that what has been  *)
(* computed is closed under what it reads: for the local executor because   *)
(* it visits a topological order, for dask because a task starts after      *)
(* those it reads.  What a result holds is then followed along the values:  *)
(* each has read, or has still to read, the inputs its vertex requires.     *)
(***************************************************************************)
EXTENDS Executors, ValuationPlan, FiniteSetTheorems, SequenceTheorems, TLAPS

-----------------------------------------------------------------------------
\* Graphs: the two directions of a walk agree, a ranked graph has no cycle, and
\* a graph that grows by a new sink keeps what its vertices require.

\* Walking forward from m reaches n exactly when walking backward from n
\* reaches m (downstream_of against upstream_of).
LEMMA Duality ==
  ASSUME NEW G, IsGraph(G), NEW m \in G.node, NEW n \in G.node
  PROVE  n \in Descendants(G, m) <=> m \in Ancestors(G, n)
<1>1. ASSUME n \in Descendants(G, m), m \notin Ancestors(G, n)
      PROVE  FALSE
  <2>1. PICK S \in SUBSET G.node :
          /\ Predecessors(G, n) \subseteq S
          /\ ClosedBackward(G, S)
          /\ m \notin S
    BY <1>1 DEF Ancestors
  <2> DEFINE T == (G.node \ S) \ {n}
  <2>2. Successors(G, m) \subseteq T
    BY <2>1 DEF Successors, Predecessors, ClosedBackward
  <2>3. ClosedForward(G, T)
    BY <2>1 DEF ClosedForward, ClosedBackward, Predecessors, IsGraph
  <2>4. T \in SUBSET G.node
    OBVIOUS
  <2>5. n \in T
    BY <1>1, <2>2, <2>3, <2>4 DEF Descendants
  <2> QED BY <2>5
<1>2. ASSUME m \in Ancestors(G, n), n \notin Descendants(G, m)
      PROVE  FALSE
  <2>1. PICK S \in SUBSET G.node :
          /\ Successors(G, m) \subseteq S
          /\ ClosedForward(G, S)
          /\ n \notin S
    BY <1>2 DEF Descendants
  <2> DEFINE T == (G.node \ S) \ {m}
  <2>2. Predecessors(G, n) \subseteq T
    BY <2>1 DEF Successors, Predecessors, ClosedForward
  <2>3. ClosedBackward(G, T)
    BY <2>1 DEF ClosedForward, ClosedBackward, Successors, IsGraph
  <2>4. T \in SUBSET G.node
    OBVIOUS
  <2>5. m \in T
    BY <1>2, <2>2, <2>3, <2>4 DEF Ancestors
  <2> QED BY <2>5
<1> QED BY <1>1, <1>2

\* The affected vertices are those that need a start to be run.
LEMMA AffectedDual ==
  ASSUME NEW G, IsGraph(G), NEW starts \in SUBSET G.node, NEW n \in G.node
  PROVE  n \in Affected(G, starts) <=> \E m \in Required(G, n) : m \in starts
<1>1. \A m \in starts : n \in Descendants(G, m) <=> m \in Ancestors(G, n)
  BY Duality
<1> QED BY <1>1 DEF Affected, Required

\* A graph whose edges all go up some ranking has no cycle.
LEMMA RankedIsAcyclic ==
  ASSUME NEW G, IsGraph(G), NEW rank \in [G.node -> Nat],
         \A e \in G.edge : rank[e[1]] < rank[e[2]]
  PROVE  IsAcyclic(G)
<1> SUFFICES ASSUME NEW n \in G.node, n \in Descendants(G, n)
             PROVE  FALSE
  BY DEF IsAcyclic
<1> DEFINE S == {m \in G.node : rank[n] < rank[m]}
<1>1. Successors(G, n) \subseteq S
  BY DEF Successors
<1>2. ClosedForward(G, S)
  <2> SUFFICES ASSUME NEW e \in G.edge, e[1] \in S PROVE e[2] \in S
    BY DEF ClosedForward
  <2>1. e[1] \in G.node /\ e[2] \in G.node
    BY DEF IsGraph
  <2> QED BY <2>1
<1>3. n \in S
  BY <1>1, <1>2 DEF Descendants
<1> QED BY <1>3

\* Adding a vertex x with edges into x only.
Grown(G, x, reads) == [node |-> G.node \cup {x}, edge |-> G.edge \cup (reads \X {x})]

LEMMA GrownKeeps ==
  ASSUME NEW G, IsGraph(G), NEW x, x \notin G.node,
         NEW reads \in SUBSET G.node, NEW n \in G.node
  PROVE  /\ IsGraph(Grown(G, x, reads))
         /\ Required(Grown(G, x, reads), n) = Required(G, n)
         /\ Descendants(G, n) \subseteq Descendants(Grown(G, x, reads), n)
<1> DEFINE H == Grown(G, x, reads)
<1>h. H.node = G.node \cup {x} /\ H.edge = G.edge \cup (reads \X {x})
  BY DEF Grown
<1>1. IsGraph(H)
  BY <1>h DEF IsGraph
<1>2. Predecessors(H, n) = Predecessors(G, n)
  BY <1>h DEF Predecessors, IsGraph
<1>3. Successors(G, n) \subseteq Successors(H, n)
  BY <1>h DEF Successors
<1>4. ASSUME NEW m \in Ancestors(H, n) PROVE m \in Ancestors(G, n)
  <2>1. \A S \in SUBSET G.node :
          Predecessors(G, n) \subseteq S /\ ClosedBackward(G, S) => m \in S
    <3> SUFFICES ASSUME NEW S \in SUBSET G.node,
                        Predecessors(G, n) \subseteq S, ClosedBackward(G, S)
                 PROVE  m \in S
      OBVIOUS
    <3>1. ClosedBackward(H, S)
      BY <1>h DEF ClosedBackward
    <3>2. S \in SUBSET H.node
      BY <1>h
    <3> QED BY <1>2, <3>1, <3>2, <1>4 DEF Ancestors
  <2>2. Predecessors(G, n) \subseteq G.node /\ ClosedBackward(G, G.node)
    BY DEF Predecessors, ClosedBackward, IsGraph
  <2> QED BY <2>1, <2>2 DEF Ancestors
<1>5. ASSUME NEW m \in Ancestors(G, n) PROVE m \in Ancestors(H, n)
  <2> SUFFICES ASSUME NEW S \in SUBSET H.node,
                      Predecessors(H, n) \subseteq S, ClosedBackward(H, S)
               PROVE  m \in S
    BY <1>h DEF Ancestors
  <2> DEFINE T == S \cap G.node
  <2>1. ClosedBackward(G, T)
    BY <1>h DEF ClosedBackward, IsGraph
  <2>2. Predecessors(G, n) \subseteq T
    BY <1>2 DEF Predecessors
  <2>3. m \in T
    BY <2>1, <2>2, <1>5 DEF Ancestors
  <2> QED BY <2>3
<1>6. ASSUME NEW m \in Descendants(G, n) PROVE m \in Descendants(H, n)
  <2> SUFFICES ASSUME NEW S \in SUBSET H.node,
                      Successors(H, n) \subseteq S, ClosedForward(H, S)
               PROVE  m \in S
    BY <1>h DEF Descendants
  <2> DEFINE T == S \cap G.node
  <2>1. ClosedForward(G, T)
    BY <1>h DEF ClosedForward, IsGraph
  <2>2. Successors(G, n) \subseteq T
    BY <1>3 DEF Successors
  <2>3. m \in T
    BY <2>1, <2>2, <1>6 DEF Descendants
  <2> QED BY <2>3
<1>7. Required(H, n) = Required(G, n)
  BY <1>4, <1>5 DEF Required
<1> QED BY <1>1, <1>6, <1>7

-----------------------------------------------------------------------------
\* The inductive invariant.

BuildIInv ==
  /\ TypeOK
  /\ IsFiniteSet(graph.node)
  /\ StructuresAgree
  /\ DependenciesFirst

\* What registering any vertex has in common: a fresh name, known reads,
\* and the next index.
LEMMA AddVertexStep ==
  ASSUME BuildIInv, NEW name \in Name, ~Has(name), AddVertex(name),
         NEW reads \in SUBSET graph.node,
         graph' = Grown(graph, name, reads)
  PROVE  /\ graph' \in [node : SUBSET Name, edge : SUBSET (Name \X Name)]
         /\ IsGraph(graph)'
         /\ IsFiniteSet(graph.node)'
         /\ DOMAIN indices' = graph'.node
         /\ indices' \in [graph'.node -> Nat]
         /\ (\A m, n \in graph.node : indices[m] = indices[n] => m = n)'
         /\ (\A n \in graph.node : indices[n] < Cardinality(graph.node))'
         /\ DependenciesFirst'
         /\ Predecessors(graph', name) = reads
         /\ \A n \in graph.node :
              Predecessors(graph', n) = Predecessors(graph, n)
<1> DEFINE k == Cardinality(graph.node)
<1>1. name \notin graph.node
  BY DEF Has, BuildIInv, TypeOK
<1>2. /\ graph'.node = graph.node \cup {name}
      /\ graph'.edge = graph.edge \cup (reads \X {name})
  BY DEF Grown
<1>3. graph' \in [node : SUBSET Name, edge : SUBSET (Name \X Name)]
  BY DEF Grown, BuildIInv, TypeOK
<1>4. IsGraph(graph)'
  BY <1>1, <1>2 DEF BuildIInv, TypeOK, IsGraph
<1>5. /\ k \in Nat
      /\ IsFiniteSet(graph.node \cup {name})
      /\ Cardinality(graph.node \cup {name}) = k + 1
  BY <1>1, FS_AddElement, FS_CardinalityType DEF BuildIInv
<1>6. /\ DOMAIN indices' = graph'.node
      /\ indices' \in [graph'.node -> Nat]
      /\ indices'[name] = k
      /\ \A n \in graph.node : indices'[n] = indices[n]
  BY <1>1, <1>2, <1>5 DEF AddVertex, BuildIInv, TypeOK
<1>7. \A n \in graph.node : indices[n] \in Nat /\ indices[n] < k
  BY DEF BuildIInv, TypeOK, StructuresAgree
<1>8. \A m, n \in graph'.node : indices'[m] = indices'[n] => m = n
  <2> SUFFICES ASSUME NEW m \in graph'.node, NEW n \in graph'.node,
                      indices'[m] = indices'[n]
               PROVE  m = n
    OBVIOUS
  <2>1. \A i, j \in graph.node : indices[i] = indices[j] => i = j
    BY DEF BuildIInv, StructuresAgree
  <2>2. \A i \in graph.node : indices[i] # k
    BY <1>5, <1>7
  <2>3. m \in graph.node \cup {name} /\ n \in graph.node \cup {name}
    BY <1>2
  <2> QED BY <2>1, <2>2, <2>3, <1>6
<1>9. \A n \in graph'.node : indices'[n] < k + 1
  BY <1>2, <1>5, <1>6, <1>7
<1>10. \A e \in graph'.edge : indices'[e[1]] < indices'[e[2]]
  <2> SUFFICES ASSUME NEW e \in graph'.edge PROVE indices'[e[1]] < indices'[e[2]]
    OBVIOUS
  <2>1. CASE e \in graph.edge
    <3>1. e[1] \in graph.node /\ e[2] \in graph.node
      BY <2>1 DEF BuildIInv, TypeOK, IsGraph
    <3> QED BY <3>1, <2>1, <1>6 DEF BuildIInv, DependenciesFirst
  <2>2. CASE e \in reads \X {name}
    BY <2>2, <1>6, <1>7
  <2> QED BY <2>1, <2>2, <1>2
<1>11. Predecessors(graph', name) = reads
  BY <1>1, <1>2 DEF Predecessors, BuildIInv, TypeOK, IsGraph
<1>12. \A n \in graph.node : Predecessors(graph', n) = Predecessors(graph, n)
  BY <1>1, <1>2 DEF Predecessors, BuildIInv, TypeOK, IsGraph
<1>13. IsFiniteSet(graph'.node) /\ Cardinality(graph'.node) = k + 1
  BY <1>2, <1>5
<1>14. DependenciesFirst'
  BY <1>10 DEF DependenciesFirst
<1> QED
  BY <1>3, <1>4, <1>6, <1>8, <1>9, <1>11, <1>12, <1>13, <1>14

LEMMA InputStep ==
  ASSUME BuildIInv, NEW name \in Name, Input(name)
  PROVE  BuildIInv'
<1>1. ~Has(name) /\ AddVertex(name) /\ nodes' = nodes /\ inputs' = inputs \cup {name}
  BY DEF Input
<1>2. graph' = Grown(graph, name, {})
  BY DEF Input, Grown, BuildIInv, TypeOK
<1>3. name \notin graph.node
  BY <1>1 DEF Has, BuildIInv, TypeOK
<1>4. graph'.node = graph.node \cup {name}
  BY <1>2 DEF Grown
<1>5. TypeOK'
  BY <1>1, <1>2, AddVertexStep DEF BuildIInv, TypeOK
<1>6. StructuresAgree'
  <2>1. /\ (\A m, n \in graph.node : indices[m] = indices[n] => m = n)'
        /\ (\A n \in graph.node : indices[n] < Cardinality(graph.node))'
        /\ Predecessors(graph', name) = {}
        /\ \A n \in graph.node : Predecessors(graph', n) = Predecessors(graph, n)
    BY <1>1, <1>2, AddVertexStep
  <2>2. \A n \in inputs' : Predecessors(graph', n) = {}
    BY <2>1, <1>1 DEF BuildIInv, StructuresAgree
  <2>3. \A n \in DOMAIN nodes : Predecessors(graph', n) = nodes[n].reads
    BY <2>1 DEF BuildIInv, StructuresAgree
  <2>4. graph'.node = inputs' \cup DOMAIN nodes' /\ inputs' \cap DOMAIN nodes' = {}
    BY <1>1, <1>3, <1>4 DEF BuildIInv, StructuresAgree
  <2> QED BY <2>1, <2>2, <2>3, <2>4, <1>1 DEF StructuresAgree
<1> QED BY <1>1, <1>2, <1>5, <1>6, AddVertexStep DEF BuildIInv

LEMMA AddNodeStep ==
  ASSUME BuildIInv, NEW name \in Name, NEW vnode \in ValuationNode,
         AddNode(name, vnode)
  PROVE  BuildIInv'
<1>1. ~Has(name) /\ AddVertex(name) /\ inputs' = inputs
  BY DEF AddNode
<1>2. vnode.reads \in SUBSET graph.node
  BY DEF AddNode, Has, BuildIInv, TypeOK
<1>3. graph' = Grown(graph, name, vnode.reads)
  BY DEF AddNode, Grown
<1>4. name \notin graph.node
  BY <1>1 DEF Has, BuildIInv, TypeOK
<1>5. graph'.node = graph.node \cup {name}
  BY <1>3 DEF Grown
<1>6. /\ DOMAIN nodes' = DOMAIN nodes \cup {name}
      /\ nodes'[name] = vnode
      /\ \A n \in DOMAIN nodes : n # name /\ nodes'[n] = nodes[n]
  BY <1>4 DEF AddNode, BuildIInv, StructuresAgree
<1>7. nodes' \in [DOMAIN nodes' -> ValuationNode]
  BY <1>6 DEF AddNode, BuildIInv, TypeOK
<1>8. TypeOK'
  BY <1>1, <1>2, <1>3, <1>6, <1>7, AddVertexStep DEF BuildIInv, TypeOK
<1>9. StructuresAgree'
  <2>1. /\ (\A m, n \in graph.node : indices[m] = indices[n] => m = n)'
        /\ (\A n \in graph.node : indices[n] < Cardinality(graph.node))'
        /\ Predecessors(graph', name) = vnode.reads
        /\ \A n \in graph.node : Predecessors(graph', n) = Predecessors(graph, n)
    BY <1>1, <1>2, <1>3, AddVertexStep
  <2>2. \A n \in inputs' : Predecessors(graph', n) = {}
    BY <2>1, <1>1 DEF BuildIInv, StructuresAgree
  <2>3. \A n \in DOMAIN nodes' : Predecessors(graph', n) = nodes'[n].reads
    BY <2>1, <1>6 DEF BuildIInv, StructuresAgree
  <2>4. graph'.node = inputs' \cup DOMAIN nodes' /\ inputs' \cap DOMAIN nodes' = {}
    BY <1>1, <1>4, <1>5, <1>6 DEF BuildIInv, StructuresAgree
  <2> QED BY <2>1, <2>2, <2>3, <2>4 DEF StructuresAgree
<1> QED BY <1>1, <1>2, <1>3, <1>8, <1>9, AddVertexStep DEF BuildIInv

LEMMA BuildNextCases ==
  ASSUME BuildIInv, BuildNext
  PROVE  \E name \in Name :
            \/ Input(name)
            \/ \E vnode \in ValuationNode : AddNode(name, vnode)
<1>1. PICK name \in Name :
        \/ Input(name)
        \/ \E reads \in SUBSET Name, ms \in SUBSET Source : Node(name, reads, ms)
        \/ \E reads \in SUBSET Name : Concat(name, reads)
  BY DEF BuildNext
<1>2. ASSUME NEW reads \in SUBSET Name, NEW ms \in SUBSET Source,
             Node(name, reads, ms)
      PROVE  \E vnode \in ValuationNode : AddNode(name, vnode)
  BY <1>2 DEF Node, ValuationNode
<1>3. ASSUME NEW reads \in SUBSET Name, Concat(name, reads)
      PROVE  \E vnode \in ValuationNode : AddNode(name, vnode)
  BY <1>3 DEF Concat, ValuationNode
<1> QED BY <1>1, <1>2, <1>3

LEMMA BuildIInvAlways == BuildSpec => []BuildIInv
<1>1. BuildInit => BuildIInv
  <2> SUFFICES ASSUME BuildInit PROVE BuildIInv
    OBVIOUS
  <2>1. IsFiniteSet({})
    BY FS_EmptySet
  <2> QED BY <2>1 DEF BuildInit, BuildIInv, TypeOK, StructuresAgree, DependenciesFirst, IsGraph
<1>2. BuildIInv /\ [BuildNext]_vars => BuildIInv'
  <2> SUFFICES ASSUME BuildIInv, [BuildNext]_vars PROVE BuildIInv'
    OBVIOUS
  <2>1. CASE BuildNext
    BY <2>1, BuildNextCases, InputStep, AddNodeStep
  <2>2. CASE UNCHANGED vars
    BY <2>2 DEF vars, BuildIInv, TypeOK, StructuresAgree, DependenciesFirst,
                ValuationNode, IsGraph, Predecessors
  <2> QED BY <2>1, <2>2
<1> QED BY <1>1, <1>2, PTL DEF BuildSpec

-----------------------------------------------------------------------------
\* The theorems.

\* Type correctness: the five structures keep their types whatever calls
\* input, node and concat receive, in any order.
THEOREM PlanTypeCorrect == BuildSpec => []TypeOK
<1>1. BuildIInv => TypeOK
  BY DEF BuildIInv
<1> QED BY <1>1, BuildIInvAlways, PTL

\* The graph, the index table, the inputs and the nodes always describe the
\* same dependencies (plan.py _add_node and input).
THEOREM StructuresAlwaysAgree == BuildSpec => []StructuresAgree
<1>1. BuildIInv => StructuresAgree
  BY DEF BuildIInv
<1> QED BY <1>1, BuildIInvAlways, PTL

\* Every edge goes from an earlier to a later registration.
THEOREM RegistrationIsTopological == BuildSpec => []DependenciesFirst
<1>1. BuildIInv => DependenciesFirst
  BY DEF BuildIInv
<1> QED BY <1>1, BuildIInvAlways, PTL

\* validate() never raises: no plan built through the API has a cycle or a
\* dangling dependency, so the DAGHasCycle branch is unreachable.
THEOREM PlanAlwaysValid == BuildSpec => []AlwaysValid
<1>1. BuildIInv => AlwaysValid
  <2> SUFFICES ASSUME BuildIInv PROVE AlwaysValid
    OBVIOUS
  <2>1. IsAcyclic(graph)
    BY RankedIsAcyclic DEF BuildIInv, TypeOK, DependenciesFirst
  <2>2. ASSUME NEW n \in DOMAIN nodes, NEW dep \in nodes[n].reads
        PROVE  Has(dep)
    <3>1. dep \in Predecessors(graph, n)
      BY DEF BuildIInv, StructuresAgree
    <3> QED BY <3>1 DEF Predecessors, Has, BuildIInv, TypeOK
  <2> QED BY <2>1, <2>2 DEF AlwaysValid, Validates
<1> QED BY <1>1, BuildIInvAlways, PTL

\* affected_by_market_source names exactly the vertices whose run executes a
\* node declaring the source: the forward walk of the index and the backward
\* walk of the executors agree on every plan.
THEOREM AffectedAlwaysExact == BuildSpec => []AffectedIsExact
<1>1. BuildIInv => AffectedIsExact
  <2> SUFFICES ASSUME BuildIInv, NEW s \in Source, NEW n \in graph.node
               PROVE  n \in AffectedByMarketSource(s)
                        <=> \E m \in Required(graph, n) :
                              m \in DOMAIN nodes /\ s \in nodes[m].market_sources
    BY DEF AffectedIsExact
  <2> DEFINE starts == {m \in DOMAIN nodes : s \in nodes[m].market_sources}
  <2>1. IsGraph(graph) /\ starts \in SUBSET graph.node
    BY DEF BuildIInv, TypeOK, StructuresAgree
  <2>2. n \in Affected(graph, starts)
          <=> \E m \in Required(graph, n) : m \in starts
    BY <2>1, AffectedDual
  <2> QED BY <2>2 DEF AffectedByMarketSource
<1> QED BY <1>1, BuildIInvAlways, PTL

\* Registration never changes what a registered vertex needs, and never
\* drops a vertex from the answer to a market event.
THEOREM PlanIsAppendOnly == BuildSpec => AppendOnly
<1> DEFINE Kept ==
      /\ \A n \in graph.node : Required(graph, n)' = Required(graph, n)
      /\ \A s \in Source :
           AffectedByMarketSource(s) \subseteq AffectedByMarketSource(s)'
<1>1. ASSUME BuildIInv, [BuildNext]_vars PROVE [Kept]_vars
  <2>1. CASE UNCHANGED vars
    BY <2>1
  <2>2. ASSUME NEW name \in Name, NEW reads \in SUBSET graph.node, ~Has(name),
               graph' = Grown(graph, name, reads),
               DOMAIN nodes \subseteq DOMAIN nodes',
               \A n \in DOMAIN nodes : nodes'[n] = nodes[n]
        PROVE  Kept
    <3>1. IsGraph(graph) /\ name \notin graph.node /\ DOMAIN nodes \subseteq graph.node
      BY <1>1, <2>2 DEF BuildIInv, TypeOK, StructuresAgree, Has
    <3>2. \A n \in graph.node : Required(graph', n) = Required(graph, n)
      BY <2>2, <3>1, GrownKeeps
    <3>3. \A n \in graph.node : Descendants(graph, n) \subseteq Descendants(graph', n)
      BY <2>2, <3>1, GrownKeeps
    <3>4. ASSUME NEW s \in Source, NEW n \in AffectedByMarketSource(s)
          PROVE  n \in AffectedByMarketSource(s)'
      <4>1. CASE n \in {m \in DOMAIN nodes : s \in nodes[m].market_sources}
        BY <4>1, <2>2 DEF AffectedByMarketSource, Affected
      <4>2. ASSUME NEW m \in DOMAIN nodes, s \in nodes[m].market_sources,
                   n \in Descendants(graph, m)
            PROVE  n \in AffectedByMarketSource(s)'
        BY <4>2, <2>2, <3>1, <3>3 DEF AffectedByMarketSource, Affected
      <4> QED BY <4>1, <4>2 DEF AffectedByMarketSource, Affected
    <3> QED BY <3>2, <3>4
  <2>3. ASSUME NEW name \in Name, Input(name) PROVE Kept
    <3>1. ~Has(name) /\ nodes' = nodes /\ graph' = Grown(graph, name, {})
      BY <2>3 DEF Input, Grown
    <3> QED BY <3>1, <2>2
  <2>4. ASSUME NEW name \in Name, NEW vnode \in ValuationNode, AddNode(name, vnode)
        PROVE  Kept
    <3>1. ~Has(name) /\ name \notin DOMAIN nodes
      BY <1>1, <2>4 DEF AddNode, Has, BuildIInv, TypeOK, StructuresAgree
    <3>2. vnode.reads \in SUBSET graph.node
      BY <1>1, <2>4 DEF AddNode, Has, BuildIInv, TypeOK
    <3>3. graph' = Grown(graph, name, vnode.reads)
      BY <2>4 DEF AddNode, Grown
    <3>4. /\ DOMAIN nodes \subseteq DOMAIN nodes'
          /\ \A n \in DOMAIN nodes : nodes'[n] = nodes[n]
      BY <2>4, <3>1 DEF AddNode
    <3> QED BY <3>1, <3>2, <3>3, <3>4, <2>2
  <2>5. CASE BuildNext
    BY <1>1, <2>5, BuildNextCases, <2>3, <2>4
  <2> QED BY <1>1, <2>1, <2>5
<1>2. []BuildIInv /\ [][BuildNext]_vars => [][Kept]_vars
  BY <1>1, PTL
<1> QED BY <1>2, BuildIInvAlways, PTL DEF BuildSpec, AppendOnly

\* What the executors are given: the built plan, with the kinds of the values
\* its inputs were registered with.
BuiltPlan(kinds) ==
  [graph |-> graph, inputs |-> kinds,
   concats |-> {n \in DOMAIN nodes : nodes[n].kind = "concat"}]

\* The executors' half of this module assumes ExecutablePlan of the plans it
\* runs, and calls of input, node and concat build no other: the two halves of
\* plan.py and executors.py meet.
THEOREM BuiltPlansExecutable ==
  BuildSpec => [](\A kinds \in [inputs -> ValueKind] : ExecutablePlan(BuiltPlan(kinds)))
<1>1. BuildIInv => \A kinds \in [inputs -> ValueKind] : ExecutablePlan(BuiltPlan(kinds))
  <2> SUFFICES ASSUME BuildIInv, NEW kinds \in [inputs -> ValueKind]
               PROVE  ExecutablePlan(BuiltPlan(kinds))
    OBVIOUS
  <2>1. /\ IsFiniteSet(graph.node)
        /\ graph.edge \subseteq graph.node \X graph.node
        /\ inputs \subseteq graph.node
        /\ DOMAIN nodes \subseteq graph.node \ inputs
    BY DEF BuildIInv, TypeOK, IsGraph, StructuresAgree
  <2>2. ASSUME NEW e \in graph.edge PROVE e[2] \notin inputs
    <3>1. e[1] \in graph.node /\ e = <<e[1], e[2]>>
      BY <2>1
    <3>2. e[1] \in Predecessors(graph, e[2])
      BY <3>1 DEF Predecessors
    <3> QED BY <3>2 DEF BuildIInv, StructuresAgree
  <2> QED BY <2>1, <2>2 DEF ExecutablePlan, BuiltPlan
<1> QED BY <1>1, BuildIInvAlways, PTL

-----------------------------------------------------------------------------
\* What a vertex requires.

\* Ancestors are closed backward and hold the direct predecessors.
LEMMA AncestorsClosed ==
  ASSUME NEW G, IsGraph(G), NEW n \in G.node
  PROVE  /\ Predecessors(G, n) \subseteq Ancestors(G, n)
         /\ ClosedBackward(G, Ancestors(G, n))
<1>1. Predecessors(G, n) \subseteq Ancestors(G, n)
  BY DEF Predecessors, Ancestors
<1>2. ASSUME NEW e \in G.edge, e[2] \in Ancestors(G, n)
      PROVE  e[1] \in Ancestors(G, n)
  <2>1. e[1] \in G.node
    BY DEF IsGraph
  <2>2. ASSUME NEW S \in SUBSET G.node, Predecessors(G, n) \subseteq S, ClosedBackward(G, S)
        PROVE  e[1] \in S
    <3>1. e[2] \in S
      BY <1>2, <2>2 DEF Ancestors
    <3> QED BY <2>2, <3>1 DEF ClosedBackward
  <2> QED BY <2>1, <2>2 DEF Ancestors
<1> QED BY <1>1, <1>2 DEF ClosedBackward

\* A vertex requires itself and what the vertices it reads require.
LEMMA RequiredUnfolds ==
  ASSUME NEW G, IsGraph(G), NEW n \in G.node
  PROVE  Required(G, n) = {n} \cup UNION {Required(G, m) : m \in Predecessors(G, n)}
<1> DEFINE T == UNION {Required(G, m) : m \in Predecessors(G, n)}
<1>p. Predecessors(G, n) \subseteq G.node
  BY DEF Predecessors
<1>1. T \subseteq Ancestors(G, n)
  <2> SUFFICES ASSUME NEW m \in Predecessors(G, n), NEW x \in Required(G, m)
               PROVE  x \in Ancestors(G, n)
    OBVIOUS
  <2>1. m \in Ancestors(G, n)
    BY AncestorsClosed
  <2>2. CASE x = m
    BY <2>1, <2>2
  <2>3. CASE x \in Ancestors(G, m)
    <3>1. Predecessors(G, m) \subseteq Ancestors(G, n)
      BY <2>1, AncestorsClosed DEF ClosedBackward, Predecessors
    <3>2. Ancestors(G, n) \in SUBSET G.node /\ ClosedBackward(G, Ancestors(G, n))
      BY AncestorsClosed DEF Ancestors
    <3> QED BY <2>3, <3>1, <3>2 DEF Ancestors
  <2> QED BY <2>2, <2>3 DEF Required
<1>2. Ancestors(G, n) \subseteq T
  <2>1. T \in SUBSET G.node
    BY <1>p DEF Required, Ancestors
  <2>2. Predecessors(G, n) \subseteq T
    BY DEF Required
  <2>3. ClosedBackward(G, T)
    <3> SUFFICES ASSUME NEW e \in G.edge, NEW m \in Predecessors(G, n), e[2] \in Required(G, m)
                 PROVE  e[1] \in Required(G, m)
      BY DEF ClosedBackward
    <3>1. m \in G.node /\ e[1] \in G.node /\ e[2] \in G.node /\ <<e[1], e[2]>> \in G.edge
      BY <1>p DEF IsGraph
    <3>2. CASE e[2] = m
      <4>1. e[1] \in Predecessors(G, m)
        BY <3>1, <3>2 DEF Predecessors
      <4> QED BY <3>1, <4>1, AncestorsClosed DEF Required
    <3>3. CASE e[2] \in Ancestors(G, m)
      BY <3>1, <3>3, AncestorsClosed DEF Required, ClosedBackward
    <3> QED BY <3>2, <3>3 DEF Required
  <2> QED BY <2>1, <2>2, <2>3 DEF Ancestors
<1> QED BY <1>1, <1>2 DEF Required

-----------------------------------------------------------------------------
\* The steps of both executors, in the names of this module.

\* The values node n may give for the values args.
Gives(n, args) ==
  IF n \in plan.concats
  THEN {v \in {Combine("lazy", args), Combine("eager", args)} :
          /\ \A a \in args : a.kind # "object"
          /\ v.kind = "eager" <=> \A a \in args : a.kind # "lazy"}
  ELSE FunctionResults(args)

With(f, n, v) == [m \in DOMAIN f \cup {n} |-> IF m = n THEN v ELSE f[m]]

ArgsIn(f, n) == {f[m] : m \in Predecessors(plan.graph, n)}

\* Data or backends change.
Elsewhere ==
  /\ UNCHANGED <<plan, target, context, status, result>>
  /\ \/ UNCHANGED world
     \/ status = "running" /\ \E i \in Inputs : /\ world[i] < MaxVersion
                                                /\ world' = [world EXCEPT ![i] = @ + 1]

Fails ==
  /\ status = "running" /\ status' = "raised"
  /\ UNCHANGED <<plan, target, world, context, backends, result>>

LocalVisits ==
  /\ status = "running" /\ order # <<>> /\ order' = Tail(order)
  /\ UNCHANGED planVars
  /\ \/ Head(order) \in Inputs /\ UNCHANGED env
     \/ /\ Head(order) \notin Inputs
        /\ \E v \in Gives(Head(order), ArgsIn(env, Head(order))) :
             env' = With(env, Head(order), v)

LocalEnds ==
  /\ UNCHANGED <<order, env>>
  /\ \/ Fails
     \/ status = "running" /\ order = <<>> /\ Finish(env[target])

DaskStarts(n) ==
  /\ task[n] = "waiting"
  /\ \A m \in Predecessors(plan.graph, n) : task[m] = "done"
  /\ task' = [task EXCEPT ![n] = "running"]
  /\ UNCHANGED <<planVars, output>>

DaskRuns(n) ==
  /\ status = "running" /\ task[n] = "running"
  /\ task' = [task EXCEPT ![n] = "done"]
  /\ UNCHANGED planVars
  /\ \/ n \in Inputs /\ output' = With(output, n, Materialize(InputValue(n)))
     \/ /\ n \notin Inputs
        /\ \E v \in Gives(n, {Materialize(a) : a \in ArgsIn(output, n)})
                     \cup Gives(n, ArgsIn(output, n)) :
             output' = With(output, n, Materialize(v))

DaskEnds ==
  /\ UNCHANGED <<task, output>>
  /\ \/ Fails
     \/ status = "running" /\ task[target] = "done" /\ Finish(output[target])

\* What is known of the plan.
PlanFacts ==
  /\ IsGraph(plan.graph) /\ IsFiniteSet(plan.graph.node)
  /\ Inputs \subseteq plan.graph.node /\ plan.inputs \in [Inputs -> ValueKind]
  /\ \A e \in plan.graph.edge : e[2] \notin Inputs
  /\ plan.concats \cap Inputs = {}
  /\ target \in plan.graph.node
  /\ MaxVersion \in Nat

LEMMA LocalSteps ==
  ASSUME PlanFacts, Local!Next
  PROVE  LocalVisits \/ LocalEnds \/ (Elsewhere /\ UNCHANGED <<order, env>>)
<1> USE DEF Local!Visit, Local!Inputs, Inputs, Local!planVars, planVars
<1>1. CASE Local!SkipInput
  BY <1>1 DEF Local!SkipInput, LocalVisits
<1>2. CASE Local!RunFunction
  <2>1. PICK v \in FunctionResults(ArgsIn(env, Head(order))) : env' = With(env, Head(order), v)
    BY <1>2 DEF Local!RunFunction, Local!FunctionResults, FunctionResults, Local!SetEnv, With,
                Local!Args, ArgsIn, Local!Predecessors, Predecessors, Local!Collect, Collect,
                Local!ReadNow, ReadNow, Local!Combine, Combine, Local!ValueKind, ValueKind
  <2>2. v \in Gives(Head(order), ArgsIn(env, Head(order)))
    BY <1>2 DEF Local!RunFunction, Gives
  <2> QED BY <1>2, <2>1, <2>2 DEF Local!RunFunction, LocalVisits
<1>3. CASE Local!RunConcat
  <2> DEFINE args == ArgsIn(env, Head(order))
             kind == IF \E a \in args : a.kind = "lazy" THEN "lazy" ELSE "eager"
  <2>1. /\ \A a \in args : a.kind # "object"
        /\ env' = With(env, Head(order), Combine(kind, args))
    BY <1>3 DEF Local!RunConcat, Local!SetEnv, With, Local!Args, ArgsIn, Local!Predecessors,
                Predecessors, Local!Combine, Combine
  <2>2. Combine(kind, args) \in Gives(Head(order), args)
    BY <1>3, <2>1 DEF Local!RunConcat, Gives, Combine
  <2>3. Head(order) \notin Inputs
    BY <1>3 DEF Local!RunConcat, PlanFacts
  <2> HIDE DEF args, kind
  <2>4. \E v \in Gives(Head(order), args) : env' = With(env, Head(order), v)
    BY <2>1, <2>2
  <2> QED BY <1>3, <2>3, <2>4 DEF Local!RunConcat, LocalVisits, args
<1>4. CASE Local!NodeRaises
  BY <1>4 DEF Local!NodeRaises, LocalEnds, Fails
<1>5. CASE Local!CollectTarget
  BY <1>5 DEF Local!CollectTarget, LocalEnds, Local!Finish, Finish, Local!BackendFound,
              BackendFound, Local!Collect, Collect,
              Local!ReadNow, ReadNow
<1>6. CASE Local!SourceChanges
  BY <1>6 DEF Local!SourceChanges, Local!Tick, Elsewhere
<1>7. CASE Local!BackendRegistered
  BY <1>7 DEF Local!BackendRegistered, Local!RegisterBackend, Elsewhere
<1> QED
  BY <1>1, <1>2, <1>3, <1>4, <1>5, <1>6, <1>7 DEF Local!Next, Local!Step

LEMMA DaskSteps ==
  ASSUME PlanFacts, Dask!Next
  PROVE  \/ \E n \in Needed : DaskStarts(n) \/ DaskRuns(n)
         \/ DaskEnds
         \/ Elsewhere /\ UNCHANGED <<task, output>>
<1> USE DEF Dask!Running, Dask!Inputs, Inputs, Dask!planVars, planVars
<1>n. Dask!Needed = Needed
  BY DEF Dask!Needed, Needed, Dask!Required, Required, Dask!Ancestors, Ancestors,
         Dask!Predecessors, Predecessors, Dask!ClosedBackward, ClosedBackward
<1>1. ASSUME NEW n \in Needed, Dask!StartTask(n) PROVE DaskStarts(n)
  BY <1>1 DEF Dask!StartTask, DaskStarts, Dask!Predecessors, Predecessors
<1>2. ASSUME NEW n \in Needed, Dask!FinishInput(n) PROVE DaskRuns(n)
  BY <1>2 DEF Dask!FinishInput, Dask!Finished, DaskRuns, With, Dask!Materialize, Materialize,
              Dask!InputValue, InputValue, Dask!Collect, Collect, Dask!ReadNow, ReadNow
<1>3. ASSUME NEW n \in Needed, Dask!FinishFunction(n) PROVE DaskRuns(n)
  <2>1. PICK v \in FunctionResults(ArgsIn(output, n)) :
          output' = With(output, n, Materialize(v)) /\ task' = [task EXCEPT ![n] = "done"]
    BY <1>3 DEF Dask!FinishFunction, Dask!Finished, Dask!FunctionResults, FunctionResults,
                With, Dask!Args, ArgsIn, Dask!Predecessors, Predecessors, Dask!Collect, Collect,
                Dask!ReadNow, ReadNow, Dask!Combine, Combine, Dask!Materialize, Materialize,
                Dask!ValueKind, ValueKind
  <2>2. v \in Gives(n, ArgsIn(output, n))
    BY <1>3 DEF Dask!FinishFunction, Gives
  <2> QED BY <1>3, <2>1, <2>2 DEF Dask!FinishFunction, Dask!Finished, DaskRuns
<1>4. ASSUME NEW n \in Needed, Dask!FinishConcat(n) PROVE DaskRuns(n)
  <2> DEFINE args == {Materialize(a) : a \in ArgsIn(output, n)}
             v == Combine("eager", args)
  <2>1. /\ \A a \in ArgsIn(output, n) : a.kind # "object"
        /\ task' = [task EXCEPT ![n] = "done"]
        /\ output' = With(output, n, v)
    BY <1>4 DEF Dask!FinishConcat, Dask!Finished, With, Dask!Args, ArgsIn, Dask!Predecessors,
                Predecessors, Dask!Collect, Collect, Dask!ReadNow, ReadNow, Dask!Combine, Combine,
                Dask!Materialize, Materialize
  <2>2. \A a \in args : a.kind # "object" /\ a.kind # "lazy"
    BY <2>1 DEF Materialize, Collect
  <2>3. v.kind = "eager"
    BY DEF Combine
  <2>4. v \in Gives(n, args)
    <3> HIDE DEF args
    <3> QED BY <1>4, <2>2, <2>3 DEF Dask!FinishConcat, Gives
  <2>5. Materialize(v) = v
    <3> HIDE DEF v
    <3> QED BY <2>3 DEF Materialize
  <2>6. n \notin Inputs
    BY <1>4 DEF Dask!FinishConcat, PlanFacts
  <2> HIDE DEF args, v
  <2>7. \E w \in Gives(n, args) \cup Gives(n, ArgsIn(output, n)) :
          output' = With(output, n, Materialize(w))
    BY <2>1, <2>4, <2>5
  <2> QED BY <1>4, <2>1, <2>6, <2>7 DEF Dask!FinishConcat, Dask!Finished, DaskRuns, args
<1>5. ASSUME NEW n \in Needed, Dask!TaskRaises(n) PROVE DaskEnds
  BY <1>5 DEF Dask!TaskRaises, DaskEnds, Fails
<1>6. CASE Dask!CollectTarget
  BY <1>6 DEF Dask!CollectTarget, DaskEnds, Dask!Finish, Finish, Dask!BackendFound,
              BackendFound, Dask!Collect, Collect, Dask!ReadNow, ReadNow
<1>7. CASE Dask!SourceChanges
  BY <1>7 DEF Dask!SourceChanges, Dask!Tick, Elsewhere
<1>8. CASE Dask!BackendRegistered
  BY <1>8 DEF Dask!BackendRegistered, Dask!RegisterBackend, Elsewhere
<1> QED
  BY <1>n, <1>1, <1>2, <1>3, <1>4, <1>5, <1>6, <1>7, <1>8 DEF Dask!Next, Dask!EndTask

-----------------------------------------------------------------------------
\* Values.

InputsRead(v) == {r[1] : r \in v.read}

\* v has read, or will read, what vertex n requires, and an eager v has.
Holds(n, v) ==
  /\ v \in Value
  /\ InputsRead(v) \cup v.pending = Required(plan.graph, n) \cap Inputs
  /\ v.kind = "eager" => v.pending = {}

WorldTyped == world \in [Inputs -> 0..MaxVersion]

LEMMA CollectHolds ==
  ASSUME WorldTyped, NEW n, NEW v, Holds(n, v)
  PROVE  /\ Holds(n, Collect(v)) /\ Collect(v).kind = "eager"
         /\ Collect(v).read = v.read \cup {<<i, world[i]>> : i \in v.pending}
<1> DEFINE now == ReadNow(v.pending)
<1>1. v.read \subseteq Reads /\ v.pending \subseteq Inputs
  BY DEF Holds, Value
<1>2. now \subseteq Reads
  BY <1>1 DEF WorldTyped, Reads, ReadNow
<1>3. /\ Collect(v).kind = "eager" /\ Collect(v).pending = {}
      /\ Collect(v).read = v.read \cup now
  BY DEF Collect
<1>4. Collect(v) \in Value
  BY <1>1, <1>2 DEF Collect, Value, ValueKind
<1>5. InputsRead(Collect(v)) = InputsRead(v) \cup v.pending
  <2>1. ASSUME NEW i \in v.pending PROVE i \in {r[1] : r \in now}
    <3>1. <<i, world[i]>> \in now /\ <<i, world[i]>>[1] = i
      BY DEF ReadNow
    <3> HIDE DEF now
    <3> QED BY <3>1
  <2>2. ASSUME NEW r \in now PROVE r[1] \in v.pending
    BY DEF ReadNow
  <2> HIDE DEF now
  <2>3. {r[1] : r \in v.read \cup now} = {r[1] : r \in v.read} \cup {r[1] : r \in now}
    OBVIOUS
  <2>4. {r[1] : r \in now} = v.pending
    BY <2>1, <2>2
  <2> QED BY <1>3, <2>3, <2>4 DEF InputsRead
<1>6. Holds(n, Collect(v))
  BY <1>3, <1>4, <1>5 DEF Holds
<1> QED BY <1>3, <1>6 DEF ReadNow

\* The values a node is given hold what the vertices it reads require.
LEMMA CombineHolds ==
  ASSUME PlanFacts, NEW n \in plan.graph.node \ Inputs, NEW f,
         \A m \in Predecessors(plan.graph, n) : Holds(m, f[m]),
         NEW kind \in ValueKind,
         kind = "eager" => \A a \in ArgsIn(f, n) : a.kind = "eager"
  PROVE  Holds(n, Combine(kind, ArgsIn(f, n)))
<1> DEFINE P == Predecessors(plan.graph, n)
           v == Combine(kind, ArgsIn(f, n))
<1>1. /\ v.kind = kind
      /\ v.read = UNION {f[m].read : m \in P}
      /\ v.pending = UNION {f[m].pending : m \in P}
  BY DEF Combine, ArgsIn
<1>2. v \in Value
  <2>1. \A m \in P : f[m].read \subseteq Reads /\ f[m].pending \subseteq Inputs
    BY DEF Holds, Value
  <2>2. v.read \subseteq Reads /\ v.pending \subseteq Inputs
    BY <1>1, <2>1
  <2>3. v = [kind |-> v.kind, read |-> v.read, pending |-> v.pending]
    BY DEF Combine
  <2> QED BY <1>1, <2>2, <2>3 DEF Value
<1>3. InputsRead(v) \cup v.pending = UNION {InputsRead(f[m]) \cup f[m].pending : m \in P}
  <2> HIDE DEF v, P
  <2> QED BY <1>1 DEF InputsRead
<1>4. UNION {InputsRead(f[m]) \cup f[m].pending : m \in P}
        = UNION {Required(plan.graph, m) \cap Inputs : m \in P}
  BY DEF Holds
<1>5. Required(plan.graph, n) \cap Inputs = UNION {Required(plan.graph, m) \cap Inputs : m \in P}
  BY RequiredUnfolds DEF PlanFacts
<1>6. v.kind = "eager" => v.pending = {}
  <2>1. kind = "eager" => \A m \in P : f[m].pending = {}
    BY DEF ArgsIn, Holds
  <2> QED BY <1>1, <2>1
<1> QED BY <1>2, <1>3, <1>4, <1>5, <1>6 DEF Holds

\* So does a value a function made of them, however it split its reads.
LEMMA FunctionHolds ==
  ASSUME PlanFacts, WorldTyped, NEW n, NEW args, Holds(n, Combine("lazy", args)),
         NEW v \in FunctionResults(args)
  PROVE  Holds(n, v)
<1> DEFINE all == Combine("lazy", args)
<1>1. PICK is \in SUBSET all.pending : v.read = all.read \cup ReadNow(is)
  BY DEF FunctionResults
<1>2. /\ v.kind \in ValueKind /\ v.pending \subseteq all.pending
      /\ v = [kind |-> v.kind, read |-> v.read, pending |-> v.pending]
      /\ \A i \in all.pending : <<i, world[i]>> \in v.read \/ i \in v.pending
      /\ v.kind = "eager" => v.pending = {}
  BY DEF FunctionResults
<1>3. all.read \subseteq Reads /\ all.pending \subseteq Inputs
  BY DEF Holds, Value
<1>4. InputsRead(all) \cup all.pending = Required(plan.graph, n) \cap Inputs
  BY DEF Holds
<1> HIDE DEF all
<1>5. ReadNow(is) \subseteq Reads
  BY <1>1, <1>3 DEF ReadNow, WorldTyped, Reads
<1>6. v \in Value
  BY <1>1, <1>2, <1>3, <1>5 DEF Value
<1>7. InputsRead(v) \subseteq InputsRead(all) \cup all.pending
  BY <1>1 DEF InputsRead, ReadNow
<1>8. InputsRead(all) \subseteq InputsRead(v)
  BY <1>1 DEF InputsRead
<1>9. all.pending \subseteq InputsRead(v) \cup v.pending
  <2> SUFFICES ASSUME NEW i \in all.pending, <<i, world[i]>> \in v.read
               PROVE  i \in InputsRead(v)
    BY <1>2
  <2>1. <<i, world[i]>>[1] = i
    OBVIOUS
  <2> QED BY <2>1 DEF InputsRead
<1>10. InputsRead(v) \cup v.pending = InputsRead(all) \cup all.pending
  BY <1>2, <1>7, <1>8, <1>9
<1> QED BY <1>2, <1>4, <1>6, <1>10 DEF Holds

LEMMA GivenHolds ==
  ASSUME PlanFacts, WorldTyped, NEW n \in plan.graph.node \ Inputs, NEW f,
         \A m \in Predecessors(plan.graph, n) : Holds(m, f[m]),
         NEW v \in Gives(n, ArgsIn(f, n))
  PROVE  Holds(n, v)
<1> DEFINE args == ArgsIn(f, n)
<1>1. CASE n \in plan.concats
  <2>1. PICK kind \in {"lazy", "eager"} : v = Combine(kind, args)
    BY <1>1 DEF Gives
  <2>2. \A a \in args : a.kind \in ValueKind /\ a.kind # "object"
    BY <1>1 DEF Gives, ArgsIn, Holds, Value
  <2>3. v.kind = kind /\ (v.kind = "eager" <=> \A a \in args : a.kind # "lazy")
    BY <1>1, <2>1 DEF Gives, Combine
  <2>4. kind = "eager" => \A a \in args : a.kind = "eager"
    BY <2>2, <2>3 DEF ValueKind
  <2>5. kind \in ValueKind
    BY DEF ValueKind
  <2> QED BY <2>1, <2>4, <2>5, CombineHolds
<1>2. CASE n \notin plan.concats
  <2>1. Holds(n, Combine("lazy", args))
    BY CombineHolds DEF ValueKind
  <2>2. v \in FunctionResults(args)
    BY <1>2 DEF Gives
  <2> HIDE DEF args
  <2> QED BY <2>1, <2>2, FunctionHolds
<1> QED BY <1>1, <1>2

LEMMA InputHolds ==
  ASSUME PlanFacts, NEW i \in Inputs
  PROVE  Holds(i, InputValue(i))
<1>1. Predecessors(plan.graph, i) = {}
  BY DEF Predecessors, PlanFacts
<1>2. Required(plan.graph, i) \cap Inputs = {i}
  BY <1>1, RequiredUnfolds DEF PlanFacts
<1>3. CASE plan.inputs[i] = "eager"
  <2>1. InputValue(i) = [kind |-> "eager", read |-> {<<i, 0>>}, pending |-> {}]
    BY <1>3 DEF InputValue
  <2>2. {<<i, 0>>} \subseteq Reads
    BY DEF Reads, PlanFacts
  <2>3. InputValue(i) \in Value
    BY <2>1, <2>2 DEF Value, ValueKind
  <2>4. InputsRead(InputValue(i)) = {i}
    BY <2>1 DEF InputsRead
  <2> QED BY <1>2, <2>1, <2>3, <2>4 DEF Holds
<1>4. CASE plan.inputs[i] # "eager"
  <2>1. InputValue(i) = [kind |-> plan.inputs[i], read |-> {}, pending |-> {i}]
    BY <1>4 DEF InputValue
  <2>2. plan.inputs[i] \in ValueKind
    BY DEF PlanFacts
  <2>3. InputValue(i) \in Value
    BY <2>1, <2>2 DEF Value
  <2>4. InputsRead(InputValue(i)) = {}
    BY <2>1 DEF InputsRead
  <2> QED BY <1>2, <1>4, <2>1, <2>3, <2>4 DEF Holds
<1> QED BY <1>3, <1>4

\* Where what a value has read and has still to read comes from.
LEMMA GivenReads ==
  ASSUME NEW n, NEW args, NEW v \in Gives(n, args)
  PROVE  /\ v.pending \subseteq UNION {a.pending : a \in args}
         /\ \A r \in v.read :
              \/ \E a \in args : r \in a.read
              \/ /\ n \notin plan.concats
                 /\ \E a \in args : \E i \in a.pending : r = <<i, world[i]>>
<1> DEFINE lazy == Combine("lazy", args)
<1>1. \A kind : /\ Combine(kind, args).read = UNION {a.read : a \in args}
                /\ Combine(kind, args).pending = UNION {a.pending : a \in args}
  BY DEF Combine
<1>2. CASE n \in plan.concats
  <2>1. v \in {Combine("lazy", args), Combine("eager", args)}
    BY <1>2 DEF Gives
  <2> QED BY <1>1, <2>1
<1>3. CASE n \notin plan.concats
  <2>1. v \in FunctionResults(args)
    BY <1>3 DEF Gives
  <2>2. PICK is \in SUBSET lazy.pending : v.read = lazy.read \cup ReadNow(is)
    BY <2>1 DEF FunctionResults
  <2>3. v.pending \subseteq lazy.pending
    BY <2>1 DEF FunctionResults
  <2> HIDE DEF lazy
  <2>4. /\ lazy.read = UNION {a.read : a \in args}
        /\ lazy.pending = UNION {a.pending : a \in args}
    BY <1>1 DEF lazy
  <2> QED BY <1>3, <2>2, <2>3, <2>4 DEF ReadNow
<1> QED BY <1>2, <1>3

-----------------------------------------------------------------------------
\* Orders of what is required.

\* The vertices a vertex reads are required with it, and are vertices.
LEMMA NeededClosed ==
  ASSUME PlanFacts
  PROVE  /\ Needed \subseteq plan.graph.node /\ IsFiniteSet(Needed)
         /\ target \in Needed
         /\ \A n \in Needed : Predecessors(plan.graph, n) \subseteq Needed
<1>1. Needed \subseteq plan.graph.node
  BY DEF Needed, Required, Ancestors, PlanFacts
<1>2. IsFiniteSet(Needed)
  BY <1>1, FS_Subset DEF PlanFacts
<1>3. ASSUME NEW n \in Needed, NEW m \in Predecessors(plan.graph, n)
      PROVE  m \in Needed
  <2>1. /\ Predecessors(plan.graph, target) \subseteq Ancestors(plan.graph, target)
        /\ ClosedBackward(plan.graph, Ancestors(plan.graph, target))
    BY AncestorsClosed DEF PlanFacts
  <2>2. <<m, n>> \in plan.graph.edge
    BY <1>3 DEF Predecessors
  <2> QED BY <1>3, <2>1, <2>2 DEF Needed, Required, ClosedBackward
<1> QED BY <1>1, <1>2, <1>3 DEF Needed, Required

\* s has all of S, each once and none before one it depends on.
OrdersAll(G, S, s) ==
  /\ s \in Seq(S)
  /\ \A a, b \in 1..Len(s) : s[a] = s[b] => a = b
  /\ \A a, b \in 1..Len(s) : <<s[a], s[b]>> \in G.edge => a < b
  /\ \A n \in S : \E a \in 1..Len(s) : s[a] = n

\* A topological order of a finite set is a sequence that has all of it.
LEMMA OrdersCover ==
  ASSUME NEW G, NEW S, IsFiniteSet(S), NEW s \in TopologicalOrders(G, S)
  PROVE  OrdersAll(G, S, s)
<1> DEFINE c == Cardinality(S)
<1>1. c \in Nat
  BY FS_CardinalityType
<1>2. s \in [1..c -> S]
  BY DEF TopologicalOrders
<1>3. s \in Seq(S) /\ Len(s) = c /\ DOMAIN s = 1..c
  BY <1>1, <1>2
<1>4. \A a, b \in 1..Len(s) : s[a] = s[b] => a = b
  BY <1>3 DEF TopologicalOrders
<1>5. ASSUME NEW n \in S, ~ \E a \in 1..c : s[a] = n
      PROVE  FALSE
  <2>1. s \in [1..c -> S \ {n}]
    BY <1>2, <1>5
  <2>2. IsFiniteSet(S \ {n}) /\ Cardinality(S \ {n}) = c - 1
    BY FS_RemoveElement
  <2>3. IsFiniteSet(1..c) /\ Cardinality(1..c) = c
    BY <1>1, FS_Interval
  <2>4. Cardinality(S \ {n}) < Cardinality(1..c)
    BY <1>1, <2>2, <2>3
  <2>5. \E a, b \in 1..c : a # b /\ s[a] = s[b]
    <3> HIDE DEF c
    <3> QED BY <2>1, <2>2, <2>3, <2>4, FS_PigeonHole
  <2> QED BY <1>3, <1>4, <2>5
<1>6. \A a, b \in 1..Len(s) : <<s[a], s[b]>> \in G.edge => a < b
  BY <1>3 DEF TopologicalOrders, IsTopologicalOrder
<1> QED BY <1>3, <1>4, <1>5, <1>6 DEF OrdersAll

Todo(s) == {s[a] : a \in 1..Len(s)}

\* s orders vertices of S, each once, none before one it reads.
Ordered(s, S) ==
  /\ s \in Seq(S)
  /\ \A a, b \in 1..Len(s) : s[a] = s[b] => a = b
  /\ \A a, b \in 1..Len(s) : <<s[a], s[b]>> \in plan.graph.edge => a < b

\* Visiting the head of an order leaves an order of the rest.
LEMMA HeadVisited ==
  ASSUME NEW S, NEW s, Ordered(s, S), s # <<>>
  PROVE  /\ Head(s) \in S /\ Head(s) \in Todo(s)
         /\ Ordered(Tail(s), S)
         /\ Todo(Tail(s)) = Todo(s) \ {Head(s)}
         /\ \A m \in Todo(s) : <<m, Head(s)>> \notin plan.graph.edge
<1>1. /\ s \in Seq(S) /\ Len(s) \in Nat /\ Len(s) > 0
      /\ Head(s) = s[1] /\ Head(s) \in S /\ Tail(s) \in Seq(S)
      /\ Len(Tail(s)) = Len(s) - 1
      /\ \A a \in 1..Len(Tail(s)) : Tail(s)[a] = s[a + 1]
  BY HeadTailProperties, EmptySeq DEF Ordered
<1>2. Head(s) \in Todo(s)
  BY <1>1 DEF Todo
<1>3. Ordered(Tail(s), S)
  <2>1. ASSUME NEW a \in 1..Len(Tail(s)), NEW b \in 1..Len(Tail(s))
        PROVE  /\ Tail(s)[a] = Tail(s)[b] => a = b
               /\ <<Tail(s)[a], Tail(s)[b]>> \in plan.graph.edge => a < b
    <3>1. a + 1 \in 1..Len(s) /\ b + 1 \in 1..Len(s) /\ a \in Int /\ b \in Int
      BY <1>1
    <3>2. Tail(s)[a] = s[a + 1] /\ Tail(s)[b] = s[b + 1]
      BY <1>1
    <3>3. s[a + 1] = s[b + 1] => a + 1 = b + 1
      BY <3>1 DEF Ordered
    <3>4. <<s[a + 1], s[b + 1]>> \in plan.graph.edge => a + 1 < b + 1
      BY <3>1 DEF Ordered
    <3> QED BY <3>1, <3>2, <3>3, <3>4
  <2> QED BY <1>1, <2>1 DEF Ordered
<1>4. Todo(Tail(s)) = Todo(s) \ {Head(s)}
  <2>1. ASSUME NEW x \in Todo(Tail(s)) PROVE x \in Todo(s) /\ x # Head(s)
    <3>1. PICK a \in 1..Len(Tail(s)) : x = s[a + 1]
      BY <1>1 DEF Todo
    <3>2. a + 1 \in 1..Len(s) /\ 1 \in 1..Len(s) /\ a + 1 # 1
      BY <1>1
    <3> QED BY <1>1, <3>1, <3>2 DEF Ordered, Todo
  <2>2. ASSUME NEW x \in Todo(s), x # Head(s) PROVE x \in Todo(Tail(s))
    <3>1. PICK a \in 1..Len(s) : x = s[a]
      BY DEF Todo
    <3>2. a # 1
      BY <1>1, <2>2, <3>1
    <3>3. a - 1 \in 1..Len(Tail(s)) /\ (a - 1) + 1 = a
      BY <1>1, <3>2
    <3>4. Tail(s)[a - 1] = s[(a - 1) + 1]
      BY <1>1, <3>3
    <3> QED BY <3>1, <3>3, <3>4 DEF Todo
  <2> QED BY <2>1, <2>2
<1>5. ASSUME NEW m \in Todo(s) PROVE <<m, Head(s)>> \notin plan.graph.edge
  <2>1. PICK a \in 1..Len(s) : m = s[a]
    BY DEF Todo
  <2>2. 1 \in 1..Len(s) /\ ~(a < 1)
    BY <1>1
  <2> QED BY <1>1, <2>1, <2>2 DEF Ordered
<1> QED BY <1>1, <1>2, <1>3, <1>4, <1>5

-----------------------------------------------------------------------------
\* The local executor.

\* A version is pinned, among the values e, by a DataFrame given as input or by
\* a function that read it first.
PinnedIn(e, r) ==
  \/ plan.inputs[r[1]] = "eager"
  \/ \E n \in Needed \ (Inputs \cup plan.concats) :
       /\ n \in DOMAIN e /\ r \in e[n].read
       /\ \A m \in Predecessors(plan.graph, n) : m \in DOMAIN e /\ r \notin e[m].read

Pinned(r) == PinnedIn(env, r)

ReadsPinned(v) == \A r \in v.read : Pinned(r)

LocalInv ==
  /\ Ordered(order, Needed)
  /\ DOMAIN env = Inputs \cup (Needed \ Todo(order))
  /\ \A n \in DOMAIN env : Holds(n, env[n]) /\ ReadsPinned(env[n])
  /\ status = "returned" =>
       \A r \in result.read : r[2] = world[r[1]] \/ Pinned(r)

LEMMA LocalStarts ==
  ASSUME PlanFacts, status = "running",
         Local!Init
  PROVE  LocalInv
<1>c. \A S : Local!Cardinality(S) = Cardinality(S)
  BY DEF Local!Cardinality, Cardinality
<1>n. Local!Needed = Needed
  BY DEF Local!Needed, Needed, Local!Required, Required, Local!Ancestors, Ancestors,
         Local!Predecessors, Predecessors, Local!ClosedBackward, ClosedBackward
<1>t. Local!TopologicalOrders(plan.graph, Needed) = TopologicalOrders(plan.graph, Needed)
  BY <1>c DEF Local!TopologicalOrders, TopologicalOrders, Local!IsTopologicalOrder,
         IsTopologicalOrder
<1>1. /\ order \in TopologicalOrders(plan.graph, Needed)
      /\ env = [i \in Inputs |-> InputValue(i)]
  BY <1>n, <1>t DEF Local!Init, Local!InputValue, InputValue, Local!Inputs, Inputs
<1>2. Ordered(order, Needed) /\ Todo(order) = Needed
  <2>1. /\ order \in Seq(Needed)
        /\ \A a, b \in 1..Len(order) : order[a] = order[b] => a = b
        /\ \A a, b \in 1..Len(order) : <<order[a], order[b]>> \in plan.graph.edge => a < b
        /\ \A n \in Needed : \E a \in 1..Len(order) : order[a] = n
    <3>1. IsFiniteSet(Needed)
      BY NeededClosed
    <3>2. OrdersAll(plan.graph, Needed, order)
      BY <1>1, <3>1, OrdersCover
    <3> QED BY <3>2 DEF OrdersAll
  <2>2. Ordered(order, Needed)
    BY <2>1 DEF Ordered
  <2>3. Todo(order) \subseteq Needed
    <3>1. \A a \in 1..Len(order) : order[a] \in Needed
      BY <2>1
    <3> QED BY <3>1 DEF Todo
  <2>4. Needed \subseteq Todo(order)
    BY <2>1 DEF Todo
  <2> QED BY <2>2, <2>3, <2>4
<1>3. ASSUME NEW i \in Inputs PROVE Holds(i, env[i]) /\ ReadsPinned(env[i])
  <2>1. env[i] = InputValue(i)
    BY <1>1
  <2>2. Holds(i, InputValue(i))
    BY InputHolds
  <2>3. \A r \in InputValue(i).read : r[1] = i /\ plan.inputs[i] = "eager"
    BY DEF InputValue
  <2>4. ReadsPinned(InputValue(i))
    BY <2>3 DEF ReadsPinned, Pinned, PinnedIn
  <2> QED BY <2>1, <2>2, <2>4
<1> QED BY <1>1, <1>2, <1>3 DEF LocalInv

\* What is read by the node visited next has been computed or was given.
LEMMA HeadReady ==
  ASSUME PlanFacts, LocalInv, order # <<>>
  PROVE  /\ Head(order) \in Needed
         /\ Predecessors(plan.graph, Head(order)) \subseteq DOMAIN env
         /\ Head(order) \notin Inputs => Head(order) \notin DOMAIN env
<1>1. /\ Head(order) \in Needed /\ Head(order) \in Todo(order)
      /\ \A m \in Todo(order) : <<m, Head(order)>> \notin plan.graph.edge
  BY HeadVisited DEF LocalInv
<1>2. Predecessors(plan.graph, Head(order)) \subseteq Needed \ Todo(order)
  BY <1>1, NeededClosed DEF Predecessors
<1> QED BY <1>1, <1>2 DEF LocalInv

\* A visit computes its node and keeps the invariant.
LEMMA LocalVisitKeeps ==
  ASSUME PlanFacts, WorldTyped, LocalInv, LocalVisits
  PROVE  /\ Ordered(order', Needed)
         /\ DOMAIN env' = Inputs \cup (Needed \ Todo(order'))
         /\ \A n \in DOMAIN env : n \in DOMAIN env' /\ env'[n] = env[n]
         /\ \A n \in DOMAIN env' :
              /\ Holds(n, env'[n])
              /\ \A r \in env'[n].read : PinnedIn(env', r)
<1> DEFINE h == Head(order)
<1>1. /\ h \in Needed /\ h \in Todo(order)
      /\ Ordered(order', Needed) /\ Todo(order') = Todo(order) \ {h}
  BY HeadVisited DEF LocalInv, LocalVisits
<1>2. CASE h \in Inputs /\ env' = env
  BY <1>1, <1>2 DEF LocalInv, ReadsPinned, Pinned, PinnedIn
<1>3. CASE h \notin Inputs /\ \E v \in Gives(h, ArgsIn(env, h)) : env' = With(env, h, v)
  <2>1. PICK v \in Gives(h, ArgsIn(env, h)) : env' = With(env, h, v)
    BY <1>3
  <2>2. /\ h \notin DOMAIN env /\ h \in plan.graph.node \ Inputs
        /\ Predecessors(plan.graph, h) \subseteq DOMAIN env
    BY <1>1, <1>3, HeadReady, NeededClosed DEF LocalVisits
  <2>3. /\ DOMAIN env' = DOMAIN env \cup {h} /\ env'[h] = v
        /\ \A n \in DOMAIN env : env'[n] = env[n]
    BY <2>1, <2>2 DEF With
  <2>4. DOMAIN env' = Inputs \cup (Needed \ Todo(order'))
    BY <1>1, <2>3 DEF LocalInv
  <2>5. Holds(h, v)
    <3>1. \A m \in Predecessors(plan.graph, h) : Holds(m, env[m])
      BY <2>2 DEF LocalInv
    <3> HIDE DEF h
    <3> QED BY <2>1, <2>2, <3>1, GivenHolds
  <2>8. ASSUME NEW r, PinnedIn(env, r)
        PROVE  PinnedIn(env', r)
    BY <2>3, <2>8 DEF PinnedIn
  <2>6. ASSUME NEW r \in v.read
        PROVE  PinnedIn(env', r)
    <3>1. CASE \E a \in ArgsIn(env, h) : r \in a.read
      <4>1. PICK m \in Predecessors(plan.graph, h) : r \in env[m].read
        BY <3>1 DEF ArgsIn
      <4>2. PinnedIn(env, r)
        BY <2>2, <4>1 DEF LocalInv, ReadsPinned, Pinned
      <4> QED BY <2>8, <4>2
    <3>2. CASE h \notin plan.concats /\ \A a \in ArgsIn(env, h) : r \notin a.read
      <4>1. \A m \in Predecessors(plan.graph, h) : m \in DOMAIN env' /\ r \notin env'[m].read
        BY <2>2, <2>3, <3>2 DEF ArgsIn
      <4> QED BY <1>1, <1>3, <2>3, <3>2, <4>1 DEF PinnedIn
    <3> HIDE DEF h
    <3> QED BY <2>1, <3>1, <3>2, GivenReads
  <2>7. ASSUME NEW n \in DOMAIN env, NEW r \in env[n].read
        PROVE  PinnedIn(env', r)
    BY <2>8 DEF LocalInv, ReadsPinned, Pinned
  <2> HIDE DEF h
  <2> QED BY <1>1, <2>3, <2>4, <2>5, <2>6, <2>7 DEF LocalInv
<1> QED BY <1>2, <1>3 DEF LocalVisits

-----------------------------------------------------------------------------
\* The tail of collect.

LEMMA FinishHolds ==
  ASSUME PlanFacts, WorldTyped, NEW v, Holds(target, v), Finish(v), status' = "returned"
  PROVE  /\ result'.pending = {}
         /\ InputsRead(result') = Needed \cap Inputs
         /\ \A r \in result'.read : r \in v.read \/ r[2] = world[r[1]]
<1>1. ASSUME NEW w, Holds(target, w), w.kind = "eager"
      PROVE  w.pending = {} /\ InputsRead(w) = Needed \cap Inputs
  <2>1. w.pending = {}
    BY <1>1 DEF Holds
  <2> QED BY <1>1, <2>1 DEF Holds, Needed
<1>2. CASE v.kind = "eager" /\ result' = v
  BY <1>1, <1>2
<1>3. CASE result' = Collect(v)
  <2>1. Holds(target, result') /\ result'.kind = "eager"
    BY <1>3, CollectHolds
  <2>2. result'.read = v.read \cup {<<i, world[i]>> : i \in v.pending}
    BY <1>3, CollectHolds
  <2>3. \A r \in result'.read : r \in v.read \/ r[2] = world[r[1]]
    BY <2>2
  <2> QED BY <1>1, <2>1, <2>3
<1>4. status' # "raised"
  OBVIOUS
<1> QED BY <1>2, <1>3, <1>4 DEF Finish

-----------------------------------------------------------------------------
\* The dask executor.

\* A task's value is not lazy, has only objects left to read, and holds of a
\* frame input what the input's own task read.
Settled(f, v) ==
  /\ v.kind # "lazy"
  /\ \A i \in v.pending : plan.inputs[i] = "object"
  /\ \A r \in v.read : plan.inputs[r[1]] # "object" =>
       r[1] \in DOMAIN f /\ r \in f[r[1]].read

ReadsOnce(f) ==
  \A i \in Inputs \cap DOMAIN f : plan.inputs[i] # "object" =>
    \E k : f[i].read = {<<i, k>>}

DaskInv ==
  /\ task \in [Needed -> {"waiting", "running", "done"}]
  /\ DOMAIN output = {n \in Needed : task[n] = "done"}
  /\ \A n \in Needed : task[n] # "waiting" => Predecessors(plan.graph, n) \subseteq DOMAIN output
  /\ \A n \in DOMAIN output : Holds(n, output[n]) /\ Settled(output, output[n])
  /\ ReadsOnce(output)

LEMMA DaskInitially ==
  ASSUME PlanFacts, Dask!Init
  PROVE  DaskInv
<1>n. Dask!Needed = Needed
  BY DEF Dask!Needed, Needed, Dask!Required, Required, Dask!Ancestors, Ancestors,
         Dask!Predecessors, Predecessors, Dask!ClosedBackward, ClosedBackward
<1>1. /\ task = [n \in Needed |-> "waiting"]
      /\ DOMAIN output = {}
  BY <1>n DEF Dask!Init
<1>2. DOMAIN output = {n \in Needed : task[n] = "done"}
  BY <1>1
<1>3. task \in [Needed -> {"waiting", "running", "done"}]
  BY <1>1
<1>4. \A n \in Needed : task[n] = "waiting"
  BY <1>1
<1>5. ReadsOnce(output)
  BY <1>1 DEF ReadsOnce
<1> QED BY <1>1, <1>2, <1>3, <1>4, <1>5 DEF DaskInv

\* What a materialized input has read.
LEMMA InputSettles ==
  ASSUME PlanFacts, WorldTyped, NEW i \in Inputs, NEW f, i \in DOMAIN f,
         f[i] = Materialize(InputValue(i))
  PROVE  /\ Holds(i, f[i]) /\ Settled(f, f[i])
         /\ plan.inputs[i] # "object" => \E k : f[i].read = {<<i, k>>}
<1> DEFINE v == InputValue(i)
<1>1. Holds(i, v)
  BY InputHolds
<1>2. Holds(i, Materialize(v))
  BY <1>1, CollectHolds DEF Materialize
<1>3. CASE plan.inputs[i] = "eager"
  <2>1. v.kind = "eager" /\ v.read = {<<i, 0>>} /\ v.pending = {}
    BY <1>3 DEF InputValue
  <2>2. f[i] = v
    BY <2>1 DEF Materialize
  <2> HIDE DEF v
  <2>3. \A r \in v.read : r = <<i, 0>> /\ r[1] = i
    BY <2>1
  <2>4. Settled(f, v)
    BY <2>1, <2>2, <2>3 DEF Settled
  <2> QED BY <1>2, <2>1, <2>2, <2>4 DEF v
<1>4. CASE plan.inputs[i] = "lazy"
  <2>1. v.kind = "lazy" /\ v.read = {} /\ v.pending = {i}
    BY <1>4 DEF InputValue
  <2>2. f[i] = Collect(v)
    BY <2>1 DEF Materialize
  <2> HIDE DEF v
  <2>3. /\ f[i].kind = "eager" /\ f[i].pending = {}
        /\ f[i].read = {<<i, world[i]>>}
    BY <2>1, <2>2 DEF Collect, ReadNow
  <2>4. \A r \in f[i].read : r[1] = i
    BY <2>3
  <2>5. Settled(f, f[i])
    BY <2>3, <2>4 DEF Settled
  <2> QED BY <1>2, <2>3, <2>5 DEF v
<1>5. CASE plan.inputs[i] = "object"
  <2>1. v.kind = "object" /\ v.read = {} /\ v.pending = {i}
    BY <1>5 DEF InputValue
  <2>2. f[i] = v
    BY <2>1 DEF Materialize
  <2> HIDE DEF v
  <2>3. Settled(f, v)
    BY <1>5, <2>1 DEF Settled
  <2> QED BY <1>2, <1>5, <2>2, <2>3 DEF v
<1> QED BY <1>3, <1>4, <1>5 DEF PlanFacts, ValueKind

\* What a task other than an input's gives.
LEMMA GivenSettles ==
  ASSUME PlanFacts, WorldTyped, DaskInv,
         NEW n \in Needed \ Inputs, Predecessors(plan.graph, n) \subseteq DOMAIN output,
         NEW v \in Gives(n, {Materialize(a) : a \in ArgsIn(output, n)})
                     \cup Gives(n, ArgsIn(output, n))
  PROVE  Holds(n, Materialize(v)) /\ Settled(output, Materialize(v))
<1> DEFINE args == ArgsIn(output, n)
<1>1. \A a \in args : Settled(output, a)
  BY DEF ArgsIn, DaskInv
<1>2. {Materialize(a) : a \in args} = args
  <2>1. \A a \in args : Materialize(a) = a
    BY <1>1 DEF Settled, Materialize
  <2> HIDE DEF args
  <2> QED BY <2>1
<1>3. v \in Gives(n, args)
  BY <1>2
<1>4. Holds(n, v)
  <2>1. \A m \in Predecessors(plan.graph, n) : Holds(m, output[m])
    BY DEF DaskInv
  <2>2. n \in plan.graph.node \ Inputs
    BY NeededClosed
  <2> QED BY <1>3, <2>1, <2>2, GivenHolds
<1> HIDE DEF args
<1>5. \A i \in v.pending : plan.inputs[i] = "object"
  <2>1. v.pending \subseteq UNION {a.pending : a \in args}
    BY <1>3, GivenReads
  <2> QED BY <1>1, <2>1 DEF Settled
<1>6. ASSUME NEW r \in v.read, plan.inputs[r[1]] # "object"
      PROVE  r[1] \in DOMAIN output /\ r \in output[r[1]].read
  <2>1. CASE \E a \in args : r \in a.read
    BY <1>1, <1>6, <2>1 DEF Settled
  <2>2. CASE \E a \in args : \E i \in a.pending : r = <<i, world[i]>>
    <3>1. PICK a \in args : \E i \in a.pending : r = <<i, world[i]>>
      BY <2>2
    <3>2. PICK i \in a.pending : r = <<i, world[i]>>
      BY <3>1
    <3>3. plan.inputs[i] = "object" /\ r[1] = i
      BY <1>1, <3>2 DEF Settled
    <3> QED BY <1>6, <3>3
  <2> QED BY <1>3, <2>1, <2>2, GivenReads
<1>7. CASE v.kind = "lazy"
  <2>1. Materialize(v) = Collect(v)
    BY <1>7 DEF Materialize
  <2>2. /\ Holds(n, Collect(v)) /\ Collect(v).kind = "eager"
        /\ Collect(v).read = v.read \cup {<<i, world[i]>> : i \in v.pending}
    BY <1>4, CollectHolds
  <2>3. Collect(v).pending = {}
    BY DEF Collect
  <2>4. ASSUME NEW r \in Collect(v).read, plan.inputs[r[1]] # "object"
        PROVE  r[1] \in DOMAIN output /\ r \in output[r[1]].read
    <3>1. r \notin {<<i, world[i]>> : i \in v.pending}
      BY <1>5, <2>4
    <3> QED BY <1>6, <2>2, <2>4, <3>1
  <2> QED BY <2>1, <2>2, <2>3, <2>4 DEF Settled
<1>8. CASE v.kind # "lazy"
  <2>1. Materialize(v) = v
    BY <1>8 DEF Materialize
  <2> QED BY <1>4, <1>5, <1>6, <1>8, <2>1 DEF Settled
<1> QED BY <1>7, <1>8

\* The parts of DaskInv after a step of the tasks, plan and target unchanged.
DaskKept(t, f) ==
  /\ t \in [Needed -> {"waiting", "running", "done"}]
  /\ DOMAIN f = {n \in Needed : t[n] = "done"}
  /\ \A n \in Needed : t[n] # "waiting" => Predecessors(plan.graph, n) \subseteq DOMAIN f
  /\ \A n \in DOMAIN f : Holds(n, f[n]) /\ Settled(f, f[n])
  /\ ReadsOnce(f)

LEMMA DaskStartKeeps ==
  ASSUME PlanFacts, DaskInv, NEW n \in Needed, DaskStarts(n)
  PROVE  DaskKept(task', output')
<1>1. /\ task' \in [Needed -> {"waiting", "running", "done"}]
      /\ \A m \in Needed : m # n => task'[m] = task[m]
      /\ task'[n] = "running" /\ task[n] = "waiting"
      /\ output' = output
  BY DEF DaskInv, DaskStarts
<1>2. DOMAIN output = {m \in Needed : task'[m] = "done"}
  BY <1>1 DEF DaskInv
<1>3. Predecessors(plan.graph, n) \subseteq DOMAIN output
  <2>1. \A m \in Predecessors(plan.graph, n) : task[m] = "done" /\ m \in Needed
    BY NeededClosed DEF DaskStarts
  <2> QED BY <2>1 DEF DaskInv
<1>4. \A m \in Needed : task'[m] # "waiting" => Predecessors(plan.graph, m) \subseteq DOMAIN output
  BY <1>1, <1>3 DEF DaskInv
<1> QED BY <1>1, <1>2, <1>4 DEF DaskInv, DaskKept

LEMMA DaskRunKeeps ==
  ASSUME PlanFacts, WorldTyped, DaskInv, NEW n \in Needed, DaskRuns(n)
  PROVE  /\ DaskKept(task', output')
         /\ n \notin DOMAIN output /\ DOMAIN output' = DOMAIN output \cup {n}
<1>1. /\ task' \in [Needed -> {"waiting", "running", "done"}]
      /\ \A m \in Needed : m # n => task'[m] = task[m]
      /\ task'[n] = "done" /\ task[n] = "running"
  BY DEF DaskInv, DaskRuns
<1>2. n \notin DOMAIN output /\ Predecessors(plan.graph, n) \subseteq DOMAIN output
  BY <1>1 DEF DaskInv
<1>3. PICK v : /\ output' = With(output, n, v)
               /\ \/ n \in Inputs /\ v = Materialize(InputValue(n))
                  \/ n \notin Inputs /\ Holds(n, v) /\ Settled(output, v)
  <2>1. CASE n \in Inputs /\ output' = With(output, n, Materialize(InputValue(n)))
    BY <2>1
  <2>2. CASE /\ n \notin Inputs
             /\ \E w \in Gives(n, {Materialize(a) : a \in ArgsIn(output, n)})
                      \cup Gives(n, ArgsIn(output, n)) :
                  output' = With(output, n, Materialize(w))
    <3>1. PICK w \in Gives(n, {Materialize(a) : a \in ArgsIn(output, n)})
                      \cup Gives(n, ArgsIn(output, n)) :
                  output' = With(output, n, Materialize(w))
      BY <2>2
    <3>2. Holds(n, Materialize(w)) /\ Settled(output, Materialize(w))
      BY <1>2, <2>2, <3>1, GivenSettles
    <3> QED BY <2>2, <3>1, <3>2
  <2> QED BY <2>1, <2>2 DEF DaskRuns
<1>4. /\ DOMAIN output' = DOMAIN output \cup {n} /\ output'[n] = v
      /\ \A m \in DOMAIN output : output'[m] = output[m]
  BY <1>2, <1>3 DEF With
<1>5. DOMAIN output' = {m \in Needed : task'[m] = "done"}
  BY <1>1, <1>4 DEF DaskInv
<1>6. \A m \in Needed : task'[m] # "waiting" => Predecessors(plan.graph, m) \subseteq DOMAIN output'
  BY <1>1, <1>2, <1>4 DEF DaskInv
<1>7. ASSUME NEW w, Settled(output, w) PROVE Settled(output', w)
  BY <1>4, <1>7 DEF Settled
<1>8. ASSUME NEW m \in DOMAIN output PROVE Holds(m, output'[m]) /\ Settled(output', output'[m])
  BY <1>4, <1>7 DEF DaskInv
<1>9. Holds(n, output'[n]) /\ Settled(output', output'[n])
  <2>1. CASE n \in Inputs
    <3>1. output'[n] = Materialize(InputValue(n)) /\ n \in DOMAIN output'
      BY <1>3, <1>4, <2>1
    <3> DEFINE f == output'
    <3>2. f[n] = Materialize(InputValue(n)) /\ n \in DOMAIN f
      BY <3>1
    <3> HIDE DEF f
    <3>3. Holds(n, f[n]) /\ Settled(f, f[n])
      BY <2>1, <3>2, InputSettles
    <3> QED BY <3>3 DEF f
  <2>2. CASE n \notin Inputs
    BY <1>3, <1>4, <1>7, <2>2
  <2> QED BY <2>1, <2>2
<1>10. ReadsOnce(output')
  <2>1. ASSUME n \in Inputs, plan.inputs[n] # "object"
        PROVE  \E k : output'[n].read = {<<n, k>>}
    <3>1. output'[n] = Materialize(InputValue(n)) /\ n \in DOMAIN output'
      BY <1>3, <1>4, <2>1
    <3> DEFINE f == output'
    <3>2. f[n] = Materialize(InputValue(n)) /\ n \in DOMAIN f
      BY <3>1
    <3> HIDE DEF f
    <3>3. \E k : f[n].read = {<<n, k>>}
      BY <2>1, <3>2, InputSettles
    <3> QED BY <3>3 DEF f
  <2> QED BY <1>4, <2>1 DEF ReadsOnce, DaskInv
<1>11. \A m \in DOMAIN output' : Holds(m, output'[m]) /\ Settled(output', output'[m])
  BY <1>4, <1>8, <1>9
<1> QED BY <1>1, <1>2, <1>4, <1>5, <1>6, <1>10, <1>11 DEF DaskKept

LEMMA DaskInvReadsOnce ==
  ASSUME PlanFacts, DaskInv
  PROVE  Dask!FrameReadOnce
<1> SUFFICES ASSUME NEW i \in Inputs, plan.inputs[i] # "object"
             PROVE  Dask!Cardinality(UNION {Dask!Versions(output[n], i) : n \in DOMAIN output}) <= 1
  BY DEF Dask!FrameReadOnce, Dask!Inputs, Inputs
<1> DEFINE S == UNION {Dask!Versions(output[n], i) : n \in DOMAIN output}
<1>c. Dask!Cardinality(S) = Cardinality(S)
  BY DEF Dask!Cardinality, Cardinality
<1>1. ASSUME NEW x \in S, NEW y \in S PROVE x = y
  <2>1. PICK m \in DOMAIN output : \E r \in output[m].read : r[1] = i /\ x = r[2]
    BY DEF Dask!Versions
  <2>2. PICK r \in output[m].read : r[1] = i /\ x = r[2]
    BY <2>1
  <2>3. PICK n \in DOMAIN output : \E r1 \in output[n].read : r1[1] = i /\ y = r1[2]
    BY DEF Dask!Versions
  <2>4. PICK q \in output[n].read : q[1] = i /\ y = q[2]
    BY <2>3
  <2>5. i \in DOMAIN output /\ r \in output[i].read /\ q \in output[i].read
    BY <2>2, <2>4 DEF DaskInv, Settled
  <2>6. PICK k : output[i].read = {<<i, k>>}
    BY <2>5 DEF DaskInv, ReadsOnce
  <2> QED BY <2>2, <2>4, <2>5, <2>6
<1>2. CASE S = {}
  BY <1>c, <1>2, FS_EmptySet
<1>3. CASE S # {}
  <2>1. PICK x : x \in S
    BY <1>3
  <2>2. S = {x}
    BY <1>1, <2>1
  <2>3. Cardinality(S) = 1
    <3> HIDE DEF S
    <3> QED BY <2>2, FS_Singleton
  <2> QED BY <1>c, <2>3
<1> QED BY <1>2, <1>3

-----------------------------------------------------------------------------
\* The inductive invariant.

IInv ==
  /\ PlanFacts /\ WorldTyped
  /\ executor \in {"local", "dask"}
  /\ ResultComplete
  /\ executor = "local" => LocalInv
  /\ executor = "dask" => DaskInv

LEMMA Starts ==
  ASSUME Init
  PROVE  IInv
<1> USE DEF Local!Inputs, Dask!Inputs, Inputs
<1>1. /\ plan \in Plans /\ target \in plan.graph.node /\ status = "running"
      /\ world = [i \in Inputs |-> 0]
  <2>1. CASE Local!Init
    BY <2>1 DEF Local!Init, Local!PlanInit
  <2>2. CASE Dask!Init
    BY <2>2 DEF Dask!Init, Dask!PlanInit
  <2> QED BY <2>1, <2>2 DEF Init
<1>2. PlanFacts
  BY <1>1, PlansAssumption DEF PlanFacts, IsGraph, ExecutablePlan
<1>3. WorldTyped
  BY <1>1, PlansAssumption DEF WorldTyped, ExecutablePlan
<1>4. ResultComplete
  BY <1>1 DEF ResultComplete
<1>5. CASE executor = "local" /\ Local!Init
  BY <1>1, <1>2, <1>3, <1>4, <1>5, LocalStarts DEF IInv
<1>6. CASE executor = "dask" /\ Dask!Init
  BY <1>2, <1>3, <1>4, <1>6, DaskInitially DEF IInv
<1> QED BY <1>5, <1>6 DEF Init

\* The plan and the target never change, nor what is required or held.
LEMMA SameFixed ==
  ASSUME UNCHANGED <<plan, target>>
  PROVE  /\ Needed' = Needed /\ Inputs' = Inputs /\ (PlanFacts => PlanFacts')
         /\ \A n, v : Holds(n, v) => Holds(n, v)'
         /\ \A s, S : Ordered(s, S) => Ordered(s, S)'
<1>1. Needed' = Needed /\ Inputs' = Inputs
  BY DEF Needed, Inputs
<1>2. PlanFacts => PlanFacts'
  BY <1>1 DEF PlanFacts
<1>3. \A n, v : Holds(n, v) => Holds(n, v)'
  BY <1>1 DEF Holds, Value, Reads
<1>4. \A s, S : Ordered(s, S) => Ordered(s, S)'
  BY DEF Ordered
<1> QED BY <1>1, <1>2, <1>3, <1>4

\* Changes elsewhere keep the invariant: a source only changes while the run
\* lasts.
LEMMA ElsewhereKeeps ==
  ASSUME PlanFacts, WorldTyped, ResultComplete, Elsewhere
  PROVE  /\ PlanFacts' /\ WorldTyped' /\ ResultComplete'
         /\ LocalInv /\ UNCHANGED <<order, env>> => LocalInv'
         /\ DaskInv /\ UNCHANGED <<task, output>> => DaskInv'
<1>1. /\ Needed' = Needed /\ Inputs' = Inputs /\ PlanFacts'
      /\ \A n, v : Holds(n, v) => Holds(n, v)'
      /\ \A s, S : Ordered(s, S) => Ordered(s, S)'
  BY SameFixed DEF Elsewhere
<1>2. WorldTyped'
  <2>1. CASE UNCHANGED world
    BY <1>1, <2>1 DEF WorldTyped
  <2>2. CASE \E i \in Inputs : world[i] < MaxVersion /\ world' = [world EXCEPT ![i] = @ + 1]
    <3>1. PICK i \in Inputs : world[i] < MaxVersion /\ world' = [world EXCEPT ![i] = @ + 1]
      BY <2>2
    <3>2. world[i] + 1 \in 0..MaxVersion
      BY <3>1 DEF WorldTyped, PlanFacts
    <3> QED BY <1>1, <3>1, <3>2 DEF WorldTyped
  <2> QED BY <2>1, <2>2 DEF Elsewhere
<1>3. ResultComplete'
  BY <1>1 DEF ResultComplete, Elsewhere
<1>4. ASSUME LocalInv, UNCHANGED <<order, env>> PROVE LocalInv'
  <2>1. Ordered(order, Needed)' /\ Todo(order)' = Todo(order)
    BY <1>1, <1>4 DEF LocalInv, Ordered, Todo, Elsewhere
  <2>2. \A r : Pinned(r) => Pinned(r)'
    BY <1>1, <1>4 DEF Pinned, PinnedIn, Elsewhere
  <2>3. \A n \in DOMAIN env : (Holds(n, env[n]) /\ ReadsPinned(env[n]))'
    BY <1>1, <1>4, <2>2 DEF LocalInv, ReadsPinned
  <2>4. status' = "returned" => world' = world /\ result' = result /\ status = "returned"
    BY DEF Elsewhere
  <2>5. (status = "returned" => \A r \in result.read : r[2] = world[r[1]] \/ Pinned(r))'
    BY <1>4, <2>2, <2>4 DEF LocalInv
  <2> QED BY <1>1, <1>4, <2>1, <2>3, <2>5 DEF LocalInv
<1>5. ASSUME DaskInv, UNCHANGED <<task, output>> PROVE DaskInv'
  <2>1. \A n \in DOMAIN output : (Holds(n, output[n]) /\ Settled(output, output[n]))'
    BY <1>1, <1>5 DEF DaskInv, Settled, Elsewhere
  <2>2. ReadsOnce(output)'
    BY <1>1, <1>5 DEF DaskInv, ReadsOnce, Elsewhere
  <2> QED BY <1>1, <1>5, <2>1, <2>2 DEF DaskInv, Elsewhere
<1> QED BY <1>1, <1>2, <1>3, <1>4, <1>5

LEMMA LocalKeeps ==
  ASSUME PlanFacts, WorldTyped, ResultComplete, LocalInv, LocalVisits \/ LocalEnds
  PROVE  PlanFacts' /\ WorldTyped' /\ ResultComplete' /\ LocalInv'
<1>0. UNCHANGED <<plan, target, world>>
  BY DEF LocalVisits, LocalEnds, Fails, Finish, planVars
<1>1. /\ Needed' = Needed /\ Inputs' = Inputs /\ PlanFacts' /\ WorldTyped'
      /\ \A n, v : Holds(n, v) => Holds(n, v)'
      /\ \A s, S : Ordered(s, S) => Ordered(s, S)'
  BY <1>0, SameFixed DEF WorldTyped
<1>2. CASE LocalVisits
  <2>1. /\ status' = status /\ status = "running" /\ result' = result
    BY <1>2 DEF LocalVisits, planVars
  <2>2. /\ Ordered(order', Needed)
        /\ DOMAIN env' = Inputs \cup (Needed \ Todo(order'))
        /\ \A n \in DOMAIN env' :
             /\ Holds(n, env'[n])
             /\ \A r \in env'[n].read : PinnedIn(env', r)
    BY <1>2, LocalVisitKeeps
  <2>3. ResultComplete'
    BY <2>1 DEF ResultComplete
  <2>4. Ordered(order, Needed)' /\ (DOMAIN env = Inputs \cup (Needed \ Todo(order)))'
    BY <1>0, <1>1, <2>2 DEF Ordered, Todo
  <2>5. (\A n \in DOMAIN env : Holds(n, env[n]) /\ ReadsPinned(env[n]))'
    <3>1. \A n \in DOMAIN env' : Holds(n, env[n])'
      BY <1>1, <2>2
    <3>2. \A n \in DOMAIN env' : ReadsPinned(env[n])'
      BY <1>0, <1>1, <2>2 DEF ReadsPinned, Pinned, PinnedIn
    <3> QED BY <3>1, <3>2
  <2> QED BY <1>1, <2>1, <2>3, <2>4, <2>5 DEF LocalInv
<1>3. CASE LocalEnds
  <2>1. order' = order /\ env' = env
    BY <1>3 DEF LocalEnds
  <2>2. \A r : Pinned(r) => Pinned(r)'
    BY <1>0, <1>1, <2>1 DEF Pinned, PinnedIn
  <2>3. /\ Ordered(order, Needed)' /\ (DOMAIN env = Inputs \cup (Needed \ Todo(order)))'
        /\ (\A n \in DOMAIN env : Holds(n, env[n]) /\ ReadsPinned(env[n]))'
    BY <1>0, <1>1, <2>1, <2>2 DEF LocalInv, ReadsPinned, Ordered, Todo
  <2>4. CASE status' # "returned"
    BY <1>1, <2>3, <2>4 DEF LocalInv, ResultComplete
  <2>5. CASE status' = "returned"
    <3>1. order = <<>> /\ Finish(env[target])
      BY <1>3, <2>5 DEF LocalEnds, Fails
    <3>2. target \in DOMAIN env
      BY <3>1, NeededClosed DEF LocalInv, Todo
    <3>3. /\ result'.pending = {}
          /\ InputsRead(result') = Needed \cap Inputs
          /\ \A r \in result'.read : r \in env[target].read \/ r[2] = world[r[1]]
      <4> DEFINE v == env[target]
      <4>1. Holds(target, v) /\ Finish(v)
        BY <3>1, <3>2 DEF LocalInv
      <4> HIDE DEF v
      <4>2. /\ result'.pending = {}
            /\ InputsRead(result') = Needed \cap Inputs
            /\ \A r \in result'.read : r \in v.read \/ r[2] = world[r[1]]
        BY <2>5, <4>1, FinishHolds
      <4> QED BY <4>2 DEF v
    <3>4. ResultComplete'
      BY <1>1, <3>3 DEF ResultComplete, InputsRead
    <3>5. \A r \in result'.read : r[2] = world'[r[1]] \/ Pinned(r)'
      BY <1>0, <2>2, <3>2, <3>3 DEF LocalInv, ReadsPinned
    <3> QED BY <1>1, <2>3, <3>4, <3>5 DEF LocalInv
  <2> QED BY <2>4, <2>5
<1> QED BY <1>2, <1>3

LEMMA DaskKeeps ==
  ASSUME PlanFacts, WorldTyped, ResultComplete, DaskInv,
         (\E n \in Needed : DaskStarts(n) \/ DaskRuns(n)) \/ DaskEnds
  PROVE  PlanFacts' /\ WorldTyped' /\ ResultComplete' /\ DaskInv'
<1>0. UNCHANGED <<plan, target, world>>
  BY DEF DaskStarts, DaskRuns, DaskEnds, Fails, Finish, planVars
<1>1. /\ Needed' = Needed /\ Inputs' = Inputs /\ PlanFacts' /\ WorldTyped'
      /\ \A n, v : Holds(n, v) => Holds(n, v)'
  BY <1>0, SameFixed DEF WorldTyped
<1>k. DaskKept(task', output') => DaskInv'
  <2> SUFFICES ASSUME DaskKept(task', output') PROVE DaskInv'
    OBVIOUS
  <2>1. \A n \in DOMAIN output' : Holds(n, output[n])'
    BY <1>1 DEF DaskKept
  <2>2. \A n \in DOMAIN output' : Settled(output, output[n])'
    BY <1>0 DEF DaskKept, Settled
  <2>3. ReadsOnce(output)'
    BY <1>0, <1>1 DEF DaskKept, ReadsOnce
  <2> QED BY <1>0, <1>1, <2>1, <2>2, <2>3 DEF DaskKept, DaskInv
<1>2. CASE \E n \in Needed : DaskStarts(n) \/ DaskRuns(n)
  <2>1. PICK n \in Needed : DaskStarts(n) \/ DaskRuns(n)
    BY <1>2
  <2>2. DaskKept(task', output')
    BY <2>1, DaskStartKeeps, DaskRunKeeps
  <2>3. status' = status /\ result' = result
    BY <2>1 DEF DaskStarts, DaskRuns, planVars
  <2>4. ResultComplete'
    BY <1>1, <2>3 DEF ResultComplete
  <2> QED BY <1>1, <1>k, <2>2, <2>4
<1>3. CASE DaskEnds
  <2>1. DaskInv'
    <3>1. DaskKept(task', output')
      BY <1>3 DEF DaskEnds, DaskInv, DaskKept
    <3> QED BY <1>k, <3>1
  <2>2. CASE status' # "returned"
    BY <1>1, <2>1, <2>2 DEF ResultComplete
  <2>3. CASE status' = "returned"
    <3>1. task[target] = "done" /\ Finish(output[target])
      BY <1>3, <2>3 DEF DaskEnds, Fails
    <3>2. Holds(target, output[target])
      BY <3>1, NeededClosed DEF DaskInv
    <3>3. /\ result'.pending = {}
          /\ InputsRead(result') = Needed \cap Inputs
      BY <2>3, <3>1, <3>2, FinishHolds
    <3> QED BY <1>1, <2>1, <3>3 DEF ResultComplete, InputsRead
  <2> QED BY <2>2, <2>3
<1> QED BY <1>2, <1>3

LEMMA StepKeeps ==
  ASSUME IInv, [Next]_executorVars
  PROVE  IInv'
<1>1. CASE UNCHANGED executorVars
  <2>1. Elsewhere /\ UNCHANGED <<order, env, task, output, executor>>
    BY <1>1 DEF executorVars, planVars, Elsewhere
  <2> QED BY <2>1, ElsewhereKeeps DEF IInv
<1>2. CASE executor = "local" /\ Local!Next /\ UNCHANGED <<executor, task, output>>
  <2>1. LocalVisits \/ LocalEnds \/ (Elsewhere /\ UNCHANGED <<order, env>>)
    BY <1>2, LocalSteps DEF IInv
  <2>2. PlanFacts' /\ WorldTyped' /\ ResultComplete' /\ LocalInv'
    BY <1>2, <2>1, LocalKeeps, ElsewhereKeeps DEF IInv
  <2> QED BY <1>2, <2>2 DEF IInv
<1>3. CASE executor = "dask" /\ Dask!Next /\ UNCHANGED <<executor, order, env>>
  <2>1. \/ \E n \in Needed : DaskStarts(n) \/ DaskRuns(n)
        \/ DaskEnds
        \/ Elsewhere /\ UNCHANGED <<task, output>>
    BY <1>3, DaskSteps DEF IInv
  <2>2. PlanFacts' /\ WorldTyped' /\ ResultComplete' /\ DaskInv'
    BY <1>3, <2>1, DaskKeeps, ElsewhereKeeps DEF IInv
  <2> QED BY <1>3, <2>2 DEF IInv
<1> QED BY <1>1, <1>2, <1>3 DEF Next

\* The invariant holds of every run.
LEMMA IInvAlways == Spec => []IInv
<1>1. Init => IInv
  BY Starts
<1>2. IInv /\ [Next]_executorVars => IInv'
  BY StepKeeps
<1> QED BY <1>1, <1>2, PTL DEF Spec

-----------------------------------------------------------------------------
\* A returned frame has read every input its target needs and no other, and has
\* nothing left to read, whichever executor ran the plan (collect,
\* _materialize and the tail of both collects in executors.py).
THEOREM ResultAlwaysComplete == Spec => []ResultComplete
<1>1. IInv => ResultComplete
  BY DEF IInv
<1> QED BY <1>1, IInvAlways, PTL

\* The local executor itself reads nothing before its final collect: an older
\* version in a returned frame was given as a DataFrame or read by a function of
\* the plan, which may well have stayed lazy over its other arguments.
THEOREM LocalReadsAlwaysPinned == Spec => []LocalReadsPinned
<1>1. IInv => LocalReadsPinned
  <2> SUFFICES ASSUME IInv, executor = "local", status = "returned", NEW i \in Inputs,
                      NEW x \in Local!Versions(result, i) \ {world[i]}
               PROVE  \/ plan.inputs[i] = "eager"
                      \/ \E n \in Local!Needed \ (Inputs \cup plan.concats) :
                           Local!ReadFirstAt(n, <<i, x>>)
    BY DEF LocalReadsPinned, Local!OldReadsPinned, Local!Inputs, Inputs
  <2>n. Local!Needed = Needed
    BY DEF Local!Needed, Needed, Local!Required, Required, Local!Ancestors, Ancestors,
           Local!Predecessors, Predecessors, Local!ClosedBackward, ClosedBackward
  <2>1. PICK r \in result.read : r[1] = i /\ r[2] = x
    BY DEF Local!Versions
  <2>2. Pinned(r)
    BY <2>1 DEF IInv, LocalInv
  <2>3. CASE plan.inputs[i] = "eager"
    BY <2>3
  <2>4. CASE plan.inputs[r[1]] # "eager"
    <3>1. PICK n \in Needed \ (Inputs \cup plan.concats) :
               /\ n \in DOMAIN env /\ r \in env[n].read
               /\ \A m \in Predecessors(plan.graph, n) : m \in DOMAIN env /\ r \notin env[m].read
      BY <2>2, <2>4 DEF Pinned, PinnedIn
    <3>2. r = <<i, x>>
      <4>1. r \in Reads
        BY <3>1 DEF IInv, LocalInv, Holds, Value
      <4> QED BY <2>1, <4>1 DEF Reads
    <3> QED BY <2>n, <3>1, <3>2 DEF Local!ReadFirstAt, Local!Predecessors, Predecessors
  <2> QED BY <2>1, <2>3, <2>4
<1> QED BY <1>1, IInvAlways, PTL

\* Concurrent dask tasks see one version of a frame input, whatever changes
\* under them (delayed(_materialize) is one task per input).
THEOREM DaskAlwaysReadsOnce == Spec => []DaskReadsOnce
<1>1. IInv => DaskReadsOnce
  BY DaskInvReadsOnce DEF IInv, DaskReadsOnce
<1> QED BY <1>1, IInvAlways, PTL

-----------------------------------------------------------------------------
\* The refinement of PlanRun.

LEMMA RunNames ==
  /\ Run!Required(plan.graph, target) = Needed
  /\ \A n : Run!Predecessors(plan.graph, n) = Predecessors(plan.graph, n)
<1>1. \A n : Run!Predecessors(plan.graph, n) = Predecessors(plan.graph, n)
  BY DEF Run!Predecessors, Predecessors
<1> QED
  BY <1>1 DEF Run!Required, Required, Run!Ancestors, Ancestors, Run!ClosedBackward,
              ClosedBackward, Needed, Run!Predecessors, Predecessors

LEMMA RunStarts ==
  ASSUME Init
  PROVE  Run!Init
<1>1. PlanFacts
  BY Starts DEF IInv
<1>2. status = "running"
  BY DEF Init, Local!Init, Local!PlanInit, Dask!Init, Dask!PlanInit
<1>3. Computed = {}
  <2>1. CASE executor = "local" /\ Local!Init
    BY <2>1 DEF Computed, Local!Init, Local!Inputs, Inputs
  <2>2. CASE executor = "dask" /\ Dask!Init
    BY <2>2 DEF Computed, Dask!Init
  <2> QED BY <2>1, <2>2 DEF Init
<1> QED BY <1>1, <1>2, <1>3 DEF Run!Init, PlanFacts

\* A node that becomes computed after all it reads is a step of PlanRun, a
\* step that computes nothing is none, and a run ends with its target computed.
LEMMA RunComputes ==
  ASSUME PlanFacts, UNCHANGED <<plan, target, status>>, status = "running",
         NEW n \in Needed, Predecessors(plan.graph, n) \subseteq Inputs \cup Computed,
         n \notin Inputs \cup Computed, Computed' = Computed \cup {n}
  PROVE  Run!Next
<1>1. n \in plan.graph.node /\ Inputs' = Inputs
  BY NeededClosed DEF Inputs
<1>2. Run!Compute(n)
  BY <1>1, RunNames DEF Run!Compute
<1> QED BY <1>1, <1>2 DEF Run!Next

LEMMA RunEnds ==
  ASSUME PlanFacts, UNCHANGED plan, UNCHANGED Computed, target \in Inputs \cup Computed,
         NEW v, Finish(v), status = "running"
  PROVE  Run!Next
<1>1. Inputs' = Inputs /\ target' = target
  BY DEF Inputs, Finish
<1> QED BY <1>1 DEF Run!Next, Run!Return, Run!Raise, Finish

LEMMA RunFails ==
  ASSUME UNCHANGED Computed, Fails
  PROVE  Run!Next
<1>1. Inputs' = Inputs
  BY DEF Inputs, Fails
<1> QED BY <1>1 DEF Run!Next, Run!Raise, Fails

LEMMA RunStutters ==
  ASSUME UNCHANGED <<plan, target, status, Computed>>
  PROVE  UNCHANGED Run!runVars
<1>1. Inputs' = Inputs
  BY DEF Inputs
<1> QED BY <1>1 DEF Run!runVars

LEMMA RunStep ==
  ASSUME IInv, [Next]_executorVars
  PROVE  [Run!Next]_Run!runVars
<1>1. CASE UNCHANGED executorVars
  <2>1. UNCHANGED <<plan, target, status, Computed>>
    BY <1>1 DEF executorVars, planVars, Computed, Inputs
  <2> QED BY <2>1, RunStutters
<1>2. CASE executor = "local" /\ Local!Next /\ UNCHANGED <<executor, task, output>>
  <2>0. Computed = DOMAIN env \ Inputs
    BY <1>2 DEF Computed
  <2>1. CASE LocalVisits
    <3>1. UNCHANGED <<plan, target, status>> /\ status = "running" /\ Inputs' = Inputs
      BY <2>1 DEF LocalVisits, planVars, Inputs
    <3>2. Computed' = DOMAIN env' \ Inputs
      BY <1>2, <3>1 DEF Computed
    <3>3. /\ Head(order) \in Needed
          /\ Predecessors(plan.graph, Head(order)) \subseteq DOMAIN env
          /\ Head(order) \notin Inputs => Head(order) \notin DOMAIN env
      BY <1>2, <2>1, HeadReady DEF IInv, LocalVisits
    <3>4. CASE UNCHANGED env
      BY <2>0, <3>1, <3>2, <3>4, RunStutters
    <3>5. CASE Head(order) \notin Inputs /\ \E v : env' = With(env, Head(order), v)
      <4>1. DOMAIN env' = DOMAIN env \cup {Head(order)}
        BY <3>5 DEF With
      <4>2. Computed' = Computed \cup {Head(order)}
        BY <2>0, <3>2, <3>5, <4>1
      <4>3. /\ Predecessors(plan.graph, Head(order)) \subseteq Inputs \cup Computed
            /\ Head(order) \notin Inputs \cup Computed
        BY <2>0, <3>3, <3>5
      <4> DEFINE h == Head(order)
      <4> HIDE DEF h
      <4>4. /\ h \in Needed /\ Predecessors(plan.graph, h) \subseteq Inputs \cup Computed
            /\ h \notin Inputs \cup Computed /\ Computed' = Computed \cup {h}
        BY <3>3, <4>2, <4>3 DEF h
      <4> QED BY <1>2, <3>1, <4>4, RunComputes DEF IInv
    <3> QED BY <2>1, <3>4, <3>5 DEF LocalVisits
  <2>2. CASE LocalEnds
    <3>1. plan' = plan
      BY <2>2 DEF LocalEnds, Fails, Finish
    <3>2. UNCHANGED Computed
      BY <1>2, <2>2, <3>1 DEF LocalEnds, Computed, Inputs
    <3>3. CASE Fails
      BY <3>2, <3>3, RunFails
    <3>4. CASE status = "running" /\ order = <<>> /\ Finish(env[target])
      <4>1. target \in Inputs \cup Computed
        BY <1>2, <2>0, <3>4, NeededClosed DEF IInv, LocalInv, Todo
      <4> QED BY <1>2, <3>1, <3>2, <3>4, <4>1, RunEnds DEF IInv
    <3> QED BY <2>2, <3>3, <3>4 DEF LocalEnds
  <2>3. CASE Elsewhere /\ UNCHANGED <<order, env>>
    <3>1. UNCHANGED <<plan, target, status, Computed>>
      BY <1>2, <2>3 DEF Elsewhere, Computed, Inputs
    <3> QED BY <3>1, RunStutters
  <2> QED BY <1>2, <2>1, <2>2, <2>3, LocalSteps DEF IInv
<1>3. CASE executor = "dask" /\ Dask!Next /\ UNCHANGED <<executor, order, env>>
  <2>0. Computed = DOMAIN output \ Inputs
    BY <1>3 DEF Computed
  <2>1. ASSUME NEW n \in Needed, DaskStarts(n) PROVE [Run!Next]_Run!runVars
    <3>1. UNCHANGED <<plan, target, status, Computed>>
      BY <1>3, <2>1 DEF DaskStarts, planVars, Computed, Inputs
    <3> QED BY <3>1, RunStutters
  <2>2. ASSUME NEW n \in Needed, DaskRuns(n) PROVE [Run!Next]_Run!runVars
    <3>1. UNCHANGED <<plan, target, status>> /\ status = "running" /\ Inputs' = Inputs
      BY <2>2 DEF DaskRuns, planVars, Inputs
    <3>2. Computed' = DOMAIN output' \ Inputs
      BY <1>3, <3>1 DEF Computed
    <3>3. /\ n \notin DOMAIN output /\ DOMAIN output' = DOMAIN output \cup {n}
          /\ Predecessors(plan.graph, n) \subseteq DOMAIN output
      BY <1>3, <2>2, DaskRunKeeps DEF IInv, DaskInv, DaskRuns
    <3>4. CASE n \in Inputs
      BY <2>0, <3>1, <3>2, <3>3, <3>4, RunStutters
    <3>5. CASE n \notin Inputs
      <4>1. /\ Predecessors(plan.graph, n) \subseteq Inputs \cup Computed
            /\ n \notin Inputs \cup Computed /\ Computed' = Computed \cup {n}
        BY <2>0, <3>2, <3>3, <3>5
      <4> QED BY <1>3, <3>1, <4>1, RunComputes DEF IInv
    <3> QED BY <3>4, <3>5
  <2>3. CASE DaskEnds
    <3>1. plan' = plan
      BY <2>3 DEF DaskEnds, Fails, Finish
    <3>2. UNCHANGED Computed
      BY <1>3, <2>3, <3>1 DEF DaskEnds, Computed, Inputs
    <3>3. CASE Fails
      BY <3>2, <3>3, RunFails
    <3>4. CASE status = "running" /\ task[target] = "done" /\ Finish(output[target])
      <4>1. target \in Inputs \cup Computed
        BY <1>3, <2>0, <3>4, NeededClosed DEF IInv, DaskInv
      <4> QED BY <1>3, <3>1, <3>2, <3>4, <4>1, RunEnds DEF IInv
    <3> QED BY <2>3, <3>3, <3>4 DEF DaskEnds
  <2>4. CASE Elsewhere /\ UNCHANGED <<task, output>>
    <3>1. UNCHANGED <<plan, target, status, Computed>>
      BY <1>3, <2>4 DEF Elsewhere, Computed, Inputs
    <3> QED BY <3>1, RunStutters
  <2> QED BY <1>3, <2>1, <2>2, <2>3, <2>4, DaskSteps DEF IInv
<1> QED BY <1>1, <1>2, <1>3 DEF Next

\* Both executors implement PlanRun: they compute the nodes the target needs
\* and no other, each once and after all it reads, and return only with the
\* target computed (LocalExecutor.collect and DaskExecutor.collect).
THEOREM RunImplemented == Spec => ImplementsRun
<1>1. Init => Run!Init
  BY RunStarts
<1>2. IInv /\ [Next]_executorVars => [Run!Next]_Run!runVars
  BY RunStep
<1> QED BY <1>1, <1>2, IInvAlways, PTL DEF Spec, ImplementsRun, Run!Spec
=============================================================================
