--------------------------- MODULE DependencyGraph ---------------------------
(***************************************************************************)
(* Graphs of dependencies.  ValuationPlan keeps a rustworkx PyDiGraph whose *)
(* edges point from dependency to dependent                                 *)
(* (schenberg_distributed/plan.py), and the terms of a FormulaGraph form    *)
(* such a graph through the variables of their expressions.  A graph is a   *)
(* record of its vertices and edges: [node |-> set of names, edge |-> set   *)
(* of pairs <<dependency, dependent>>].                                     *)
(* rustworkx itself is external: descendants and ancestors are the least    *)
(* sets closed under the edges, and a topological sort is any of the orders *)
(* it may return.                                                           *)
(***************************************************************************)
EXTENDS Naturals, Sequences, FiniteSets

IsGraph(G) == G.edge \subseteq G.node \X G.node

\* rx predecessor_indices: what a vertex reads directly.
Predecessors(G, n) == {m \in G.node : <<m, n>> \in G.edge}
Successors(G, n) == {m \in G.node : <<n, m>> \in G.edge}

ClosedForward(G, S) == \A e \in G.edge : e[1] \in S => e[2] \in S
ClosedBackward(G, S) == \A e \in G.edge : e[2] \in S => e[1] \in S

\* rx.descendants / rx.ancestors: the vertex itself is not one of them.
Descendants(G, n) ==
  {m \in G.node : \A S \in SUBSET G.node :
      Successors(G, n) \subseteq S /\ ClosedForward(G, S) => m \in S}
Ancestors(G, n) ==
  {m \in G.node : \A S \in SUBSET G.node :
      Predecessors(G, n) \subseteq S /\ ClosedBackward(G, S) => m \in S}

\* The vertices topological_order(target) keeps: what an executor must run.
Required(G, target) == Ancestors(G, target) \cup {target}

\* rx.topological_sort raises DAGHasCycle when some vertex reaches itself.
IsAcyclic(G) == \A n \in G.node : n \notin Descendants(G, n)

\* affected_by_market_source: the declaring nodes and all they feed.
Affected(G, starts) == starts \cup UNION {Descendants(G, n) : n \in starts}

IsTopologicalOrder(G, s) ==
  \A i, j \in DOMAIN s : <<s[i], s[j]>> \in G.edge => i < j

\* Every order rx.topological_sort may return for the vertices in S.
TopologicalOrders(G, S) ==
  {s \in [1..Cardinality(S) -> S] :
      /\ \A i, j \in DOMAIN s : s[i] = s[j] => i = j
      /\ IsTopologicalOrder(G, s)}
=============================================================================
