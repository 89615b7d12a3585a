------------------------------- MODULE PlanRun -------------------------------
(***************************************************************************)
(* What running one target of a valuation plan promises, whatever executor  *)
(* runs it: whole nodes are computed one by one, none before everything it  *)
(* reads, none twice and none the target does not need; the call returns    *)
(* only once the target is computed, and otherwise raises.  LocalExecutor   *)
(* and DaskExecutor (executors.py) are both shown to implement this.        *)
(***************************************************************************)
EXTENDS DependencyGraph

VARIABLES graph,    \* the plan's graph, fixed during a run
          inputs,   \* the names registered by input(): given, not computed
          target,   \* the vertex asked for
          computed, \* the nodes whose results exist
          status    \* "running", "returned" or "raised"

runVars == <<graph, inputs, target, computed, status>>

Init ==
  /\ inputs \subseteq graph.node
  /\ target \in graph.node
  /\ computed = {}
  /\ status = "running"

Compute(n) ==
  /\ status = "running"
  /\ n \in Required(graph, target) \ (inputs \cup computed)
  /\ Predecessors(graph, n) \subseteq inputs \cup computed
  /\ computed' = computed \cup {n}
  /\ UNCHANGED <<graph, inputs, target, status>>

Return ==
  /\ status = "running"
  /\ target \in inputs \cup computed
  /\ status' = "returned"
  /\ UNCHANGED <<graph, inputs, target, computed>>

Raise ==
  /\ status = "running"
  /\ status' = "raised"
  /\ UNCHANGED <<graph, inputs, target, computed>>

Next == (\E n \in graph.node : Compute(n)) \/ Return \/ Raise

Spec == Init /\ [][Next]_runVars
=============================================================================
