---------------------------- MODULE LocalExecutor ----------------------------
(***************************************************************************)
(* LocalExecutor.collect (executors.py): validate, then run the required    *)
(* nodes one after the other in topological order, keeping LazyFrames lazy, *)
(* and collect the target at the end.  A node that raises ends the call.    *)
(***************************************************************************)
EXTENDS PlanExecution

VARIABLES order, \* the nodes still to visit: topological_order(target)
          env    \* name -> value

localVars == <<planVars, order, env>>

\* plan.validate, then topological_order(target): the whole graph's order kept
\* to what is needed, which may be any order of what is needed, since that
\* holds all it reads.
Init ==
  /\ PlanInit
  /\ IsAcyclic(plan.graph)
  /\ order \in TopologicalOrders(plan.graph, Needed)
  /\ env = [i \in Inputs |-> InputValue(i)]

\* Mutant: a node's arguments are collected for it, and its result stays lazy.
ArgsCollected(n) == {Materialize(env[m]) : m \in Predecessors(plan.graph, n)}

Args(n) == {env[m] : m \in Predecessors(plan.graph, n)}

SetEnv(n, v) ==
  env' = [m \in DOMAIN env \cup {n} |-> IF m = n THEN v ELSE env[m]]

Visit == status = "running" /\ order # <<>>

\* "if name in plan._inputs: continue"
SkipInput ==
  /\ Visit
  /\ Head(order) \in Inputs
  /\ order' = Tail(order)
  /\ UNCHANGED <<planVars, env>>

\* result = node.fn(**kwargs)
RunFunction ==
  /\ Visit
  /\ Head(order) \notin Inputs \cup plan.concats
  /\ \E v \in FunctionResults(Args(Head(order))) : SetEnv(Head(order), v)
  /\ order' = Tail(order)
  /\ UNCHANGED planVars

\* _concat_preserve_lazy: one LazyFrame among the inputs makes it lazy.
RunConcat ==
  /\ Visit
  /\ Head(order) \in plan.concats
  /\ \A v \in Args(Head(order)) : v.kind # "object"
  /\ LET lazy == \E v \in Args(Head(order)) : v.kind = "lazy"
     IN  SetEnv(Head(order),
                Combine(IF lazy THEN "lazy" ELSE "eager", Args(Head(order))))
  /\ order' = Tail(order)
  /\ UNCHANGED planVars

\* The node raises: a function for any reason, a concat of a non-frame.
NodeRaises ==
  /\ Visit
  /\ Head(order) \notin Inputs
  /\ Head(order) \in plan.concats => \E v \in Args(Head(order)) : v.kind = "object"
  /\ status' = "raised"
  /\ UNCHANGED <<plan, target, world, context, backends, result, order, env>>

CollectTarget ==
  /\ status = "running"
  /\ order = <<>>
  /\ Finish(env[target])
  /\ UNCHANGED <<order, env>>

Step == SkipInput \/ RunFunction \/ RunConcat \/ NodeRaises \/ CollectTarget

SourceChanges == \E i \in Inputs : Tick(i) /\ UNCHANGED <<order, env>>

\* Other code registers a backend while the call runs.
BackendRegistered == \E name \in Custom : RegisterBackend(name) /\ UNCHANGED <<order, env>>

Next == Step \/ SourceChanges \/ BackendRegistered

-----------------------------------------------------------------------------
\* A read that is in the value of n and in none of those n was computed from.
ReadFirstAt(n, read) ==
  /\ read \in env[n].read
  /\ \A m \in Predecessors(plan.graph, n) : read \notin env[m].read

\* The executor itself reads nothing before the final collect: a version of an
\* input that a returned frame holds in any part is the one of that moment,
\* except where a DataFrame was given as input or a function on the way read
\* the older one itself.  A concat reads nothing, and nothing is read for a
\* function before it is called.
OldReadsPinned ==
  status = "returned" =>
    \A i \in Inputs : \A v \in Versions(result, i) \ {world[i]} :
      \/ plan.inputs[i] = "eager"
      \/ \E n \in Needed \ (Inputs \cup plan.concats) : ReadFirstAt(n, <<i, v>>)
=============================================================================
