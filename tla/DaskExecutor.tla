----------------------------- MODULE DaskExecutor -----------------------------
(***************************************************************************)
(* DaskExecutor.collect (executors.py): every plan input is wrapped in a    *)
(* delayed(_materialize), every required node becomes one delayed task, and *)
(* compute() runs the tasks the target depends on.  The dask scheduler is   *)
(* external: it runs a task once, on any free worker, any time after the    *)
(* tasks it depends on are done, and compute() raises when a task raises.   *)
(***************************************************************************)
EXTENDS PlanExecution

CONSTANT Workers   \* how many tasks the scheduler runs at once

VARIABLES task,    \* needed vertex -> "waiting", "running" or "done"
          output   \* done vertex -> value

daskVars == <<planVars, task, output>>

Init ==
  /\ PlanInit
  /\ task = [n \in Needed |-> "waiting"]
  /\ output = [n \in {} |-> NoResult]

Args(n) == {output[m] : m \in Predecessors(plan.graph, n)}

Busy == {n \in Needed : task[n] = "running"}

StartTask(n) ==
  /\ status = "running"
  /\ task[n] = "waiting"
  /\ \A m \in Predecessors(plan.graph, n) : task[m] = "done"
  /\ Cardinality(Busy) < Workers
  /\ task' = [task EXCEPT ![n] = "running"]
  /\ UNCHANGED <<planVars, output>>

Finished(n, v) ==
  /\ task' = [task EXCEPT ![n] = "done"]
  /\ output' = [m \in DOMAIN output \cup {n} |-> IF m = n THEN v ELSE output[m]]
  /\ UNCHANGED planVars

Running(n) == status = "running" /\ task[n] = "running"

\* Mutant: the input is handed on as it is.
FinishInputLazy(n) ==
  /\ Running(n)
  /\ n \in Inputs
  /\ Finished(n, InputValue(n))

\* delayed(_materialize)(value)
FinishInput(n) ==
  /\ Running(n)
  /\ n \in Inputs
  /\ Finished(n, Materialize(InputValue(n)))

\* delayed(_run_function)(node.fn, kwargs)
FinishFunction(n) ==
  /\ Running(n)
  /\ n \notin Inputs \cup plan.concats
  /\ \E v \in FunctionResults(Args(n)) : Finished(n, Materialize(v))

\* delayed(_run_concat)(frames, how)
FinishConcat(n) ==
  /\ Running(n)
  /\ n \in plan.concats
  /\ \A v \in Args(n) : v.kind # "object"
  /\ Finished(n, Combine("eager", {Materialize(v) : v \in Args(n)}))

\* The task raises, and compute() with it; other running tasks are abandoned.
TaskRaises(n) ==
  /\ Running(n)
  /\ n \in plan.concats => \E v \in Args(n) : v.kind = "object"
  /\ status' = "raised"
  /\ UNCHANGED <<plan, target, world, context, backends, result, task, output>>

EndTask(n) == FinishInput(n) \/ FinishFunction(n) \/ FinishConcat(n) \/ TaskRaises(n)

\* compute() hands the target's value to the tail of collect.
CollectTarget ==
  /\ status = "running"
  /\ task[target] = "done"
  /\ Finish(output[target])
  /\ UNCHANGED <<task, output>>

SourceChanges == \E i \in Inputs : Tick(i) /\ UNCHANGED <<task, output>>

\* Other code registers a backend while the call runs.
BackendRegistered == \E name \in Custom : RegisterBackend(name) /\ UNCHANGED <<task, output>>

Next ==
  \/ \E n \in Needed : StartTask(n) \/ EndTask(n)
  \/ CollectTarget
  \/ SourceChanges
  \/ BackendRegistered

-----------------------------------------------------------------------------
\* A frame input is read by one task and shared, so every value computed from
\* it, whatever the interleaving of tasks and source changes, saw the same
\* version of it.  Objects are handed to the tasks unread and promise nothing.
FrameReadOnce ==
  \A i \in Inputs : plan.inputs[i] # "object" =>
    Cardinality(UNION {Versions(output[n], i) : n \in DOMAIN output}) <= 1
=============================================================================
