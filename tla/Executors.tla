------------------------------ MODULE Executors ------------------------------
(***************************************************************************)
(* The two executors of executors.py behind the one call their users make:  *)
(* Executor(context).collect(plan, target=...).  Which executor it is may   *)
(* change when a result is computed, never what it promises.                *)
(***************************************************************************)
EXTENDS PlanExecution

CONSTANT Workers   \* how many tasks the dask scheduler runs at once

ASSUME WorkersAssumption == Workers \in Nat \ {0}

VARIABLES executor, \* the class collect is called on: "local" or "dask"
          order,    \* the local executor's nodes still to visit
          env,      \* the local executor's name -> value
          task,     \* the dask executor's tasks
          output    \* and their values

executorVars == <<planVars, executor, order, env, task, output>>

Local == INSTANCE LocalExecutor
Dask == INSTANCE DaskExecutor

Empty == [n \in {} |-> NoResult]

Init ==
  \/ executor = "local" /\ Local!Init /\ task = Empty /\ output = Empty
  \/ executor = "dask" /\ Dask!Init /\ order = <<>> /\ env = Empty

Next ==
  \/ executor = "local" /\ Local!Next /\ UNCHANGED <<executor, task, output>>
  \/ executor = "dask" /\ Dask!Next /\ UNCHANGED <<executor, order, env>>

Spec == Init /\ [][Next]_executorVars

-----------------------------------------------------------------------------
\* What has been computed of the plan, by whichever executor.
Computed == (IF executor = "local" THEN DOMAIN env ELSE DOMAIN output) \ Inputs

Run == INSTANCE PlanRun WITH
         graph <- plan.graph, inputs <- Inputs, computed <- Computed

\* Both executors keep the promise of a run: topological order, whatever the
\* order of the tasks; the target's ancestors only; and a return only of what
\* was computed.
ImplementsRun == Run!Spec

\* A local run defers every read to the final collect, except for what is
\* pinned by a DataFrame given as input or by a function that collected.
LocalReadsPinned == executor = "local" => Local!OldReadsPinned

\* Concurrent tasks see one version of a frame input, whatever changes under
\* them while they run.
DaskReadsOnce == executor = "dask" => Dask!FrameReadOnce
=============================================================================
