---------------------------- MODULE PlanExecution ----------------------------
(***************************************************************************)
(* What the two executors of executors.py share: the plan they run, the     *)
(* values that flow through it and the outside data those values read.      *)
(*                                                                          *)
(* A value is abstracted to its kind and to the outside data it depends on. *)
(* Plan inputs are names for data that lives outside the plan: a LazyFrame  *)
(* over a file or a table, a DataFrame read when the plan was built, or an  *)
(* object such as a MarketSnapshot holding LazyFrames of its own.  world    *)
(* counts the changes of each, and a value records which version of which   *)
(* input it has read and which inputs it will still read when collected.    *)
(***************************************************************************)
EXTENDS DependencyGraph

CONSTANTS Plans,     \* plan records [graph, inputs, concats]
          MaxVersion,\* bound on the changes of an outside source in a run
          Contexts,  \* the contexts callers collect through, by backend: "local",
                     \* "ray" or the name of a custom one
          Custom,    \* the custom backends that get registered
          NoResult   \* not a value

VARIABLES plan,   \* the plan given to collect
          target, \* its target argument
          world,  \* input name -> number of changes of the data behind it
          context,  \* the executor's context
          backends, \* the backends a context would find now: _CUSTOM_BACKENDS,
                    \* the built-in ones, and ray only where it is installed
          status, \* "running", "returned" or "raised"
          result  \* what collect returned, NoResult before that

planVars == <<plan, target, world, context, backends, status, result>>

ValueKind == {"lazy", "eager", "object"}

Inputs == DOMAIN plan.inputs

\* Mutant: everything is run.
NeededAll == plan.graph.node

\* topological_order(target): the vertices an executor visits.
Needed == Required(plan.graph, target)

\* plan.inputs maps an input name to the kind of its value; concats are the
\* nodes registered by concat(), every other node is a function.  An input is
\* registered without dependencies.
ExecutablePlan(p) ==
  /\ IsFiniteSet(p.graph.node)
  /\ p.graph.edge \subseteq p.graph.node \X p.graph.node
  /\ \A e \in p.graph.edge : e[2] \notin DOMAIN p.inputs
  /\ DOMAIN p.inputs \subseteq p.graph.node
  /\ p.inputs \in [DOMAIN p.inputs -> ValueKind]
  /\ p.concats \subseteq p.graph.node \ DOMAIN p.inputs

ASSUME PlansAssumption ==
  /\ MaxVersion \in Nat
  /\ \A p \in Plans : ExecutablePlan(p)

Reads == Inputs \X (0..MaxVersion)
Value == [kind : ValueKind, read : SUBSET Reads, pending : SUBSET Inputs]

PlanInit ==
  /\ plan \in Plans
  /\ target \in plan.graph.node
  /\ world = [i \in Inputs |-> 0]
  /\ context \in Contexts
  /\ backends \in {{"local"}, {"local", "ray"}}
  /\ status = "running"
  /\ result = NoResult

\* env = dict(plan._inputs)
InputValue(i) ==
  IF plan.inputs[i] = "eager"
  THEN [kind |-> "eager", read |-> {<<i, 0>>}, pending |-> {}]
  ELSE [kind |-> plan.inputs[i], read |-> {}, pending |-> {i}]

\* What collecting the inputs in is reads: each as it is now.
ReadNow(is) == {<<i, world[i]>> : i \in is}

\* LazyFrame.collect: every scan still pending is read now.
Collect(v) ==
  [kind |-> "eager", read |-> v.read \cup ReadNow(v.pending), pending |-> {}]

\* _materialize: only a LazyFrame is collected.
Materialize(v) == IF v.kind = "lazy" THEN Collect(v) ELSE v

\* What depends on the values in args.
Combine(kind, args) ==
  [kind |-> kind,
   read |-> UNION {v.read : v \in args},
   pending |-> UNION {v.pending : v \in args}]

\* What a node function may return: it may collect some of what its arguments
\* leave pending and stay lazy over the rest, or do both with the same input,
\* and return a LazyFrame, a DataFrame, which leaves nothing pending, or an
\* object that is not a frame.  The function is external code.
FunctionResults(args) ==
  LET all == Combine("lazy", args)
  IN  {v \in [kind : ValueKind,
               read : {all.read \cup ReadNow(is) : is \in SUBSET all.pending},
               pending : SUBSET all.pending] :
         /\ \A i \in all.pending : <<i, world[i]>> \in v.read \/ i \in v.pending
         /\ v.kind = "eager" => v.pending = {}}

\* Mutant: a LazyFrame is returned as it is.
FinishLazy(v) ==
  /\ status' = "returned" /\ result' = v
  /\ UNCHANGED <<plan, target, world, context, backends>>

\* PricingExecutionContext.collect looks its backend up when it is called.
BackendFound == context \in backends

\* The tail of collect: a DataFrame is returned as it is and a LazyFrame is
\* collected by the context.  Anything else is a TypeError; a backend may be
\* unknown, and a lazy query may fail.
Finish(v) ==
  /\ \/ v.kind = "eager" /\ status' = "returned" /\ result' = v
     \/ /\ v.kind = "lazy" /\ BackendFound
        /\ status' = "returned" /\ result' = Collect(v)
     \/ v.kind # "eager" /\ status' = "raised" /\ UNCHANGED result
  /\ UNCHANGED <<plan, target, world, context, backends>>

\* register_backend, by any code of the process and at any time.
RegisterBackend(name) ==
  /\ name \notin backends
  /\ backends' = backends \cup {name}
  /\ UNCHANGED <<plan, target, world, context, status, result>>

\* The data behind an input changes while the plan runs.
Tick(i) ==
  /\ status = "running"
  /\ world[i] < MaxVersion
  /\ world' = [world EXCEPT ![i] = @ + 1]
  /\ UNCHANGED <<plan, target, context, backends, status, result>>

Versions(v, i) == {r[2] : r \in {x \in v.read : x[1] = i}}

\* A returned frame has read every input its target needs, none other, and
\* has nothing left to read.
ResultComplete ==
  status = "returned" =>
    /\ result.pending = {}
    /\ {r[1] : r \in result.read} = Needed \cap Inputs
=============================================================================
