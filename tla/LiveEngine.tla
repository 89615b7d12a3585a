------------------------------ MODULE LiveEngine ------------------------------
(***************************************************************************)
(* LiveValuationEngine, DependencyIndex and ValuationCache                  *)
(* (plugins/schenberg_live/schenberg_live/{engine,index,cache,events}.py).  *)
(*                                                                          *)
(* Engines share one ValuationCache (its field may be passed in), one plan, *)
(* and each has a target. Data changes outside; whoever changes it         *)
(* publishes an event with a version label, and callers hand published      *)
(* events to engines in any order and any number of times.  A call runs in  *)
(* its caller's thread; nothing in the package takes a lock, so the steps   *)
(* of calls on different threads interleave between store operations.       *)
(***************************************************************************)
EXTENDS DependencyGraph

CONSTANTS
  Graph,         \* the plan's graph (a plan is fixed while events flow)
  MarketSources, \* node name -> the market sources it declares and reads
  Target,        \* the targets of the engines that share the cache
  Caller,        \* the threads that call the engines
  Deployments,   \* the combinations of calling threads, engines and ways to
                 \* label events that run
  Version,       \* version labels
  MaxChanges,    \* bound on the changes of one feed
  None           \* no answer yet

\* The vertex name DependencyIndex looks for on a position event.
Positions == "positions"

Feed == (UNION {MarketSources[n] : n \in DOMAIN MarketSources}) \cup {Positions}

\* How those who publish label their events: nothing in the package makes a
\* label unique, neither over all feeds nor for one of them.
Labels == {"global", "by feed", "any"}

ASSUME LiveAssumption ==
  /\ IsGraph(Graph)
  /\ DOMAIN MarketSources \subseteq Graph.node
  /\ Target \subseteq Graph.node
  /\ IsFiniteSet(Caller)
  /\ Deployments \subseteq [callers : SUBSET Caller, engines : SUBSET Target,
                           labels : Labels]
  /\ MaxChanges \in Nat
  /\ None # [raised |-> TRUE]

\* The outside data a run of target t reads.
FeedsOf ==
  [t \in Target |->
    {f \in Feed :
       \/ f = Positions /\ Positions \in Required(Graph, t)
       \/ \E n \in Required(Graph, t) \cap DOMAIN MarketSources : f \in MarketSources[n]}]

\* DependencyIndex.affected_by: a market event names the source's nodes and
\* all they feed; a position event what is downstream of "positions", closed
\* once more under downstream_of, and nothing when the plan has no such name.
AffectedBy ==
  [f \in Feed |->
    IF f = Positions
    THEN IF Positions \in Graph.node
         THEN Affected(Graph, Descendants(Graph, Positions))
         ELSE {}
    ELSE Affected(Graph, {n \in DOMAIN MarketSources : f \in MarketSources[n]})]

\* An event and, as a ghost, which change of its feed it announces.
Event == [feed : Feed, version : Version, change : 1..MaxChanges]
CacheKey == Target \X Version

\* Mutant: the version is left out.
KeyOfTarget(t, v) == <<t, CHOOSE x \in Version : TRUE>>

\* CacheKey(target, version)
Key(t, v) == <<t, v>>

VARIABLES
  deployment, \* which threads call which engines, and how events are
              \* labelled, fixed when they start
  world,     \* feed -> number of changes so far
  published, \* the events announced so far
  cache,     \* ValuationCache.store: key -> data
  pc,        \* caller -> "idle", "invalidate", "drop" or "collect"
  call,      \* caller -> [target, event] it is serving
  toDrop,    \* caller -> keys of the snapshot invalidate() still has to visit
  data,      \* caller -> feed -> version, what the executor has read so far
  answer,    \* caller -> its last LiveResult
  floor      \* ghost: target -> world at the last invalidation that named it

worldVars == <<deployment, world, published>>
vars == <<deployment, world, published, cache, pc, call, toDrop, data, answer, floor>>

\* Data for a target: the change of every feed it reads.
Data(t) == [FeedsOf[t] -> 0..MaxChanges]
EmptyData == [f \in {} |-> 0]
LiveResult == [target : Target, event : Event, data : UNION {Data(t) : t \in Target},
               cache_hit : BOOLEAN]
Raised == [raised |-> TRUE]

TypeOK ==
  /\ deployment \in Deployments
  /\ world \in [Feed -> 0..MaxChanges]
  /\ published \subseteq Event
  /\ DOMAIN cache \subseteq CacheKey
  /\ \A k \in DOMAIN cache : cache[k] \in Data(k[1])
  /\ pc \in [Caller -> {"idle", "invalidate", "drop", "collect"}]
  /\ DOMAIN call = Caller /\ DOMAIN toDrop = Caller
  /\ DOMAIN data = Caller /\ DOMAIN answer = Caller
  /\ \A c \in Caller : answer[c] \notin {None, Raised} => answer[c] \in LiveResult
  /\ \A c \in Caller : toDrop[c] \subseteq CacheKey
  /\ \A c \in Caller : pc[c] # "idle" =>
       /\ call[c] \in [target : Target, event : Event]
       /\ DOMAIN data[c] \subseteq FeedsOf[call[c].target]
       /\ data[c] \in [DOMAIN data[c] -> 0..MaxChanges]
  /\ floor \in [Target -> [Feed -> 0..MaxChanges]]

Init ==
  /\ deployment \in Deployments
  /\ world = [f \in Feed |-> 0]
  /\ published = {}
  /\ cache = [k \in {} |-> EmptyData]
  /\ pc = [c \in Caller |-> "idle"]
  /\ call = [c \in Caller |-> None]
  /\ toDrop = [c \in Caller |-> {}]
  /\ data = [c \in Caller |-> EmptyData]
  /\ answer = [c \in Caller |-> None]
  /\ floor = [t \in Target |-> world]

\* No label is used twice.
UniqueLabels == deployment.labels = "global"

Fresh(f, v) ==
  \A e \in published :
    UniqueLabels \/ (deployment.labels = "by feed" /\ e.feed = f) => e.version # v

\* A feed changes and its event is announced.
Publish(f, v) ==
  /\ world[f] < MaxChanges
  /\ Fresh(f, v)
  /\ world' = [world EXCEPT ![f] = @ + 1]
  /\ published' = published \cup {[feed |-> f, version |-> v, change |-> world[f] + 1]}
  /\ UNCHANGED <<deployment, cache, pc, call, toDrop, data, answer, floor>>

\* on_market_event / on_position_event, then run(): cache.get finds data.
Hit(c, t, e) ==
  /\ pc[c] = "idle"
  /\ Key(t, e.version) \in DOMAIN cache
  /\ answer' = [answer EXCEPT ![c] = [target |-> t, event |-> e,
                  data |-> cache[Key(t, e.version)], cache_hit |-> TRUE]]
  /\ UNCHANGED <<worldVars, cache, pc, call, toDrop, data, floor>>

\* cache.get returns None: the call goes on to invalidate.
Miss(c, t, e) ==
  /\ pc[c] = "idle"
  /\ Key(t, e.version) \notin DOMAIN cache
  /\ call' = [call EXCEPT ![c] = [target |-> t, event |-> e]]
  /\ answer' = [answer EXCEPT ![c] = None]
  /\ pc' = [pc EXCEPT ![c] = "invalidate"]
  /\ UNCHANGED <<worldVars, cache, toDrop, data, floor>>

\* Mutants: only the event's own version is dropped; every key that could
\* exist is visited.
InvalidateVersion(c) ==
  /\ pc[c] = "invalidate"
  /\ LET targets == AffectedBy[call[c].event.feed]
     IN  /\ toDrop' = [toDrop EXCEPT ![c] =
                  {k \in DOMAIN cache : k[1] \in targets /\ k[2] = call[c].event.version}]
         /\ floor' = [t \in Target |-> IF t \in targets THEN world ELSE floor[t]]
  /\ pc' = [pc EXCEPT ![c] = "drop"]
  /\ UNCHANGED <<worldVars, cache, call, data, answer>>

InvalidatePossible(c) ==
  /\ pc[c] = "invalidate"
  /\ LET targets == AffectedBy[call[c].event.feed]
     IN  /\ toDrop' = [toDrop EXCEPT ![c] = {k \in CacheKey : k[1] \in targets}]
         /\ floor' = [t \in Target |-> IF t \in targets THEN world ELSE floor[t]]
  /\ pc' = [pc EXCEPT ![c] = "drop"]
  /\ UNCHANGED <<worldVars, cache, call, data, answer>>

\* cache.invalidate(affected): "for key in list(self.store)".
Invalidate(c) ==
  /\ pc[c] = "invalidate"
  /\ LET targets == AffectedBy[call[c].event.feed]
     IN  /\ toDrop' = [toDrop EXCEPT ![c] = {k \in DOMAIN cache : k[1] \in targets}]
         /\ floor' = [t \in Target |-> IF t \in targets THEN world ELSE floor[t]]
  /\ pc' = [pc EXCEPT ![c] = "drop"]
  /\ UNCHANGED <<worldVars, cache, call, data, answer>>

\* "del self.store[key]"
Drop(c, k) ==
  /\ pc[c] = "drop"
  /\ k \in toDrop[c]
  /\ k \in DOMAIN cache
  /\ cache' = [j \in DOMAIN cache \ {k} |-> cache[j]]
  /\ toDrop' = [toDrop EXCEPT ![c] = @ \ {k}]
  /\ UNCHANGED <<worldVars, pc, call, data, answer, floor>>

Raise(c) ==
  /\ answer' = [answer EXCEPT ![c] = Raised]
  /\ pc' = [pc EXCEPT ![c] = "idle"]
  /\ call' = [call EXCEPT ![c] = None]
  /\ toDrop' = [toDrop EXCEPT ![c] = {}]
  /\ data' = [data EXCEPT ![c] = EmptyData]
  /\ UNCHANGED <<worldVars, cache, floor>>

\* The key is gone, dropped by another thread since the snapshot: KeyError.
DropRaises(c, k) ==
  /\ pc[c] = "drop"
  /\ k \in toDrop[c]
  /\ k \notin DOMAIN cache
  /\ Raise(c)

\* The loop of invalidate ends.
Invalidated(c) ==
  /\ pc[c] = "drop"
  /\ toDrop[c] = {}
  /\ pc' = [pc EXCEPT ![c] = "collect"]
  /\ UNCHANGED <<worldVars, cache, call, toDrop, data, answer, floor>>

\* executor.collect(plan, target=target) reads the feeds in some order.
Read(c, f) ==
  /\ pc[c] = "collect"
  /\ f \in FeedsOf[call[c].target] \ DOMAIN data[c]
  /\ data' = [data EXCEPT ![c] = [g \in DOMAIN @ \cup {f} |->
                                    IF g = f THEN world[f] ELSE @[g]]]
  /\ UNCHANGED <<worldVars, cache, pc, call, toDrop, answer, floor>>

CollectRaises(c) ==
  /\ pc[c] = "collect"
  /\ Raise(c)

\* cache.set and the LiveResult.
Store(c) ==
  /\ pc[c] = "collect"
  /\ DOMAIN data[c] = FeedsOf[call[c].target]
  /\ LET t == call[c].target
         e == call[c].event
         k == Key(t, e.version)
     IN  /\ cache' = [j \in DOMAIN cache \cup {k} |->
                        IF j = k THEN data[c] ELSE cache[j]]
         /\ answer' = [answer EXCEPT ![c] = [target |-> t, event |-> e,
                         data |-> data[c], cache_hit |-> FALSE]]
  /\ pc' = [pc EXCEPT ![c] = "idle"]
  /\ call' = [call EXCEPT ![c] = None]
  /\ data' = [data EXCEPT ![c] = EmptyData]
  /\ UNCHANGED <<worldVars, toDrop, floor>>

OnEvent(c) ==
  /\ c \in deployment.callers
  /\ \E t \in deployment.engines, e \in published : Hit(c, t, e) \/ Miss(c, t, e)

Continue(c) ==
  \/ Invalidate(c)
  \/ \E k \in CacheKey : Drop(c, k) \/ DropRaises(c, k)
  \/ Invalidated(c)
  \/ \E f \in Feed : Read(c, f)
  \/ CollectRaises(c)
  \/ Store(c)

Next ==
  \/ \E f \in Feed, v \in Version : Publish(f, v)
  \/ \E c \in Caller : OnEvent(c) \/ Continue(c)

Spec == Init /\ [][Next]_vars

-----------------------------------------------------------------------------
\* Properties.

\* Data d for target t includes the change event e announced.
Covers(d, t, e) == e.feed \in FeedsOf[t] => d[e.feed] >= e.change

\* No answer is older than the event it answers: a caller that reports a
\* change gets a valuation that includes it, from the cache or not, however
\* calls interleave and events are repeated or reordered.  README: "invalidates
\* affected targets, executes a plan with an executor, and returns LiveResult".
AnswersCover ==
  \A c \in Caller :
    answer[c] \notin {None, Raised} =>
      Covers(answer[c].data, answer[c].target, answer[c].event)

\* That is so where no two events share a label: the cache knows an event by
\* its label alone.
AnswerCoversEvent == UniqueLabels => AnswersCover

\* The same of the cache: data kept under a version includes every change
\* published under that version.
CacheCoversVersions ==
  UniqueLabels =>
    \A k \in DOMAIN cache, e \in published :
      e.version = k[2] => Covers(cache[k], k[1], e)

OneThread == Cardinality(deployment.callers) = 1

\* With one calling thread nothing computed before an invalidation that named
\* its target survives it: engines that share the cache, each called for its
\* own target, invalidate each other's entries completely.
NothingOlderSurvives ==
  OneThread =>
    \A k \in DOMAIN cache : (\A c \in Caller : k \notin toDrop[c]) =>
      \A f \in FeedsOf[k[1]] : cache[k][f] >= floor[k[1]][f]

\* A target every event affects never has more entries than there are
\* calling threads; the cache grows only by events that do not affect it.
BoundedByCallers ==
  \A t \in Target :
    (\A f \in Feed : t \in AffectedBy[f])
      => Cardinality({k \in DOMAIN cache : k[1] = t}) <= Cardinality(deployment.callers)

\* A valuation that fails leaves nothing stale behind: with one calling
\* thread only the executor makes a call raise (never the cache), and once a
\* call for an event that affects its target has raised, the target has no
\* cached data at all, so no later call is served what was computed before.
FailureLeavesNothing ==
  [][OneThread =>
       \A c \in Caller :
         pc[c] # "idle" /\ answer'[c] = Raised =>
           /\ pc[c] = "collect"
           /\ call[c].target \in AffectedBy[call[c].event.feed]
                => \A k \in DOMAIN cache' : k[1] # call[c].target]_vars
=============================================================================
