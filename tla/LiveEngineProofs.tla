--------------------------- MODULE LiveEngineProofs ---------------------------
(***************************************************************************)
(* Proofs about LiveEngine for every plan, every set of engines and         *)
(* callers, every way to label events and every bound.                      *)
(*                                                                          *)
(* AnswerCoversEvent is not inductive: an answer may come from the cache,   *)
(* and what is cached comes from a call still in progress.  IInv follows    *)
(* the data on its way: a call serves a published event and what it has     *)
(* read so far includes that event's change; a key's label is published,    *)
(* and where labels are unique it belongs to one event only.                *)
(***************************************************************************)
EXTENDS LiveEngine, FiniteSetTheorems, TLAPS

Published ==
  /\ \A e \in published : e.change <= world[e.feed]
  /\ UniqueLabels => \A d, e \in published : d.version = e.version => d = e

ReadsWhileCollecting ==
  \A c \in Caller : pc[c] # "collect" => data[c] = EmptyData

CallsServePublished ==
  \A c \in Caller : pc[c] # "idle" =>
    /\ call[c].event \in published
    /\ call[c].event.feed \in DOMAIN data[c] =>
         data[c][call[c].event.feed] >= call[c].event.change

KeysPublished == \A k \in DOMAIN cache : \E e \in published : e.version = k[2]

IInv ==
  /\ TypeOK
  /\ Published
  /\ ReadsWhileCollecting
  /\ CallsServePublished
  /\ KeysPublished
  /\ CacheCoversVersions
  /\ AnswerCoversEvent

LEMMA FeedsAreFeeds == \A t \in Target : FeedsOf[t] \subseteq Feed
BY DEF FeedsOf

LEMMA InitIInv == Init => IInv
<1> SUFFICES ASSUME Init PROVE IInv
  OBVIOUS
<1> USE DEF Init
<1>1. TypeOK
  BY LiveAssumption DEF TypeOK, Event
<1>2. Published /\ ReadsWhileCollecting /\ CallsServePublished /\ KeysPublished
  BY DEF Published, ReadsWhileCollecting, CallsServePublished, KeysPublished
<1>3. CacheCoversVersions /\ AnswerCoversEvent
  BY DEF CacheCoversVersions, AnswerCoversEvent, AnswersCover
<1> QED BY <1>1, <1>2, <1>3 DEF IInv

\* Publishing moves a feed forward, under a new label where they are unique.
LEMMA PublishStep ==
  ASSUME IInv, NEW f \in Feed, NEW v \in Version, Publish(f, v)
  PROVE  IInv'
<1> DEFINE new == [feed |-> f, version |-> v, change |-> world[f] + 1]
<1> USE DEF Publish
<1>1. /\ world' \in [Feed -> 0..MaxChanges]
      /\ world'[f] = world[f] + 1
      /\ \A g \in Feed : world'[g] >= world[g]
      /\ world[f] \in 0..MaxChanges
  BY LiveAssumption DEF IInv, TypeOK
<1>2. new \in Event
  BY <1>1, LiveAssumption DEF Event
<1>3. /\ published' = published \cup {new} /\ UniqueLabels' = UniqueLabels
      /\ UniqueLabels => \A e \in published : e.version # v
  BY DEF Fresh, UniqueLabels
<1>4. TypeOK'
  BY <1>1, <1>2, <1>3 DEF IInv, TypeOK
<1>5. Published'
  <2>1. \A e \in published : e.feed \in Feed /\ e.change \in Nat /\ e.change <= world[e.feed]
    BY LiveAssumption DEF IInv, TypeOK, Event, Published
  <2>2. \A e \in published' : e.change <= world'[e.feed]
    BY <1>1, <1>3, <2>1, LiveAssumption DEF IInv, TypeOK
  <2>3. UniqueLabels => \A d, e \in published' : d.version = e.version => d = e
    BY <1>3 DEF IInv, Published
  <2> QED BY <1>3, <2>2, <2>3 DEF Published
<1>6. CallsServePublished' /\ ReadsWhileCollecting'
  BY <1>3 DEF IInv, CallsServePublished, ReadsWhileCollecting
<1>7. KeysPublished'
  BY <1>3 DEF IInv, KeysPublished
<1>8. CacheCoversVersions'
  BY <1>3 DEF IInv, KeysPublished, CacheCoversVersions, Covers
<1>9. AnswerCoversEvent'
  BY <1>3 DEF IInv, AnswerCoversEvent, AnswersCover, Covers
<1> QED BY <1>4, <1>5, <1>6, <1>7, <1>8, <1>9 DEF IInv

\* A hit answers with data kept under the event's own label.
LEMMA HitStep ==
  ASSUME IInv, NEW c \in Caller, NEW t \in Target, NEW e \in published, Hit(c, t, e)
  PROVE  IInv'
<1> DEFINE k == Key(t, e.version)
<1> USE DEF Hit, worldVars
<1>1. /\ k \in DOMAIN cache /\ k[1] = t /\ k[2] = e.version
      /\ e \in Event
  BY DEF Key, IInv, TypeOK
<1>2. cache[k] \in Data(t)
  BY <1>1 DEF IInv, TypeOK
<1>3. /\ DOMAIN answer' = Caller
      /\ answer'[c] = [target |-> t, event |-> e, data |-> cache[k], cache_hit |-> TRUE]
      /\ \A d \in Caller \ {c} : answer'[d] = answer[d]
  BY DEF IInv, TypeOK
<1>4. answer'[c] \in LiveResult
  BY <1>1, <1>2, <1>3 DEF LiveResult
<1>5. TypeOK'
  BY <1>3, <1>4 DEF IInv, TypeOK
<1>6. /\ Published' /\ ReadsWhileCollecting' /\ CallsServePublished'
      /\ KeysPublished' /\ CacheCoversVersions'
  BY DEF IInv, Published, ReadsWhileCollecting, CallsServePublished,
         KeysPublished, CacheCoversVersions, UniqueLabels
<1>7. UniqueLabels => Covers(cache[k], t, e)
  BY <1>1 DEF IInv, CacheCoversVersions
<1>8. AnswerCoversEvent'
  BY <1>3, <1>7 DEF IInv, AnswerCoversEvent, AnswersCover, UniqueLabels
<1> QED BY <1>5, <1>6, <1>8 DEF IInv

\* Steps of a call that touch neither the world, the cache nor the answers
\* it has given, other than to withdraw one.
LEMMA CallStep ==
  ASSUME IInv, NEW c \in Caller,
         UNCHANGED worldVars,
         DOMAIN cache' \subseteq DOMAIN cache,
         \A k \in DOMAIN cache' : cache'[k] = cache[k],
         DOMAIN answer' = Caller,
         answer'[c] \in {answer[c], None, Raised},
         \A d \in Caller \ {c} : answer'[d] = answer[d],
         ReadsWhileCollecting',
         CallsServePublished',
         TypeOK'
  PROVE  IInv'
<1> USE DEF worldVars
<1>1. Published'
  BY DEF IInv, Published, UniqueLabels
<1>2. KeysPublished'
  BY DEF IInv, KeysPublished
<1>3. CacheCoversVersions'
  BY DEF IInv, CacheCoversVersions, UniqueLabels
<1>4. AnswerCoversEvent'
  BY DEF IInv, AnswerCoversEvent, AnswersCover, UniqueLabels
<1> QED BY <1>1, <1>2, <1>3, <1>4 DEF IInv

LEMMA MissStep ==
  ASSUME IInv, NEW c \in Caller, NEW t \in Target, NEW e \in published, Miss(c, t, e)
  PROVE  IInv'
<1> USE DEF Miss, worldVars
<1>1. e \in Event /\ data[c] = EmptyData
  BY DEF IInv, TypeOK, ReadsWhileCollecting
<1>2. /\ call'[c] = [target |-> t, event |-> e] /\ answer'[c] = None
      /\ pc'[c] = "invalidate"
      /\ DOMAIN call' = Caller /\ DOMAIN answer' = Caller
      /\ \A d \in Caller \ {c} :
           call'[d] = call[d] /\ pc'[d] = pc[d] /\ answer'[d] = answer[d]
  BY DEF IInv, TypeOK
<1>3. DOMAIN data[c] = {} /\ data' = data
  BY <1>1 DEF EmptyData
<1>4. TypeOK'
  <2>1. pc' \in [Caller -> {"idle", "invalidate", "drop", "collect"}]
    BY DEF IInv, TypeOK
  <2>2. call'[c] \in [target : Target, event : Event]
    BY <1>1, <1>2
  <2>3. data'[c] \in [DOMAIN data'[c] -> 0..MaxChanges]
    BY <1>1, <1>3 DEF EmptyData
  <2>4. \A d \in Caller : pc'[d] # "idle" =>
          /\ call'[d] \in [target : Target, event : Event]
          /\ DOMAIN data'[d] \subseteq FeedsOf[call'[d].target]
          /\ data'[d] \in [DOMAIN data'[d] -> 0..MaxChanges]
    BY <1>2, <1>3, <2>2, <2>3 DEF IInv, TypeOK
  <2> QED BY <1>2, <2>1, <2>4 DEF IInv, TypeOK
<1>5. CallsServePublished' /\ ReadsWhileCollecting'
  BY <1>1, <1>2, <1>3 DEF IInv, CallsServePublished, ReadsWhileCollecting
<1> QED BY <1>2, <1>4, <1>5, CallStep

LEMMA InvalidateStep ==
  ASSUME IInv, NEW c \in Caller, Invalidate(c)
  PROVE  IInv'
<1> USE DEF Invalidate, worldVars
<1>1. /\ pc'[c] = "drop" /\ pc[c] = "invalidate"
      /\ DOMAIN toDrop' = Caller /\ toDrop'[c] \subseteq CacheKey
      /\ \A d \in Caller \ {c} : pc'[d] = pc[d] /\ toDrop'[d] = toDrop[d]
  BY DEF IInv, TypeOK
<1>2. floor' \in [Target -> [Feed -> 0..MaxChanges]]
  BY DEF IInv, TypeOK
<1>3. pc' \in [Caller -> {"idle", "invalidate", "drop", "collect"}]
  BY DEF IInv, TypeOK
<1>4. TypeOK'
  BY <1>1, <1>2, <1>3 DEF IInv, TypeOK
<1>5. CallsServePublished' /\ ReadsWhileCollecting'
  BY <1>1 DEF IInv, CallsServePublished, ReadsWhileCollecting
<1> QED BY <1>4, <1>5, CallStep DEF IInv, TypeOK

LEMMA DropStep ==
  ASSUME IInv, NEW c \in Caller, NEW k \in CacheKey, Drop(c, k)
  PROVE  IInv'
<1> USE DEF Drop, worldVars
<1>1. /\ DOMAIN toDrop' = Caller /\ toDrop'[c] \subseteq CacheKey
      /\ \A d \in Caller \ {c} : toDrop'[d] = toDrop[d]
  BY DEF IInv, TypeOK
<1>2. /\ DOMAIN cache' \subseteq DOMAIN cache
      /\ \A j \in DOMAIN cache' : cache'[j] = cache[j]
  OBVIOUS
<1>3. TypeOK'
  BY <1>1, <1>2 DEF IInv, TypeOK
<1>4. CallsServePublished' /\ ReadsWhileCollecting'
  BY DEF IInv, CallsServePublished, ReadsWhileCollecting
<1> QED BY <1>2, <1>3, <1>4, CallStep DEF IInv, TypeOK

LEMMA RaiseStep ==
  ASSUME IInv, NEW c \in Caller, Raise(c)
  PROVE  IInv'
<1> USE DEF Raise, worldVars
<1>1. /\ DOMAIN answer' = Caller /\ DOMAIN call' = Caller
      /\ DOMAIN toDrop' = Caller /\ DOMAIN data' = Caller
      /\ answer'[c] = Raised /\ pc'[c] = "idle"
      /\ toDrop'[c] = {} /\ data'[c] = EmptyData
      /\ \A d \in Caller \ {c} :
           /\ answer'[d] = answer[d] /\ call'[d] = call[d] /\ pc'[d] = pc[d]
           /\ toDrop'[d] = toDrop[d] /\ data'[d] = data[d]
  BY DEF IInv, TypeOK
<1>2. pc' \in [Caller -> {"idle", "invalidate", "drop", "collect"}]
  BY DEF IInv, TypeOK
<1>3. TypeOK'
  BY <1>1, <1>2 DEF IInv, TypeOK
<1>4. CallsServePublished' /\ ReadsWhileCollecting'
  BY <1>1 DEF IInv, CallsServePublished, ReadsWhileCollecting
<1> QED BY <1>1, <1>3, <1>4, CallStep

LEMMA InvalidatedStep ==
  ASSUME IInv, NEW c \in Caller, Invalidated(c)
  PROVE  IInv'
<1> USE DEF Invalidated, worldVars
<1>1. pc[c] = "drop" /\ pc'[c] = "collect" /\ \A d \in Caller \ {c} : pc'[d] = pc[d]
  BY DEF IInv, TypeOK
<1>2. pc' \in [Caller -> {"idle", "invalidate", "drop", "collect"}]
  BY DEF IInv, TypeOK
<1>3. TypeOK'
  BY <1>1, <1>2 DEF IInv, TypeOK
<1>4. CallsServePublished' /\ ReadsWhileCollecting'
  BY <1>1 DEF IInv, CallsServePublished, ReadsWhileCollecting
<1> QED BY <1>3, <1>4, CallStep DEF IInv, TypeOK

\* What is read now is at least as new as any published change.
LEMMA ReadStep ==
  ASSUME IInv, NEW c \in Caller, NEW f \in Feed, Read(c, f)
  PROVE  IInv'
<1> USE DEF Read, worldVars
<1>1. /\ DOMAIN data' = Caller
      /\ DOMAIN data'[c] = DOMAIN data[c] \cup {f}
      /\ data'[c] = [g \in DOMAIN data[c] \cup {f} |->
                       IF g = f THEN world[f] ELSE data[c][g]]
      /\ \A d \in Caller \ {c} : data'[d] = data[d]
  BY DEF IInv, TypeOK
<1>2. data'[c] \in [DOMAIN data'[c] -> 0..MaxChanges]
  BY <1>1 DEF IInv, TypeOK
<1>3. TypeOK'
  BY <1>1, <1>2 DEF IInv, TypeOK
<1>4. ReadsWhileCollecting'
  BY <1>1 DEF IInv, ReadsWhileCollecting
<1>5. CallsServePublished'
  <2> SUFFICES ASSUME NEW d \in Caller, pc[d] # "idle"
               PROVE  /\ call[d].event \in published
                      /\ call[d].event.feed \in DOMAIN data'[d] =>
                           data'[d][call[d].event.feed] >= call[d].event.change
    BY DEF CallsServePublished
  <2>1. call[d].event \in published
    BY DEF IInv, CallsServePublished
  <2>2. CASE d # c \/ call[d].event.feed # f
    BY <2>1, <2>2, <1>1 DEF IInv, CallsServePublished
  <2>3. CASE d = c /\ call[d].event.feed = f
    <3>1. call[d].event.change <= world[f]
      BY <2>1, <2>3 DEF IInv, Published
    <3>2. call[d].event \in Event /\ world[f] \in Nat
      BY <2>1 DEF IInv, TypeOK
    <3> QED BY <2>1, <2>3, <3>1, <3>2, <1>1 DEF Event
  <2> QED BY <2>2, <2>3
<1> QED BY <1>3, <1>4, <1>5, CallStep DEF IInv, TypeOK

\* Complete data covers the event of the call, and where labels are unique no
\* other event has the label it is stored under.
LEMMA StoreStep ==
  ASSUME IInv, NEW c \in Caller, Store(c)
  PROVE  IInv'
<1> DEFINE t == call[c].target
           e == call[c].event
           k == Key(t, e.version)
<1> USE DEF Store, worldVars
<1>1. /\ e \in published /\ e \in Event /\ t \in Target
      /\ k \in CacheKey /\ k[1] = t /\ k[2] = e.version
  BY DEF IInv, TypeOK, CallsServePublished, Key, CacheKey, Event
<1>2. Covers(data[c], t, e)
  BY <1>1 DEF IInv, CallsServePublished, Covers
<1>3. data[c] \in Data(t)
  BY <1>1 DEF IInv, TypeOK, Data
<1>4. /\ DOMAIN cache' = DOMAIN cache \cup {k}
      /\ cache'[k] = data[c]
      /\ \A j \in DOMAIN cache \ {k} : cache'[j] = cache[j]
  OBVIOUS
<1>5. /\ DOMAIN answer' = Caller /\ DOMAIN call' = Caller /\ DOMAIN data' = Caller
      /\ answer'[c] = [target |-> t, event |-> e, data |-> data[c], cache_hit |-> FALSE]
      /\ pc'[c] = "idle" /\ data'[c] = EmptyData
      /\ \A d \in Caller \ {c} :
           /\ answer'[d] = answer[d] /\ call'[d] = call[d]
           /\ pc'[d] = pc[d] /\ data'[d] = data[d]
  BY DEF IInv, TypeOK
<1>6. answer'[c] \in LiveResult
  BY <1>1, <1>3, <1>5 DEF LiveResult
<1>7. pc' \in [Caller -> {"idle", "invalidate", "drop", "collect"}]
  BY DEF IInv, TypeOK
<1>8. TypeOK'
  BY <1>1, <1>3, <1>4, <1>5, <1>6, <1>7 DEF IInv, TypeOK
<1>9. Published' /\ ReadsWhileCollecting' /\ CallsServePublished'
  BY <1>5 DEF IInv, Published, ReadsWhileCollecting, CallsServePublished, UniqueLabels
<1>10. KeysPublished'
  BY <1>1, <1>4 DEF IInv, KeysPublished
<1>11. CacheCoversVersions'
  BY <1>1, <1>2, <1>4 DEF IInv, Published, CacheCoversVersions, UniqueLabels
<1>12. AnswerCoversEvent'
  BY <1>2, <1>5 DEF IInv, AnswerCoversEvent, AnswersCover, UniqueLabels
<1> QED BY <1>8, <1>9, <1>10, <1>11, <1>12 DEF IInv

LEMMA Invariance == Spec => []IInv
<1>1. IInv /\ [Next]_vars => IInv'
  <2> SUFFICES ASSUME IInv, [Next]_vars PROVE IInv'
    OBVIOUS
  <2>1. CASE UNCHANGED vars
    BY <2>1 DEF vars, worldVars, IInv, TypeOK, Published, ReadsWhileCollecting,
      CallsServePublished, KeysPublished, CacheCoversVersions, AnswerCoversEvent,
      AnswersCover, UniqueLabels
  <2>2. CASE \E f \in Feed, v \in Version : Publish(f, v)
    BY <2>2, PublishStep
  <2>3. ASSUME NEW c \in Caller, OnEvent(c) PROVE IInv'
    <3>1. deployment \in [callers : SUBSET Caller, engines : SUBSET Target, labels : Labels]
      BY LiveAssumption DEF IInv, TypeOK
    <3>2. deployment.engines \subseteq Target
      BY <3>1
    <3> QED BY <2>3, <3>2, HitStep, MissStep DEF OnEvent
  <2>4. ASSUME NEW c \in Caller, Continue(c) PROVE IInv'
    BY <2>4, InvalidateStep, DropStep, RaiseStep, InvalidatedStep, ReadStep, StoreStep
    DEF Continue, DropRaises, CollectRaises
  <2> QED BY <2>1, <2>2, <2>3, <2>4 DEF Next
<1> QED BY <1>1, InitIInv, PTL DEF Spec

-----------------------------------------------------------------------------
\* The theorems.

\* Type correctness of the engines' state, for any number of calling threads
\* and any labels.
THEOREM TypeCorrect == Spec => []TypeOK
<1>1. IInv => TypeOK
  BY DEF IInv
<1> QED BY <1>1, Invariance, PTL

\* An engine never answers an event with data older than the event, whatever
\* the plan, the number of engines and threads, and the order and repetition
\* of events, where no two events share a label (a condition of the property).
THEOREM AnswersCoverEvents == Spec => []AnswerCoversEvent
<1>1. IInv => AnswerCoversEvent
  BY DEF IInv
<1> QED BY <1>1, Invariance, PTL

\* What is cached under a label includes every change published under it, where
\* no two events share one.
THEOREM CacheCovers == Spec => []CacheCoversVersions
<1>1. IInv => CacheCoversVersions
  BY DEF IInv
<1> QED BY <1>1, Invariance, PTL

-----------------------------------------------------------------------------
\* How many entries a target has.  Each is owned by the thread that stored it
\* last, which has not yet been past another invalidation: an event that
\* affects the target puts all its keys on the list of keys to drop.

KeysFor(stored, t) == {k \in DOMAIN stored : k[1] = t}

\* Thread c has still to drop k, or has not yet asked to.
MayOwn(at, drops, c, k) ==
  \/ at[c] \in {"idle", "invalidate"}
  \/ at[c] = "drop" /\ k \in drops[c]

Owns(keys, callers, at, drops) ==
  \E own \in [keys -> callers] :
    /\ \A j, k \in keys : own[j] = own[k] => j = k
    /\ \A k \in keys : MayOwn(at, drops, own[k], k)

Owned(t) == Owns(KeysFor(cache, t), deployment.callers, pc, toDrop)

BusyAreCallers == \A c \in Caller : pc[c] # "idle" => c \in deployment.callers

LEMMA BusyStep ==
  ASSUME TypeOK, BusyAreCallers, [Next]_vars
  PROVE  BusyAreCallers'
<1>1. ASSUME NEW c \in Caller, pc'[c] # "idle", pc[c] = "idle"
      PROVE  c \in deployment'.callers
  <2>1. PICK d \in Caller : OnEvent(d) \/ Continue(d)
    BY <1>1 DEF Next, vars, Publish
  <2>2. CASE d = c
    <3>1. OnEvent(c)
      BY <1>1, <2>1, <2>2 DEF Continue, Invalidate, Drop, DropRaises, Invalidated, Read,
                              CollectRaises, Store
    <3> QED BY <3>1 DEF OnEvent, Hit, Miss, worldVars
  <2>3. CASE d # c
    <3>1. pc'[c] = pc[c]
      BY <2>1, <2>3 DEF TypeOK, OnEvent, Hit, Miss, Continue, Invalidate, Drop, DropRaises,
                        Invalidated, Read, CollectRaises, Store, Raise
    <3> QED BY <1>1, <3>1
  <2> QED BY <2>2, <2>3
<1>2. deployment' = deployment
  BY DEF Next, vars, worldVars, Publish, OnEvent, Hit, Miss, Continue, Invalidate, Drop,
         DropRaises, Invalidated, Read, CollectRaises, Store, Raise
<1> QED BY <1>1, <1>2 DEF BusyAreCallers

\* Who owns what survives as long as keys go and owners may still own.
LEMMA OwnersKept ==
  ASSUME NEW keys, NEW left \in SUBSET keys, NEW callers, NEW at, NEW drops, NEW now, NEW rest,
         Owns(keys, callers, at, drops),
         \A c \in callers, k \in left : MayOwn(at, drops, c, k) => MayOwn(now, rest, c, k)
  PROVE  Owns(left, callers, now, rest)
<1>1. PICK own \in [keys -> callers] :
        /\ \A j, k \in keys : own[j] = own[k] => j = k
        /\ \A k \in keys : MayOwn(at, drops, own[k], k)
  BY DEF Owns
<1> DEFINE heir == [k \in left |-> own[k]]
<1>2. heir \in [left -> callers]
  BY <1>1
<1>3. \A j, k \in left : heir[j] = heir[k] => j = k
  BY <1>1
<1>4. \A k \in left : MayOwn(now, rest, heir[k], k)
  BY <1>1
<1> HIDE DEF heir
<1> QED BY <1>2, <1>3, <1>4 DEF Owns

\* The same of a step that stores nothing.
LEMMA OwnedKept ==
  ASSUME NEW t, Owned(t), UNCHANGED deployment, DOMAIN cache' \subseteq DOMAIN cache,
         \A c \in deployment.callers, k \in DOMAIN cache' :
           k[1] = t /\ MayOwn(pc, toDrop, c, k) => MayOwn(pc', toDrop', c, k)
  PROVE  Owned(t)'
<1> DEFINE keys == KeysFor(cache, t)
           left == KeysFor(cache', t)
           callers == deployment.callers
<1>1. left \subseteq keys
  BY DEF KeysFor
<1>2. Owns(keys, callers, pc, toDrop)
  BY DEF Owned
<1>3. \A c \in callers, k \in left : MayOwn(pc, toDrop, c, k) => MayOwn(pc', toDrop', c, k)
  BY DEF KeysFor
<1> HIDE DEF keys, left, callers
<1>4. Owns(left, callers, pc', toDrop')
  BY <1>1, <1>2, <1>3, OwnersKept
<1> QED BY <1>4 DEF Owned, keys, left, callers

LEMMA OwnedStore ==
  ASSUME TypeOK, NEW t, Owned(t), NEW c \in deployment.callers, c \in Caller, Store(c)
  PROVE  Owned(t)'
<1> DEFINE new == Key(call[c].target, call[c].event.version)
<1>1. /\ deployment' = deployment /\ toDrop' = toDrop
      /\ DOMAIN cache' = DOMAIN cache \cup {new}
      /\ pc[c] = "collect" /\ pc'[c] = "idle"
      /\ \A d \in Caller : d # c => pc'[d] = pc[d]
  BY DEF Store, worldVars, TypeOK
<1> HIDE DEF new
<1>c. deployment.callers \subseteq Caller
  <2>1. deployment \in [callers : SUBSET Caller, engines : SUBSET Target, labels : Labels]
    BY LiveAssumption DEF TypeOK
  <2> QED BY <2>1
<1> DEFINE keys == KeysFor(cache, t)
           keys1 == KeysFor(cache', t)
<1>2. PICK own \in [keys -> deployment.callers] :
        /\ \A j, k \in keys : own[j] = own[k] => j = k
        /\ \A k \in keys : MayOwn(pc, toDrop, own[k], k)
  BY DEF Owned, Owns
<1>4. keys1 \subseteq keys \cup {new}
  BY <1>1 DEF KeysFor
<1> HIDE DEF keys, keys1
<1>3. \A k \in keys : own[k] # c
  BY <1>1, <1>2 DEF MayOwn
<1> DEFINE next == [k \in keys1 |-> IF k = new THEN c ELSE own[k]]
<1>5. next \in [keys1 -> deployment.callers]
  BY <1>1, <1>2, <1>4
<1>6. \A j, k \in keys1 : next[j] = next[k] => j = k
  BY <1>2, <1>3, <1>4
<1>7. ASSUME NEW k \in keys1 PROVE MayOwn(pc', toDrop', next[k], k)
  <2>1. CASE k = new
    BY <1>1, <2>1 DEF MayOwn
  <2>2. CASE k # new
    <3>1. k \in keys /\ next[k] = own[k] /\ own[k] # c /\ own[k] \in Caller
      BY <1>2, <1>3, <1>4, <1>c, <2>2
    <3>2. MayOwn(pc, toDrop, own[k], k)
      BY <1>2, <3>1
    <3> QED BY <1>1, <3>1, <3>2 DEF MayOwn
  <2> QED BY <2>1, <2>2
<1> HIDE DEF next
<1>8. Owns(keys1, deployment.callers, pc', toDrop')
  BY <1>5, <1>6, <1>7 DEF Owns
<1> QED BY <1>1, <1>8 DEF Owned, keys1

LEMMA OwnedStep ==
  ASSUME TypeOK, BusyAreCallers, NEW t \in Target, \A f \in Feed : t \in AffectedBy[f],
         Owned(t), [Next]_vars
  PROVE  Owned(t)'
<1>c. deployment.callers \subseteq Caller
  <2>1. deployment \in [callers : SUBSET Caller, engines : SUBSET Target, labels : Labels]
    BY LiveAssumption DEF TypeOK
  <2> QED BY <2>1
<1>1. CASE UNCHANGED vars
  BY <1>1, OwnedKept DEF vars, worldVars, MayOwn
<1>2. ASSUME NEW f \in Feed, NEW v \in Version, Publish(f, v) PROVE Owned(t)'
  BY <1>2, OwnedKept DEF Publish, MayOwn
<1>3. ASSUME NEW c \in Caller, OnEvent(c) PROVE Owned(t)'
  <2>1. UNCHANGED <<deployment, cache, toDrop>>
    BY <1>3 DEF OnEvent, Hit, Miss, worldVars
  <2>2. \A d \in Caller : pc[d] \in {"invalidate", "drop"} => pc'[d] = pc[d]
    BY <1>3 DEF OnEvent, Hit, Miss, TypeOK
  <2>3. \A d \in Caller : pc[d] = "idle" => pc'[d] \in {"idle", "invalidate"}
    BY <1>3 DEF OnEvent, Hit, Miss, TypeOK
  <2> QED BY <1>c, <2>1, <2>2, <2>3, OwnedKept DEF MayOwn
<1>4. ASSUME NEW c \in Caller, Invalidate(c) PROVE Owned(t)'
  <2>1. /\ UNCHANGED <<deployment, cache>> /\ pc'[c] = "drop"
        /\ \A d \in Caller : d # c => pc'[d] = pc[d] /\ toDrop'[d] = toDrop[d]
        /\ toDrop'[c] = {k \in DOMAIN cache : k[1] \in AffectedBy[call[c].event.feed]}
    BY <1>4 DEF Invalidate, worldVars, TypeOK
  <2>2. call[c].event.feed \in Feed
    BY <1>4 DEF Invalidate, TypeOK, Event
  <2>3. \A k \in DOMAIN cache : k[1] = t => k \in toDrop'[c]
    BY <2>1, <2>2
  <2> QED BY <1>c, <2>1, <2>3, OwnedKept DEF MayOwn
<1>5. ASSUME NEW c \in Caller, NEW k \in CacheKey, Drop(c, k) PROVE Owned(t)'
  <2>1. /\ UNCHANGED <<deployment, pc>> /\ DOMAIN cache' = DOMAIN cache \ {k}
        /\ \A d \in Caller : \A j : j # k /\ j \in toDrop[d] => j \in toDrop'[d]
    BY <1>5 DEF Drop, worldVars, TypeOK
  <2> QED BY <1>c, <2>1, OwnedKept DEF MayOwn
<1>6. ASSUME NEW c \in Caller, Raise(c) PROVE Owned(t)'
  <2>1. /\ UNCHANGED <<deployment, cache>> /\ pc'[c] = "idle"
        /\ \A d \in Caller : d # c => pc'[d] = pc[d] /\ toDrop'[d] = toDrop[d]
    BY <1>6 DEF Raise, worldVars, TypeOK
  <2> QED BY <1>c, <2>1, OwnedKept DEF MayOwn
<1>7. ASSUME NEW c \in Caller, Invalidated(c) PROVE Owned(t)'
  <2>1. /\ UNCHANGED <<deployment, cache, toDrop>> /\ pc[c] = "drop" /\ toDrop[c] = {}
        /\ \A d \in Caller : d # c => pc'[d] = pc[d]
    BY <1>7 DEF Invalidated, worldVars, TypeOK
  <2> QED BY <1>c, <2>1, OwnedKept DEF MayOwn
<1>8. ASSUME NEW c \in Caller, NEW f \in Feed, Read(c, f) PROVE Owned(t)'
  BY <1>8, OwnedKept DEF Read, worldVars, MayOwn
<1>9. ASSUME NEW c \in Caller, Store(c) PROVE Owned(t)'
  <2>1. c \in deployment.callers
    BY <1>9 DEF BusyAreCallers, Store
  <2> QED BY <1>9, <2>1, OwnedStore
<1> QED
  BY <1>1, <1>2, <1>3, <1>4, <1>5, <1>6, <1>7, <1>8, <1>9
  DEF Next, Continue, DropRaises, CollectRaises

AllOwned ==
  /\ BusyAreCallers
  /\ \A t \in Target : (\A f \in Feed : t \in AffectedBy[f]) => Owned(t)

LEMMA OwnedBounds ==
  ASSUME TypeOK, NEW t, Owned(t)
  PROVE  Cardinality(KeysFor(cache, t)) <= Cardinality(deployment.callers)
<1> DEFINE keys == KeysFor(cache, t)
           callers == deployment.callers
<1>1. IsFiniteSet(callers)
  <2>1. deployment \in [callers : SUBSET Caller, engines : SUBSET Target, labels : Labels]
    BY LiveAssumption DEF TypeOK
  <2>2. callers \in SUBSET Caller
    BY <2>1
  <2> QED BY <2>2, FS_Subset, LiveAssumption
<1>2. PICK own \in [keys -> callers] : \A j, k \in keys : own[j] = own[k] => j = k
  BY DEF Owned, Owns
<1> HIDE DEF keys, callers
<1>3. own \in Injection(keys, callers)
  BY <1>2 DEF Injection, IsInjective
<1>4. Cardinality(keys) <= Cardinality(callers)
  BY <1>1, <1>3, FS_Injection
<1> QED BY <1>4 DEF keys, callers

-----------------------------------------------------------------------------
\* One calling thread.

\* While the one thread c runs a call: the list it drops from is of cached
\* keys; what is cached and not on the list, and what the call has read, are
\* no older than the last invalidation of their target; past the
\* invalidation, no target it named has a cached key that will stay.
NewerThanFloor(t, d) == \A f \in DOMAIN d \cap FeedsOf[t] : d[f] >= floor[t][f]

Alone(c) ==
  /\ deployment.callers = {c}
  /\ \A d \in Caller \ {c} : pc[d] = "idle" /\ toDrop[d] = {}
  /\ toDrop[c] \subseteq DOMAIN cache
  /\ pc[c] # "drop" => toDrop[c] = {}
  /\ pc[c] # "idle" => answer[c] = None
  /\ \A t \in Target : \A f \in Feed : floor[t][f] <= world[f]
  /\ \A k \in DOMAIN cache \ toDrop[c] : NewerThanFloor(k[1], cache[k])
  /\ pc[c] = "collect" => NewerThanFloor(call[c].target, data[c])
  /\ pc[c] \in {"drop", "collect"} =>
       \A k \in DOMAIN cache \ toDrop[c] : k[1] \notin AffectedBy[call[c].event.feed]

AloneIfOne == OneThread => \E c \in Caller : Alone(c)

LEMMA OneIsAlone ==
  ASSUME TypeOK, OneThread
  PROVE  \E c \in Caller : deployment.callers = {c}
<1>1. deployment \in [callers : SUBSET Caller, engines : SUBSET Target, labels : Labels]
  BY LiveAssumption DEF TypeOK
<1>2. deployment.callers \in SUBSET Caller
  BY <1>1
<1>3. IsFiniteSet(deployment.callers)
  BY <1>2, FS_Subset, LiveAssumption
<1>4. \E c : deployment.callers = {c}
  BY <1>3, FS_Singleton DEF OneThread
<1> QED BY <1>2, <1>4

LEMMA AloneStarts ==
  ASSUME Init
  PROVE  AloneIfOne
<1>1. TypeOK
  BY InitIInv DEF IInv
<1> SUFFICES ASSUME OneThread PROVE \E c \in Caller : Alone(c)
  BY DEF AloneIfOne
<1>2. PICK c \in Caller : deployment.callers = {c}
  BY <1>1, OneIsAlone
<1>3. Alone(c)
  BY <1>2, LiveAssumption DEF Init, Alone
<1> QED BY <1>3

\* Only the one thread acts.
LEMMA AloneActs ==
  ASSUME TypeOK, NEW c \in Caller, Alone(c), NEW d \in Caller, OnEvent(d) \/ Continue(d)
  PROVE  d = c
<1>1. CASE OnEvent(d)
  BY <1>1 DEF OnEvent, Alone
<1>2. CASE Continue(d)
  <2>1. pc[d] # "idle"
    BY <1>2 DEF Continue, Invalidate, Drop, DropRaises, Invalidated, Read, CollectRaises, Store
  <2> QED BY <2>1 DEF Alone
<1> QED BY <1>1, <1>2

LEMMA AloneStep ==
  ASSUME TypeOK, ReadsWhileCollecting, NEW c \in Caller, Alone(c), [Next]_vars
  PROVE  Alone(c)'
<1>0. /\ DOMAIN answer = Caller /\ DOMAIN call = Caller /\ DOMAIN toDrop = Caller
      /\ DOMAIN data = Caller /\ DOMAIN cache \subseteq CacheKey
      /\ DOMAIN EmptyData = {}
  BY DEF TypeOK, EmptyData
<1>1. CASE UNCHANGED vars
  BY <1>1 DEF vars, worldVars, Alone, NewerThanFloor
<1>2. ASSUME NEW f \in Feed, NEW v \in Version, Publish(f, v) PROVE Alone(c)'
  <2>1. \A g \in Feed : world[g] \in Nat /\ world'[g] >= world[g] /\ world'[g] \in Nat
    BY <1>2 DEF Publish, TypeOK
  <2>2. \A t \in Target : \A g \in Feed : floor[t][g] \in Nat
    BY DEF TypeOK
  <2>3. \A t \in Target : \A g \in Feed : floor'[t][g] <= world'[g]
    BY <1>2, <2>1, <2>2 DEF Publish, Alone
  <2> QED BY <1>2, <2>3 DEF Publish, Alone, NewerThanFloor
<1>3. CASE OnEvent(c)
  <2>1. /\ UNCHANGED <<worldVars, cache, toDrop, data, floor>>
        /\ pc[c] = "idle"
        /\ \/ pc' = pc
           \/ pc'[c] = "invalidate" /\ answer'[c] = None
        /\ \A d \in Caller \ {c} : pc'[d] = pc[d]
    BY <1>0, <1>3 DEF OnEvent, Hit, Miss, TypeOK
  <2> QED BY <2>1 DEF Alone, NewerThanFloor, worldVars
<1>4. CASE Invalidate(c)
  <2> DEFINE targets == AffectedBy[call[c].event.feed]
  <2>1. /\ UNCHANGED <<deployment, world, cache, call, data, answer>>
        /\ pc[c] = "invalidate" /\ pc'[c] = "drop"
        /\ \A d \in Caller \ {c} : pc'[d] = pc[d] /\ toDrop'[d] = toDrop[d]
        /\ toDrop'[c] = {k \in DOMAIN cache : k[1] \in targets}
        /\ floor' = [t \in Target |-> IF t \in targets THEN world ELSE floor[t]]
        /\ toDrop[c] = {}
    BY <1>0, <1>4 DEF Invalidate, worldVars, TypeOK, Alone
  <2> HIDE DEF targets
  <2>2. \A t \in Target : \A f \in Feed : floor'[t][f] <= world'[f]
    <3>1. \A f \in Feed : world[f] <= world[f]
      BY DEF TypeOK
    <3> QED BY <2>1, <3>1 DEF Alone
  <2>3. \A k \in DOMAIN cache' \ toDrop'[c] : k[1] \notin targets
    BY <2>1
  <2>4. \A k \in DOMAIN cache' \ toDrop'[c] : floor'[k[1]] = floor[k[1]]
    BY <1>0, <2>1, <2>3 DEF CacheKey
  <2>5. \A k \in DOMAIN cache' \ toDrop'[c] : NewerThanFloor(k[1], cache[k])'
    BY <2>1, <2>4 DEF Alone, NewerThanFloor
  <2> QED BY <2>1, <2>2, <2>3, <2>5 DEF Alone, targets
<1>5. ASSUME NEW k \in CacheKey, Drop(c, k) PROVE Alone(c)'
  <2>1. /\ UNCHANGED <<deployment, world, pc, call, data, answer, floor>>
        /\ pc[c] = "drop"
        /\ DOMAIN cache' = DOMAIN cache \ {k} /\ k \in toDrop[c]
        /\ \A j \in DOMAIN cache' : cache'[j] = cache[j]
        /\ toDrop'[c] = toDrop[c] \ {k}
        /\ \A d \in Caller \ {c} : toDrop'[d] = toDrop[d]
    BY <1>0, <1>5 DEF Drop, worldVars
  <2>2. DOMAIN cache' \ toDrop'[c] = DOMAIN cache \ toDrop[c]
    BY <2>1
  <2> QED BY <2>1, <2>2 DEF Alone, NewerThanFloor
<1>6. CASE Raise(c) /\ pc[c] = "collect"
  <2>1. /\ UNCHANGED <<deployment, world, cache, floor>>
        /\ pc'[c] = "idle" /\ toDrop'[c] = {} /\ toDrop[c] = {}
        /\ \A d \in Caller \ {c} : pc'[d] = pc[d] /\ toDrop'[d] = toDrop[d]
    BY <1>0, <1>6 DEF Raise, worldVars, TypeOK, Alone
  <2> QED BY <2>1 DEF Alone, NewerThanFloor
<1>7. ASSUME NEW k \in CacheKey, DropRaises(c, k) PROVE FALSE
  BY <1>7 DEF DropRaises, Alone
<1>8. CASE Invalidated(c)
  <2>1. /\ UNCHANGED <<deployment, world, cache, call, toDrop, data, answer, floor>>
        /\ pc[c] = "drop" /\ pc'[c] = "collect" /\ toDrop[c] = {}
        /\ \A d \in Caller \ {c} : pc'[d] = pc[d]
    BY <1>8 DEF Invalidated, worldVars, TypeOK
  <2>2. DOMAIN data'[c] = {}
    BY <1>0, <2>1 DEF ReadsWhileCollecting
  <2> QED BY <2>1, <2>2 DEF Alone, NewerThanFloor
<1>9. ASSUME NEW f \in Feed, Read(c, f) PROVE Alone(c)'
  <2>1. /\ UNCHANGED <<deployment, world, cache, pc, call, toDrop, answer, floor>>
        /\ pc[c] = "collect"
        /\ data'[c] = [g \in DOMAIN data[c] \cup {f} |->
                         IF g = f THEN world[f] ELSE data[c][g]]
    BY <1>0, <1>9 DEF Read, worldVars
  <2>2. call[c].target \in Target /\ floor[call[c].target][f] <= world[f]
    BY <2>1 DEF Alone, TypeOK
  <2>3. floor[call[c].target][f] \in Nat /\ world[f] \in Nat
    BY <2>2 DEF TypeOK
  <2>4. NewerThanFloor(call[c].target, data[c])'
    BY <2>1, <2>2, <2>3 DEF Alone, NewerThanFloor
  <2>5. \A k \in DOMAIN cache \ toDrop[c] : NewerThanFloor(k[1], cache[k])'
    BY <2>1 DEF Alone, NewerThanFloor
  <2> QED BY <2>1, <2>4, <2>5 DEF Alone
<1>10. CASE Store(c)
  <2> DEFINE t == call[c].target
             k == Key(t, call[c].event.version)
  <2>1. /\ UNCHANGED <<deployment, world, toDrop, floor>>
        /\ pc[c] = "collect" /\ pc'[c] = "idle" /\ toDrop[c] = {}
        /\ DOMAIN cache' = DOMAIN cache \cup {k}
        /\ cache'[k] = data[c]
        /\ \A j \in DOMAIN cache : j # k => cache'[j] = cache[j]
        /\ \A d \in Caller \ {c} : pc'[d] = pc[d]
    BY <1>10 DEF Store, worldVars, TypeOK, Alone
  <2>2. k[1] = t
    BY DEF Key
  <2> HIDE DEF t, k
  <2>3. NewerThanFloor(t, data[c])
    BY <2>1 DEF Alone, t
  <2>4. ASSUME NEW j \in DOMAIN cache' PROVE NewerThanFloor(j[1], cache[j])'
    <3>1. CASE j = k
      BY <2>1, <2>2, <2>3, <3>1 DEF NewerThanFloor
    <3>2. CASE j # k
      BY <2>1, <3>2 DEF Alone, NewerThanFloor
    <3> QED BY <3>1, <3>2
  <2> QED BY <2>1, <2>4 DEF Alone
<1>11. ASSUME NEW d \in Caller, OnEvent(d) \/ Continue(d) PROVE Alone(c)'
  <2>1. d = c
    BY <1>11, AloneActs
  <2>2. CASE OnEvent(c)
    BY <1>3, <2>2
  <2>3. CASE Continue(c)
    BY <1>4, <1>5, <1>6, <1>7, <1>8, <1>9, <1>10, <2>3 DEF Continue, CollectRaises
  <2> QED BY <1>11, <2>1, <2>2, <2>3
<1> QED BY <1>1, <1>2, <1>11 DEF Next

LEMMA SharedInvariance == Spec => [](IInv /\ AllOwned /\ AloneIfOne)
<1>1. Init => AllOwned /\ AloneIfOne
  <2> SUFFICES ASSUME Init PROVE AllOwned
    BY AloneStarts
  <2>1. BusyAreCallers
    BY DEF Init, BusyAreCallers
  <2>2. ASSUME NEW t \in Target PROVE Owned(t)
    <3>1. KeysFor(cache, t) = {}
      BY DEF Init, KeysFor
    <3>2. [k \in {} |-> None] \in [{} -> deployment.callers]
      OBVIOUS
    <3> QED BY <3>1, <3>2 DEF Owned, Owns
  <2> QED BY <2>1, <2>2 DEF AllOwned
<1>2. IInv /\ AllOwned /\ AloneIfOne /\ [Next]_vars => (AllOwned /\ AloneIfOne)'
  <2> SUFFICES ASSUME IInv, AllOwned, AloneIfOne, [Next]_vars PROVE AllOwned' /\ AloneIfOne'
    OBVIOUS
  <2>1. TypeOK /\ BusyAreCallers /\ ReadsWhileCollecting
    BY DEF IInv, AllOwned
  <2>2. AllOwned'
    BY <2>1, BusyStep, OwnedStep DEF AllOwned
  <2>3. deployment' = deployment
    BY DEF Next, vars, worldVars, Publish, OnEvent, Hit, Miss, Continue, Invalidate, Drop,
           DropRaises, Invalidated, Read, CollectRaises, Store, Raise
  <2>4. AloneIfOne'
    <3> SUFFICES ASSUME OneThread PROVE (\E c \in Caller : Alone(c))'
      BY <2>3 DEF AloneIfOne, OneThread
    <3>1. PICK c \in Caller : Alone(c)
      BY DEF AloneIfOne
    <3>2. Alone(c)'
      BY <2>1, <3>1, AloneStep
    <3> QED BY <3>2
  <2> QED BY <2>2, <2>4
<1> QED BY <1>1, <1>2, Invariance, PTL DEF Spec

\* A target that every event affects never has more cached entries than there
\* are threads calling the engines, however invalidations interleave
\* (ValuationCache.invalidate against cache.set).
THEOREM EntriesBounded == Spec => []BoundedByCallers
<1>1. IInv /\ AllOwned => BoundedByCallers
  <2> SUFFICES ASSUME IInv, AllOwned, NEW t \in Target, \A f \in Feed : t \in AffectedBy[f]
               PROVE  Cardinality({k \in DOMAIN cache : k[1] = t}) <= Cardinality(deployment.callers)
    BY DEF BoundedByCallers
  <2>1. TypeOK /\ Owned(t)
    BY DEF IInv, AllOwned
  <2> QED BY <2>1, OwnedBounds DEF KeysFor
<1> QED BY <1>1, SharedInvariance, PTL

\* With one calling thread nothing computed before an invalidation that named
\* its target survives it, in the cache that any number of engines share.
THEOREM NothingOlderEverSurvives == Spec => []NothingOlderSurvives
<1>1. IInv /\ AloneIfOne => NothingOlderSurvives
  <2> SUFFICES ASSUME IInv, AloneIfOne, OneThread, NEW k \in DOMAIN cache,
                      \A c \in Caller : k \notin toDrop[c], NEW f \in FeedsOf[k[1]]
               PROVE  cache[k][f] >= floor[k[1]][f]
    BY DEF NothingOlderSurvives
  <2>1. PICK c \in Caller : Alone(c)
    BY DEF AloneIfOne
  <2>2. NewerThanFloor(k[1], cache[k])
    BY <2>1 DEF Alone
  <2>3. DOMAIN cache[k] = FeedsOf[k[1]]
    BY DEF IInv, TypeOK, Data
  <2> QED BY <2>2, <2>3 DEF NewerThanFloor
<1> QED BY <1>1, SharedInvariance, PTL

\* With one calling thread only the executor makes a call raise, and a call
\* that raised for an event affecting its target leaves the target nothing
\* cached (LiveValuationEngine.run: invalidate before collect, set after).
THEOREM FailuresLeaveNothing == Spec => FailureLeavesNothing
<1> DEFINE Clean == OneThread =>
             \A c \in Caller :
               pc[c] # "idle" /\ answer'[c] = Raised =>
                 /\ pc[c] = "collect"
                 /\ call[c].target \in AffectedBy[call[c].event.feed]
                      => \A k \in DOMAIN cache' : k[1] # call[c].target
<1>1. IInv /\ AloneIfOne /\ [Next]_vars => [Clean]_vars
  <2> SUFFICES ASSUME IInv, AloneIfOne, Next, OneThread, NEW d \in Caller,
                      pc[d] # "idle", answer'[d] = Raised
               PROVE  /\ pc[d] = "collect"
                      /\ call[d].target \in AffectedBy[call[d].event.feed]
                           => \A k \in DOMAIN cache' : k[1] # call[d].target
    OBVIOUS
  <2>1. PICK c \in Caller : Alone(c)
    BY DEF AloneIfOne
  <2>2. c = d /\ answer[c] = None /\ None # Raised
    BY <2>1, LiveAssumption DEF Alone, Raised
  <2>3. TypeOK
    BY DEF IInv
  <2>4. \E e \in Caller : OnEvent(e) \/ Continue(e)
    BY <2>2 DEF Next, Publish
  <2>5. Continue(c)
    <3>1. OnEvent(c) \/ Continue(c)
      BY <2>1, <2>3, <2>4, AloneActs
    <3> QED BY <2>2, <3>1 DEF OnEvent, Hit, Miss
  <2>6. CASE Store(c)
    <3>1. answer'[c] = [target |-> call[c].target, event |-> call[c].event,
                        data |-> data[c], cache_hit |-> FALSE]
      BY <2>3, <2>6 DEF Store, TypeOK
    <3>2. answer'[c].cache_hit = FALSE /\ "cache_hit" \in DOMAIN answer'[c]
      BY <3>1
    <3>3. "cache_hit" \notin DOMAIN Raised
      BY DEF Raised
    <3> QED BY <2>2, <3>2, <3>3
  <2>7. ASSUME NEW k \in CacheKey, DropRaises(c, k) PROVE FALSE
    BY <2>1, <2>7 DEF DropRaises, Alone
  <2>8. CASE CollectRaises(c)
    BY <2>1, <2>2, <2>8 DEF CollectRaises, Raise, Alone
  <2> QED
    BY <2>2, <2>5, <2>6, <2>7, <2>8 DEF Continue, Invalidate, Drop, Invalidated, Read
<1>2. Spec => [][Clean]_vars
  BY <1>1, SharedInvariance, PTL DEF Spec
<1> QED BY <1>2 DEF FailureLeavesNothing
=============================================================================
