---------------------- MODULE StoreForwardQueueProofs ----------------------
(***************************************************************************)
(* The store-and-forward queue keeps its counters exact and its limits, in *)
(* every behaviour, for every choice of the constants.  The facts about    *)
(* the single operations are in ForwardQueueProofs.                        *)
(***************************************************************************)
EXTENDS StoreForwardQueue, ForwardQueueProofs

\* None of the three conjuncts on the queue is inductive alone: the limit on a
\* sender's share is enforced through its counter, and the counter stays exact
\* only while every entry is filed under its own id.
QueueInvariant == TypeOK /\ CountersExact /\ WithinLimits

\* Every call of the class, and the passing of time, keeps the invariant.
LEMMA QueueInvariantStep == QueueInvariant /\ [Next]_vars => QueueInvariant'
<1> SUFFICES ASSUME QueueInvariant, [Next]_vars
             PROVE  QueueInvariant'
  OBVIOUS
<1> USE DEF QueueInvariant, TypeOK, CountersExact, WithinLimits
<1>0. /\ IsQueue(queue, Envelopes) /\ CountsHold(queue) /\ LimitsHold(queue)
      /\ now \in Nat
  OBVIOUS
<1>1. ASSUME NEW ids
      PROVE  /\ IsQueue(RemoveByKey(queue, ids), Envelopes)
             /\ CountsHold(RemoveByKey(queue, ids))
             /\ LimitsHold(RemoveByKey(queue, ids))
  BY <1>0, RemoveFacts
<1>2. ASSUME NEW e \in Envelopes, NEW from \in Senders, Store(e, from)
      PROVE  QueueInvariant'
  <2>1. IsQueue(queue', Envelopes) /\ CountsHold(queue') /\ LimitsHold(queue')
    BY <1>0, <1>2, StoredFacts DEF Store
  <2>2. reply' \in StoreResults
    BY <1>2 DEF Store, StoreVerdict, StoreResults
  <2>3. QED
    BY <1>2, <2>1, <2>2 DEF Store
<1>3. CASE Read
  BY <1>1, <1>3 DEF Read, PurgeExpired, OtherResults
<1>4. ASSUME NEW maxAge \in PurgeAges, Purge(maxAge)
      PROVE  QueueInvariant'
  BY <1>1, <1>4 DEF Purge, PurgeExpired, OtherResults
<1>5. ASSUME NEW id \in MessageIds, Acknowledge(id)
      PROVE  QueueInvariant'
  BY <1>1, <1>5 DEF Acknowledge, OtherResults
<1>6. CASE Tick
  BY <1>0, <1>6 DEF Tick, OtherResults
<1>7. CASE UNCHANGED vars
  BY <1>7 DEF vars
<1>8. QED
  BY <1>2, <1>3, <1>4, <1>5, <1>6, <1>7 DEF Next

\* The invariant holds throughout.
LEMMA QueueInvariantHolds == Spec => []QueueInvariant
<1>1. Init => QueueInvariant
  <2>1. SUFFICES ASSUME Init PROVE QueueInvariant
    OBVIOUS
  <2>2. IsQueue(queue, Envelopes) /\ CountsHold(queue) /\ LimitsHold(queue)
    BY <2>1, EmptyQueueFacts DEF Init
  <2>3. QED
    BY <2>1, <2>2 DEF Init, QueueInvariant, TypeOK, CountersExact, WithinLimits, OtherResults
<1>2. QED
  BY <1>1, QueueInvariantStep, PTL DEF Spec

\* The queue always has the shape the class declares.
THEOREM QueueTypeCorrect == Spec => []TypeOK
BY QueueInvariantHolds, PTL DEF QueueInvariant

\* No sequence of store, purge, read and acknowledge calls ever makes a
\* per-neighbour counter differ from what the queue holds.
THEOREM QueueCountersExact == Spec => []CountersExact
BY QueueInvariantHolds, PTL DEF QueueInvariant

\* The queue never exceeds maxTotal or any sender's maxPerNeighbor.
THEOREM QueueWithinLimits == Spec => []WithinLimits
BY QueueInvariantHolds, PTL DEF QueueInvariant

\* A message once held leaves only by expiry or by its own acknowledge, and
\* no later call changes what is held under its id.
THEOREM QueueHoldsUntilReleased == Spec => HeldUntilReleased
<1> DEFINE Kept(id) ==
      \/ id \in Held' /\ queue'.entries[id] = queue.entries[id]
      \/ id \in Expired(queue, now, MaxAge)
      \/ reply' = "purged" /\ \E a \in PurgeAges : id \in Expired(queue, now, a)
      \/ reply' = "acknowledged" /\ Held' = Held \ {id}
<1>1. ASSUME QueueInvariant, [Next]_vars, NEW id \in Held
      PROVE  Kept(id)
  <2> USE DEF Held
  <2>0. IsQueue(queue, Envelopes) /\ CountsHold(queue) /\ LimitsHold(queue) /\ now \in Nat
    BY <1>1 DEF QueueInvariant, TypeOK, CountersExact, WithinLimits
  <2>1. ASSUME NEW ids
        PROVE  /\ IsQueue(RemoveByKey(queue, ids), Envelopes)
               /\ CountsHold(RemoveByKey(queue, ids))
               /\ DOMAIN RemoveByKey(queue, ids).entries = Held \ ids
               /\ \A i \in Held \ ids :
                    RemoveByKey(queue, ids).entries[i] = queue.entries[i]
    <3>1. SUFFICES ASSUME NEW q, IsQueue(q, Envelopes), CountsHold(q), q = queue
                   PROVE  /\ IsQueue(RemoveByKey(q, ids), Envelopes)
                          /\ CountsHold(RemoveByKey(q, ids))
                          /\ DOMAIN RemoveByKey(q, ids).entries = DOMAIN q.entries \ ids
                          /\ \A i \in DOMAIN q.entries \ ids :
                               RemoveByKey(q, ids).entries[i] = q.entries[i]
      BY <2>0
    <3>2. QED
      BY <3>1, RemoveFacts
  <2>2. ASSUME NEW e \in Envelopes, NEW from \in Senders, Store(e, from)
        PROVE  Kept(id)
    <3> DEFINE p == PurgeExpired(queue, now, MaxAge)
    <3>1. /\ IsQueue(p, Envelopes) /\ CountsHold(p)
          /\ DOMAIN p.entries = Held \ Expired(queue, now, MaxAge)
          /\ \A i \in DOMAIN p.entries : p.entries[i] = queue.entries[i]
      <4> HIDE DEF Held
      <4>1. QED
        BY <2>1 DEF PurgeExpired
    <3>2. CASE id \in Expired(queue, now, MaxAge)
      BY <3>2
    <3>3. CASE id \in DOMAIN p.entries
      <4>1. CASE StoreVerdict(p, e, from, now) = "stored"
        <5>1. e.id \notin DOMAIN p.entries
          BY <4>1 DEF StoreVerdict
        <5>2. queue' = Added(p, e, from)
          BY <2>2, <4>1 DEF Store, Stored
        <5>3. /\ DOMAIN Added(p, e, from).entries = DOMAIN p.entries \cup {e.id}
              /\ \A i \in DOMAIN p.entries : Added(p, e, from).entries[i] = p.entries[i]
          BY <3>1, <5>1, AddFacts
        <5> HIDE DEF p
        <5>4. QED
          BY <3>1, <3>3, <5>2, <5>3
      <4>2. CASE StoreVerdict(p, e, from, now) # "stored"
        <5>1. queue' = p
          BY <2>2, <4>2 DEF Store, Stored
        <5> HIDE DEF p
        <5>2. QED
          BY <3>1, <3>3, <5>1
      <4>3. QED
        BY <4>1, <4>2
    <3>4. QED
      BY <3>1, <3>2, <3>3
  <2>3. CASE Read
    BY <2>1, <2>3 DEF Read, PurgeExpired
  <2>4. ASSUME NEW maxAge \in PurgeAges, Purge(maxAge)
        PROVE  Kept(id)
    BY <2>1, <2>4 DEF Purge, PurgeExpired
  <2>5. ASSUME NEW i \in MessageIds, Acknowledge(i)
        PROVE  Kept(id)
    BY <2>1, <2>5 DEF Acknowledge
  <2>6. CASE Tick \/ UNCHANGED vars
    BY <2>6 DEF Tick, vars
  <2>7. QED
    BY <1>1, <2>2, <2>3, <2>4, <2>5, <2>6 DEF Next
<1>2. QueueInvariant /\ [Next]_vars => [\A id \in Held : Kept(id)]_vars
  BY <1>1
<1>3. QED
  BY <1>2, QueueInvariantHolds, PTL DEF Spec, HeldUntilReleased

\* A store finds no room only where unexpired messages take it up: it purges
\* before it counts.
THEOREM QueueRefusesOnlyByLiveMessages == Spec => RefusedOnlyByLiveMessages
<1>1. ASSUME QueueInvariant, NEW e \in Envelopes, NEW from \in Senders, Store(e, from)
      PROVE  LiveMessagesFill
  <2> DEFINE p == PurgeExpired(queue, now, MaxAge)
  <2>1. IsQueue(queue, Envelopes) /\ CountsHold(queue)
    BY <1>1 DEF QueueInvariant, TypeOK, CountersExact
  <2>2. /\ CountsHold(p)
        /\ DOMAIN p.entries = Live
        /\ \A id \in Live : p.entries[id] = queue.entries[id]
    BY <2>1, RemoveFacts DEF PurgeExpired, Held, Live
  <2>3. /\ caller' = from
        /\ reply' = "queue full" => Cardinality(DOMAIN p.entries) >= MaxTotal
        /\ reply' = "neighbor quota exceeded" => p.perNeighborCount[from] >= MaxPerNeighbor
    <3> HIDE DEF p
    <3> QED
      BY <1>1 DEF Store, StoreVerdict, p
  <2> HIDE DEF p
  <2>4. HeldFrom(p.entries, Live, from) = HeldFrom(queue.entries, Live, from)
    BY <2>2 DEF HeldFrom
  <2>5. p.perNeighborCount[from] = Cardinality(HeldFrom(p.entries, Live, from))
    BY <2>2 DEF CountsHold
  <2> QED
    BY <2>2, <2>3, <2>4, <2>5 DEF LiveMessagesFill
<1>2. ASSUME QueueInvariant, Next
      PROVE  LiveMessagesFill
  <2>1. CASE \E e \in Envelopes, from \in Senders : Store(e, from)
    BY <1>1, <1>2, <2>1
  <2>2. CASE \/ Read \/ (\E maxAge \in PurgeAges : Purge(maxAge))
             \/ (\E id \in MessageIds : Acknowledge(id)) \/ Tick
    BY <2>2 DEF Read, Purge, Acknowledge, Tick, LiveMessagesFill
  <2> QED
    BY <1>2, <2>1, <2>2 DEF Next
<1>3. QueueInvariant /\ [Next]_vars => [LiveMessagesFill]_vars
  BY <1>2
<1> QED
  BY <1>3, QueueInvariantHolds, PTL DEF Spec, RefusedOnlyByLiveMessages
=============================================================================
