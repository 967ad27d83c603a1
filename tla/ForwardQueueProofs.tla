------------------------- MODULE ForwardQueueProofs -------------------------
(***************************************************************************)
(* What the queue's operations preserve, for every queue, every set of     *)
(* envelopes and every value of the limits.  StoreForwardQueueProofs       *)
(* carries these facts through the behaviours of the state machine.        *)
(***************************************************************************)
EXTENDS ForwardQueue, FiniteSetTheorems, TLAPS

\* An empty queue is a queue, counts nothing and is within every limit.
LEMMA EmptyQueueFacts ==
  ASSUME NEW Envs
  PROVE  IsQueue(EmptyQueue, Envs) /\ CountsHold(EmptyQueue) /\ LimitsHold(EmptyQueue)
<1>1. IsQueue(EmptyQueue, Envs)
  BY DEF IsQueue, EmptyQueue
<1>2. DOMAIN EmptyQueue.entries = {} /\ \A s \in Senders : EmptyQueue.perNeighborCount[s] = 0
  BY DEF EmptyQueue
<1>3. \A s : HeldFrom(EmptyQueue.entries, {}, s) = {}
  BY DEF HeldFrom
<1>4. QED
  BY <1>1, <1>2, <1>3, FS_EmptySet, QueueLimits DEF CountsHold, LimitsHold

\* removeByKey, for any set of ids: what stays is untouched, the counters
\* follow, and no limit is exceeded that was respected before.
LEMMA RemoveFacts ==
  ASSUME NEW Envs, NEW q, NEW ids, IsQueue(q, Envs), CountsHold(q)
  PROVE  /\ IsQueue(RemoveByKey(q, ids), Envs)
         /\ CountsHold(RemoveByKey(q, ids))
         /\ LimitsHold(q) => LimitsHold(RemoveByKey(q, ids))
         /\ DOMAIN RemoveByKey(q, ids).entries = DOMAIN q.entries \ ids
         /\ \A id \in DOMAIN q.entries \ ids :
              RemoveByKey(q, ids).entries[id] = q.entries[id]
<1> DEFINE D == DOMAIN q.entries
           gone == ids \cap D
           r == RemoveByKey(q, ids)
           old(s) == HeldFrom(q.entries, D, s)
           lost(s) == HeldFrom(q.entries, gone, s)
           new(s) == HeldFrom(r.entries, D \ ids, s)
<1>1. /\ r.entries = [x \in D \ gone |-> q.entries[x]]
      /\ D \ gone = D \ ids
  BY DEF RemoveByKey, Restrict
<1>2. /\ DOMAIN r.entries = D \ ids
      /\ \A id \in D \ ids : r.entries[id] = q.entries[id]
  BY <1>1
<1>3. ASSUME NEW s \in Senders
      PROVE  /\ IsFiniteSet(old(s)) /\ IsFiniteSet(lost(s)) /\ IsFiniteSet(new(s))
             /\ Cardinality(old(s)) \in Nat /\ Cardinality(lost(s)) \in Nat
             /\ Cardinality(new(s)) \in Nat
             /\ Cardinality(old(s)) = Cardinality(new(s)) + Cardinality(lost(s))
  <2>1. old(s) = new(s) \cup lost(s) /\ new(s) \cap lost(s) = {}
    BY <1>2 DEF HeldFrom
  <2>2. old(s) \in SUBSET D /\ IsFiniteSet(D)
    BY DEF HeldFrom, CountsHold
  <2>3. IsFiniteSet(old(s))
    BY <2>2, FS_Subset
  <2>4. new(s) \in SUBSET old(s) /\ lost(s) \in SUBSET old(s)
    BY <2>1
  <2>5. IsFiniteSet(new(s)) /\ IsFiniteSet(lost(s))
    BY <2>3, <2>4, FS_Subset
  <2>6. Cardinality(new(s) \cup lost(s))
          = Cardinality(new(s)) + Cardinality(lost(s)) - Cardinality(new(s) \cap lost(s))
    BY <2>5, FS_Union
  <2>7. /\ Cardinality(old(s)) \in Nat /\ Cardinality(lost(s)) \in Nat
        /\ Cardinality(new(s)) \in Nat
    BY <2>3, <2>5, FS_CardinalityType
  <2>8. /\ Cardinality(old(s)) = Cardinality(new(s) \cup lost(s))
        /\ Cardinality(new(s) \cap lost(s)) = 0
    BY <2>1, FS_EmptySet
  <2> HIDE DEF old, new, lost
  <2>9. QED
    BY <2>3, <2>5, <2>6, <2>7, <2>8
<1>4. ASSUME NEW s \in Senders
      PROVE  r.perNeighborCount[s] = Cardinality(new(s))
  <2>1. q.perNeighborCount[s] = Cardinality(old(s))
    BY DEF CountsHold
  <2>2. r.perNeighborCount[s]
          = IF q.perNeighborCount[s] - Cardinality(lost(s)) < 0 THEN 0
            ELSE q.perNeighborCount[s] - Cardinality(lost(s))
    BY DEF RemoveByKey
  <2>3. /\ Cardinality(old(s)) = Cardinality(new(s)) + Cardinality(lost(s))
        /\ Cardinality(new(s)) \in Nat /\ Cardinality(lost(s)) \in Nat
    BY <1>3
  <2> HIDE DEF old, new, lost, r
  <2>4. QED
    BY <2>1, <2>2, <2>3
<1>5. IsQueue(r, Envs)
  <2>1. r = [entries |-> r.entries, perNeighborCount |-> r.perNeighborCount]
    BY DEF RemoveByKey
  <2>2. r.entries \in [D \ ids -> [envelope : Envs, receivedFrom : Senders]]
    BY <1>1 DEF IsQueue
  <2>3. r.perNeighborCount = [s \in Senders |-> r.perNeighborCount[s]]
    BY DEF RemoveByKey
  <2>4. \A s \in Senders : r.perNeighborCount[s] \in Nat
    BY <1>3, <1>4
  <2>5. r.perNeighborCount \in [Senders -> Nat]
    BY <2>3, <2>4
  <2>6. \A id \in DOMAIN r.entries : r.entries[id].envelope.id = id
    BY <1>2 DEF IsQueue
  <2> HIDE DEF r
  <2>7. QED
    BY <1>2, <2>1, <2>2, <2>5, <2>6 DEF IsQueue
<1>6. IsFiniteSet(D \ ids) /\ Cardinality(D \ ids) <= Cardinality(D)
  <2>1. IsFiniteSet(D) /\ D \ ids \in SUBSET D
    BY DEF CountsHold
  <2>2. QED
    BY <2>1, FS_Subset
<1>7. CountsHold(r)
  BY <1>2, <1>4, <1>6 DEF CountsHold
<1>8. LimitsHold(q) => LimitsHold(r)
  <2>1. SUFFICES ASSUME LimitsHold(q) PROVE LimitsHold(r)
    OBVIOUS
  <2>2. Cardinality(D) \in Nat /\ Cardinality(D \ ids) \in Nat
    BY <1>6, FS_CardinalityType DEF CountsHold
  <2>3. ASSUME NEW s \in Senders
        PROVE  Cardinality(new(s)) <= MaxPerNeighbor
    <3>1. Cardinality(old(s)) <= MaxPerNeighbor
      BY <2>1 DEF LimitsHold
    <3>2. /\ Cardinality(old(s)) = Cardinality(new(s)) + Cardinality(lost(s))
          /\ Cardinality(new(s)) \in Nat /\ Cardinality(lost(s)) \in Nat
      BY <1>3
    <3> HIDE DEF old, new, lost
    <3>3. QED
      BY <3>1, <3>2, QueueLimits
  <2>4. Cardinality(D) <= MaxTotal
    BY <2>1 DEF LimitsHold
  <2>5. Cardinality(D \ ids) <= MaxTotal
    <3> HIDE DEF D
    <3>1. QED
      BY <1>6, <2>2, <2>4, QueueLimits
  <2>6. DOMAIN r.entries = D \ ids
    BY <1>2
  <2> HIDE DEF r, D
  <2>7. QED
    BY <2>3, <2>5, <2>6 DEF LimitsHold
<1>9. QED
  BY <1>2, <1>5, <1>7, <1>8

\* Adding an envelope the queue does not hold counts it once, for its sender.
LEMMA AddFacts ==
  ASSUME NEW Envs, NEW q, NEW e \in Envs, NEW from \in Senders,
         IsQueue(q, Envs), CountsHold(q), e.id \notin DOMAIN q.entries
  PROVE  /\ IsQueue(Added(q, e, from), Envs)
         /\ CountsHold(Added(q, e, from))
         /\ (/\ LimitsHold(q)
             /\ Cardinality(DOMAIN q.entries) < MaxTotal
             /\ q.perNeighborCount[from] < MaxPerNeighbor)
              => LimitsHold(Added(q, e, from))
         /\ DOMAIN Added(q, e, from).entries = DOMAIN q.entries \cup {e.id}
         /\ \A id \in DOMAIN q.entries : Added(q, e, from).entries[id] = q.entries[id]
<1> DEFINE D == DOMAIN q.entries
           r == Added(q, e, from)
           old(s) == HeldFrom(q.entries, D, s)
           new(s) == HeldFrom(r.entries, D \cup {e.id}, s)
<1>1. r.entries = [id \in D \cup {e.id} |->
                     IF id = e.id THEN [envelope |-> e, receivedFrom |-> from]
                     ELSE q.entries[id]]
  BY DEF Added
<1>2. /\ DOMAIN r.entries = D \cup {e.id}
      /\ \A id \in D : r.entries[id] = q.entries[id]
      /\ r.entries[e.id] = [envelope |-> e, receivedFrom |-> from]
  BY <1>1
<1>3. r.perNeighborCount = [q.perNeighborCount EXCEPT ![from] = @ + 1]
  BY DEF Added
<1>4. IsFiniteSet(D) /\ Cardinality(D) \in Nat
  BY FS_CardinalityType DEF CountsHold
<1>5. ASSUME NEW s \in Senders
      PROVE  /\ IsFiniteSet(old(s)) /\ Cardinality(old(s)) \in Nat
             /\ e.id \notin old(s)
             /\ new(s) = IF s = from THEN old(s) \cup {e.id} ELSE old(s)
  <2>1. old(s) \in SUBSET D /\ e.id \notin old(s)
    BY DEF HeldFrom
  <2>2. IsFiniteSet(old(s))
    BY <1>4, <2>1, FS_Subset
  <2>3. new(s) = IF s = from THEN old(s) \cup {e.id} ELSE old(s)
    BY <1>2 DEF HeldFrom
  <2>4. QED
    BY <2>1, <2>2, <2>3, FS_CardinalityType
<1>6. ASSUME NEW s \in Senders
      PROVE  /\ r.perNeighborCount[s] = Cardinality(new(s))
             /\ Cardinality(new(s)) = IF s = from THEN Cardinality(old(s)) + 1
                                      ELSE Cardinality(old(s))
  <2>1. q.perNeighborCount[s] = Cardinality(old(s)) /\ q.perNeighborCount \in [Senders -> Nat]
    BY DEF CountsHold, IsQueue
  <2>2. Cardinality(old(s) \cup {e.id}) = Cardinality(old(s)) + 1
    BY <1>5, FS_AddElement
  <2>3. QED
    BY <1>3, <1>5, <2>1, <2>2
<1>7. IsQueue(r, Envs)
  <2>1. r = [entries |-> r.entries, perNeighborCount |-> r.perNeighborCount]
    BY DEF Added
  <2>2. r.entries \in [D \cup {e.id} -> [envelope : Envs, receivedFrom : Senders]]
    BY <1>1 DEF IsQueue
  <2>3. r.perNeighborCount \in [Senders -> Nat]
    BY <1>3 DEF IsQueue
  <2>4. \A id \in D \cup {e.id} : r.entries[id].envelope.id = id
    BY <1>2 DEF IsQueue
  <2>5. QED
    BY <1>2, <2>1, <2>2, <2>3, <2>4 DEF IsQueue
<1>8. /\ IsFiniteSet(D \cup {e.id})
      /\ Cardinality(D \cup {e.id}) = Cardinality(D) + 1
  <2>1. e.id \notin D
    OBVIOUS
  <2> HIDE DEF D
  <2>2. QED
    BY <1>4, <2>1, FS_AddElement
<1>9. CountsHold(r)
  <2>1. \A s \in Senders : r.perNeighborCount[s] = Cardinality(new(s))
    BY <1>6
  <2>2. DOMAIN r.entries = D \cup {e.id} /\ IsFiniteSet(DOMAIN r.entries)
    BY <1>2, <1>8
  <2>3. \A s \in Senders :
          r.perNeighborCount[s] = Cardinality(HeldFrom(r.entries, DOMAIN r.entries, s))
    BY <2>1, <2>2
  <2> HIDE DEF r
  <2>4. QED
    BY <2>2, <2>3 DEF CountsHold
<1>10. ASSUME LimitsHold(q), Cardinality(D) < MaxTotal,
              q.perNeighborCount[from] < MaxPerNeighbor
       PROVE  LimitsHold(r)
  <2>1. q.perNeighborCount[from] = Cardinality(old(from))
    BY DEF CountsHold
  <2>2. ASSUME NEW s \in Senders
        PROVE  Cardinality(new(s)) <= MaxPerNeighbor
    <3>1. Cardinality(old(s)) <= MaxPerNeighbor
      BY <1>10 DEF LimitsHold
    <3>2. /\ Cardinality(new(s)) = IF s = from THEN Cardinality(old(s)) + 1
                                    ELSE Cardinality(old(s))
          /\ Cardinality(old(s)) \in Nat
      BY <1>5, <1>6
    <3>3. s = from => Cardinality(old(s)) < MaxPerNeighbor
      BY <1>10, <2>1
    <3> HIDE DEF old, new
    <3>4. QED
      BY <3>1, <3>2, <3>3, QueueLimits
  <2>3. Cardinality(D \cup {e.id}) <= MaxTotal
    <3> HIDE DEF D
    <3>1. QED
      BY <1>4, <1>8, <1>10, QueueLimits
  <2>4. DOMAIN r.entries = D \cup {e.id}
    BY <1>2
  <2> HIDE DEF r, D
  <2>5. QED
    BY <2>2, <2>3, <2>4 DEF LimitsHold
<1>11. QED
  BY <1>2, <1>7, <1>9, <1>10

\* store() keeps the counters exact and the limits, whatever it answers.
LEMMA StoredFacts ==
  ASSUME NEW Envs, NEW q, NEW e \in Envs, NEW from \in Senders, NEW t \in Nat,
         IsQueue(q, Envs), CountsHold(q), LimitsHold(q)
  PROVE  /\ IsQueue(Stored(q, e, from, t), Envs)
         /\ CountsHold(Stored(q, e, from, t))
         /\ LimitsHold(Stored(q, e, from, t))
<1> DEFINE p == PurgeExpired(q, t, MaxAge)
<1>1. IsQueue(p, Envs) /\ CountsHold(p) /\ LimitsHold(p)
  BY RemoveFacts DEF PurgeExpired
<1>2. CASE StoreVerdict(p, e, from, t) = "stored"
  <2>1. /\ e.id \notin DOMAIN p.entries
        /\ ~(Cardinality(DOMAIN p.entries) >= MaxTotal)
        /\ ~(p.perNeighborCount[from] >= MaxPerNeighbor)
    BY <1>2 DEF StoreVerdict
  <2>2. Cardinality(DOMAIN p.entries) \in Nat /\ p.perNeighborCount[from] \in Nat
    BY <1>1, FS_CardinalityType DEF CountsHold, IsQueue
  <2>3. /\ Cardinality(DOMAIN p.entries) < MaxTotal
        /\ p.perNeighborCount[from] < MaxPerNeighbor
    BY <2>1, <2>2, QueueLimits
  <2>4. Stored(q, e, from, t) = Added(p, e, from)
    BY <1>2 DEF Stored
  <2>5. QED
    BY <1>1, <2>1, <2>3, <2>4, AddFacts
<1>3. CASE StoreVerdict(p, e, from, t) # "stored"
  <2>1. Stored(q, e, from, t) = p
    BY <1>3 DEF Stored
  <2>2. QED
    BY <1>1, <2>1
<1>4. QED
  BY <1>2, <1>3
=============================================================================
