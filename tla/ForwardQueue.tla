---------------------------- MODULE ForwardQueue ----------------------------
(***************************************************************************)
(* The data type behind the store-and-forward queue (src/storage/store.ts):*)
(* the value the class keeps and what each of its methods makes of it.     *)
(* StoreForwardQueue wraps one such value in a state machine of its own;   *)
(* RelayNode keeps one per node.                                           *)
(*                                                                         *)
(* A queue is a record of the class's two maps:                            *)
(*   entries           message id -> [envelope, receivedFrom]              *)
(*   perNeighborCount  sender -> number, 0 standing for an absent key      *)
(* An envelope is any record with at least the fields id, ttl and          *)
(* timestamp.  storedAt and integrityHash are written and never decide     *)
(* anything, so they are not kept.                                         *)
(***************************************************************************)
EXTENDS Integers, FiniteSets, Functions

CONSTANTS
  Senders,         \* what `receivedFrom` can be: neighbour ids and 'origin'
  MaxPerNeighbor,  \* maxPerNeighbor, 50 in the code
  MaxTotal,        \* maxTotal, 200 in the code
  MaxAge,          \* STORE_FORWARD_MAX_AGE_SECONDS
  Skew             \* TIMESTAMP_GRANULARITY_SECONDS

ASSUME QueueLimits ==
  /\ MaxPerNeighbor \in Nat
  /\ MaxTotal \in Nat
  /\ MaxAge \in Nat
  /\ Skew \in Nat

\* The header check both the queue and the relay apply.  The version field
\* has one legal value and is not kept.
ValidRoutingHeader(e, t, maxAge) ==
  /\ e.ttl > 0
  /\ e.timestamp <= t + Skew
  /\ t - e.timestamp <= maxAge

EmptyQueue ==
  [entries |-> [id \in {} |-> id], perNeighborCount |-> [s \in Senders |-> 0]]

\* The ids among `ids` that were received from s.
HeldFrom(entries, ids, s) == {id \in ids : entries[id].receivedFrom = s}

\* A removal that forgets the per-neighbour counter.
RemoveKeepingCounters(q, ids) ==
  [q EXCEPT !.entries = Restrict(@, DOMAIN @ \ ids)]

\* A removal that gives the sender's place back twice.
RemoveReleasingTwice(q, ids) ==
  LET gone == ids \cap DOMAIN q.entries
  IN  [entries |-> Restrict(q.entries, DOMAIN q.entries \ gone),
       perNeighborCount |-> [s \in Senders |->
         q.perNeighborCount[s] - 2 * Cardinality(HeldFrom(q.entries, gone, s))]]

\* removeByKey for every id of `ids`: each removal takes one off the sender's
\* counter, whose key is deleted when the count would drop below one.
RemoveByKey(q, ids) ==
  LET gone == ids \cap DOMAIN q.entries
      left(s) == q.perNeighborCount[s] - Cardinality(HeldFrom(q.entries, gone, s))
  IN  [entries |-> Restrict(q.entries, DOMAIN q.entries \ gone),
       perNeighborCount |-> [s \in Senders |-> IF left(s) < 0 THEN 0 ELSE left(s)]]

Expired(q, t, maxAge) ==
  {id \in DOMAIN q.entries : ~ValidRoutingHeader(q.entries[id].envelope, t, maxAge)}

\* A purge that drops what is still within its age as well as what is not.
PurgeEverything(q, t, maxAge) == RemoveByKey(q, DOMAIN q.entries)

\* A purge that leaves what has expired.
PurgeNothing(q, t, maxAge) == q

PurgeExpired(q, t, maxAge) == RemoveByKey(q, Expired(q, t, maxAge))

\* A verdict that forgets the per-neighbour share.
VerdictWithoutQuota(q, e, from, t) ==
  IF ~ValidRoutingHeader(e, t, MaxAge) THEN "invalid header"
  ELSE IF e.id \in DOMAIN q.entries THEN "duplicate"
  ELSE IF Cardinality(DOMAIN q.entries) >= MaxTotal THEN "queue full"
  ELSE "stored"

\* A verdict that accepts an id it already holds.
VerdictWithoutDuplicate(q, e, from, t) ==
  IF ~ValidRoutingHeader(e, t, MaxAge) THEN "invalid header"
  ELSE IF Cardinality(DOMAIN q.entries) >= MaxTotal THEN "queue full"
  ELSE IF q.perNeighborCount[from] >= MaxPerNeighbor THEN "neighbor quota exceeded"
  ELSE "stored"

\* StoreResult of store() once the queue has been purged, in the order the
\* code tests.
StoreVerdict(q, e, from, t) ==
  IF ~ValidRoutingHeader(e, t, MaxAge) THEN "invalid header"
  ELSE IF e.id \in DOMAIN q.entries THEN "duplicate"
  ELSE IF Cardinality(DOMAIN q.entries) >= MaxTotal THEN "queue full"
  ELSE IF q.perNeighborCount[from] >= MaxPerNeighbor THEN "neighbor quota exceeded"
  ELSE "stored"

\* The queue with e added.
Added(q, e, from) ==
  [entries |-> [id \in DOMAIN q.entries \cup {e.id} |->
                  IF id = e.id THEN [envelope |-> e, receivedFrom |-> from]
                  ELSE q.entries[id]],
   perNeighborCount |-> [q.perNeighborCount EXCEPT ![from] = @ + 1]]

\* The queue after store(e, from) at time t.
Stored(q, e, from, t) ==
  LET purged == PurgeExpired(q, t, MaxAge)
  IN  IF StoreVerdict(purged, e, from, t) = "stored" THEN Added(purged, e, from)
      ELSE purged

\* The envelopes a read returns once it has purged.
ByDestination(q, dest) ==
  {q.entries[id].envelope :
     id \in {i \in DOMAIN q.entries : q.entries[i].envelope.dest = dest}}

----------------------------------------------------------------------------
\* What a value of the class is: entries filed under their own message id.
IsQueue(q, Envs) ==
  /\ q \in [entries : [DOMAIN q.entries -> [envelope : Envs, receivedFrom : Senders]],
             perNeighborCount : [Senders -> Nat]]
  /\ \A id \in DOMAIN q.entries : q.entries[id].envelope.id = id

\* The counters say what the queue holds.
CountsHold(q) ==
  /\ IsFiniteSet(DOMAIN q.entries)
  /\ \A s \in Senders :
       q.perNeighborCount[s] = Cardinality(HeldFrom(q.entries, DOMAIN q.entries, s))

\* The queue respects both of its limits.
LimitsHold(q) ==
  /\ Cardinality(DOMAIN q.entries) <= MaxTotal
  /\ \A s \in Senders :
       Cardinality(HeldFrom(q.entries, DOMAIN q.entries, s)) <= MaxPerNeighbor
=============================================================================
