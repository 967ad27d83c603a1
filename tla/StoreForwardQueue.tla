------------------------- MODULE StoreForwardQueue -------------------------
(***************************************************************************)
(* The store-and-forward queue of one node (src/storage/store.ts) as a     *)
(* state machine: the calls its users make in any order, against a clock   *)
(* that only moves forward.  Every method but acknowledge() purges what    *)
(* has expired before it does anything else; no timer does.                *)
(***************************************************************************)
EXTENDS ForwardQueue

CONSTANTS
  Envelopes,   \* the envelopes callers hand to store()
  PurgeAges,   \* the age limits callers hand to purgeExpired()
  Horizon      \* bound on the clock

ASSUME CallerInputs ==
  /\ \A e \in Envelopes : e.ttl \in Nat /\ e.timestamp \in Nat
  /\ PurgeAges \subseteq Nat
  /\ Horizon \in Nat

VARIABLES
  queue,  \* the class's state
  now,    \* Date.now() in the queue's seconds
  reply,  \* how the last call ended, "none" once time has passed
  caller  \* receivedFrom of the last call, "nobody" unless it was a store()

vars == <<queue, now, reply, caller>>

MessageIds == {e.id : e \in Envelopes}
StoreResults ==
  {"stored", "invalid header", "duplicate", "queue full", "neighbor quota exceeded"}
OtherResults == {"none", "read", "purged", "acknowledged"}

Init ==
  /\ queue = EmptyQueue
  /\ now = 0
  /\ reply = "none"
  /\ caller = "nobody"

----------------------------------------------------------------------------

\* A store() that tests its limits before it purges.
StoreThenPurge(e, from) ==
  /\ reply' = StoreVerdict(queue, e, from, now)
  /\ queue' = IF reply' = "stored" THEN Added(queue, e, from) ELSE queue
  /\ caller' = from
  /\ UNCHANGED now

Store(e, from) ==
  /\ reply' = StoreVerdict(PurgeExpired(queue, now, MaxAge), e, from, now)
  /\ queue' = Stored(queue, e, from, now)
  /\ caller' = from
  /\ UNCHANGED now

\* has, size, verifyIntegrity, getSummary, getByDestination and getByIds all
\* purge first and then only look.
Read ==
  /\ queue' = PurgeExpired(queue, now, MaxAge)
  /\ reply' = "read"
  /\ caller' = "nobody"
  /\ UNCHANGED now

\* purgeExpired() with the caller's own age limit.
Purge(maxAge) ==
  /\ queue' = PurgeExpired(queue, now, maxAge)
  /\ reply' = "purged"
  /\ caller' = "nobody"
  /\ UNCHANGED now

\* An acknowledge() that empties the queue.
AcknowledgeAll(id) ==
  /\ queue' = RemoveByKey(queue, DOMAIN queue.entries)
  /\ reply' = "acknowledged"
  /\ caller' = "nobody"
  /\ UNCHANGED now

Acknowledge(id) ==
  /\ queue' = RemoveByKey(queue, {id})
  /\ reply' = "acknowledged"
  /\ caller' = "nobody"
  /\ UNCHANGED now

Tick ==
  /\ now < Horizon
  /\ now' = now + 1
  /\ reply' = "none"
  /\ caller' = "nobody"
  /\ UNCHANGED queue

Next ==
  \/ \E e \in Envelopes, from \in Senders : Store(e, from)
  \/ Read
  \/ \E maxAge \in PurgeAges : Purge(maxAge)
  \/ \E id \in MessageIds : Acknowledge(id)
  \/ Tick

Spec == Init /\ [][Next]_vars
----------------------------------------------------------------------------
Held == DOMAIN queue.entries

\* The state has the shape the class declares.
TypeOK ==
  /\ IsQueue(queue, Envelopes)
  /\ now \in Nat
  /\ reply \in StoreResults \cup OtherResults
  /\ caller \in Senders \cup {"nobody"}

\* The quota counters, kept incrementally by store, purge and acknowledge,
\* always equal what the queue really holds from each sender: a counter that
\* drifted up would lock an honest neighbour out of the queue for good.
CountersExact == CountsHold(queue)

\* No sequence of calls makes the queue hold more than maxTotal messages, or
\* more than maxPerNeighbor of them from one sender.
WithinLimits == LimitsHold(queue)

\* A held message leaves only by expiry or by its own acknowledge(), and what
\* is held under an id never changes: a second copy of a message (with another
\* ttl, or from another neighbour) never replaces the first.
HeldUntilReleased ==
  [][\A id \in Held :
       \/ id \in Held' /\ queue'.entries[id] = queue.entries[id]
       \/ id \in Expired(queue, now, MaxAge)
       \/ reply' = "purged" /\ \E a \in PurgeAges : id \in Expired(queue, now, a)
       \/ reply' = "acknowledged" /\ Held' = Held \ {id}]_vars

\* What has not expired.
Live == Held \ Expired(queue, now, MaxAge)

\* In a step that refuses a message for lack of room, unexpired messages alone
\* fill what the refusal names: the queue, or the share of the very sender
\* whose message is refused.
LiveMessagesFill ==
  /\ reply' = "queue full" => Cardinality(Live) >= MaxTotal
  /\ reply' = "neighbor quota exceeded" =>
       Cardinality(HeldFrom(queue.entries, Live, caller')) >= MaxPerNeighbor

\* A store is refused for lack of room only when unexpired messages fill the
\* queue, or unexpired messages of that sender fill that sender's share: neither
\* what has expired nor what another sender left ever costs a neighbour its place.
RefusedOnlyByLiveMessages == [][LiveMessagesFill]_vars
=============================================================================
