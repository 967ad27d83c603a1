-------------------------- MODULE RelayNodeProofs --------------------------
(***************************************************************************)
(* What holds of the relay nodes in every behaviour, for every set of      *)
(* nodes, messages, advertisements and frames and every value of the       *)
(* timeouts and limits.  First an invariant with a conjunct per variable:  *)
(* shapes, the queues' counters and limits, and no binding on probation.   *)
(* Then what each action does, as far as the action properties ask; then   *)
(* the sizes of the tables, and where every queued envelope came from.     *)
(***************************************************************************)
EXTENDS RelayNode, ForwardQueueProofs

\* The four kinds of value a node keeps, and what the invariant says of each.
PeersOK(p) == p \in [DOMAIN p -> Sessions] /\ DOMAIN p \subseteq Neighbours
TableOK(t) ==
  IsTable(t) /\ \A r \in DOMAIN t : t[r].status = "probation" => t[r].binding = Null
PendingOK(p) == p \in [DOMAIN p -> PendingAcks] /\ DOMAIN p \subseteq MessageIds
QueueOK(q) == IsQueue(q, Envelopes) /\ CountsHold(q) /\ LimitsHold(q)

PeersTyped == DOMAIN peers = Nodes /\ \A n \in Nodes : PeersOK(peers[n])
RoutesTyped == DOMAIN routes = Nodes /\ \A n \in Nodes : TableOK(routes[n])
PendingTyped == DOMAIN pendingAcks = Nodes /\ \A n \in Nodes : PendingOK(pendingAcks[n])
TrustTyped == DOMAIN trust = Nodes /\ \A n \in Nodes : trust[n] \in [Neighbours -> Nat]
SeenTyped ==
  DOMAIN seenAds = Nodes /\ \A n \in Nodes : seenAds[n] \in [DOMAIN seenAds[n] -> Nat]
QueuesTyped == DOMAIN queue = Nodes /\ \A n \in Nodes : QueueOK(queue[n])
AcksTyped == DOMAIN ackCount = Nodes /\ \A n \in Nodes : ackCount[n] \in 0 .. MaxAcks
WireTyped == wire \subseteq [from : Nodes, to : Nodes, envelope : Envelopes]

\* The inductive invariant, one conjunct per variable.
RelayInvariant ==
  /\ PeersTyped /\ RoutesTyped /\ PendingTyped /\ TrustTyped /\ SeenTyped
  /\ QueuesTyped /\ AcksTyped /\ WireTyped /\ now \in Nat

\* It is the type invariant and the two safety invariants, regrouped.
LEMMA RelayInvariantMeaning ==
  RelayInvariant <=> TypeOK /\ QueuesSound /\ ProbationIsUnbound
BY DEF RelayInvariant, TypeOK, IsNode, QueuesSound, ProbationIsUnbound, PeersTyped,
       RoutesTyped, PendingTyped, TrustTyped, SeenTyped, QueuesTyped, AcksTyped, WireTyped,
       PeersOK, TableOK, PendingOK, QueueOK

----------------------------------------------------------------------------
(* The routing table. *)

\* Purging and demoting only remove routes.
LEMMA PurgedTableOK ==
  ASSUME NEW t, TableOK(t), NEW lost, NEW time
  PROVE  TableOK(PurgedRoutes(t, time)) /\ TableOK(DemotedAndPurged(t, lost, time))
<1>1. ASSUME NEW S \in SUBSET DOMAIN t
      PROVE  TableOK(Restrict(t, S)) /\ DOMAIN Restrict(t, S) = S
  BY DEF TableOK, IsTable, Restrict
<1>2. TableOK(PurgedRoutes(t, time)) /\ DOMAIN PurgedRoutes(t, time) \subseteq DOMAIN t
  BY <1>1 DEF PurgedRoutes
<1> DEFINE live == PurgedRoutes(t, time)
<1>3. ASSUME NEW S \in SUBSET DOMAIN live
      PROVE  TableOK(Restrict(live, S))
  BY <1>2 DEF TableOK, IsTable, Restrict
<1>4. QED
  BY <1>2, <1>3 DEF DemotedAndPurged

\* A learned route is typed and, when on probation, unbound.
LEMMA LearnedTableOK ==
  ASSUME NEW t, TableOK(t), NEW from \in Neighbours, NEW dests \in SUBSET Keys,
         NEW session \in Sessions, NEW time \in Nat,
         \A r \in DOMAIN t : t[r].expiresAt > time
  PROVE  TableOK(Learned(t, from, dests, session, time))
<1> DEFINE new == Learned(t, from, dests, session, time)
           D == DOMAIN t \cup (dests \X {from})
<1>1. DOMAIN new = D /\ D \subseteq Keys \X Neighbours /\ new = [r \in D |-> new[r]]
  BY DEF Learned, TableOK, IsTable
<1>2. ASSUME NEW r \in D
      PROVE  /\ new[r] \in RouteCandidates
             /\ new[r].status = "probation" => new[r].binding = Null
  <2>1. CASE r \in dests \X {from}
    <3> DEFINE valid == StillValidated(t, r, time)
    <3>1. new[r] = [status    |-> IF valid THEN "validated" ELSE "probation",
                    expiresAt |-> time + (IF valid THEN ValidationTtl ELSE Probation),
                    binding   |-> IF r \in DOMAIN t /\ t[r].binding = session
                                    THEN session ELSE Null]
      BY <2>1 DEF Learned
    <3>2. ~valid => (r \in DOMAIN t => t[r].status = "probation")
      BY DEF StillValidated, TableOK, IsTable, RouteCandidates, RouteStatus
    <3>3. ~valid => (r \in DOMAIN t => t[r].binding = Null)
      BY <3>2 DEF TableOK
    <3> HIDE DEF valid, new
    <3>4. QED
      BY <3>1, <3>3, RouteTimes DEF RouteCandidates, RouteStatus
  <2>2. CASE r \notin dests \X {from}
    <3>1. new[r] = t[r] /\ r \in DOMAIN t
      BY <2>2 DEF Learned
    <3>2. QED
      BY <3>1 DEF TableOK, IsTable
  <2>3. QED
    BY <2>1, <2>2
<1>3. DOMAIN new = D /\ D \subseteq Keys \X Neighbours /\ new \in [D -> RouteCandidates]
  <2> HIDE DEF new, D
  <2>1. QED
    BY <1>1, <1>2
<1> HIDE DEF new, D
<1>4. new \in [DOMAIN new -> RouteCandidates]
  BY <1>3
<1>5. \A r \in DOMAIN new : new[r].status = "probation" => new[r].binding = Null
  BY <1>2, <1>3
<1>6. TableOK(new)
  BY <1>3, <1>4, <1>5 DEF TableOK, IsTable
<1>7. QED
  BY <1>6 DEF new

\* A validation binds the route it validates.
LEMMA MarkedTableOK ==
  ASSUME NEW t, TableOK(t), NEW r, NEW session \in Sessions, NEW time \in Nat
  PROVE  TableOK(MarkedValidated(t, r, session, time))
BY RouteTimes DEF MarkedValidated, TableOK, IsTable, RouteCandidates, RouteStatus

\* lookup() only names authenticated neighbours.
LEMMA LookupIsPeer ==
  ASSUME NEW t, NEW dest, NEW p, NEW scores, PeersOK(p)
  PROVE  Lookup(t, dest, p, scores) \subseteq Neighbours
BY DEF Lookup, UsableHops, PeersOK

----------------------------------------------------------------------------
(* The awaited acknowledgements. *)

\* Forgetting records keeps the others as they are.
LEMMA RestrictedPendingOK ==
  ASSUME NEW p, PendingOK(p), NEW S
  PROVE  PendingOK(Restrict(p, DOMAIN p \ S))
BY DEF PendingOK, Restrict

\* Recording, with or without evictions, sets well-formed records only.
LEMMA RecordedPendingOK ==
  ASSUME NEW p, PendingOK(p), NEW records,
         records \in [DOMAIN records -> PendingAcks], DOMAIN records \subseteq MessageIds
  PROVE  \A q \in RecordedAcks(p, records) : PendingOK(q)
<1> DEFINE all == [id \in DOMAIN p \cup DOMAIN records |->
                     IF id \in DOMAIN records THEN records[id] ELSE p[id]]
<1>1. PendingOK(all)
  BY DEF PendingOK
<1>2. ASSUME NEW k \in SUBSET DOMAIN all
      PROVE  PendingOK(Restrict(all, k))
  <2>1. all \in [DOMAIN all -> PendingAcks] /\ DOMAIN all \subseteq MessageIds
    BY <1>1 DEF PendingOK
  <2> HIDE DEF all
  <2>2. QED
    BY <2>1 DEF PendingOK, Restrict
<1> HIDE DEF all
<1>3. QED
  BY <1>1, <1>2 DEF RecordedAcks, all

\* Forwarding a batch keeps the records well-formed, whatever the transport
\* takes of it.
LEMMA ForwardedPendingOK ==
  ASSUME NEW p, PendingOK(p), NEW batch \in SUBSET Envelopes, NEW sent, NEW hopTo,
         \A e \in batch : hopTo[e.dest] \in Neighbours, now \in Nat
  PROVE  \A q \in AfterForwarding(p, batch, sent, hopTo) : PendingOK(q)
<1> DEFINE data == {e \in batch : e.packetType = "Data"}
           IdOf(id) == CHOOSE e \in data : e.id = id
           record(id) == [neighbor |-> hopTo[IdOf(id).dest], dest |-> IdOf(id).dest,
                          sentAt |-> now]
           ids == {e.id : e \in data}
           records == [id \in ids |-> record(id)]
           failed == {e.id : e \in data \ sent}
<1>1. ASSUME NEW id \in ids
      PROVE  id \in MessageIds /\ record(id) \in PendingAcks
  <2>1. PICK e \in data : e.id = id
    OBVIOUS
  <2>2. IdOf(id) \in data
    BY <2>1
  <2>3. IdOf(id).dest \in Keys /\ hopTo[IdOf(id).dest] \in Neighbours
    <3> HIDE DEF IdOf
    <3>1. QED
      BY <2>2 DEF Envelopes
  <2>4. id \in MessageIds
    BY <2>1 DEF Envelopes
  <2> HIDE DEF IdOf
  <2>5. QED
    BY <2>3, <2>4 DEF PendingAcks
<1>2. /\ records \in [DOMAIN records -> PendingAcks]
      /\ DOMAIN records \subseteq MessageIds
  <2> HIDE DEF record, ids
  <2>1. QED
    BY <1>1
<1>3. \A q \in RecordedAcks(p, records) : PendingOK(q)
  <2> HIDE DEF records
  <2>1. QED
    BY <1>2, RecordedPendingOK
<1>4. \A q \in RecordedAcks(p, records) : PendingOK(Restrict(q, DOMAIN q \ failed))
  <2> HIDE DEF records, failed
  <2>1. QED
    BY <1>3, RestrictedPendingOK
<1>5. AfterForwarding(p, batch, sent, hopTo)
        = IF data = {} THEN {p}
          ELSE {Restrict(q, DOMAIN q \ failed) : q \in RecordedAcks(p, records)}
  BY DEF AfterForwarding
<1> HIDE DEF data, records, failed
<1>6. QED
  BY <1>4, <1>5

\* The state that purgeStaleRoutingState leaves is well-formed.
LEMMA LiveStateOK ==
  ASSUME RelayInvariant, NEW n \in Nodes
  PROVE  /\ PendingOK(LivePending(n))
         /\ TableOK(LiveRoutes(n))
         /\ \A r \in DOMAIN LiveRoutes(n) : LiveRoutes(n)[r].expiresAt > now
<1>1. PendingOK(pendingAcks[n]) /\ TableOK(routes[n])
  BY DEF RelayInvariant, PendingTyped, RoutesTyped
<1>2. PendingOK(LivePending(n))
  BY <1>1, RestrictedPendingOK DEF LivePending
<1>3. TableOK(LiveRoutes(n))
  BY <1>1, PurgedTableOK DEF LiveRoutes
<1>4. \A r \in DOMAIN LiveRoutes(n) : LiveRoutes(n)[r].expiresAt > now
  BY DEF LiveRoutes, DemotedAndPurged, PurgedRoutes, Restrict
<1>5. QED
  BY <1>2, <1>3, <1>4

----------------------------------------------------------------------------
(* Sending. *)

\* One hop takes one off a ttl that was positive.
LEMMA OneHopOnOK ==
  ASSUME NEW e \in Envelopes, e.ttl > 0
  PROVE  OneHopOn(e) \in Envelopes
BY DEF OneHopOn, Envelopes

\* Handing over frames from a node keeps the wire well-formed.
LEMMA HandOverOK ==
  ASSUME WireTyped, NEW frames, HandOver(frames),
         \A f \in frames : /\ f = [from |-> f.from, to |-> f.to, envelope |-> f.envelope]
                          /\ f.from \in Nodes /\ f.envelope \in Envelopes
  PROVE  WireTyped'
BY DEF WireTyped, HandOver

\* Forwarding one envelope, or storing it, keeps the three variables it touches
\* well-formed.
LEMMA ForwardOrStoreOK ==
  ASSUME RelayInvariant, NEW n \in Nodes, NEW e \in Envelopes, e.ttl > 0,
         NEW from \in Senders, NEW hops \in SUBSET Neighbours,
         NEW pending, PendingOK(pending), ForwardOrStore(n, e, from, hops, pending)
  PROVE  PendingTyped' /\ QueuesTyped' /\ WireTyped'
<1> USE DEF RelayInvariant
<1>1. \A hop \in hops : \A sent : \A p \in AfterForwarding(pending, {e}, sent, Via(e, hop)) :
        PendingOK(p)
  <2>1. ASSUME NEW hop \in hops
        PROVE  \A x \in {e} : Via(e, hop)[x.dest] \in Neighbours
    BY DEF Via
  <2>2. {e} \in SUBSET Envelopes
    OBVIOUS
  <2>3. QED
    BY <2>1, <2>2, ForwardedPendingOK
<1>2. ASSUME NEW p, PendingOK(p), pendingAcks' = [pendingAcks EXCEPT ![n] = p]
      PROVE  PendingTyped'
  BY <1>2 DEF PendingTyped
<1>3. QueueOK(Stored(queue[n], e, from, now))
  BY StoredFacts DEF QueuesTyped, QueueOK
<1>4. CASE \E hop \in hops :
             /\ \E p \in AfterForwarding(pending, {e}, {e}, Via(e, hop)) :
                  pendingAcks' = [pendingAcks EXCEPT ![n] = p]
             /\ HandOver({Frame(n, hop, OneHopOn(e))})
             /\ UNCHANGED queue
  <2>1. PICK hop \in hops :
             /\ \E p \in AfterForwarding(pending, {e}, {e}, Via(e, hop)) :
                  pendingAcks' = [pendingAcks EXCEPT ![n] = p]
             /\ HandOver({Frame(n, hop, OneHopOn(e))})
             /\ UNCHANGED queue
    BY <1>4
  <2>2. PendingTyped'
    BY <1>1, <1>2, <2>1
  <2>3. QueuesTyped'
    BY <2>1 DEF QueuesTyped
  <2>4. OneHopOn(e) \in Envelopes
    BY OneHopOnOK
  <2>5. \A f \in {Frame(n, hop, OneHopOn(e))} :
          /\ f = [from |-> f.from, to |-> f.to, envelope |-> f.envelope]
          /\ f.from \in Nodes /\ f.envelope \in Envelopes
    BY <2>4 DEF Frame
  <2>6. WireTyped'
    BY <2>1, <2>5, HandOverOK
  <2>7. QED
    BY <2>2, <2>3, <2>6
<1>5. CASE /\ \/ hops = {} /\ pendingAcks' = [pendingAcks EXCEPT ![n] = pending]
              \/ \E hop \in hops : \E p \in AfterForwarding(pending, {e}, {}, Via(e, hop)) :
                    pendingAcks' = [pendingAcks EXCEPT ![n] = p]
           /\ queue' = [queue EXCEPT ![n] = Stored(@, e, from, now)]
           /\ HandOver({})
  <2>1. PendingTyped'
    BY <1>1, <1>2, <1>5
  <2>2. QueuesTyped'
    BY <1>3, <1>5 DEF QueuesTyped
  <2>3. WireTyped'
    BY <1>5, HandOverOK
  <2>4. QED
    BY <2>1, <2>2, <2>3
<1>6. QED
  BY <1>4, <1>5 DEF ForwardOrStore

\* The same for an envelope that may have reached its destination.
LEMMA DeliverOrRelayOK ==
  ASSUME RelayInvariant, NEW n \in Nodes, NEW e \in Envelopes, e.ttl > 0,
         NEW from \in Senders, NEW pending, PendingOK(pending), NEW table, NEW scores,
         DeliverOrRelay(n, from, e, pending, table, scores)
  PROVE  PendingTyped' /\ QueuesTyped' /\ WireTyped'
<1>1. CASE e.dest = n
  <2>1. PendingTyped' /\ QueuesTyped'
    BY <1>1 DEF DeliverOrRelay, RelayInvariant, PendingTyped, QueuesTyped
  <2>2. WireTyped'
    BY <1>1, HandOverOK DEF DeliverOrRelay, RelayInvariant
  <2>3. QED
    BY <2>1, <2>2
<1>2. CASE e.dest # n
  <2>1. Lookup(table, e.dest, peers[n], scores) \in SUBSET Neighbours
    BY LookupIsPeer DEF RelayInvariant, PeersTyped
  <2>2. ForwardOrStore(n, e, from, Lookup(table, e.dest, peers[n], scores), pending)
    BY <1>2 DEF DeliverOrRelay
  <2>3. QED
    BY <2>1, <2>2, ForwardOrStoreOK
<1>3. QED
  BY <1>1, <1>2

\* purgeStaleRoutingState keeps both tables well-formed.
LEMMA PurgeOK ==
  ASSUME RelayInvariant, NEW n \in Nodes, PurgeStaleRoutingState(n)
  PROVE  PendingTyped' /\ RoutesTyped'
BY LiveStateOK DEF PurgeStaleRoutingState, RelayInvariant, PendingTyped, RoutesTyped

----------------------------------------------------------------------------
(* Advertisements. *)

\* Whatever a node retries of its queue, all of it stays well-formed.
LEMMA AttemptOK ==
  ASSUME RelayInvariant, NEW n \in Nodes, NEW dests \in SUBSET Keys, NEW table,
         AttemptQueuedDelivery(n, dests, table)
  PROVE  PendingTyped' /\ QueuesTyped' /\ WireTyped'
<1>1. PICK hopTo \in HopChoices(n, dests, table) :
        LET reachable == {d \in dests : hopTo[d] # Null}
            purged == IF reachable = {} THEN queue[n] ELSE PurgeExpired(queue[n], now, MaxAge)
            batch == UNION {ByDestination(purged, d) : d \in reachable}
        IN  \E sent \in SUBSET batch :
              /\ \E p \in AfterForwarding(LivePending(n), batch, sent, hopTo) :
                   pendingAcks' = [pendingAcks EXCEPT ![n] = p]
              /\ queue' = [queue EXCEPT ![n] = RemoveByKey(purged, {e.id : e \in sent})]
              /\ HandOver({Frame(n, hopTo[e.dest], OneHopOn(e)) : e \in sent})
  BY DEF AttemptQueuedDelivery
<1> DEFINE reachable == {d \in dests : hopTo[d] # Null}
           purged == IF reachable = {} THEN queue[n] ELSE PurgeExpired(queue[n], now, MaxAge)
           batch == UNION {ByDestination(purged, d) : d \in reachable}
<1>2. PICK sent \in SUBSET batch :
              /\ \E p \in AfterForwarding(LivePending(n), batch, sent, hopTo) :
                   pendingAcks' = [pendingAcks EXCEPT ![n] = p]
              /\ queue' = [queue EXCEPT ![n] = RemoveByKey(purged, {e.id : e \in sent})]
              /\ HandOver({Frame(n, hopTo[e.dest], OneHopOn(e)) : e \in sent})
  BY <1>1
<1>3. QueueOK(queue[n]) /\ QueueOK(PurgeExpired(queue[n], now, MaxAge))
  BY RemoveFacts DEF RelayInvariant, QueuesTyped, QueueOK, PurgeExpired
<1>4. QueueOK(purged)
  BY <1>3
<1>5. \A d \in reachable : hopTo[d] \in Neighbours
  BY DEF HopChoices
<1>6. ASSUME NEW e \in batch
      PROVE  e \in Envelopes /\ e.ttl > 0 /\ hopTo[e.dest] \in Neighbours
  <2>1. PICK d \in reachable : e \in ByDestination(purged, d)
    OBVIOUS
  <2>2. PICK id \in DOMAIN purged.entries :
          purged.entries[id].envelope.dest = d /\ e = purged.entries[id].envelope
    BY <2>1 DEF ByDestination
  <2>3. e \in Envelopes
    BY <1>4, <2>2 DEF QueueOK, IsQueue
  <2>4. purged = RemoveByKey(queue[n], Expired(queue[n], now, MaxAge))
    BY <2>1 DEF PurgeExpired
  <2>5. /\ DOMAIN purged.entries = DOMAIN queue[n].entries \ Expired(queue[n], now, MaxAge)
        /\ purged.entries[id] = queue[n].entries[id]
    BY <2>2, <2>4 DEF RemoveByKey, Restrict
  <2>6. ValidRoutingHeader(queue[n].entries[id].envelope, now, MaxAge)
    BY <2>2, <2>5 DEF Expired
  <2>7. QED
    BY <1>5, <2>1, <2>2, <2>3, <2>5, <2>6 DEF ValidRoutingHeader
<1> HIDE DEF batch, purged, reachable
<1>7. PendingTyped'
  <2>1. PICK p \in AfterForwarding(LivePending(n), batch, sent, hopTo) :
          pendingAcks' = [pendingAcks EXCEPT ![n] = p]
    BY <1>2
  <2>2. PendingOK(LivePending(n)) /\ now \in Nat /\ batch \in SUBSET Envelopes
    BY <1>6, LiveStateOK DEF RelayInvariant
  <2>3. PendingOK(p)
    BY <1>6, <2>1, <2>2, ForwardedPendingOK
  <2>4. QED
    BY <2>1, <2>3 DEF RelayInvariant, PendingTyped
<1>8. QueuesTyped'
  <2>1. QueueOK(RemoveByKey(purged, {e.id : e \in sent}))
    BY <1>4, RemoveFacts DEF QueueOK
  <2>2. QED
    BY <1>2, <2>1 DEF RelayInvariant, QueuesTyped
<1>9. WireTyped'
  <2>1. \A f \in {Frame(n, hopTo[e.dest], OneHopOn(e)) : e \in sent} :
          /\ f = [from |-> f.from, to |-> f.to, envelope |-> f.envelope]
          /\ f.from \in Nodes /\ f.envelope \in Envelopes
    BY <1>2, <1>6, OneHopOnOK DEF Frame
  <2>2. QED
    BY <1>2, <2>1, HandOverOK DEF RelayInvariant
<1>10. QED
  BY <1>7, <1>8, <1>9

----------------------------------------------------------------------------
(* The actions. *)

\* Only peers changes, and frames are not handed over.
LEMMA RegisterOK ==
  ASSUME RelayInvariant, NEW n \in Nodes, NEW m \in Neighbours, NEW key \in Keys,
         RegisterAuthenticatedPeer(n, m, key)
  PROVE  RelayInvariant'
<1> USE DEF RelayInvariant
<1>1. PeersTyped'
  BY DEF RegisterAuthenticatedPeer, PeersTyped, PeersOK, Sessions
<1>2. WireTyped'
  BY HandOverOK DEF RegisterAuthenticatedPeer
<1>3. QED
  BY <1>1, <1>2 DEF RegisterAuthenticatedPeer, RoutesTyped, PendingTyped, TrustTyped,
                    SeenTyped, QueuesTyped, AcksTyped

\* Unregistering only forgets a peer.
LEMMA UnregisterOK ==
  ASSUME RelayInvariant, NEW n \in Nodes, NEW m \in Neighbours,
         UnregisterAuthenticatedPeer(n, m)
  PROVE  RelayInvariant'
<1> USE DEF RelayInvariant
<1>1. PeersTyped'
  BY DEF UnregisterAuthenticatedPeer, PeersTyped, PeersOK, Restrict
<1>2. WireTyped'
  BY HandOverOK DEF UnregisterAuthenticatedPeer
<1>3. QED
  BY <1>1, <1>2 DEF UnregisterAuthenticatedPeer, RoutesTyped, PendingTyped, TrustTyped,
                    SeenTyped, QueuesTyped, AcksTyped

\* The purges an application may call.
LEMMA PurgesOK ==
  ASSUME RelayInvariant, NEW n \in Nodes, NEW maxAge,
         \/ PurgeState(n) \/ PurgeStaleRoutes(n)
         \/ PurgeStaleRoutingAdvertisements(n, maxAge) \/ QueueSize(n)
  PROVE  RelayInvariant'
<1> USE DEF RelayInvariant
<1>1. CASE PurgeState(n)
  <2>1. PendingTyped' /\ RoutesTyped'
    BY <1>1, PurgeOK DEF PurgeState
  <2>2. WireTyped'
    BY <1>1, HandOverOK DEF PurgeState
  <2>3. QED
    BY <1>1, <2>1, <2>2 DEF PurgeState, PeersTyped, TrustTyped, SeenTyped, QueuesTyped, AcksTyped
<1>2. CASE PurgeStaleRoutes(n)
  <2>1. RoutesTyped'
    BY <1>2, PurgedTableOK DEF PurgeStaleRoutes, RoutesTyped
  <2>2. WireTyped'
    BY <1>2, HandOverOK DEF PurgeStaleRoutes
  <2>3. QED
    BY <1>2, <2>1, <2>2 DEF PurgeStaleRoutes, PeersTyped, PendingTyped, TrustTyped, SeenTyped,
                            QueuesTyped, AcksTyped
<1>3. CASE PurgeStaleRoutingAdvertisements(n, maxAge)
  <2>1. SeenTyped'
    BY <1>3 DEF PurgeStaleRoutingAdvertisements, SeenTyped, Restrict
  <2>2. WireTyped'
    BY <1>3, HandOverOK DEF PurgeStaleRoutingAdvertisements
  <2>3. QED
    BY <1>3, <2>1, <2>2 DEF PurgeStaleRoutingAdvertisements, PeersTyped, RoutesTyped,
                            PendingTyped, TrustTyped, QueuesTyped, AcksTyped
<1>4. CASE QueueSize(n)
  <2>1. QueueOK(PurgeExpired(queue[n], now, MaxAge))
    BY RemoveFacts DEF QueuesTyped, QueueOK, PurgeExpired
  <2>2. QueuesTyped'
    BY <1>4, <2>1 DEF QueueSize, QueuesTyped
  <2>3. WireTyped'
    BY <1>4, HandOverOK DEF QueueSize
  <2>4. QED
    BY <1>4, <2>2, <2>3 DEF QueueSize, PeersTyped, RoutesTyped, PendingTyped, TrustTyped,
                            SeenTyped, AcksTyped
<1>5. QED
  BY <1>1, <1>2, <1>3, <1>4

\* sendEnvelope: dropped, forwarded or queued.
LEMMA SendEnvelopeOK ==
  ASSUME RelayInvariant, NEW n \in Nodes, NEW e \in Envelopes, SendEnvelope(n, e)
  PROVE  RelayInvariant'
<1> USE DEF RelayInvariant
<1>1. RoutesTyped'
  BY LiveStateOK DEF SendEnvelope, RoutesTyped
<1>2. PendingTyped' /\ QueuesTyped' /\ WireTyped'
  <2> DEFINE direct == DirectPeers(n, e.dest)
             hops == IF direct # {} THEN direct
                     ELSE Lookup(LiveRoutes(n), e.dest, peers[n], trust[n])
  <2>1. CASE ValidRoutingHeader(e, now, MaxAge)
    <3>1. ForwardOrStore(n, e, "origin", hops, LivePending(n)) /\ e.ttl > 0
      BY <2>1 DEF SendEnvelope, ValidRoutingHeader
    <3>2. direct \in SUBSET Neighbours
      BY DEF DirectPeers, PeersTyped, PeersOK
    <3>3. hops \in SUBSET Neighbours
      BY <3>2, LookupIsPeer DEF PeersTyped
    <3>4. "origin" \in Senders
      BY RelayConstants
    <3> HIDE DEF hops
    <3>5. QED
      BY <3>1, <3>3, <3>4, LiveStateOK, ForwardOrStoreOK
  <2>2. CASE ~ValidRoutingHeader(e, now, MaxAge)
    <3>1. PendingTyped' /\ QueuesTyped'
      BY <2>2, LiveStateOK DEF SendEnvelope, PendingTyped, QueuesTyped
    <3>2. WireTyped'
      BY <2>2, HandOverOK DEF SendEnvelope
    <3>3. QED
      BY <3>1, <3>2
  <2>3. QED
    BY <2>1, <2>2
<1>3. QED
  BY <1>1, <1>2 DEF SendEnvelope, PeersTyped, TrustTyped, SeenTyped, AcksTyped

\* sendAck: delivered here, handed over or queued.
LEMMA SendAckOK ==
  ASSUME RelayInvariant, NEW n \in Nodes, NEW dest \in Keys, NEW id \in MessageIds,
         SendAck(n, dest, id)
  PROVE  RelayInvariant'
<1> USE DEF RelayInvariant
<1> DEFINE e == AckEnvelope(n, dest, id)
<1>1. PendingTyped' /\ RoutesTyped'
  BY PurgeOK DEF SendAck
<1>2. AcksTyped' /\ ackCount[n] + 1 \in 1 .. MaxAcks
  BY RelayConstants DEF SendAck, AcksTyped
<1>3. e \in Envelopes
  <2>1. CoarseTimestamp \in Nat
    BY RelayConstants, QueueLimits DEF CoarseTimestamp
  <2>2. [creator |-> n, number |-> ackCount[n] + 1] \in MessageIds
    BY <1>2 DEF MessageIds, AckIds
  <2>3. [acknowledges |-> id, signer |-> n] \in AckPayloads
    BY RelayConstants DEF AckPayloads
  <2>4. DefaultTtl \in Nat
    BY RelayConstants
  <2>5. QED
    BY <2>1, <2>2, <2>3, <2>4 DEF AckEnvelope, Envelopes
<1>4. QueueOK(Stored(queue[n], e, "origin", now))
  <2>1. "origin" \in Senders
    BY RelayConstants
  <2> HIDE DEF e
  <2>2. QED
    BY <1>3, <2>1, StoredFacts DEF QueuesTyped, QueueOK
<1>5. QueuesTyped'
  BY <1>4 DEF SendAck, QueuesTyped
<1>6. WireTyped'
  <2>1. HandOver({}) => WireTyped'
    BY HandOverOK
  <2>2. ASSUME NEW hop, HandOver({Frame(n, hop, e)})
        PROVE  WireTyped'
    <3> HIDE DEF e
    <3>1. \A f \in {Frame(n, hop, e)} :
            /\ f = [from |-> f.from, to |-> f.to, envelope |-> f.envelope]
            /\ f.from \in Nodes /\ f.envelope \in Envelopes
      BY <1>3 DEF Frame
    <3>2. QED
      BY <2>2, <3>1, HandOverOK
  <2>3. HandOver({}) \/ \E hop : HandOver({Frame(n, hop, e)})
    BY DEF SendAck
  <2>4. QED
    BY <2>1, <2>2, <2>3
<1>7. QED
  BY <1>1, <1>2, <1>5, <1>6 DEF SendAck, PeersTyped, TrustTyped, SeenTyped

\* Remembering an advertisement keeps the record's shape.
LEMMA SeenAlsoTyped ==
  ASSUME NEW seen, seen \in [DOMAIN seen -> Nat], now \in Nat, NEW k,
         NEW s \in SeenAlso(seen, k)
  PROVE  s \in [DOMAIN s -> Nat]
<1> DEFINE with(old) == [x \in old \cup {k} |-> IF x = k THEN now ELSE seen[x]]
<1>1. PICK old \in SUBSET DOMAIN seen : s = with(old)
  BY DEF SeenAlso
<1>2. QED
  BY <1>1

\* receiveAdvertisement: what is new is learned and remembered, and what waits
\* for it is sent.
LEMMA ReceiveAdvertisementOK ==
  ASSUME RelayInvariant, NEW n \in Nodes, NEW from \in Neighbours,
         NEW ad \in Advertisements, ReceiveAdvertisement(n, from, ad)
  PROVE  RelayInvariant'
<1> USE DEF RelayInvariant
<1> DEFINE accepted == /\ FreshAdvertisement(ad)
                       /\ from \in DOMAIN peers[n]
                       /\ <<from, ad>> \notin DOMAIN seenAds[n]
           table == Learned(LiveRoutes(n), from, ad.dests, peers[n][from], now)
<1>1. CASE accepted
  <2>1. ad.dests \in SUBSET Keys /\ peers[n][from] \in Sessions
    BY <1>1, RelayInputs DEF PeersTyped, PeersOK
  <2>2. TableOK(table)
    BY <2>1, LiveStateOK, LearnedTableOK
  <2>3. /\ routes' = [routes EXCEPT ![n] = table]
        /\ AttemptQueuedDelivery(n, ad.dests, table)
        /\ \E s \in SeenAlso(seenAds[n], <<from, ad>>) : seenAds' = [seenAds EXCEPT ![n] = s]
    BY <1>1 DEF ReceiveAdvertisement
  <2>4. \A s \in SeenAlso(seenAds[n], <<from, ad>>) : s \in [DOMAIN s -> Nat]
    <3>1. seenAds[n] \in [DOMAIN seenAds[n] -> Nat] /\ now \in Nat
      BY DEF SeenTyped
    <3>2. QED
      BY <3>1, SeenAlsoTyped
  <2>5. SeenTyped'
    BY <2>3, <2>4 DEF SeenTyped
  <2> HIDE DEF table
  <2>6. RoutesTyped'
    BY <2>2, <2>3 DEF RoutesTyped
  <2>7. PendingTyped' /\ QueuesTyped' /\ WireTyped'
    <3> DEFINE dests == ad.dests
    <3>1. dests \in SUBSET Keys /\ AttemptQueuedDelivery(n, dests, table)
      BY <2>1, <2>3
    <3> HIDE DEF dests
    <3>2. QED
      BY <3>1, AttemptOK
  <2>8. QED
    BY <2>5, <2>6, <2>7 DEF ReceiveAdvertisement, PeersTyped, TrustTyped, AcksTyped
<1>2. CASE ~accepted
  <2>1. PurgeStaleRoutingState(n) /\ HandOver({}) /\ UNCHANGED <<seenAds, queue>>
    BY <1>2 DEF ReceiveAdvertisement
  <2>2. PendingTyped' /\ RoutesTyped' /\ WireTyped'
    BY <2>1, PurgeOK, HandOverOK
  <2>3. QED
    BY <2>1, <2>2 DEF ReceiveAdvertisement, PeersTyped, TrustTyped, AcksTyped, SeenTyped,
                      QueuesTyped
<1>3. QED
  BY <1>1, <1>2

\* receiveEnvelope: dropped, or an answer credited, and delivered or relayed.
LEMMA ReceiveEnvelopeOK ==
  ASSUME RelayInvariant, NEW n \in Nodes, NEW from \in Senders, NEW e \in Envelopes,
         ReceiveEnvelope(n, from, e)
  PROVE  RelayInvariant'
<1> USE DEF RelayInvariant
<1>1. PeersTyped' /\ SeenTyped' /\ AcksTyped' /\ now' \in Nat
  BY DEF ReceiveEnvelope, PeersTyped, SeenTyped, AcksTyped
<1>2. CASE /\ PurgeStaleRoutingState(n)
           /\ HandOver({})
           /\ UNCHANGED <<trust, queue>>
  <2>1. PendingTyped' /\ RoutesTyped' /\ WireTyped'
    BY <1>2, PurgeOK, HandOverOK
  <2>2. QED
    BY <1>1, <1>2, <2>1 DEF TrustTyped, QueuesTyped
<1>3. CASE /\ ValidRoutingHeader(e, now, MaxAge)
           /\ Answers(n, from, e)
           /\ ProcessPendingAck(n, from, e)
  <2> DEFINE answered == e.payload.acknowledges
             pending == Restrict(LivePending(n), DOMAIN LivePending(n) \ {answered})
             route == <<LivePending(n)[answered].dest, from>>
             table == MarkedValidated(LiveRoutes(n), route, peers[n][from], now)
             scores == [trust[n] EXCEPT ![from] = @ + 1]
  <2>1. /\ routes' = [routes EXCEPT ![n] = table]
        /\ trust' = [trust EXCEPT ![n] = scores]
        /\ DeliverOrRelay(n, from, e, pending, table, scores)
    BY <1>3 DEF ProcessPendingAck
  <2>2. from \in DOMAIN peers[n]
    BY <1>3 DEF Answers
  <2>3. peers[n][from] \in Sessions /\ from \in Neighbours
    BY <2>2 DEF PeersTyped, PeersOK
  <2>4. TableOK(table)
    <3> HIDE DEF route
    <3>1. QED
      BY <2>3, LiveStateOK, MarkedTableOK
  <2>5. PendingOK(pending)
    BY LiveStateOK, RestrictedPendingOK
  <2>6. scores \in [Neighbours -> Nat]
    BY <2>3 DEF TrustTyped
  <2>7. e.ttl > 0
    BY <1>3 DEF ValidRoutingHeader
  <2> HIDE DEF table, pending, scores
  <2>8. PendingTyped' /\ QueuesTyped' /\ WireTyped'
    BY <2>1, <2>5, <2>7, DeliverOrRelayOK
  <2>9. RoutesTyped' /\ TrustTyped'
    BY <2>1, <2>4, <2>6 DEF RoutesTyped, TrustTyped
  <2>10. QED
    BY <1>1, <2>8, <2>9
<1>4. CASE /\ ValidRoutingHeader(e, now, MaxAge)
           /\ routes' = [routes EXCEPT ![n] = LiveRoutes(n)]
           /\ DeliverOrRelay(n, from, e, LivePending(n), LiveRoutes(n), trust[n])
           /\ UNCHANGED trust
  <2>1. e.ttl > 0
    BY <1>4 DEF ValidRoutingHeader
  <2>2. PendingTyped' /\ QueuesTyped' /\ WireTyped'
    BY <1>4, <2>1, LiveStateOK, DeliverOrRelayOK
  <2>3. RoutesTyped' /\ TrustTyped'
    BY <1>4, LiveStateOK DEF RoutesTyped, TrustTyped
  <2>4. QED
    BY <1>1, <2>2, <2>3
<1>5. QED
  BY <1>2, <1>3, <1>4 DEF ReceiveEnvelope

\* Every step keeps the invariant.
LEMMA RelayInvariantStep == RelayInvariant /\ [Next]_vars => RelayInvariant'
<1> SUFFICES ASSUME RelayInvariant, [Next]_vars
             PROVE  RelayInvariant'
  OBVIOUS
<1>1. ASSUME NEW n \in Nodes, NEW m \in Neighbours, NEW key \in Keys,
             RegisterAuthenticatedPeer(n, m, key)
      PROVE  RelayInvariant'
  BY <1>1, RegisterOK
<1>2. ASSUME NEW n \in Nodes, NEW m \in Neighbours, UnregisterAuthenticatedPeer(n, m)
      PROVE  RelayInvariant'
  BY <1>2, UnregisterOK
<1>3. ASSUME NEW n \in Nodes, NEW maxAge,
             \/ PurgeState(n) \/ PurgeStaleRoutes(n)
             \/ PurgeStaleRoutingAdvertisements(n, maxAge) \/ QueueSize(n)
      PROVE  RelayInvariant'
  BY <1>3, PurgesOK
<1>4. ASSUME NEW s \in Messages,
             SendEnvelope(s.at, s.envelope) \/ ReceiveEnvelope(s.at, "origin", s.envelope)
      PROVE  RelayInvariant'
  BY <1>4, RelayInputs, RelayConstants, SendEnvelopeOK, ReceiveEnvelopeOK
<1>5. ASSUME NEW n \in Nodes, NEW dest \in Keys, NEW id \in MessageIds, SendAck(n, dest, id)
      PROVE  RelayInvariant'
  BY <1>5, SendAckOK
<1>6. ASSUME NEW n \in Nodes, NEW m \in Neighbours, NEW ad \in Advertisements,
             ReceiveAdvertisement(n, m, ad)
      PROVE  RelayInvariant'
  BY <1>6, ReceiveAdvertisementOK
<1>7. ASSUME NEW f \in Injected \cup wire, ReceiveEnvelope(f.to, f.from, f.envelope)
      PROVE  RelayInvariant'
  <2>1. f.to \in Nodes /\ f.from \in Senders /\ f.envelope \in Envelopes
    BY RelayInputs, RelayConstants DEF RelayInvariant, WireTyped
  <2>2. QED
    BY <1>7, <2>1, ReceiveEnvelopeOK
<1>8. CASE Tick
  <2>1. WireTyped'
    BY <1>8, HandOverOK DEF RelayInvariant, Tick
  <2>2. QED
    BY <1>8, <2>1 DEF Tick, nodeVars, RelayInvariant, PeersTyped, RoutesTyped, PendingTyped,
                      TrustTyped, SeenTyped, QueuesTyped, AcksTyped
<1>9. CASE UNCHANGED vars
  BY <1>9 DEF vars, nodeVars, RelayInvariant, PeersTyped, RoutesTyped, PendingTyped,
              TrustTyped, SeenTyped, QueuesTyped, AcksTyped, WireTyped
<1>10. QED
  BY <1>1, <1>2, <1>3, <1>4, <1>5, <1>6, <1>7, <1>8, <1>9 DEF Next, SessionStep, NodeStep

\* The initial state satisfies it.
LEMMA RelayInvariantInit == Init => RelayInvariant
<1> SUFFICES ASSUME Init PROVE RelayInvariant
  OBVIOUS
<1> USE DEF Init
<1>1. PeersTyped /\ RoutesTyped /\ PendingTyped
  BY DEF PeersTyped, PeersOK, RoutesTyped, TableOK, IsTable, EmptyTable, PendingTyped,
         PendingOK, NoEntries
<1>2. TrustTyped /\ SeenTyped /\ AcksTyped
  BY RelayConstants DEF TrustTyped, SeenTyped, AcksTyped, NoEntries
<1>3. QueuesTyped
  BY EmptyQueueFacts DEF QueuesTyped, QueueOK
<1>4. WireTyped
  BY DEF WireTyped
<1>5. QED
  BY <1>1, <1>2, <1>3, <1>4 DEF RelayInvariant

\* The invariant holds in every behaviour.
LEMMA RelayInvariantHolds == Spec => []RelayInvariant
BY RelayInvariantInit, RelayInvariantStep, PTL DEF Spec

----------------------------------------------------------------------------
(* What a step does, as far as the action properties ask. *)

\* The routes of a table that purging and demoting leave are as they were.
LEMMA PurgedRoutesKept ==
  ASSUME NEW t, NEW lost, NEW time
  PROVE  /\ \A r \in DOMAIN PurgedRoutes(t, time) :
              r \in DOMAIN t /\ PurgedRoutes(t, time)[r] = t[r]
         /\ \A r \in DOMAIN DemotedAndPurged(t, lost, time) :
              r \in DOMAIN t \ lost /\ DemotedAndPurged(t, lost, time)[r] = t[r]
<1>1. /\ DOMAIN PurgedRoutes(t, time) \subseteq DOMAIN t
      /\ \A r \in DOMAIN PurgedRoutes(t, time) : PurgedRoutes(t, time)[r] = t[r]
  BY DEF PurgedRoutes, Restrict
<1>2. QED
  BY <1>1 DEF DemotedAndPurged, Restrict

\* A live send was answered for in time, and a live route is a route.
LEMMA LiveFacts ==
  ASSUME RelayInvariant, NEW n \in Nodes
  PROVE  /\ \A id \in DOMAIN LivePending(n) :
              /\ id \in DOMAIN pendingAcks[n]
              /\ LivePending(n)[id] = pendingAcks[n][id]
              /\ now - pendingAcks[n][id].sentAt < AckTimeout
         /\ \A r \in DOMAIN LiveRoutes(n) :
              r \in DOMAIN routes[n] /\ LiveRoutes(n)[r] = routes[n][r]
         /\ \A id \in Overdue(n) :
              <<pendingAcks[n][id].dest, pendingAcks[n][id].neighbor>> \notin DOMAIN LiveRoutes(n)
<1>1. PendingOK(pendingAcks[n]) /\ now \in Nat
  BY DEF RelayInvariant, PendingTyped
<1>2. \A id \in DOMAIN pendingAcks[n] : pendingAcks[n][id].sentAt \in Nat
  BY <1>1 DEF PendingOK, PendingAcks
<1>3. \A id \in DOMAIN LivePending(n) :
        /\ id \in DOMAIN pendingAcks[n] \ Overdue(n)
        /\ LivePending(n)[id] = pendingAcks[n][id]
  BY DEF LivePending, Restrict
<1>4. \A id \in DOMAIN LivePending(n) : now - pendingAcks[n][id].sentAt < AckTimeout
  BY <1>1, <1>2, <1>3, RelayConstants DEF Overdue
<1>5. QED
  BY <1>3, <1>4, PurgedRoutesKept DEF LiveRoutes

\* Forwarding or storing hands over at most the envelope, one hop on, to one of
\* the hops; an acknowledgement is not recorded as awaited.
LEMMA ForwardOrStoreDoes ==
  ASSUME NEW n, NEW e, NEW from, NEW hops, NEW pending,
         ForwardOrStore(n, e, from, hops, pending)
  PROVE  /\ \A f \in handed' : f = Frame(n, f.to, OneHopOn(e)) /\ f.to \in hops
         /\ queue' = queue \/ queue' = [queue EXCEPT ![n] = Stored(@, e, from, now)]
         /\ e.packetType = "Ack" => pendingAcks' = [pendingAcks EXCEPT ![n] = pending]
<1>1. ASSUME NEW hop, NEW sent, e.packetType = "Ack"
      PROVE  AfterForwarding(pending, {e}, sent, Via(e, hop)) = {pending}
  BY <1>1 DEF AfterForwarding
<1>2. CASE \E hop \in hops :
             /\ \E p \in AfterForwarding(pending, {e}, {e}, Via(e, hop)) :
                  pendingAcks' = [pendingAcks EXCEPT ![n] = p]
             /\ HandOver({Frame(n, hop, OneHopOn(e))})
             /\ UNCHANGED queue
  <2>1. PICK hop \in hops :
             /\ \E p \in AfterForwarding(pending, {e}, {e}, Via(e, hop)) :
                  pendingAcks' = [pendingAcks EXCEPT ![n] = p]
             /\ handed' = {Frame(n, hop, OneHopOn(e))}
             /\ UNCHANGED queue
    BY <1>2 DEF HandOver
  <2>2. Frame(n, hop, OneHopOn(e)).to = hop
    BY DEF Frame
  <2>3. QED
    BY <1>1, <2>1, <2>2
<1>3. CASE /\ \/ hops = {} /\ pendingAcks' = [pendingAcks EXCEPT ![n] = pending]
              \/ \E hop \in hops : \E p \in AfterForwarding(pending, {e}, {}, Via(e, hop)) :
                    pendingAcks' = [pendingAcks EXCEPT ![n] = p]
           /\ queue' = [queue EXCEPT ![n] = Stored(@, e, from, now)]
           /\ HandOver({})
  BY <1>1, <1>3 DEF HandOver
<1>4. QED
  BY <1>2, <1>3 DEF ForwardOrStore

\* The same of an envelope that may have reached its destination.
LEMMA DeliverOrRelayDoes ==
  ASSUME NEW n, NEW e, NEW from, NEW pending, NEW table, NEW scores,
         DeliverOrRelay(n, from, e, pending, table, scores)
  PROVE  /\ \A f \in handed' :
              /\ f = Frame(n, f.to, OneHopOn(e))
              /\ f.to \in Lookup(table, e.dest, peers[n], scores)
         /\ queue' = queue \/ queue' = [queue EXCEPT ![n] = Stored(@, e, from, now)]
         /\ e.packetType = "Ack" => pendingAcks' = [pendingAcks EXCEPT ![n] = pending]
<1>1. CASE e.dest = n
  BY <1>1 DEF DeliverOrRelay, HandOver
<1>2. CASE e.dest # n
  BY <1>2, ForwardOrStoreDoes DEF DeliverOrRelay
<1>3. QED
  BY <1>1, <1>2

\* One hop leaves everything but the ttl of an envelope as it is.
LEMMA OneHopOnKeeps ==
  ASSUME NEW e \in Envelopes
  PROVE  /\ OneHopOn(e).dest = e.dest /\ OneHopOn(e).id = e.id
         /\ OneHopOn(e).packetType = e.packetType
         /\ OneHopOn(e).ttl = e.ttl - 1
BY DEF OneHopOn, Envelopes

\* Every frame handed over is of an envelope of the queue, and goes where the
\* table leads it.
FramesFromQueue(n, table) ==
  \A f \in handed' :
    \E id \in DOMAIN queue[n].entries :
      LET e == queue[n].entries[id].envelope
      IN  /\ f = Frame(n, f.to, OneHopOn(e))
          /\ f.to \in Lookup(table, e.dest, peers[n], trust[n])

\* The queue keeps what it held, but for what expired or is handed over.
QueueKeepsRest(n) ==
  \E q : /\ queue' = [queue EXCEPT ![n] = q]
         /\ DOMAIN q.entries \subseteq DOMAIN queue[n].entries
         /\ \A id \in DOMAIN q.entries : q.entries[id] = queue[n].entries[id]
         /\ \A id \in DOMAIN queue[n].entries \ DOMAIN q.entries :
              \/ id \in Expired(queue[n], now, MaxAge)
              \/ \E f \in handed' : f.from = n /\ f.envelope.id = id

\* What an accepted advertisement's attempt takes from the queue, it hands over.
LEMMA AttemptDoes ==
  ASSUME RelayInvariant, NEW n \in Nodes, NEW dests \in SUBSET Keys, NEW table,
         AttemptQueuedDelivery(n, dests, table)
  PROVE  FramesFromQueue(n, table) /\ QueueKeepsRest(n)
<1>1. PICK hopTo \in HopChoices(n, dests, table) :
        LET reachable == {d \in dests : hopTo[d] # Null}
            purged == IF reachable = {} THEN queue[n] ELSE PurgeExpired(queue[n], now, MaxAge)
            batch == UNION {ByDestination(purged, d) : d \in reachable}
        IN  \E sent \in SUBSET batch :
              /\ \E p \in AfterForwarding(LivePending(n), batch, sent, hopTo) :
                   pendingAcks' = [pendingAcks EXCEPT ![n] = p]
              /\ queue' = [queue EXCEPT ![n] = RemoveByKey(purged, {e.id : e \in sent})]
              /\ HandOver({Frame(n, hopTo[e.dest], OneHopOn(e)) : e \in sent})
  BY DEF AttemptQueuedDelivery
<1> DEFINE reachable == {d \in dests : hopTo[d] # Null}
           purged == IF reachable = {} THEN queue[n] ELSE PurgeExpired(queue[n], now, MaxAge)
           batch == UNION {ByDestination(purged, d) : d \in reachable}
<1>2. PICK sent \in SUBSET batch :
              /\ queue' = [queue EXCEPT ![n] = RemoveByKey(purged, {e.id : e \in sent})]
              /\ HandOver({Frame(n, hopTo[e.dest], OneHopOn(e)) : e \in sent})
  BY <1>1
<1> DEFINE q == RemoveByKey(purged, {e.id : e \in sent})
<1>3. IsQueue(queue[n], Envelopes)
  BY DEF RelayInvariant, QueuesTyped, QueueOK
<1>4. /\ DOMAIN purged.entries \subseteq DOMAIN queue[n].entries
      /\ \A id \in DOMAIN purged.entries : purged.entries[id] = queue[n].entries[id]
      /\ DOMAIN queue[n].entries \ DOMAIN purged.entries \subseteq Expired(queue[n], now, MaxAge)
  BY DEF PurgeExpired, RemoveByKey, Restrict
<1>5. /\ DOMAIN q.entries = DOMAIN purged.entries \ {e.id : e \in sent}
      /\ \A id \in DOMAIN q.entries : q.entries[id] = purged.entries[id]
  <2> HIDE DEF purged
  <2>1. QED
    BY DEF RemoveByKey, Restrict
<1>6. ASSUME NEW e \in batch
      PROVE  \E id \in DOMAIN queue[n].entries :
               /\ queue[n].entries[id].envelope = e /\ e \in Envelopes /\ e.id = id
               /\ hopTo[e.dest] \in Lookup(table, e.dest, peers[n], trust[n])
  <2>1. PICK d \in reachable : e \in ByDestination(purged, d)
    OBVIOUS
  <2>2. PICK id \in DOMAIN purged.entries :
          purged.entries[id].envelope.dest = d /\ e = purged.entries[id].envelope
    BY <2>1 DEF ByDestination
  <2>3. id \in DOMAIN queue[n].entries /\ e = queue[n].entries[id].envelope
    BY <1>4, <2>2
  <2>4. e \in Envelopes /\ e.id = id
    BY <1>3, <2>3 DEF IsQueue
  <2>5. hopTo[d] \in Lookup(table, d, peers[n], trust[n])
    BY <2>1 DEF HopChoices
  <2>6. QED
    BY <2>2, <2>3, <2>4, <2>5
<1> HIDE DEF batch, purged, reachable, q
<1>7. ASSUME NEW f \in handed'
      PROVE  \E id \in DOMAIN queue[n].entries :
                LET e == queue[n].entries[id].envelope
                IN  /\ f = Frame(n, f.to, OneHopOn(e))
                    /\ f.to \in Lookup(table, e.dest, peers[n], trust[n])
  <2>1. PICK e \in sent : f = Frame(n, hopTo[e.dest], OneHopOn(e))
    BY <1>2, <1>7 DEF HandOver
  <2>2. f.to = hopTo[e.dest]
    BY <2>1 DEF Frame
  <2>3. PICK id \in DOMAIN queue[n].entries :
               /\ queue[n].entries[id].envelope = e
               /\ hopTo[e.dest] \in Lookup(table, e.dest, peers[n], trust[n])
    BY <1>6
  <2>4. QED
    BY <2>1, <2>2, <2>3
<1>8. ASSUME NEW id \in DOMAIN queue[n].entries \ DOMAIN q.entries
      PROVE  \/ id \in Expired(queue[n], now, MaxAge)
             \/ \E f \in handed' : f.from = n /\ f.envelope.id = id
  <2>1. CASE id \notin DOMAIN purged.entries
    BY <1>4, <2>1
  <2>2. CASE id \in DOMAIN purged.entries
    <3>1. PICK e \in sent : e.id = id
      BY <1>5, <2>2
    <3>2. e \in Envelopes
      BY <1>6
    <3>3. Frame(n, hopTo[e.dest], OneHopOn(e)) \in handed'
      BY <1>2 DEF HandOver
    <3>4. /\ Frame(n, hopTo[e.dest], OneHopOn(e)).from = n
          /\ Frame(n, hopTo[e.dest], OneHopOn(e)).envelope.id = id
      BY <3>1, <3>2, OneHopOnKeeps DEF Frame
    <3>5. QED
      BY <3>3, <3>4
  <2>3. QED
    BY <2>1, <2>2
<1>9. /\ queue' = [queue EXCEPT ![n] = q]
      /\ DOMAIN q.entries \subseteq DOMAIN queue[n].entries
      /\ \A id \in DOMAIN q.entries : q.entries[id] = queue[n].entries[id]
  BY <1>2, <1>4, <1>5 DEF q
<1>10. QED
  BY <1>7, <1>8, <1>9 DEF FramesFromQueue, QueueKeepsRest

----------------------------------------------------------------------------
(* Credit. *)

\* A step that keeps every score and only forgets routes earns nothing.
LEMMA ForgettingIsEarned ==
  ASSUME UNCHANGED trust,
         \A n \in Nodes : \A r \in DOMAIN routes'[n] :
           r \in DOMAIN routes[n] /\ routes'[n][r] = routes[n][r]
  PROVE  ChangesAreEarned
BY DEF ChangesAreEarned

\* An advertisement validates no route and binds none.
LEMMA LearnedIsEarned ==
  ASSUME RelayInvariant, NEW n \in Nodes, NEW from, NEW dests, NEW session, UNCHANGED trust,
         routes' = [routes EXCEPT ![n] = Learned(LiveRoutes(n), from, dests, session, now)]
  PROVE  ChangesAreEarned
<1> DEFINE live == LiveRoutes(n)
           new == Learned(live, from, dests, session, now)
<1>1. \A r \in DOMAIN live : r \in DOMAIN routes[n] /\ live[r] = routes[n][r]
  BY LiveFacts
<1>2. ASSUME NEW r \in DOMAIN new, new[r].status = "validated"
      PROVE  /\ r \in DOMAIN live /\ live[r].status = "validated"
             /\ new[r].binding = Null \/ new[r].binding = live[r].binding
  <2> HIDE DEF live
  <2>1. CASE r \in dests \X {from}
    <3>1. new[r] = [status    |-> IF StillValidated(live, r, now) THEN "validated" ELSE "probation",
                    expiresAt |-> now + (IF StillValidated(live, r, now) THEN ValidationTtl ELSE Probation),
                    binding   |-> IF r \in DOMAIN live /\ live[r].binding = session
                                    THEN session ELSE Null]
      BY <2>1 DEF Learned
    <3>2. QED
      BY <1>2, <3>1 DEF StillValidated
  <2>2. CASE r \notin dests \X {from}
    BY <1>2, <2>2 DEF Learned
  <2>3. QED
    BY <2>1, <2>2
<1> HIDE DEF new, live
<1>3. DOMAIN routes = Nodes
  BY DEF RelayInvariant, RoutesTyped
<1>4. ASSUME NEW k \in Nodes, NEW r \in DOMAIN routes'[k], routes'[k][r].status = "validated"
      PROVE  /\ r \in DOMAIN routes[k] /\ routes[k][r].status = "validated"
             /\ routes'[k][r].binding = Null \/ routes'[k][r].binding = routes[k][r].binding
  <2>1. CASE k = n
    <3>1. routes'[k] = new
      BY <1>3, <2>1 DEF new, live
    <3>2. QED
      BY <1>1, <1>2, <1>4, <2>1, <3>1
  <2>2. CASE k # n
    BY <1>3, <1>4, <2>2
  <2>3. QED
    BY <2>1, <2>2
<1>5. QED
  BY <1>4 DEF ChangesAreEarned

\* An answer earns the neighbour its point, and the route its validation.
LEMMA AnswerIsEarned ==
  ASSUME RelayInvariant, NEW n \in Nodes, NEW from, NEW e,
         Answers(n, from, e), ProcessPendingAck(n, from, e),
         received' = {Frame(from, n, e)}
  PROVE  ChangesAreEarned
<1> DEFINE answered == e.payload.acknowledges
           live == LivePending(n)
           left == Restrict(live, DOMAIN live \ {answered})
           route == <<live[answered].dest, from>>
           table == MarkedValidated(LiveRoutes(n), route, peers[n][from], now)
           scores == [trust[n] EXCEPT ![from] = @ + 1]
           signer == e.payload.signer
<1>1. /\ routes' = [routes EXCEPT ![n] = table]
      /\ trust' = [trust EXCEPT ![n] = scores]
      /\ DeliverOrRelay(n, from, e, left, table, scores)
  BY DEF ProcessPendingAck
<1>2. /\ e.packetType = "Ack" /\ answered \in DOMAIN live /\ from \in DOMAIN peers[n]
      /\ live[answered].neighbor = from /\ live[answered].dest = signer
  BY DEF Answers
<1>3. /\ answered \in DOMAIN pendingAcks[n] /\ live[answered] = pendingAcks[n][answered]
      /\ now - pendingAcks[n][answered].sentAt < AckTimeout
  BY <1>2, LiveFacts
<1>4. DOMAIN trust = Nodes /\ DOMAIN routes = Nodes /\ DOMAIN pendingAcks = Nodes
  BY DEF RelayInvariant, TrustTyped, RoutesTyped, PendingTyped
<1>5. pendingAcks' = [pendingAcks EXCEPT ![n] = left]
  <2> HIDE DEF left, table, scores
  <2>1. QED
    BY <1>1, <1>2, DeliverOrRelayDoes
<1>6. answered \notin DOMAIN pendingAcks'[n]
  BY <1>4, <1>5 DEF Restrict
<1> HIDE DEF live, left, table, scores
<1>7. AnswerComes(n, from, signer)
  <2> DEFINE f == Frame(from, n, e)
  <2>1. /\ f \in received' /\ f.to = n /\ f.from = from /\ f.envelope = e
    BY DEF Frame
  <2>2. /\ answered \in DOMAIN pendingAcks[n] \ DOMAIN pendingAcks'[n]
        /\ pendingAcks[n][answered].neighbor = from
        /\ pendingAcks[n][answered].dest = signer
    BY <1>2, <1>3, <1>6
  <2> HIDE DEF f
  <2>3. QED
    BY <1>2, <1>3, <2>1, <2>2 DEF AnswerComes
<1>8. signer \in Keys
  BY <1>2, <1>3 DEF RelayInvariant, PendingTyped, PendingOK, PendingAcks
<1> USE DEF live, left, table, scores
<1>9. ASSUME NEW k \in Nodes, NEW m \in Neighbours, trust'[k][m] # trust[k][m]
      PROVE  EarnsTrust(k, m)
  <2>1. trust[n] \in [Neighbours -> Nat]
    BY DEF RelayInvariant, TrustTyped
  <2>2. k = n /\ m = from /\ trust'[k][m] = trust[k][m] + 1
    BY <1>1, <1>4, <1>9, <2>1
  <2>3. QED
    BY <1>7, <1>8, <2>2 DEF EarnsTrust
<1>10. ASSUME NEW r \in DOMAIN table, r # route
      PROVE  r \in DOMAIN routes[n] /\ table[r] = routes[n][r]
  <2>1. r \in DOMAIN LiveRoutes(n) /\ table[r] = LiveRoutes(n)[r]
    <3> HIDE DEF route
    <3>1. QED
      BY <1>10 DEF MarkedValidated
  <2>2. QED
    BY <2>1, LiveFacts
<1>11. route \in DOMAIN table => table[route].binding = peers[n][from]
  <2> HIDE DEF route
  <2>1. QED
    BY DEF MarkedValidated
<1>12. route[1] = signer /\ route[2] = from
  BY <1>2
<1> HIDE DEF table, route, live, left, scores, answered, signer
<1>13. route \in DOMAIN routes'[n] => EarnsRoute(n, route)
  <2>1. routes'[n] = table
    BY <1>1, <1>4
  <2>2. QED
    BY <1>11, <1>12, <1>7, <2>1 DEF EarnsRoute
<1>14. ASSUME NEW k \in Nodes, NEW r \in DOMAIN routes'[k], k # n \/ r # route
      PROVE  r \in DOMAIN routes[k] /\ routes'[k][r] = routes[k][r]
  <2>1. CASE k = n
    BY <1>1, <1>4, <1>10, <1>14, <2>1
  <2>2. CASE k # n
    BY <1>1, <1>4, <1>14, <2>2
  <2>3. QED
    BY <2>1, <2>2
<1>15. QED
  BY <1>9, <1>13, <1>14 DEF ChangesAreEarned

\* Every step earns the credit it gives.
LEMMA StepsEarnCredit == RelayInvariant /\ [Next]_vars => [ChangesAreEarned]_vars
<1> SUFFICES ASSUME RelayInvariant, Next
             PROVE  ChangesAreEarned
  OBVIOUS
<1>1. DOMAIN routes = Nodes
  BY DEF RelayInvariant, RoutesTyped
<1>2. ASSUME UNCHANGED trust, UNCHANGED routes
      PROVE  ChangesAreEarned
  BY <1>2, ForgettingIsEarned
<1>3. ASSUME NEW n \in Nodes, UNCHANGED trust, routes' = [routes EXCEPT ![n] = LiveRoutes(n)]
      PROVE  ChangesAreEarned
  <2>1. \A k \in Nodes : \A r \in DOMAIN routes'[k] :
          r \in DOMAIN routes[k] /\ routes'[k][r] = routes[k][r]
    BY <1>1, <1>3, LiveFacts
  <2>2. QED
    BY <1>3, <2>1, ForgettingIsEarned
<1>4. CASE SessionStep
  BY <1>2, <1>4 DEF SessionStep, RegisterAuthenticatedPeer, UnregisterAuthenticatedPeer
<1>5. ASSUME NEW n \in Nodes, PurgeState(n)
      PROVE  ChangesAreEarned
  BY <1>3, <1>5 DEF PurgeState, PurgeStaleRoutingState
<1>6. ASSUME NEW n \in Nodes, PurgeStaleRoutes(n)
      PROVE  ChangesAreEarned
  <2>1. \A r \in DOMAIN PurgedRoutes(routes[n], now) :
          r \in DOMAIN routes[n] /\ PurgedRoutes(routes[n], now)[r] = routes[n][r]
    BY PurgedRoutesKept
  <2>2. \A k \in Nodes : \A r \in DOMAIN routes'[k] :
          r \in DOMAIN routes[k] /\ routes'[k][r] = routes[k][r]
    BY <1>1, <1>6, <2>1 DEF PurgeStaleRoutes
  <2>3. QED
    BY <1>6, <2>2, ForgettingIsEarned DEF PurgeStaleRoutes
<1>7. ASSUME NEW n \in Nodes, NEW maxAge,
             PurgeStaleRoutingAdvertisements(n, maxAge) \/ QueueSize(n)
      PROVE  ChangesAreEarned
  BY <1>2, <1>7 DEF PurgeStaleRoutingAdvertisements, QueueSize
<1>8. ASSUME NEW n \in Nodes, NEW e, SendEnvelope(n, e)
      PROVE  ChangesAreEarned
  BY <1>3, <1>8 DEF SendEnvelope
<1>9. ASSUME NEW n \in Nodes, NEW dest, NEW id, SendAck(n, dest, id)
      PROVE  ChangesAreEarned
  BY <1>3, <1>9 DEF SendAck, PurgeStaleRoutingState
<1>10. ASSUME NEW n \in Nodes, NEW m, NEW ad, ReceiveAdvertisement(n, m, ad)
       PROVE  ChangesAreEarned
  BY <1>3, <1>10, LearnedIsEarned DEF ReceiveAdvertisement, PurgeStaleRoutingState
<1>11. ASSUME NEW n \in Nodes, NEW from, NEW e, ReceiveEnvelope(n, from, e)
       PROVE  ChangesAreEarned
  BY <1>3, <1>11, AnswerIsEarned DEF ReceiveEnvelope, PurgeStaleRoutingState
<1>12. CASE Tick
  BY <1>2, <1>12 DEF Tick, nodeVars
<1>13. \A s \in Messages : s.at \in Nodes
  BY RelayInputs
<1>14. \A f \in Injected \cup wire : f.to \in Nodes
  BY RelayInputs DEF RelayInvariant, WireTyped
<1>15. QED
  BY <1>4, <1>5, <1>6, <1>7, <1>8, <1>9, <1>10, <1>11, <1>12, <1>13, <1>14 DEF Next, NodeStep

----------------------------------------------------------------------------
(* Hops. *)

\* A hop that lookup() names has a route, and a usable validated one if any hop
\* has.
LEMMA LookupFacts ==
  ASSUME NEW t, NEW dest, NEW p, NEW scores, NEW hop \in Lookup(t, dest, p, scores)
  PROVE  /\ hop \in DOMAIN p /\ <<dest, hop>> \in DOMAIN t
         /\ UsableHops(t, dest, "validated", p) # {} =>
              hop \in UsableHops(t, dest, "validated", p)
<1>1. /\ hop \in UsableHops(t, dest, "validated", p) \cup UsableHops(t, dest, "probation", p)
      /\ UsableHops(t, dest, "validated", p) # {} => hop \in UsableHops(t, dest, "validated", p)
  BY DEF Lookup
<1>2. QED
  BY <1>1 DEF UsableHops

\* A hop with a live route has left nothing unanswered.
LEMMA RoutedHopAnswers ==
  ASSUME RelayInvariant, NEW n \in Nodes, NEW r \in DOMAIN LiveRoutes(n)
  PROVE  ~Silent(n, r)
BY LiveFacts DEF Silent, Overdue

\* A validation takes nothing from the proved routes.
LEMMA ProvedAfterAnswer ==
  ASSUME NEW t, NEW dest, NEW p, NEW answered, NEW from, NEW time,
         UsableHops(t, dest, "validated", p) # {}
  PROVE  UsableHops(MarkedValidated(t, <<answered, from>>, p[from], time), dest, "validated", p) # {}
<1> DEFINE new == MarkedValidated(t, <<answered, from>>, p[from], time)
<1>1. PICK m \in DOMAIN p :
        /\ <<dest, m>> \in DOMAIN t
        /\ t[<<dest, m>>].status = "validated" /\ t[<<dest, m>>].binding = p[m]
  BY DEF UsableHops
<1>2. DOMAIN new = DOMAIN t
  BY DEF MarkedValidated
<1>3. CASE <<dest, m>> = <<answered, from>>
  <2>1. new[<<dest, m>>].status = "validated" /\ new[<<dest, m>>].binding = p[m]
    BY <1>1, <1>3 DEF MarkedValidated
  <2> HIDE DEF new
  <2>2. m \in UsableHops(new, dest, "validated", p)
    BY <1>1, <1>2, <2>1 DEF UsableHops
  <2>3. QED
    BY <2>2 DEF new
<1>4. CASE <<dest, m>> # <<answered, from>>
  <2>1. new[<<dest, m>>] = t[<<dest, m>>]
    BY <1>1, <1>4 DEF MarkedValidated
  <2> HIDE DEF new
  <2>2. m \in UsableHops(new, dest, "validated", p)
    BY <1>1, <1>2, <2>1 DEF UsableHops
  <2>3. QED
    BY <2>2 DEF new
<1>5. QED
  BY <1>3, <1>4

\* An advertisement leaves a proved route usable: it keeps the binding that the
\* present session made.
LEMMA ProvedAfterAdvertisement ==
  ASSUME NEW t, NEW dest, NEW p, NEW from, NEW dests, NEW time,
         \A r \in DOMAIN t : t[r].expiresAt > time,
         UsableHops(t, dest, "validated", p) # {}
  PROVE  UsableHops(Learned(t, from, dests, p[from], time), dest, "validated", p) # {}
<1> DEFINE new == Learned(t, from, dests, p[from], time)
<1>1. PICK m \in DOMAIN p :
        /\ <<dest, m>> \in DOMAIN t
        /\ t[<<dest, m>>].status = "validated" /\ t[<<dest, m>>].binding = p[m]
  BY DEF UsableHops
<1>2. <<dest, m>> \in DOMAIN new
  BY <1>1 DEF Learned
<1>3. StillValidated(t, <<dest, m>>, time)
  BY <1>1 DEF StillValidated
<1>4. new[<<dest, m>>].status = "validated" /\ new[<<dest, m>>].binding = p[m]
  <2>1. CASE <<dest, m>> \in dests \X {from}
    BY <1>1, <1>3, <2>1 DEF Learned
  <2>2. CASE <<dest, m>> \notin dests \X {from}
    BY <1>1, <2>2 DEF Learned
  <2>3. QED
    BY <2>1, <2>2
<1> HIDE DEF new
<1>5. m \in UsableHops(new, dest, "validated", p)
  BY <1>1, <1>2, <1>4 DEF UsableHops
<1>6. QED
  BY <1>5 DEF new

\* A step of n that purged its tables leaves it live routes, and those it has just
\* learned; the other nodes are left alone.
TablesAreLive(n) ==
  /\ \A k \in Nodes \ {n} : routes'[k] = routes[k] /\ pendingAcks'[k] = pendingAcks[k]
  /\ \A r \in DOMAIN routes'[n] : r \in DOMAIN LiveRoutes(n) \/ Advertised(n, r)

\* That is what replacing n's table by such a one does.
LEMMA ReplacedTablesLive ==
  ASSUME RelayInvariant, NEW n \in Nodes, NEW table,
         routes' = [routes EXCEPT ![n] = table],
         \E p : pendingAcks' = [pendingAcks EXCEPT ![n] = p],
         \A r \in DOMAIN table : r \in DOMAIN LiveRoutes(n) \/ Advertised(n, r)
  PROVE  TablesAreLive(n)
<1>1. DOMAIN routes = Nodes /\ DOMAIN pendingAcks = Nodes
  BY DEF RelayInvariant, RoutesTyped, PendingTyped
<1>2. routes'[n] = table /\ \A k \in Nodes \ {n} : routes'[k] = routes[k]
  BY <1>1
<1>3. \A k \in Nodes \ {n} : pendingAcks'[k] = pendingAcks[k]
  BY <1>1
<1>4. QED
  BY <1>2, <1>3 DEF TablesAreLive

\* What a step of n hands over is a frame of n, to the destination itself or over
\* a route that it leaves in n's table and that no validated one beats.
FramesWellSent(n) ==
  \A f \in handed' :
    /\ f.from = n
    /\ \/ f.to \in DirectPeers(n, f.envelope.dest)
       \/ /\ <<f.envelope.dest, f.to>> \in DOMAIN routes'[n]
          /\ UsableHops(LiveRoutes(n), f.envelope.dest, "validated", peers[n]) # {} =>
               f.to \in UsableHops(LiveRoutes(n), f.envelope.dest, "validated", peers[n])
                          \cup UsableHops(routes'[n], f.envelope.dest, "validated", peers[n])

\* Frames sent that way, over tables left that way, heed silence and prefer proved
\* routes.
LEMMA WellSentFrames ==
  ASSUME RelayInvariant, NEW n \in Nodes, TablesAreLive(n), FramesWellSent(n)
  PROVE  SilenceIsHeeded /\ ProvedRoutesPreferred
<1>1. SilentRouteDropped
  <2> SUFFICES ASSUME NEW k \in Nodes, NEW id \in DOMAIN pendingAcks[k],
                      now - pendingAcks[k][id].sentAt >= AckTimeout,
                      ~(/\ id \in DOMAIN pendingAcks'[k]
                        /\ pendingAcks'[k][id] = pendingAcks[k][id])
               PROVE  LET r == <<pendingAcks[k][id].dest, pendingAcks[k][id].neighbor>>
                      IN  r \notin DOMAIN routes'[k] \/ Advertised(k, r)
    BY DEF SilentRouteDropped
  <2> DEFINE r == <<pendingAcks[k][id].dest, pendingAcks[k][id].neighbor>>
  <2>1. k = n
    BY DEF TablesAreLive
  <2>2. r \notin DOMAIN LiveRoutes(n)
    BY <2>1, LiveFacts DEF Overdue
  <2> HIDE DEF r
  <2>3. r \notin DOMAIN routes'[k] \/ Advertised(k, r)
    BY <2>1, <2>2 DEF TablesAreLive
  <2>4. QED
    BY <2>3 DEF r
<1>2. RoutesAreAdvertised
  <2>1. \A r \in DOMAIN LiveRoutes(n) : r \in DOMAIN routes[n]
    BY LiveFacts
  <2>2. QED
    BY <2>1 DEF RoutesAreAdvertised, TablesAreLive
<1>3. FramesFollowRoutes
  <2> SUFFICES ASSUME NEW f \in handed', f.to \notin DirectPeers(f.from, f.envelope.dest)
               PROVE  LET r == <<f.envelope.dest, f.to>>
                      IN  /\ r \in DOMAIN routes'[f.from]
                          /\ Silent(f.from, r) => Advertised(f.from, r)
    BY DEF FramesFollowRoutes
  <2> DEFINE r == <<f.envelope.dest, f.to>>
  <2>1. f.from = n /\ r \in DOMAIN routes'[n]
    BY DEF FramesWellSent
  <2> HIDE DEF r
  <2>2. Silent(n, r) => Advertised(n, r)
    BY <2>1, RoutedHopAnswers DEF TablesAreLive
  <2>3. QED
    BY <2>1, <2>2 DEF r
<1>4. ProvedRoutesPreferred
  BY DEF FramesWellSent, ProvedRoutesPreferred
<1>5. QED
  BY <1>1, <1>2, <1>3, <1>4 DEF SilenceIsHeeded

\* Nothing handed over is well sent.
LEMMA NothingSent == ASSUME HandOver({}), NEW n PROVE FramesWellSent(n)
BY DEF HandOver, FramesWellSent

\* An envelope forwarded over a live route is well sent.
LEMMA ForwardedWellSent ==
  ASSUME RelayInvariant, NEW n \in Nodes, NEW e \in Envelopes, NEW scores,
         routes' = [routes EXCEPT ![n] = LiveRoutes(n)],
         \A f \in handed' : /\ f = Frame(n, f.to, OneHopOn(e))
                           /\ f.to \in Lookup(LiveRoutes(n), e.dest, peers[n], scores)
  PROVE  FramesWellSent(n)
<1>1. routes'[n] = LiveRoutes(n)
  BY DEF RelayInvariant, RoutesTyped
<1> SUFFICES ASSUME NEW f \in handed'
             PROVE  /\ f.from = n /\ f.envelope.dest = e.dest
                    /\ <<e.dest, f.to>> \in DOMAIN LiveRoutes(n)
                    /\ UsableHops(LiveRoutes(n), e.dest, "validated", peers[n]) # {} =>
                         f.to \in UsableHops(LiveRoutes(n), e.dest, "validated", peers[n])
  BY <1>1 DEF FramesWellSent
<1>2. f.from = n /\ f.envelope = OneHopOn(e)
  BY DEF Frame
<1>3. f.envelope.dest = e.dest
  BY <1>2, OneHopOnKeeps
<1>4. QED
  BY <1>2, <1>3, LookupFacts

\* Whatever handles an envelope at n replaces n's awaited acknowledgements only.
LEMMA PendingReplaced ==
  ASSUME NEW n,
         \/ PurgeStaleRoutingState(n)
         \/ \E e, from, hops, pending : ForwardOrStore(n, e, from, hops, pending)
         \/ \E from, e, pending, table, scores :
              DeliverOrRelay(n, from, e, pending, table, scores)
         \/ \E dests, table : AttemptQueuedDelivery(n, dests, table)
  PROVE  \E p : pendingAcks' = [pendingAcks EXCEPT ![n] = p]
<1>1. ASSUME NEW e, NEW from, NEW hops, NEW pending, ForwardOrStore(n, e, from, hops, pending)
      PROVE  \E p : pendingAcks' = [pendingAcks EXCEPT ![n] = p]
  BY <1>1 DEF ForwardOrStore
<1>2. ASSUME NEW e, NEW from, NEW pending, NEW table, NEW scores,
             DeliverOrRelay(n, from, e, pending, table, scores)
      PROVE  \E p : pendingAcks' = [pendingAcks EXCEPT ![n] = p]
  BY <1>1, <1>2 DEF DeliverOrRelay
<1>3. ASSUME NEW dests, NEW table, AttemptQueuedDelivery(n, dests, table)
      PROVE  \E p : pendingAcks' = [pendingAcks EXCEPT ![n] = p]
  BY <1>3 DEF AttemptQueuedDelivery
<1>4. QED
  BY <1>1, <1>2, <1>3 DEF PurgeStaleRoutingState

\* A step that purges n's table, and changes it no further, leaves live routes.
LEMMA PurgedTablesLive ==
  ASSUME RelayInvariant, NEW n \in Nodes, routes' = [routes EXCEPT ![n] = LiveRoutes(n)],
         \E p : pendingAcks' = [pendingAcks EXCEPT ![n] = p]
  PROVE  TablesAreLive(n)
<1> DEFINE table == LiveRoutes(n)
<1>1. routes' = [routes EXCEPT ![n] = table]
  OBVIOUS
<1>2. \A r \in DOMAIN table : r \in DOMAIN LiveRoutes(n) \/ Advertised(n, r)
  OBVIOUS
<1> HIDE DEF table
<1>3. QED
  BY <1>1, <1>2, ReplacedTablesLive

\* sendEnvelope and sendAck send well.
LEMMA SendsWell ==
  ASSUME RelayInvariant, NEW n \in Nodes,
         \/ \E e \in Envelopes : SendEnvelope(n, e)
         \/ \E dest, id : SendAck(n, dest, id)
  PROVE  TablesAreLive(n) /\ FramesWellSent(n)
<1>1. ASSUME NEW e \in Envelopes, SendEnvelope(n, e)
      PROVE  TablesAreLive(n) /\ FramesWellSent(n)
  <2> DEFINE direct == DirectPeers(n, e.dest)
             hops == IF direct # {} THEN direct
                     ELSE Lookup(LiveRoutes(n), e.dest, peers[n], trust[n])
  <2>1. routes' = [routes EXCEPT ![n] = LiveRoutes(n)]
    BY <1>1 DEF SendEnvelope
  <2>2. TablesAreLive(n)
    BY <1>1, <2>1, PendingReplaced, PurgedTablesLive DEF SendEnvelope
  <2>3. CASE ValidRoutingHeader(e, now, MaxAge)
    <3>1. ForwardOrStore(n, e, "origin", hops, LivePending(n))
      BY <1>1, <2>3 DEF SendEnvelope
    <3> HIDE DEF hops
    <3>2. \A f \in handed' : f = Frame(n, f.to, OneHopOn(e)) /\ f.to \in hops
      BY <3>1, ForwardOrStoreDoes
    <3>3. CASE direct = {}
      <4>1. hops = Lookup(LiveRoutes(n), e.dest, peers[n], trust[n])
        BY <3>3 DEF hops
      <4>2. QED
        BY <2>1, <2>2, <3>2, <4>1, ForwardedWellSent
    <3>4. CASE direct # {}
      <4>1. \A f \in handed' : f.from = n /\ f.envelope = OneHopOn(e) /\ f.to \in direct
        BY <3>2, <3>4 DEF hops, Frame
      <4>2. \A f \in handed' : f.from = n /\ f.to \in DirectPeers(n, f.envelope.dest)
        BY <4>1, OneHopOnKeeps
      <4>3. QED
        BY <2>2, <4>2 DEF FramesWellSent
    <3>5. QED
      BY <3>3, <3>4
  <2>4. CASE ~ValidRoutingHeader(e, now, MaxAge)
    BY <1>1, <2>2, <2>4, NothingSent DEF SendEnvelope
  <2>5. QED
    BY <2>3, <2>4
<1>2. ASSUME NEW dest, NEW id, SendAck(n, dest, id)
      PROVE  TablesAreLive(n) /\ FramesWellSent(n)
  <2>1. /\ PurgeStaleRoutingState(n)
        /\ \/ HandOver({})
           \/ \E hop \in Lookup(LiveRoutes(n), dest, peers[n], trust[n]) :
                HandOver({Frame(n, hop, AckEnvelope(n, dest, id))})
    BY <1>2 DEF SendAck
  <2>2. routes' = [routes EXCEPT ![n] = LiveRoutes(n)] /\ routes'[n] = LiveRoutes(n)
    BY <2>1 DEF PurgeStaleRoutingState, RelayInvariant, RoutesTyped
  <2>3. TablesAreLive(n)
    BY <2>1, <2>2, PendingReplaced, PurgedTablesLive
  <2>4. ASSUME NEW hop \in Lookup(LiveRoutes(n), dest, peers[n], trust[n]),
               HandOver({Frame(n, hop, AckEnvelope(n, dest, id))})
        PROVE  FramesWellSent(n)
    <3>1. \A f \in handed' : f.from = n /\ f.to = hop /\ f.envelope.dest = dest
      BY <2>4 DEF HandOver, Frame, AckEnvelope
    <3>2. QED
      BY <2>2, <3>1, LookupFacts DEF FramesWellSent
  <2>5. QED
    BY <2>1, <2>3, <2>4, NothingSent
<1>3. QED
  BY <1>1, <1>2

\* receiveAdvertisement sends well.
LEMMA AdvertisementSendsWell ==
  ASSUME RelayInvariant, NEW n \in Nodes, NEW from, NEW ad \in Advertisements,
         ReceiveAdvertisement(n, from, ad)
  PROVE  TablesAreLive(n) /\ FramesWellSent(n)
<1> DEFINE accepted == /\ FreshAdvertisement(ad)
                       /\ from \in DOMAIN peers[n]
                       /\ <<from, ad>> \notin DOMAIN seenAds[n]
           table == Learned(LiveRoutes(n), from, ad.dests, peers[n][from], now)
<1>1. CASE accepted
  <2>1. /\ routes' = [routes EXCEPT ![n] = table]
        /\ AttemptQueuedDelivery(n, ad.dests, table)
        /\ \E s \in SeenAlso(seenAds[n], <<from, ad>>) : seenAds' = [seenAds EXCEPT ![n] = s]
    BY <1>1 DEF ReceiveAdvertisement
  <2>2. ad.dests \in SUBSET Keys
    BY RelayInputs
  <2>3. TablesAreLive(n)
    <3>1. \A s \in SeenAlso(seenAds[n], <<from, ad>>) : <<from, ad>> \in DOMAIN s
      BY DEF SeenAlso
    <3>2. <<from, ad>> \in DOMAIN seenAds'[n] \ DOMAIN seenAds[n]
      BY <1>1, <2>1, <3>1 DEF RelayInvariant, SeenTyped
    <3>3. \A r \in ad.dests \X {from} : Advertised(n, r)
      BY <1>1, <3>2 DEF Advertised
    <3>4. DOMAIN table = DOMAIN LiveRoutes(n) \cup (ad.dests \X {from})
      BY DEF Learned
    <3>5. \E p : pendingAcks' = [pendingAcks EXCEPT ![n] = p]
      BY <2>1, PendingReplaced
    <3>6. routes' = [routes EXCEPT ![n] = table]
      BY <2>1
    <3> HIDE DEF table
    <3>7. \A r \in DOMAIN table : r \in DOMAIN LiveRoutes(n) \/ Advertised(n, r)
      BY <3>3, <3>4
    <3>8. QED
      BY <3>5, <3>6, <3>7, ReplacedTablesLive
  <2>4. routes'[n] = table
    BY <2>1 DEF RelayInvariant, RoutesTyped
  <2>5. \A dest : UsableHops(LiveRoutes(n), dest, "validated", peers[n]) # {} =>
                    UsableHops(table, dest, "validated", peers[n]) # {}
    BY LiveStateOK, ProvedAfterAdvertisement
  <2> HIDE DEF table
  <2>6. FramesFromQueue(n, table)
    <3>1. AttemptQueuedDelivery(n, ad.dests, table)
      BY <2>1
    <3>2. QED
      BY <2>2, <3>1, AttemptDoes
  <2>7. ASSUME NEW f \in handed'
        PROVE  f.from = n /\ f.to \in Lookup(table, f.envelope.dest, peers[n], trust[n])
    <3>1. PICK id \in DOMAIN queue[n].entries :
            LET e == queue[n].entries[id].envelope
            IN  /\ f = Frame(n, f.to, OneHopOn(e))
                /\ f.to \in Lookup(table, e.dest, peers[n], trust[n])
      BY <2>6 DEF FramesFromQueue
    <3>2. queue[n].entries[id].envelope \in Envelopes
      BY DEF RelayInvariant, QueuesTyped, QueueOK, IsQueue
    <3>3. f.from = n /\ f.envelope = OneHopOn(queue[n].entries[id].envelope)
      BY <3>1 DEF Frame
    <3>4. QED
      BY <3>1, <3>2, <3>3, OneHopOnKeeps
  <2>8. \A f \in handed' :
          /\ <<f.envelope.dest, f.to>> \in DOMAIN table
          /\ UsableHops(table, f.envelope.dest, "validated", peers[n]) # {} =>
               f.to \in UsableHops(table, f.envelope.dest, "validated", peers[n])
    BY <2>7, LookupFacts
  <2>9. QED
    BY <2>3, <2>4, <2>5, <2>7, <2>8 DEF FramesWellSent
<1>2. CASE ~accepted
  <2>1. PurgeStaleRoutingState(n) /\ HandOver({})
    BY <1>2 DEF ReceiveAdvertisement
  <2>2. QED
    BY <2>1, NothingSent, PendingReplaced, PurgedTablesLive DEF PurgeStaleRoutingState
<1>3. QED
  BY <1>1, <1>2

\* receiveEnvelope sends well.
LEMMA ReceiptSendsWell ==
  ASSUME RelayInvariant, NEW n \in Nodes, NEW from, NEW e \in Envelopes,
         ReceiveEnvelope(n, from, e)
  PROVE  TablesAreLive(n) /\ FramesWellSent(n)
<1>1. CASE PurgeStaleRoutingState(n) /\ HandOver({})
  BY <1>1, NothingSent, PendingReplaced, PurgedTablesLive DEF PurgeStaleRoutingState
<1>2. CASE ProcessPendingAck(n, from, e)
  <2> DEFINE answered == e.payload.acknowledges
             left == Restrict(LivePending(n), DOMAIN LivePending(n) \ {answered})
             table == MarkedValidated(LiveRoutes(n), <<LivePending(n)[answered].dest, from>>,
                                      peers[n][from], now)
             scores == [trust[n] EXCEPT ![from] = @ + 1]
  <2>1. routes' = [routes EXCEPT ![n] = table] /\ DeliverOrRelay(n, from, e, left, table, scores)
    BY <1>2 DEF ProcessPendingAck
  <2>2. routes'[n] = table
    BY <2>1 DEF RelayInvariant, RoutesTyped
  <2>3. DOMAIN table = DOMAIN LiveRoutes(n)
    BY DEF MarkedValidated
  <2>4. TablesAreLive(n)
    <3>1. \E p : pendingAcks' = [pendingAcks EXCEPT ![n] = p]
      BY <2>1, PendingReplaced
    <3>2. routes' = [routes EXCEPT ![n] = table]
      BY <2>1
    <3> HIDE DEF table
    <3>3. QED
      BY <2>3, <3>1, <3>2, ReplacedTablesLive
  <2>5. UsableHops(LiveRoutes(n), e.dest, "validated", peers[n]) # {} =>
          UsableHops(table, e.dest, "validated", peers[n]) # {}
    BY ProvedAfterAnswer
  <2> HIDE DEF left, table, scores
  <2>6. \A f \in handed' : /\ f = Frame(n, f.to, OneHopOn(e))
                          /\ f.to \in Lookup(table, e.dest, peers[n], scores)
    BY <2>1, DeliverOrRelayDoes
  <2>7. \A f \in handed' : f.from = n /\ f.envelope.dest = e.dest
    <3>1. \A f \in handed' : f.from = n /\ f.envelope = OneHopOn(e)
      BY <2>6 DEF Frame
    <3>2. QED
      BY <3>1, OneHopOnKeeps
  <2>8. \A f \in handed' :
          /\ <<e.dest, f.to>> \in DOMAIN table
          /\ UsableHops(table, e.dest, "validated", peers[n]) # {} =>
               f.to \in UsableHops(table, e.dest, "validated", peers[n])
    BY <2>6, LookupFacts
  <2>9. QED
    BY <2>2, <2>4, <2>5, <2>7, <2>8 DEF FramesWellSent
<1>3. CASE /\ routes' = [routes EXCEPT ![n] = LiveRoutes(n)]
           /\ DeliverOrRelay(n, from, e, LivePending(n), LiveRoutes(n), trust[n])
  <2>1. TablesAreLive(n)
    BY <1>3, PendingReplaced, PurgedTablesLive
  <2>2. QED
    BY <1>3, <2>1, DeliverOrRelayDoes, ForwardedWellSent
<1>4. QED
  BY <1>1, <1>2, <1>3 DEF ReceiveEnvelope

\* A step that hands nothing over, awaits what was awaited and at most forgets
\* routes gives no silent hop anything.
LEMMA QuietStepHeeds ==
  ASSUME HandOver({}), UNCHANGED pendingAcks,
         \A n \in Nodes : DOMAIN routes'[n] \subseteq DOMAIN routes[n]
  PROVE  SilenceIsHeeded /\ ProvedRoutesPreferred
<1>1. SilentRouteDropped
  BY DEF SilentRouteDropped
<1>2. RoutesAreAdvertised
  BY DEF RoutesAreAdvertised
<1>3. handed' = {}
  BY DEF HandOver
<1>4. QED
  BY <1>1, <1>2, <1>3 DEF SilenceIsHeeded, FramesFollowRoutes, ProvedRoutesPreferred

\* Every step that hands something over sends well, and the rest hand nothing
\* over.
LEMMA StepsSendWell ==
  ASSUME RelayInvariant, Next
  PROVE  SilenceIsHeeded /\ ProvedRoutesPreferred
<1>1. CASE HandOver({}) /\ UNCHANGED <<pendingAcks, routes>>
  BY <1>1, QuietStepHeeds
<1>2. ASSUME NEW n \in Nodes, PurgeStaleRoutes(n)
      PROVE  SilenceIsHeeded /\ ProvedRoutesPreferred
  <2>1. DOMAIN PurgedRoutes(routes[n], now) \subseteq DOMAIN routes[n]
    BY PurgedRoutesKept
  <2>2. \A k \in Nodes : DOMAIN routes'[k] \subseteq DOMAIN routes[k]
    BY <1>2, <2>1 DEF PurgeStaleRoutes, RelayInvariant, RoutesTyped
  <2>3. QED
    BY <1>2, <2>2, QuietStepHeeds DEF PurgeStaleRoutes
<1>3. ASSUME NEW n \in Nodes, PurgeState(n)
      PROVE  SilenceIsHeeded /\ ProvedRoutesPreferred
  <2>1. TablesAreLive(n) /\ FramesWellSent(n)
    BY <1>3, NothingSent, PendingReplaced, PurgedTablesLive DEF PurgeState, PurgeStaleRoutingState
  <2>2. QED
    BY <2>1, WellSentFrames
<1>4. ASSUME NEW s \in Messages,
             SendEnvelope(s.at, s.envelope) \/ ReceiveEnvelope(s.at, "origin", s.envelope)
      PROVE  SilenceIsHeeded /\ ProvedRoutesPreferred
  BY <1>4, RelayInputs, SendsWell, ReceiptSendsWell, WellSentFrames
<1>5. ASSUME NEW n \in Nodes, NEW dest, NEW id, SendAck(n, dest, id)
      PROVE  SilenceIsHeeded /\ ProvedRoutesPreferred
  BY <1>5, SendsWell, WellSentFrames
<1>6. ASSUME NEW n \in Nodes, NEW m, NEW ad \in Advertisements, ReceiveAdvertisement(n, m, ad)
      PROVE  SilenceIsHeeded /\ ProvedRoutesPreferred
  BY <1>6, AdvertisementSendsWell, WellSentFrames
<1>7. ASSUME NEW f \in Injected \cup wire, ReceiveEnvelope(f.to, f.from, f.envelope)
      PROVE  SilenceIsHeeded /\ ProvedRoutesPreferred
  <2>1. f.to \in Nodes /\ f.envelope \in Envelopes
    BY RelayInputs DEF RelayInvariant, WireTyped
  <2>2. QED
    BY <1>7, <2>1, ReceiptSendsWell, WellSentFrames
<1>8. QED
  BY <1>1, <1>2, <1>3, <1>4, <1>5, <1>6, <1>7
  DEF Next, SessionStep, NodeStep, RegisterAuthenticatedPeer, UnregisterAuthenticatedPeer,
      PurgeStaleRoutingAdvertisements, QueueSize, Tick, nodeVars

----------------------------------------------------------------------------
(* The queue. *)

\* Storing takes out of a queue only what has expired.
LEMMA StoredKeeps ==
  ASSUME NEW q, NEW e, NEW from, NEW t
  PROVE  /\ DOMAIN q.entries \ DOMAIN Stored(q, e, from, t).entries \subseteq Expired(q, t, MaxAge)
         /\ \A id \in DOMAIN Stored(q, e, from, t).entries :
              \/ id \in DOMAIN q.entries /\ Stored(q, e, from, t).entries[id] = q.entries[id]
              \/ id = e.id /\ Stored(q, e, from, t).entries[id].envelope = e
<1> DEFINE purged == PurgeExpired(q, t, MaxAge)
<1>1. /\ DOMAIN purged.entries = DOMAIN q.entries \ Expired(q, t, MaxAge)
      /\ \A id \in DOMAIN purged.entries : purged.entries[id] = q.entries[id]
  BY DEF PurgeExpired, RemoveByKey, Restrict
<1> HIDE DEF purged
<1>2. /\ DOMAIN Added(purged, e, from).entries = DOMAIN purged.entries \cup {e.id}
      /\ \A id \in DOMAIN Added(purged, e, from).entries :
           Added(purged, e, from).entries[id] =
             IF id = e.id THEN [envelope |-> e, receivedFrom |-> from] ELSE purged.entries[id]
  BY DEF Added
<1>3. Stored(q, e, from, t) \in {Added(purged, e, from), purged}
  BY DEF Stored, purged
<1>4. QED
  BY <1>1, <1>2, <1>3

\* Every step keeps what has not expired and is not handed over.
LEMMA StepsKeepUnsent == RelayInvariant /\ [Next]_vars => [UnsentIsKept]_vars
<1> SUFFICES ASSUME RelayInvariant, Next
             PROVE  UnsentIsKept
  OBVIOUS
<1>1. DOMAIN queue = Nodes
  BY DEF RelayInvariant, QueuesTyped
<1>2. ASSUME UNCHANGED queue
      PROVE  UnsentIsKept
  BY <1>2 DEF UnsentIsKept
<1>3. ASSUME NEW n \in Nodes, NEW e, NEW from, queue' = [queue EXCEPT ![n] = Stored(@, e, from, now)]
      PROVE  UnsentIsKept
  <2>1. queue'[n] = Stored(queue[n], e, from, now) /\ \A k \in Nodes \ {n} : queue'[k] = queue[k]
    BY <1>1, <1>3
  <2>2. QED
    BY <2>1, StoredKeeps DEF UnsentIsKept
<1>4. ASSUME NEW n \in Nodes, QueueSize(n)
      PROVE  UnsentIsKept
  <2>1. /\ queue'[n] = PurgeExpired(queue[n], now, MaxAge)
        /\ \A k \in Nodes \ {n} : queue'[k] = queue[k]
    BY <1>1, <1>4 DEF QueueSize
  <2>2. DOMAIN PurgeExpired(queue[n], now, MaxAge).entries
          = DOMAIN queue[n].entries \ Expired(queue[n], now, MaxAge)
    BY DEF PurgeExpired, RemoveByKey, Restrict
  <2>3. QED
    BY <2>1, <2>2 DEF UnsentIsKept
<1>5. ASSUME NEW n \in Nodes, NEW e, SendEnvelope(n, e)
      PROVE  UnsentIsKept
  BY <1>2, <1>3, <1>5, ForwardOrStoreDoes DEF SendEnvelope
<1>6. ASSUME NEW n \in Nodes, NEW dest, NEW id, SendAck(n, dest, id)
      PROVE  UnsentIsKept
  BY <1>2, <1>3, <1>6 DEF SendAck
<1>7. ASSUME NEW n \in Nodes, NEW m, NEW ad \in Advertisements, ReceiveAdvertisement(n, m, ad)
      PROVE  UnsentIsKept
  <2>1. ASSUME NEW table, AttemptQueuedDelivery(n, ad.dests, table)
        PROVE  UnsentIsKept
    <3>1. ad.dests \in SUBSET Keys
      BY RelayInputs
    <3>2. PICK q : /\ queue' = [queue EXCEPT ![n] = q]
                   /\ DOMAIN q.entries \subseteq DOMAIN queue[n].entries
                   /\ \A id \in DOMAIN q.entries : q.entries[id] = queue[n].entries[id]
                   /\ \A id \in DOMAIN queue[n].entries \ DOMAIN q.entries :
                        \/ id \in Expired(queue[n], now, MaxAge)
                        \/ \E f \in handed' : f.from = n /\ f.envelope.id = id
      <4>1. QueueKeepsRest(n)
        BY <2>1, <3>1, AttemptDoes
      <4>2. QED
        BY <4>1 DEF QueueKeepsRest
    <3>3. queue'[n] = q /\ \A k \in Nodes \ {n} : queue'[k] = queue[k]
      BY <1>1, <3>2
    <3>4. QED
      BY <3>2, <3>3 DEF UnsentIsKept
  <2>2. QED
    BY <1>2, <1>7, <2>1 DEF ReceiveAdvertisement
<1>8. ASSUME NEW n \in Nodes, NEW from, NEW e, ReceiveEnvelope(n, from, e)
      PROVE  UnsentIsKept
  <2>1. ASSUME NEW pending, NEW table, NEW scores, DeliverOrRelay(n, from, e, pending, table, scores)
        PROVE  UnsentIsKept
    BY <1>2, <1>3, <2>1, DeliverOrRelayDoes
  <2>2. QED
    BY <1>2, <1>8, <2>1 DEF ReceiveEnvelope, ProcessPendingAck
<1>9. \A s \in Messages : s.at \in Nodes
  BY RelayInputs
<1>10. \A f \in Injected \cup wire : f.to \in Nodes
  BY RelayInputs DEF RelayInvariant, WireTyped
<1>11. QED
  BY <1>2, <1>4, <1>5, <1>6, <1>7, <1>8, <1>9, <1>10
  DEF Next, SessionStep, NodeStep, RegisterAuthenticatedPeer, UnregisterAuthenticatedPeer,
      PurgeState, PurgeStaleRoutes, PurgeStaleRoutingAdvertisements, Tick, nodeVars

----------------------------------------------------------------------------
(* The bounds. *)

\* At most `max` things.
Bounded(S, max) == IsFiniteSet(S) /\ Cardinality(S) <= max

TablesFinite ==
  \A n \in Nodes :
    /\ Bounded(DOMAIN pendingAcks[n], MaxPendingAcks)
    /\ Bounded(DOMAIN seenAds[n], MaxSeenAds)

\* A part of a bounded set is bounded.
LEMMA BoundedSubset ==
  ASSUME NEW S, NEW max \in Nat, Bounded(S, max), NEW T \in SUBSET S
  PROVE  Bounded(T, max)
<1>1. IsFiniteSet(T) /\ Cardinality(T) <= Cardinality(S)
  BY FS_Subset DEF Bounded
<1>2. Cardinality(T) \in Nat /\ Cardinality(S) \in Nat
  BY <1>1, FS_CardinalityType DEF Bounded
<1>3. QED
  BY <1>1, <1>2 DEF Bounded

\* Recording acknowledgements keeps to the bound, however many they are.
LEMMA RecordedBounded ==
  ASSUME NEW p, Bounded(DOMAIN p, MaxPendingAcks), NEW records, IsFiniteSet(DOMAIN records)
  PROVE  \A q \in RecordedAcks(p, records) : Bounded(DOMAIN q, MaxPendingAcks)
<1> DEFINE all == [id \in DOMAIN p \cup DOMAIN records |->
                     IF id \in DOMAIN records THEN records[id] ELSE p[id]]
<1>1. /\ IsFiniteSet(DOMAIN all)
      /\ Cardinality(DOMAIN all) <= Cardinality(DOMAIN p) + Cardinality(DOMAIN records)
  <2>1. /\ IsFiniteSet(DOMAIN p \cup DOMAIN records)
        /\ Cardinality(DOMAIN p \cup DOMAIN records) =
             Cardinality(DOMAIN p) + Cardinality(DOMAIN records)
               - Cardinality(DOMAIN p \cap DOMAIN records)
    BY FS_Union DEF Bounded
  <2>2. IsFiniteSet(DOMAIN p \cap DOMAIN records)
    BY FS_Subset DEF Bounded
  <2>3. /\ Cardinality(DOMAIN p \cap DOMAIN records) \in Nat
        /\ Cardinality(DOMAIN p) \in Nat /\ Cardinality(DOMAIN records) \in Nat
    BY <2>2, FS_CardinalityType DEF Bounded
  <2>4. QED
    BY <2>1, <2>3
<1>2. Cardinality(DOMAIN all) \in Nat /\ MaxPendingAcks \in Nat
  BY <1>1, FS_CardinalityType, RelayConstants
<1>3. ASSUME NEW k \in SUBSET DOMAIN all, Cardinality(k) <= MaxPendingAcks
      PROVE  Bounded(DOMAIN Restrict(all, k), MaxPendingAcks)
  <2>1. DOMAIN Restrict(all, k) = k
    BY DEF Restrict
  <2>2. IsFiniteSet(k)
    BY <1>1, FS_Subset
  <2>3. QED
    BY <1>3, <2>1, <2>2 DEF Bounded
<1>4. Cardinality(DOMAIN p) + Cardinality(DOMAIN records) <= MaxPendingAcks =>
        Bounded(DOMAIN all, MaxPendingAcks)
  <2>1. Cardinality(DOMAIN p) \in Nat /\ Cardinality(DOMAIN records) \in Nat
    BY FS_CardinalityType DEF Bounded
  <2>2. QED
    BY <1>1, <1>2, <2>1 DEF Bounded
<1> HIDE DEF all
<1>5. QED
  BY <1>3, <1>4 DEF RecordedAcks, all

\* Forwarding a finite batch keeps to the bound.
LEMMA ForwardedBounded ==
  ASSUME NEW p, Bounded(DOMAIN p, MaxPendingAcks), NEW batch, IsFiniteSet(batch),
         NEW sent, NEW hopTo
  PROVE  \A q \in AfterForwarding(p, batch, sent, hopTo) : Bounded(DOMAIN q, MaxPendingAcks)
<1> DEFINE data == {e \in batch : e.packetType = "Data"}
           IdOf(id) == CHOOSE e \in data : e.id = id
           record(id) == [neighbor |-> hopTo[IdOf(id).dest], dest |-> IdOf(id).dest,
                          sentAt |-> now]
           ids == {e.id : e \in data}
           records == [id \in ids |-> record(id)]
           failed == {e.id : e \in data \ sent}
<1>1. IsFiniteSet(ids)
  <2>1. IsFiniteSet(data)
    BY FS_Subset
  <2> DEFINE idOf == [e \in data |-> e.id]
  <2>2. idOf \in Surjection(data, ids)
    <3> HIDE DEF data
    <3>1. QED
      BY DEF Surjection
  <2> HIDE DEF data, ids, idOf
  <2>3. QED
    BY <2>1, <2>2, FS_Surjection
<1>2. \A q \in RecordedAcks(p, records) : Bounded(DOMAIN q, MaxPendingAcks)
  <2>1. DOMAIN records = ids
    OBVIOUS
  <2> HIDE DEF records, ids
  <2>2. QED
    BY <1>1, <2>1, RecordedBounded
<1>3. \A q \in RecordedAcks(p, records) : Bounded(DOMAIN Restrict(q, DOMAIN q \ failed), MaxPendingAcks)
  <2> HIDE DEF records, failed
  <2>1. \A q : DOMAIN Restrict(q, DOMAIN q \ failed) \in SUBSET DOMAIN q
    BY DEF Restrict
  <2>2. MaxPendingAcks \in Nat
    BY RelayConstants
  <2>3. QED
    BY <1>2, <2>1, <2>2, BoundedSubset
<1>4. AfterForwarding(p, batch, sent, hopTo)
        = IF data = {} THEN {p}
          ELSE {Restrict(q, DOMAIN q \ failed) : q \in RecordedAcks(p, records)}
  BY DEF AfterForwarding
<1> HIDE DEF data, records, failed
<1>5. QED
  BY <1>3, <1>4

\* A node's tables stay bounded when the awaited acknowledgements are what
\* forwarding leaves, and the rest is forgotten or unchanged.
LEMMA PendingBounded ==
  ASSUME RelayInvariant, TablesFinite, NEW n \in Nodes, NEW p,
         Bounded(DOMAIN p, MaxPendingAcks), pendingAcks' = [pendingAcks EXCEPT ![n] = p]
  PROVE  \A k \in Nodes : Bounded(DOMAIN pendingAcks'[k], MaxPendingAcks)
BY DEF RelayInvariant, PendingTyped, TablesFinite

\* Purging, and forgetting one answered acknowledgement more, keeps the bound.
LEMMA LiveBounded ==
  ASSUME TablesFinite, NEW n \in Nodes, NEW S
  PROVE  /\ Bounded(DOMAIN LivePending(n), MaxPendingAcks)
         /\ Bounded(DOMAIN Restrict(LivePending(n), DOMAIN LivePending(n) \ S), MaxPendingAcks)
<1>1. MaxPendingAcks \in Nat
  BY RelayConstants
<1>2. DOMAIN LivePending(n) \in SUBSET DOMAIN pendingAcks[n]
  BY DEF LivePending, Restrict
<1>3. DOMAIN Restrict(LivePending(n), DOMAIN LivePending(n) \ S) \in SUBSET DOMAIN LivePending(n)
  BY DEF Restrict
<1>4. Bounded(DOMAIN LivePending(n), MaxPendingAcks)
  BY <1>1, <1>2, BoundedSubset DEF TablesFinite
<1>5. QED
  BY <1>1, <1>3, <1>4, BoundedSubset

\* Forwarding or storing keeps the bound.
LEMMA ForwardOrStoreBounded ==
  ASSUME RelayInvariant, TablesFinite, NEW n \in Nodes, NEW e, NEW from, NEW hops,
         NEW pending, Bounded(DOMAIN pending, MaxPendingAcks),
         ForwardOrStore(n, e, from, hops, pending)
  PROVE  \A k \in Nodes : Bounded(DOMAIN pendingAcks'[k], MaxPendingAcks)
<1>1. ASSUME NEW sent, NEW hop
      PROVE  \A p \in AfterForwarding(pending, {e}, sent, Via(e, hop)) :
               Bounded(DOMAIN p, MaxPendingAcks)
  BY FS_Singleton, ForwardedBounded
<1>2. \E p : Bounded(DOMAIN p, MaxPendingAcks) /\ pendingAcks' = [pendingAcks EXCEPT ![n] = p]
  BY <1>1 DEF ForwardOrStore
<1>3. QED
  BY <1>2, PendingBounded

\* The same of an envelope that may have reached its destination.
LEMMA DeliverOrRelayBounded ==
  ASSUME RelayInvariant, TablesFinite, NEW n \in Nodes, NEW e, NEW from,
         NEW pending, Bounded(DOMAIN pending, MaxPendingAcks), NEW table, NEW scores,
         DeliverOrRelay(n, from, e, pending, table, scores)
  PROVE  \A k \in Nodes : Bounded(DOMAIN pendingAcks'[k], MaxPendingAcks)
BY PendingBounded, ForwardOrStoreBounded DEF DeliverOrRelay

\* A retry of queued messages is a finite batch: it comes out of the queue.
LEMMA AttemptBounded ==
  ASSUME RelayInvariant, TablesFinite, NEW n \in Nodes, NEW dests, NEW table,
         AttemptQueuedDelivery(n, dests, table)
  PROVE  \A k \in Nodes : Bounded(DOMAIN pendingAcks'[k], MaxPendingAcks)
<1>1. PICK hopTo \in HopChoices(n, dests, table) :
        LET reachable == {d \in dests : hopTo[d] # Null}
            purged == IF reachable = {} THEN queue[n] ELSE PurgeExpired(queue[n], now, MaxAge)
            batch == UNION {ByDestination(purged, d) : d \in reachable}
        IN  \E sent \in SUBSET batch :
              \E p \in AfterForwarding(LivePending(n), batch, sent, hopTo) :
                   pendingAcks' = [pendingAcks EXCEPT ![n] = p]
  BY DEF AttemptQueuedDelivery
<1> DEFINE reachable == {d \in dests : hopTo[d] # Null}
           purged == IF reachable = {} THEN queue[n] ELSE PurgeExpired(queue[n], now, MaxAge)
           batch == UNION {ByDestination(purged, d) : d \in reachable}
           ids == DOMAIN purged.entries
           envelopes == {purged.entries[id].envelope : id \in ids}
           envelopeOf == [id \in ids |-> purged.entries[id].envelope]
<1>2. IsFiniteSet(ids)
  <2>1. IsFiniteSet(DOMAIN queue[n].entries)
    BY DEF RelayInvariant, QueuesTyped, QueueOK, CountsHold
  <2>2. ids \in SUBSET DOMAIN queue[n].entries
    BY DEF PurgeExpired, RemoveByKey, Restrict
  <2> HIDE DEF ids
  <2>3. QED
    BY <2>1, <2>2, FS_Subset
<1>3. batch \in SUBSET envelopes
  <2> HIDE DEF purged
  <2>1. QED
    BY DEF ByDestination
<1>4. envelopeOf \in Surjection(ids, envelopes)
  <2> HIDE DEF purged
  <2>1. QED
    BY DEF Surjection
<1> HIDE DEF ids, envelopes, envelopeOf, batch
<1>5. IsFiniteSet(batch)
  BY <1>2, <1>3, <1>4, FS_Surjection, FS_Subset
<1>6. PICK sent : \E p \in AfterForwarding(LivePending(n), batch, sent, hopTo) :
        pendingAcks' = [pendingAcks EXCEPT ![n] = p]
  BY <1>1 DEF batch
<1>7. \A p \in AfterForwarding(LivePending(n), batch, sent, hopTo) :
        Bounded(DOMAIN p, MaxPendingAcks)
  BY <1>5, LiveBounded, ForwardedBounded
<1>8. QED
  BY <1>6, <1>7, PendingBounded

\* Remembering one advertisement more keeps the bound: a full record forgets
\* one first.
LEMMA SeenAlsoBounded ==
  ASSUME NEW seen, Bounded(DOMAIN seen, MaxSeenAds), NEW k
  PROVE  \A s \in SeenAlso(seen, k) : Bounded(DOMAIN s, MaxSeenAds)
<1> DEFINE with(old) == [x \in old \cup {k} |-> IF x = k THEN now ELSE seen[x]]
<1>1. MaxSeenAds \in Nat \ {0} /\ Cardinality(DOMAIN seen) \in Nat
  BY RelayConstants, FS_CardinalityType DEF Bounded
<1>2. ASSUME NEW old \in SUBSET DOMAIN seen, Cardinality(old) < MaxSeenAds
      PROVE  Bounded(DOMAIN with(old), MaxSeenAds)
  <2>1. DOMAIN with(old) = old \cup {k}
    OBVIOUS
  <2>2. IsFiniteSet(old) /\ Cardinality(old) \in Nat
    BY FS_Subset, FS_CardinalityType DEF Bounded
  <2> HIDE DEF with
  <2>3. IsFiniteSet(old \cup {k}) /\ Cardinality(old \cup {k}) <= Cardinality(old) + 1
    BY <2>2, FS_AddElement
  <2>4. Cardinality(old \cup {k}) \in Nat
    BY <2>3, FS_CardinalityType
  <2>5. QED
    BY <1>1, <1>2, <2>1, <2>2, <2>3, <2>4 DEF Bounded
<1>3. ASSUME NEW victim \in DOMAIN seen
      PROVE  Cardinality(DOMAIN seen \ {victim}) < MaxSeenAds
  BY <1>1, FS_RemoveElement DEF Bounded
<1>4. SeenAlso(seen, k) = IF Cardinality(DOMAIN seen) < MaxSeenAds THEN {with(DOMAIN seen)}
                          ELSE {with(DOMAIN seen \ {victim}) : victim \in DOMAIN seen}
  BY DEF SeenAlso
<1> HIDE DEF with
<1>5. QED
  BY <1>2, <1>3, <1>4

\* Every step keeps both tables of every node bounded.
LEMMA TablesFiniteStep == RelayInvariant /\ TablesFinite /\ [Next]_vars => TablesFinite'
<1> SUFFICES ASSUME RelayInvariant, TablesFinite, [Next]_vars
             PROVE  TablesFinite'
  OBVIOUS
<1> DEFINE PendingFine == \A k \in Nodes : Bounded(DOMAIN pendingAcks'[k], MaxPendingAcks)
           SeenFine == \A k \in Nodes : Bounded(DOMAIN seenAds'[k], MaxSeenAds)
<1>1. UNCHANGED pendingAcks => PendingFine
  BY DEF TablesFinite
<1>2. UNCHANGED seenAds => SeenFine
  BY DEF TablesFinite
<1>3. DOMAIN seenAds = Nodes
  BY DEF RelayInvariant, SeenTyped
<1>4. ASSUME NEW n \in Nodes
      PROVE  /\ PurgeStaleRoutingState(n) => PendingFine
             /\ pendingAcks' = [pendingAcks EXCEPT ![n] = LivePending(n)] => PendingFine
  BY LiveBounded, PendingBounded DEF PurgeStaleRoutingState
<1>5. ASSUME NEW n \in Nodes, NEW s, Bounded(DOMAIN s, MaxSeenAds),
             seenAds' = [seenAds EXCEPT ![n] = s]
      PROVE  SeenFine
  BY <1>3, <1>5 DEF TablesFinite
<1> HIDE DEF PendingFine, SeenFine
<1>6. ASSUME SessionStep
      PROVE  PendingFine /\ SeenFine
  BY <1>1, <1>2, <1>6 DEF SessionStep, RegisterAuthenticatedPeer, UnregisterAuthenticatedPeer
<1>7. ASSUME NEW n \in Nodes, PurgeState(n) \/ PurgeStaleRoutes(n) \/ QueueSize(n)
      PROVE  PendingFine /\ SeenFine
  BY <1>1, <1>2, <1>4, <1>7 DEF PurgeState, PurgeStaleRoutes, QueueSize
<1>8. ASSUME NEW n \in Nodes, NEW maxAge, PurgeStaleRoutingAdvertisements(n, maxAge)
      PROVE  PendingFine /\ SeenFine
  <2> DEFINE s == Restrict(seenAds[n], {k \in DOMAIN seenAds[n] : now - seenAds[n][k] <= maxAge})
  <2>1. seenAds' = [seenAds EXCEPT ![n] = s] /\ UNCHANGED pendingAcks
    BY <1>8 DEF PurgeStaleRoutingAdvertisements
  <2>2. DOMAIN s \in SUBSET DOMAIN seenAds[n] /\ MaxSeenAds \in Nat
    BY RelayConstants DEF Restrict
  <2> HIDE DEF s
  <2>3. Bounded(DOMAIN s, MaxSeenAds)
    BY <2>2, BoundedSubset DEF TablesFinite
  <2>4. QED
    BY <1>1, <1>5, <2>1, <2>3
<1>9. ASSUME NEW n \in Nodes, NEW e, SendEnvelope(n, e)
      PROVE  PendingFine /\ SeenFine
  <2>1. ASSUME NEW hops, ForwardOrStore(n, e, "origin", hops, LivePending(n))
        PROVE  PendingFine
    BY <2>1, LiveBounded, ForwardOrStoreBounded DEF PendingFine
  <2>2. QED
    BY <1>2, <1>4, <1>9, <2>1 DEF SendEnvelope
<1>10. ASSUME NEW n \in Nodes, NEW dest, NEW id, SendAck(n, dest, id)
       PROVE  PendingFine /\ SeenFine
  BY <1>2, <1>4, <1>10 DEF SendAck
<1>11. ASSUME NEW n \in Nodes, NEW m, NEW ad, ReceiveAdvertisement(n, m, ad)
       PROVE  PendingFine /\ SeenFine
  <2>1. ASSUME NEW table, AttemptQueuedDelivery(n, ad.dests, table)
        PROVE  PendingFine
    BY <2>1, AttemptBounded DEF PendingFine
  <2>2. ASSUME NEW s \in SeenAlso(seenAds[n], <<m, ad>>), seenAds' = [seenAds EXCEPT ![n] = s]
        PROVE  SeenFine
    BY <1>5, <2>2, SeenAlsoBounded DEF TablesFinite
  <2>3. QED
    BY <1>2, <1>4, <1>11, <2>1, <2>2 DEF ReceiveAdvertisement
<1>12. ASSUME NEW n \in Nodes, NEW from, NEW e, ReceiveEnvelope(n, from, e)
       PROVE  PendingFine /\ SeenFine
  <2>1. ASSUME NEW table, NEW scores, DeliverOrRelay(n, from, e, LivePending(n), table, scores)
        PROVE  PendingFine
    BY <2>1, LiveBounded, DeliverOrRelayBounded DEF PendingFine
  <2>2. ASSUME ProcessPendingAck(n, from, e)
        PROVE  PendingFine
    <3> DEFINE answered == e.payload.acknowledges
               left == Restrict(LivePending(n), DOMAIN LivePending(n) \ {answered})
               table == MarkedValidated(LiveRoutes(n), <<LivePending(n)[answered].dest, from>>,
                                        peers[n][from], now)
               scores == [trust[n] EXCEPT ![from] = @ + 1]
    <3>1. DeliverOrRelay(n, from, e, left, table, scores)
      BY <2>2 DEF ProcessPendingAck
    <3>2. Bounded(DOMAIN left, MaxPendingAcks)
      BY LiveBounded
    <3> HIDE DEF left, table, scores
    <3>3. QED
      BY <3>1, <3>2, DeliverOrRelayBounded DEF PendingFine
  <2>3. QED
    BY <1>2, <1>4, <1>12, <2>1, <2>2 DEF ReceiveEnvelope
<1>13. ASSUME Tick \/ UNCHANGED vars
       PROVE  PendingFine /\ SeenFine
  <2>1. UNCHANGED <<pendingAcks, seenAds>>
    BY <1>13 DEF Tick, vars, nodeVars
  <2>2. QED
    BY <1>1, <1>2, <2>1
<1>14. \A s \in Messages : s.at \in Nodes
  BY RelayInputs
<1>15. \A f \in Injected \cup wire : f.to \in Nodes
  BY RelayInputs DEF RelayInvariant, WireTyped
<1>16. PendingFine /\ SeenFine
  BY <1>6, <1>7, <1>8, <1>9, <1>10, <1>11, <1>12, <1>13, <1>14, <1>15 DEF Next, NodeStep
<1>17. QED
  BY <1>16 DEF TablesFinite, PendingFine, SeenFine

----------------------------------------------------------------------------
(* Loops. *)

\* A Data envelope at n is n's own, or reached n as it is.
Traced(n, e) ==
  e.packetType = "Data" =>
    \/ \E s \in Messages : s.at = n /\ e = s.envelope
    \/ \E g \in wire \cup Injected : g.to = n /\ g.envelope = e

\* What LoopsDieOut needs of the queues: they change no ttl.
QueueTraced ==
  \A n \in Nodes : \A id \in DOMAIN queue[n].entries : Traced(n, queue[n].entries[id].envelope)

\* In a step, what n hands over and what the queues hold is traced.
StepTraced(n) ==
  /\ \A f \in handed' :
       f.envelope.packetType = "Data" =>
         \E e \in Envelopes : f = Frame(n, f.to, OneHopOn(e)) /\ Traced(n, e)
  /\ \A k \in Nodes : \A id \in DOMAIN queue'[k].entries :
       Traced(k, queue'[k].entries[id].envelope)

\* Nothing handed over, and at most purged queues, are traced.
LEMMA QuietStepTraced ==
  ASSUME QueueTraced, HandOver({}), NEW n,
         \A k \in Nodes : \A id \in DOMAIN queue'[k].entries :
           id \in DOMAIN queue[k].entries /\ queue'[k].entries[id] = queue[k].entries[id]
  PROVE  StepTraced(n)
BY DEF QueueTraced, HandOver, StepTraced

\* A queue that stores a traced envelope holds traced ones.
LEMMA StoredTraced ==
  ASSUME RelayInvariant, QueueTraced, NEW n \in Nodes, NEW e, NEW from, Traced(n, e),
         queue' = queue \/ queue' = [queue EXCEPT ![n] = Stored(@, e, from, now)]
  PROVE  \A k \in Nodes : \A id \in DOMAIN queue'[k].entries :
           Traced(k, queue'[k].entries[id].envelope)
<1>1. DOMAIN queue = Nodes
  BY DEF RelayInvariant, QueuesTyped
<1>2. \A id \in DOMAIN Stored(queue[n], e, from, now).entries :
        Traced(n, Stored(queue[n], e, from, now).entries[id].envelope)
  BY StoredKeeps DEF QueueTraced
<1>3. CASE queue' = queue
  BY <1>3 DEF QueueTraced
<1>4. CASE queue' = [queue EXCEPT ![n] = Stored(@, e, from, now)]
  <2>1. queue'[n] = Stored(queue[n], e, from, now) /\ \A k \in Nodes \ {n} : queue'[k] = queue[k]
    BY <1>1, <1>4
  <2>2. QED
    BY <1>2, <2>1 DEF QueueTraced
<1>5. QED
  BY <1>3, <1>4

\* Delivering, forwarding or storing a traced envelope.
LEMMA DeliverOrRelayTraced ==
  ASSUME RelayInvariant, QueueTraced, NEW n \in Nodes, NEW e \in Envelopes, Traced(n, e),
         NEW from, NEW pending,
         \/ \E hops : ForwardOrStore(n, e, from, hops, pending)
         \/ \E table, scores : DeliverOrRelay(n, from, e, pending, table, scores)
  PROVE  StepTraced(n)
<1>1. /\ \A f \in handed' : f = Frame(n, f.to, OneHopOn(e))
      /\ queue' = queue \/ queue' = [queue EXCEPT ![n] = Stored(@, e, from, now)]
  BY ForwardOrStoreDoes, DeliverOrRelayDoes
<1>2. QED
  BY <1>1, StoredTraced DEF StepTraced

\* A retry hands over what the queue held, and the queue keeps the rest.
LEMMA AttemptTraced ==
  ASSUME RelayInvariant, QueueTraced, NEW n \in Nodes, NEW dests \in SUBSET Keys, NEW table,
         AttemptQueuedDelivery(n, dests, table)
  PROVE  StepTraced(n)
<1>1. \A f \in handed' :
        \E id \in DOMAIN queue[n].entries :
          LET e == queue[n].entries[id].envelope
          IN  /\ f = Frame(n, f.to, OneHopOn(e))
              /\ f.to \in Lookup(table, e.dest, peers[n], trust[n])
  BY AttemptDoes DEF FramesFromQueue
<1>2. PICK q : /\ queue' = [queue EXCEPT ![n] = q]
               /\ DOMAIN q.entries \subseteq DOMAIN queue[n].entries
               /\ \A id \in DOMAIN q.entries : q.entries[id] = queue[n].entries[id]
               /\ \A id \in DOMAIN queue[n].entries \ DOMAIN q.entries :
                    \/ id \in Expired(queue[n], now, MaxAge)
                    \/ \E f \in handed' : f.from = n /\ f.envelope.id = id
  BY AttemptDoes DEF QueueKeepsRest
<1>3. DOMAIN queue = Nodes /\ IsQueue(queue[n], Envelopes)
  BY DEF RelayInvariant, QueuesTyped, QueueOK
<1>4. queue'[n] = q /\ \A k \in Nodes \ {n} : queue'[k] = queue[k]
  BY <1>2, <1>3
<1>5. \A k \in Nodes : \A id \in DOMAIN queue'[k].entries :
        Traced(k, queue'[k].entries[id].envelope)
  BY <1>2, <1>4 DEF QueueTraced
<1>6. ASSUME NEW f \in handed'
      PROVE  \E e \in Envelopes : f = Frame(n, f.to, OneHopOn(e)) /\ Traced(n, e)
  <2>1. PICK id \in DOMAIN queue[n].entries :
          f = Frame(n, f.to, OneHopOn(queue[n].entries[id].envelope))
    BY <1>1
  <2>2. queue[n].entries[id].envelope \in Envelopes
    BY <1>3 DEF IsQueue
  <2>3. QED
    BY <2>1, <2>2 DEF QueueTraced
<1>7. QED
  BY <1>5, <1>6 DEF StepTraced

\* receiveEnvelope of a traced envelope.
LEMMA ReceiptTraced ==
  ASSUME RelayInvariant, QueueTraced, NEW n \in Nodes, NEW from, NEW e \in Envelopes,
         Traced(n, e), ReceiveEnvelope(n, from, e)
  PROVE  StepTraced(n)
<1>1. \/ HandOver({}) /\ UNCHANGED queue
      \/ ProcessPendingAck(n, from, e)
      \/ DeliverOrRelay(n, from, e, LivePending(n), LiveRoutes(n), trust[n])
  BY DEF ReceiveEnvelope
<1>2. CASE HandOver({}) /\ UNCHANGED queue
  BY <1>2, QuietStepTraced
<1>3. CASE ProcessPendingAck(n, from, e)
  <2>1. \E pending, table, scores : DeliverOrRelay(n, from, e, pending, table, scores)
    BY <1>3 DEF ProcessPendingAck
  <2>2. QED
    BY <2>1, DeliverOrRelayTraced
<1>4. CASE DeliverOrRelay(n, from, e, LivePending(n), LiveRoutes(n), trust[n])
  BY <1>4, DeliverOrRelayTraced
<1>5. QED
  BY <1>1, <1>2, <1>3, <1>4

\* Every step is traced, at the node that makes it.
LEMMA StepsTraced ==
  ASSUME RelayInvariant, QueueTraced, Next
  PROVE  \E n : StepTraced(n)
<1>1. DOMAIN queue = Nodes
  BY DEF RelayInvariant, QueuesTyped
<1>2. ASSUME UNCHANGED queue, HandOver({})
      PROVE  \E n : StepTraced(n)
  BY <1>2, QuietStepTraced
<1>3. ASSUME NEW n \in Nodes, QueueSize(n)
      PROVE  StepTraced(n)
  <2>1. /\ queue'[n] = PurgeExpired(queue[n], now, MaxAge)
        /\ \A k \in Nodes \ {n} : queue'[k] = queue[k]
    BY <1>1, <1>3 DEF QueueSize
  <2>2. \A id \in DOMAIN PurgeExpired(queue[n], now, MaxAge).entries :
          /\ id \in DOMAIN queue[n].entries
          /\ PurgeExpired(queue[n], now, MaxAge).entries[id] = queue[n].entries[id]
    BY DEF PurgeExpired, RemoveByKey, Restrict
  <2>3. QED
    BY <1>3, <2>1, <2>2, QuietStepTraced DEF QueueSize
<1>4. ASSUME NEW s \in Messages, SendEnvelope(s.at, s.envelope)
      PROVE  s.at \in Nodes /\ StepTraced(s.at)
  <2>1. s.at \in Nodes /\ s.envelope \in Envelopes /\ Traced(s.at, s.envelope)
    BY RelayInputs DEF Traced
  <2>2. \/ HandOver({}) /\ UNCHANGED queue
        \/ \E hops, pending : ForwardOrStore(s.at, s.envelope, "origin", hops, pending)
    BY <1>4 DEF SendEnvelope
  <2>3. QED
    BY <2>1, <2>2, QuietStepTraced, DeliverOrRelayTraced
<1>5. ASSUME NEW n \in Nodes, NEW dest, NEW id, SendAck(n, dest, id)
      PROVE  StepTraced(n)
  <2> DEFINE e == AckEnvelope(n, dest, id)
  <2>1. e.packetType = "Ack"
    BY DEF AckEnvelope
  <2>2. \A f \in handed' : f.envelope = e
    BY <1>5 DEF SendAck, HandOver, Frame
  <2>3. queue' = queue \/ queue' = [queue EXCEPT ![n] = Stored(@, e, "origin", now)]
    BY <1>5 DEF SendAck
  <2> HIDE DEF e
  <2>4. Traced(n, e)
    BY <2>1 DEF Traced
  <2>5. \A k \in Nodes : \A i \in DOMAIN queue'[k].entries :
          Traced(k, queue'[k].entries[i].envelope)
    BY <2>3, <2>4, StoredTraced
  <2>6. QED
    BY <2>1, <2>2, <2>5 DEF StepTraced
<1>6. ASSUME NEW n \in Nodes, NEW m, NEW ad \in Advertisements, ReceiveAdvertisement(n, m, ad)
      PROVE  StepTraced(n)
  <2>1. ad.dests \in SUBSET Keys
    BY RelayInputs
  <2>2. \/ HandOver({}) /\ UNCHANGED queue
        \/ \E table : AttemptQueuedDelivery(n, ad.dests, table)
    BY <1>6 DEF ReceiveAdvertisement
  <2>3. QED
    BY <2>1, <2>2, QuietStepTraced, AttemptTraced
<1>7. ASSUME NEW s \in Messages, ReceiveEnvelope(s.at, "origin", s.envelope)
      PROVE  s.at \in Nodes /\ StepTraced(s.at)
  <2>1. s.at \in Nodes /\ s.envelope \in Envelopes /\ Traced(s.at, s.envelope)
    BY RelayInputs DEF Traced
  <2>2. QED
    BY <1>7, <2>1, ReceiptTraced
<1>8. ASSUME NEW f \in Injected \cup wire, ReceiveEnvelope(f.to, f.from, f.envelope)
      PROVE  f.to \in Nodes /\ StepTraced(f.to)
  <2>1. f.to \in Nodes /\ f.envelope \in Envelopes
    BY RelayInputs DEF RelayInvariant, WireTyped
  <2>2. Traced(f.to, f.envelope)
    BY DEF Traced
  <2>3. QED
    BY <1>8, <2>1, <2>2, ReceiptTraced
<1>9. QED
  BY <1>2, <1>3, <1>4, <1>5, <1>6, <1>7, <1>8
  DEF Next, SessionStep, NodeStep, RegisterAuthenticatedPeer, UnregisterAuthenticatedPeer,
      PurgeState, PurgeStaleRoutes, PurgeStaleRoutingAdvertisements, Tick, nodeVars

\* The frames of a step that are for a node join the wire.
LEMMA FramesJoinWire == Next => wire' = wire \cup {f \in handed' : f.to \in Nodes}
<1> DEFINE Joins == wire' = wire \cup {f \in handed' : f.to \in Nodes}
<1> SUFFICES ASSUME Next PROVE Joins
  OBVIOUS
<1>1. ASSUME NEW frames, HandOver(frames) PROVE Joins
  BY <1>1 DEF HandOver
<1> HIDE DEF Joins
<1>2. ASSUME NEW n, NEW e, NEW from, NEW hops, NEW pending,
             ForwardOrStore(n, e, from, hops, pending)
      PROVE  Joins
  <2>1. \E frames : HandOver(frames)
    BY <1>2 DEF ForwardOrStore
  <2>2. QED
    BY <1>1, <2>1
<1>3. ASSUME NEW n, NEW dests, NEW table, AttemptQueuedDelivery(n, dests, table)
      PROVE  Joins
  <2>1. \E frames : HandOver(frames)
    BY <1>3 DEF AttemptQueuedDelivery
  <2>2. QED
    BY <1>1, <2>1
<1>4. ASSUME NEW n, NEW from, NEW e, ReceiveEnvelope(n, from, e)
      PROVE  Joins
  <2>1. \/ HandOver({})
        \/ \E pending, table, scores : DeliverOrRelay(n, from, e, pending, table, scores)
    BY <1>4 DEF ReceiveEnvelope, ProcessPendingAck
  <2>2. QED
    BY <1>1, <1>2, <2>1 DEF DeliverOrRelay
<1>5. ASSUME NEW n, NEW e, SendEnvelope(n, e)
      PROVE  Joins
  <2>1. \/ HandOver({})
        \/ \E hops, pending : ForwardOrStore(n, e, "origin", hops, pending)
    BY <1>5 DEF SendEnvelope
  <2>2. QED
    BY <1>1, <1>2, <2>1
<1>6. ASSUME NEW n, NEW dest, NEW id, SendAck(n, dest, id)
      PROVE  Joins
  <2>1. \E frames : HandOver(frames)
    BY <1>6 DEF SendAck
  <2>2. QED
    BY <1>1, <2>1
<1>7. ASSUME NEW n, NEW m, NEW ad, ReceiveAdvertisement(n, m, ad)
      PROVE  Joins
  <2>1. \/ HandOver({})
        \/ \E table : AttemptQueuedDelivery(n, ad.dests, table)
    BY <1>7 DEF ReceiveAdvertisement
  <2>2. QED
    BY <1>1, <1>3, <2>1
<1>8. CASE HandOver({})
  BY <1>1, <1>8
<1>9. QED
  BY <1>4, <1>5, <1>6, <1>7, <1>8
  DEF Next, SessionStep, NodeStep, RegisterAuthenticatedPeer, UnregisterAuthenticatedPeer,
      PurgeState, PurgeStaleRoutes, PurgeStaleRoutingAdvertisements, QueueSize, Tick

\* Every step puts frames on the wire that have one hop less to live than what
\* caused them.
LEMMA LoopsDieOutStep ==
  RelayInvariant /\ QueueTraced /\ LoopsDieOut /\ [Next]_vars => (QueueTraced /\ LoopsDieOut)'
<1> SUFFICES ASSUME RelayInvariant, QueueTraced, LoopsDieOut, [Next]_vars
             PROVE  (QueueTraced /\ LoopsDieOut)'
  OBVIOUS
<1>1. CASE UNCHANGED vars
  BY <1>1 DEF vars, nodeVars, QueueTraced, Traced, LoopsDieOut
<1>2. CASE Next
  <2>1. PICK n : StepTraced(n)
    BY <1>2, StepsTraced
  <2>2. wire' = wire \cup {f \in handed' : f.to \in Nodes}
    BY <1>2, FramesJoinWire
  <2>3. QueueTraced'
    BY <2>1, <2>2 DEF StepTraced, QueueTraced, Traced
  <2>4. ASSUME NEW f \in wire', f.envelope.packetType = "Data"
        PROVE  \/ \E s \in Messages : s.at = f.from /\ f.envelope = OneHopOn(s.envelope)
               \/ \E g \in wire' \cup Injected :
                    /\ g.to = f.from /\ g.envelope.id = f.envelope.id
                    /\ g.envelope.ttl = f.envelope.ttl + 1
    <3>1. CASE f \in wire
      BY <2>2, <2>4, <3>1 DEF LoopsDieOut
    <3>2. CASE f \in handed'
      <4>1. PICK e \in Envelopes : f = Frame(n, f.to, OneHopOn(e)) /\ Traced(n, e)
        BY <2>1, <2>4, <3>2 DEF StepTraced
      <4>2. f.from = n /\ f.envelope = OneHopOn(e)
        BY <4>1 DEF Frame
      <4>3. /\ e.packetType = "Data" /\ e.id = f.envelope.id
            /\ e.ttl = f.envelope.ttl + 1
        <5>1. e.ttl \in Nat
          BY DEF Envelopes
        <5>2. QED
          BY <2>4, <4>2, <5>1, OneHopOnKeeps
      <4>4. QED
        BY <2>2, <4>1, <4>2, <4>3 DEF Traced
    <3>3. QED
      BY <2>2, <3>1, <3>2
  <2>5. LoopsDieOut'
    BY <2>4 DEF LoopsDieOut
  <2>6. QED
    BY <2>3, <2>5
<1>3. QED
  BY <1>1, <1>2

----------------------------------------------------------------------------
\* Every node's state, and the wire, keep their shape.
THEOREM RelayTypeCorrect == Spec => []TypeOK
BY RelayInvariantHolds, RelayInvariantMeaning, PTL

\* The relay never makes its queue lose count or exceed a limit.
THEOREM RelayQueuesSound == Spec => []QueuesSound
BY RelayInvariantHolds, RelayInvariantMeaning, PTL

\* No route on probation carries a binding.
THEOREM RelayProbationIsUnbound == Spec => []ProbationIsUnbound
BY RelayInvariantHolds, RelayInvariantMeaning, PTL

\* No interleaving of sends, failures and receipts makes a node await more
\* acknowledgements, or remember more advertisements, than it has room for.
THEOREM RelayTablesBounded == Spec => []TablesBounded
<1>1. Init => TablesFinite
  <2>1. MaxPendingAcks \in Nat /\ MaxSeenAds \in Nat
    BY RelayConstants
  <2>2. QED
    BY <2>1, FS_EmptySet DEF Init, NoEntries, TablesFinite, Bounded
<1>2. TablesFinite => TablesBounded
  BY DEF TablesFinite, Bounded, TablesBounded
<1>3. QED
  BY <1>1, <1>2, TablesFiniteStep, RelayInvariantHolds, PTL DEF Spec

\* A Data frame has one hop less to live than what caused it, so that a loop
\* of routes dies out.
THEOREM RelayLoopsDieOut == Spec => []LoopsDieOut
<1>1. Init => QueueTraced /\ LoopsDieOut
  BY DEF Init, EmptyQueue, QueueTraced, LoopsDieOut
<1>2. QED
  BY <1>1, LoopsDieOutStep, RelayInvariantHolds, PTL DEF Spec

\* A neighbour's score and a route's validation change only in a step that
\* receives an acknowledgement signed by the destination of a message handed to
\* that neighbour, over that neighbour, in time, and awaits it no longer.
THEOREM RelayCreditIsEarned == Spec => CreditIsEarned
BY StepsEarnCredit, RelayInvariantHolds, PTL DEF Spec, CreditIsEarned

\* The route of an acknowledgement that is given up leaves the table with it, comes
\* back only by that neighbour's advertisement of that destination, and what is
\* routed goes over routes of the table.
THEOREM RelaySilentHopAvoided == Spec => SilentHopAvoided
<1>1. RelayInvariant /\ [Next]_vars => [SilenceIsHeeded]_vars
  BY StepsSendWell
<1>2. QED
  BY <1>1, RelayInvariantHolds, PTL DEF Spec, SilentHopAvoided

\* A queue gives up only what has expired or is handed over.
THEOREM RelayQueueKeepsUnsent == Spec => QueueKeepsUnsent
BY StepsKeepUnsent, RelayInvariantHolds, PTL DEF Spec, QueueKeepsUnsent

\* No advertisement draws messages away from a proved route.
THEOREM RelayAdvertisementDoesNotDivert == Spec => AdvertisementDoesNotDivert
<1>1. RelayInvariant /\ [Next]_vars => [ProvedRoutesPreferred]_vars
  BY StepsSendWell
<1>2. QED
  BY <1>1, RelayInvariantHolds, PTL DEF Spec, AdvertisementDoesNotDivert
=============================================================================
