----------------------------- MODULE RelayNode -----------------------------
(***************************************************************************)
(* Relay nodes (class RelayNode of src/routing/routing.ts): authenticated  *)
(* peers, routes learned from advertisements and validated by end-to-end   *)
(* acknowledgements, trust, and the store-and-forward queue.  Data and Ack *)
(* packets only; sync and broadcast packets touch other state.             *)
(*                                                                         *)
(* Nodes are the modelled nodes.  Externals are neighbours whose program is *)
(* not modelled: any frame of Injected may arrive from them, at any        *)
(* time and any number of times.  A frame between two modelled nodes stays *)
(* on the wire for ever: one never received is lost, one received again is *)
(* a duplicate, and any order of receipt is possible.                      *)
(*                                                                         *)
(* Each handler runs to completion (the program is single-threaded), so it *)
(* is one action, at one instant of the clock.  A node's identity key is   *)
(* its own id, and a destination hint stands for the key it hashes.        *)
(***************************************************************************)
EXTENDS ForwardQueue, RoutingTable

CONSTANTS
  Nodes,           \* modelled nodes
  Externals,       \* neighbours outside the model
  KeysOf,          \* neighbour -> identity keys it may be registered with
  Messages,        \* Data envelopes the applications send: [at, envelope]
  Injected,        \* frames from Externals: [from, to, envelope]
  Advertisements,  \* routing advertisements: [advertiser, dests, timestamp]
  AckTimeout,      \* ROUTE_ACK_TIMEOUT_MS
  MaxPendingAcks,  \* MAX_PENDING_ACKS
  AdMaxAge,        \* MAX_ROUTING_AD_AGE_MS
  AdPurgeAges,     \* the age limits callers hand to purgeStaleRoutingAdvertisements()
  AdSkew,          \* MAX_ROUTING_AD_FUTURE_SKEW_MS
  MaxSeenAds,      \* MAX_SEEN_ROUTING_ADS
  DefaultTtl,      \* DEFAULT_TTL of an acknowledgement
  MaxAcks,         \* bound: acknowledgements a node creates
  MaxTrust,        \* bound: trust a neighbour reaches
  Horizon          \* bound on the clock

ASSUME RelayConstants ==
  /\ Neighbours = Nodes \cup Externals
  /\ Nodes \cap Externals = {}
  /\ Senders = Neighbours \cup {"origin"}
  /\ Nodes \subseteq Keys
  /\ KeysOf \in [Neighbours -> SUBSET Keys]
  /\ AckTimeout \in Nat \ {0}
  /\ MaxPendingAcks \in Nat \ {0}
  /\ {AdMaxAge, AdSkew, MaxAcks, MaxTrust, Horizon} \cup AdPurgeAges \subseteq Nat
  /\ MaxSeenAds \in Nat \ {0}
  /\ DefaultTtl \in Nat \ {0}
  /\ Skew > 0

VARIABLES
  peers,        \* authenticatedPeers: node -> neighbour -> session
  routes,       \* routingTable: node -> table
  pendingAcks,  \* node -> message id -> [neighbor, dest, sentAt]
  trust,        \* neighborTrust: node -> neighbour -> score, 0 if absent
  seenAds,      \* seenRoutingAdvertisements: node -> <<neighbour, ad>> -> when
  queue,        \* node -> store-and-forward queue
  ackCount,     \* acknowledgements each node has created
  wire,         \* frames given to the transport for a modelled node
  handed,       \* frames given to the transport by the last step
  received,     \* frames handed to receiveEnvelope by the last step
  arrived,      \* [from, to, dest, id] of every Data envelope ever accepted
  now           \* Date.now()

nodeVars == <<peers, routes, pendingAcks, trust, seenAds, queue, ackCount>>
vars == <<nodeVars, wire, handed, received, arrived, now>>

AckIds == [creator : Nodes, number : 1 .. MaxAcks]
MessageIds == {s.envelope.id : s \in Messages} \cup {f.envelope.id : f \in Injected} \cup AckIds
AckPayloads == [acknowledges : MessageIds, signer : Keys]
Envelopes ==
  [packetType : {"Data", "Ack"}, id : MessageIds, dest : Keys, ttl : Nat,
   timestamp : Nat, payload : AckPayloads \cup {Null}]
PendingAcks == [neighbor : Neighbours, dest : Keys, sentAt : Nat]

ASSUME RelayInputs ==
  /\ \A s \in Messages :
       s.at \in Nodes /\ s.envelope \in Envelopes /\ s.envelope.packetType = "Data"
  /\ \A f \in Injected :
       /\ f.from \in Externals
       /\ f.to \in Nodes
       /\ f.envelope \in Envelopes
       /\ f.envelope.packetType = "Ack" => f.envelope.payload \in AckPayloads
  /\ Advertisements \subseteq [advertiser : Keys, dests : SUBSET Keys, timestamp : Nat]

NoEntries == [x \in {} |-> x]

Init ==
  /\ peers = [n \in Nodes |-> NoEntries]
  /\ routes = [n \in Nodes |-> EmptyTable]
  /\ pendingAcks = [n \in Nodes |-> NoEntries]
  /\ trust = [n \in Nodes |-> [m \in Neighbours |-> 0]]
  /\ seenAds = [n \in Nodes |-> NoEntries]
  /\ queue = [n \in Nodes |-> EmptyQueue]
  /\ ackCount = [n \in Nodes |-> 0]
  /\ wire = {}
  /\ handed = {} /\ received = {}
  /\ arrived = {}
  /\ now = 0

----------------------------------------------------------------------------
(* What every handler does first: purgeStaleRoutingState. *)

\* The sends of n that were not acknowledged in time.
Overdue(n) == {id \in DOMAIN pendingAcks[n] : now - pendingAcks[n][id].sentAt >= AckTimeout}

\* A node that never gives up on an acknowledgement.
AllPending(n) == pendingAcks[n]

LivePending(n) == Restrict(pendingAcks[n], DOMAIN pendingAcks[n] \ Overdue(n))

\* A purge that forgets to demote the routes of the overdue sends.
UndemotedRoutes(n) == PurgedRoutes(routes[n], now)

LiveRoutes(n) ==
  DemotedAndPurged(routes[n],
                   {<<pendingAcks[n][id].dest, pendingAcks[n][id].neighbor>> : id \in Overdue(n)},
                   now)

PurgeStaleRoutingState(n) ==
  /\ pendingAcks' = [pendingAcks EXCEPT ![n] = LivePending(n)]
  /\ routes' = [routes EXCEPT ![n] = LiveRoutes(n)]

----------------------------------------------------------------------------
(* Sending. *)

\* Recording without making room.
UnboundedAcks(pending, records) ==
  {[id \in DOMAIN pending \cup DOMAIN records |->
      IF id \in DOMAIN records THEN records[id] ELSE pending[id]]}

\* recordPendingAck for each of `records` (message id -> record): the map with
\* the records set, less what had to make room.  The code evicts one record,
\* the first inserted, for each it sets while MAX_PENDING_ACKS are held; here
\* any old ones.
RecordedAcks(pending, records) ==
  LET all == [id \in DOMAIN pending \cup DOMAIN records |->
                IF id \in DOMAIN records THEN records[id] ELSE pending[id]]
      count == Cardinality(DOMAIN records)
  IN  IF Cardinality(DOMAIN pending) + count <= MaxPendingAcks THEN {all}
      ELSE {Restrict(all, kept) :
              kept \in {k \in SUBSET DOMAIN all :
                          /\ Cardinality(k) <= MaxPendingAcks
                          /\ Cardinality(DOMAIN all \ k) <= count
                          /\ k \cap DOMAIN records # {}}}

\* The pending acknowledgements after forwardOverTransport(e, hopTo[e.dest])
\* for every e of batch, the transport taking those of `sent`: each Data
\* envelope is recorded first, and forgotten again when the send fails.
AfterForwarding(pending, batch, sent, hopTo) ==
  LET data == {e \in batch : e.packetType = "Data"}
      IdOf(id) == CHOOSE e \in data : e.id = id
      record(id) == [neighbor |-> hopTo[IdOf(id).dest], dest |-> IdOf(id).dest, sentAt |-> now]
      failed == {e.id : e \in data \ sent}
  IN  IF data = {} THEN {pending}
      ELSE {Restrict(p, DOMAIN p \ failed) :
              p \in RecordedAcks(pending, [id \in {e.id : e \in data} |-> record(id)])}

\* A hop that leaves the ttl as it was.
SameTtl(e) == e

OneHopOn(e) == [e EXCEPT !.ttl = @ - 1]

\* The transport takes these frames.
HandOver(frames) ==
  /\ handed' = frames
  /\ wire' = wire \cup {f \in frames : f.to \in Nodes}

Frame(n, m, e) == [from |-> n, to |-> m, envelope |-> e]

Via(e, hop) == [d \in {e.dest} |-> hop]

\* Forward e over one of `hops`, or keep it in the queue when there is none or
\* the transport refuses it.
ForwardOrStore(n, e, from, hops, pending) ==
  \/ \E hop \in hops :
       /\ \E p \in AfterForwarding(pending, {e}, {e}, Via(e, hop)) :
            pendingAcks' = [pendingAcks EXCEPT ![n] = p]
       /\ HandOver({Frame(n, hop, OneHopOn(e))})
       /\ UNCHANGED queue
  \/ /\ \/ hops = {} /\ pendingAcks' = [pendingAcks EXCEPT ![n] = pending]
        \/ \E hop \in hops : \E p \in AfterForwarding(pending, {e}, {}, Via(e, hop)) :
              pendingAcks' = [pendingAcks EXCEPT ![n] = p]
     /\ queue' = [queue EXCEPT ![n] = Stored(@, e, from, now)]
     /\ HandOver({})

----------------------------------------------------------------------------
(* Calls of the application. *)

\* registerAuthenticatedPeer, also for a neighbour already registered.
RegisterAuthenticatedPeer(n, m, key) ==
  /\ peers' = [peers EXCEPT ![n] =
       [x \in DOMAIN @ \cup {m} |->
          IF x = m THEN [key |-> key, establishedAt |-> now] ELSE @[x]]]
  /\ HandOver({})
  /\ received' = {}
  /\ UNCHANGED <<routes, pendingAcks, trust, seenAds, queue, ackCount, arrived, now>>

UnregisterAuthenticatedPeer(n, m) ==
  /\ m \in DOMAIN peers[n]
  /\ peers' = [peers EXCEPT ![n] = Restrict(@, DOMAIN @ \ {m})]
  /\ HandOver({})
  /\ received' = {}
  /\ UNCHANGED <<routes, pendingAcks, trust, seenAds, queue, ackCount, arrived, now>>

\* purgeStaleRoutingState called from outside.
PurgeState(n) ==
  /\ PurgeStaleRoutingState(n)
  /\ HandOver({})
  /\ received' = {}
  /\ UNCHANGED <<peers, trust, seenAds, queue, ackCount, arrived, now>>

\* purgeStaleRoutes, and hasRoute, which purges before it looks.
PurgeStaleRoutes(n) ==
  /\ routes' = [routes EXCEPT ![n] = PurgedRoutes(@, now)]
  /\ HandOver({})
  /\ received' = {}
  /\ UNCHANGED <<peers, pendingAcks, trust, seenAds, queue, ackCount, arrived, now>>

\* purgeStaleRoutingAdvertisements, with the caller's own age limit.
PurgeStaleRoutingAdvertisements(n, maxAge) ==
  /\ seenAds' = [seenAds EXCEPT ![n] = Restrict(@, {k \in DOMAIN @ : now - @[k] <= maxAge})]
  /\ HandOver({})
  /\ received' = {}
  /\ UNCHANGED <<peers, routes, pendingAcks, trust, queue, ackCount, arrived, now>>

\* queueSize, which purges the queue before it counts.
QueueSize(n) ==
  /\ queue' = [queue EXCEPT ![n] = PurgeExpired(@, now, MaxAge)]
  /\ HandOver({})
  /\ received' = {}
  /\ UNCHANGED <<peers, routes, pendingAcks, trust, seenAds, ackCount, arrived, now>>

\* The peers that are the destination themselves.
DirectPeers(n, dest) == {m \in DOMAIN peers[n] : peers[n][m].key = dest}

\* A destination that is a peer is reached directly, without a route.
SendEnvelope(n, e) ==
  /\ routes' = [routes EXCEPT ![n] = LiveRoutes(n)]
  /\ IF ValidRoutingHeader(e, now, MaxAge)
       THEN LET direct == DirectPeers(n, e.dest)
                hops == IF direct # {} THEN direct
                        ELSE Lookup(LiveRoutes(n), e.dest, peers[n], trust[n])
            IN  ForwardOrStore(n, e, "origin", hops, LivePending(n))
       ELSE /\ pendingAcks' = [pendingAcks EXCEPT ![n] = LivePending(n)]
            /\ HandOver({})
            /\ UNCHANGED queue
  /\ received' = {}
  /\ UNCHANGED <<peers, trust, seenAds, ackCount, arrived, now>>

\* coarseTimestamp: rounded down to TIMESTAMP_GRANULARITY_SECONDS.
CoarseTimestamp == now - (now % Skew)

AckEnvelope(n, dest, id) ==
  [packetType |-> "Ack", id |-> [creator |-> n, number |-> ackCount[n] + 1], dest |-> dest,
   ttl |-> DefaultTtl, timestamp |-> CoarseTimestamp,
   payload |-> [acknowledges |-> id, signer |-> n]]

\* sendAck(dest, id), of a message delivered here.  It looks a route up even
\* for a peer, takes nothing off the ttl and records nothing; to the node
\* itself it is delivered at once, which changes no state.
SendAck(n, dest, id) ==
  /\ ackCount[n] < MaxAcks
  /\ \E a \in arrived : a.to = n /\ a.dest = n /\ a.id = id
  /\ PurgeStaleRoutingState(n)
  /\ ackCount' = [ackCount EXCEPT ![n] = @ + 1]
  /\ LET e == AckEnvelope(n, dest, id)
     IN  \/ dest = n /\ HandOver({}) /\ UNCHANGED queue
         \/ /\ dest # n
            /\ \E hop \in Lookup(LiveRoutes(n), dest, peers[n], trust[n]) :
                 HandOver({Frame(n, hop, e)})
            /\ UNCHANGED queue
         \/ /\ dest # n
            /\ queue' = [queue EXCEPT ![n] = Stored(@, e, "origin", now)]
            /\ HandOver({})
  /\ received' = {}
  /\ UNCHANGED <<peers, trust, seenAds, arrived, now>>

----------------------------------------------------------------------------
(* Advertisements. *)

\* verifyRoutingAdvertisement; the signature is taken to be good.
FreshAdvertisement(ad) == ad.timestamp >= now - AdMaxAge /\ ad.timestamp <= now + AdSkew

\* seenRoutingAdvertisements with k added: when MAX_SEEN_ROUTING_ADS are held
\* the first inserted makes room; here any.
SeenAlso(seen, k) ==
  LET with(old) == [x \in old \cup {k} |-> IF x = k THEN now ELSE seen[x]]
  IN  IF Cardinality(DOMAIN seen) < MaxSeenAds THEN {with(DOMAIN seen)}
      ELSE {with(DOMAIN seen \ {victim}) : victim \in DOMAIN seen}

\* The neighbours to which each of `dests` can be sent under `table`.
HopChoices(n, dests, table) ==
  {h \in [dests -> Neighbours \cup {Null}] :
     \A d \in dests :
       LET hops == Lookup(table, d, peers[n], trust[n])
       IN  IF hops = {} THEN h[d] = Null ELSE h[d] \in hops}

\* A delivery attempt that empties the queue of everything it tried.
AttemptAndForget(n, dests, table) ==
  \E hopTo \in HopChoices(n, dests, table) :
    LET reachable == {d \in dests : hopTo[d] # Null}
        purged == IF reachable = {} THEN queue[n] ELSE PurgeExpired(queue[n], now, MaxAge)
        batch == UNION {ByDestination(purged, d) : d \in reachable}
    IN  \E sent \in SUBSET batch :
          /\ \E p \in AfterForwarding(LivePending(n), batch, sent, hopTo) :
               pendingAcks' = [pendingAcks EXCEPT ![n] = p]
          /\ queue' = [queue EXCEPT ![n] = RemoveByKey(purged, {e.id : e \in batch})]
          /\ HandOver({Frame(n, hopTo[e.dest], OneHopOn(e)) : e \in sent})

\* attemptQueuedDelivery for each of `dests`: what the queue holds for a
\* destination that has a next hop is handed to it; what the transport takes
\* leaves the queue, what it refuses stays.
AttemptQueuedDelivery(n, dests, table) ==
  \E hopTo \in HopChoices(n, dests, table) :
    LET reachable == {d \in dests : hopTo[d] # Null}
        purged == IF reachable = {} THEN queue[n] ELSE PurgeExpired(queue[n], now, MaxAge)
        batch == UNION {ByDestination(purged, d) : d \in reachable}
    IN  \E sent \in SUBSET batch :
          /\ \E p \in AfterForwarding(LivePending(n), batch, sent, hopTo) :
               pendingAcks' = [pendingAcks EXCEPT ![n] = p]
          /\ queue' = [queue EXCEPT ![n] = RemoveByKey(purged, {e.id : e \in sent})]
          /\ HandOver({Frame(n, hopTo[e.dest], OneHopOn(e)) : e \in sent})

\* receiveAdvertisement: stale, from a stranger, or seen before, and nothing
\* but the purge happens; else the routes are learned and tried.
ReceiveAdvertisement(n, from, ad) ==
  /\ IF /\ FreshAdvertisement(ad)
        /\ from \in DOMAIN peers[n]
        /\ <<from, ad>> \notin DOMAIN seenAds[n]
       THEN LET table == Learned(LiveRoutes(n), from, ad.dests, peers[n][from], now)
            IN  /\ \E s \in SeenAlso(seenAds[n], <<from, ad>>) :
                     seenAds' = [seenAds EXCEPT ![n] = s]
                /\ routes' = [routes EXCEPT ![n] = table]
                /\ AttemptQueuedDelivery(n, ad.dests, table)
       ELSE /\ PurgeStaleRoutingState(n)
            /\ HandOver({})
            /\ UNCHANGED <<seenAds, queue>>
  /\ received' = {}
  /\ UNCHANGED <<peers, trust, ackCount, arrived, now>>

----------------------------------------------------------------------------
(* Frames. *)

\* A check that takes anybody's signature.
AnswersForAnyone(n, from, e) ==
  /\ e.packetType = "Ack"
  /\ e.payload.acknowledges \in DOMAIN LivePending(n)
  /\ from \in DOMAIN peers[n]
  /\ LivePending(n)[e.payload.acknowledges].neighbor = from

\* processPendingAck succeeds: the destination signed the acknowledgement of a
\* message still awaited, and it came back over the neighbour it was sent to.
Answers(n, from, e) ==
  /\ e.packetType = "Ack"
  /\ e.payload.acknowledges \in DOMAIN LivePending(n)
  /\ from \in DOMAIN peers[n]
  /\ LET pending == LivePending(n)[e.payload.acknowledges]
     IN  pending.neighbor = from /\ pending.dest = e.payload.signer

\* An acknowledgement that goes no further: awaited but not answered, or
\* addressed to this node and not awaited.
Unwanted(n, from, e) ==
  /\ e.packetType = "Ack"
  /\ ~Answers(n, from, e)
  /\ e.payload.acknowledges \in DOMAIN LivePending(n) \/ e.dest = n

\* The end of receiveEnvelope: deliver here, or pass on.
DeliverOrRelay(n, from, e, pending, table, scores) ==
  IF e.dest = n
    THEN /\ pendingAcks' = [pendingAcks EXCEPT ![n] = pending]
         /\ HandOver({})
         /\ UNCHANGED queue
    ELSE ForwardOrStore(n, e, from, Lookup(table, e.dest, peers[n], scores), pending)

\* A trust score moved the wrong way.
TrustLowered(n, from, e) ==
  LET answered == e.payload.acknowledges
      pending == LivePending(n)
  IN  /\ routes' = [routes EXCEPT ![n] = LiveRoutes(n)]
      /\ trust' = [trust EXCEPT ![n][from] = @ - 1]
      /\ DeliverOrRelay(n, from, e, Restrict(pending, DOMAIN pending \ {answered}),
                        LiveRoutes(n), trust[n])

\* What an answer earns: the route is validated, if it is still there, the
\* neighbour gains a point, and the acknowledgement travels on.
ProcessPendingAck(n, from, e) ==
  LET answered == e.payload.acknowledges
      pending == LivePending(n)
      table == MarkedValidated(LiveRoutes(n), <<pending[answered].dest, from>>, peers[n][from], now)
      scores == [trust[n] EXCEPT ![from] = @ + 1]
  IN  /\ routes' = [routes EXCEPT ![n] = table]
      /\ trust' = [trust EXCEPT ![n] = scores]
      /\ DeliverOrRelay(n, from, e, Restrict(pending, DOMAIN pending \ {answered}), table, scores)

\* receiveEnvelope of a Data or Ack envelope.  The application, too, may call
\* it for a message of its own (fromNodeId null), which stands as "origin".
ReceiveEnvelope(n, from, e) ==
  /\ \/ /\ ~ValidRoutingHeader(e, now, MaxAge) \/ Unwanted(n, from, e)
        /\ PurgeStaleRoutingState(n)
        /\ HandOver({})
        /\ UNCHANGED <<trust, queue>>
     \/ /\ ValidRoutingHeader(e, now, MaxAge)
        /\ Answers(n, from, e)
        /\ trust[n][from] < MaxTrust
        /\ ProcessPendingAck(n, from, e)
     \/ /\ ValidRoutingHeader(e, now, MaxAge)
        /\ ~Answers(n, from, e) /\ ~Unwanted(n, from, e)
        /\ routes' = [routes EXCEPT ![n] = LiveRoutes(n)]
        /\ DeliverOrRelay(n, from, e, LivePending(n), LiveRoutes(n), trust[n])
        /\ UNCHANGED trust
  /\ arrived' = IF /\ e.packetType = "Data" /\ from # "origin"
                   /\ ValidRoutingHeader(e, now, MaxAge)
                  THEN arrived \cup {[from |-> from, to |-> n, dest |-> e.dest, id |-> e.id]}
                  ELSE arrived
  /\ received' = {Frame(from, n, e)}
  /\ UNCHANGED <<peers, seenAds, ackCount, now>>

Tick ==
  /\ now < Horizon
  /\ now' = now + 1
  /\ HandOver({})
  /\ received' = {}
  /\ UNCHANGED <<nodeVars, arrived>>

\* Sessions begin and end.
SessionStep ==
  \/ \E n \in Nodes, m \in Neighbours, key \in Keys :
       m # n /\ key \in KeysOf[m] /\ RegisterAuthenticatedPeer(n, m, key)
  \/ \E n \in Nodes, m \in Neighbours : UnregisterAuthenticatedPeer(n, m)

\* Everything else that happens to a node.
NodeStep ==
  \/ \E n \in Nodes : PurgeState(n)
  \/ \E n \in Nodes : PurgeStaleRoutes(n)
  \/ \E n \in Nodes, maxAge \in AdPurgeAges : PurgeStaleRoutingAdvertisements(n, maxAge)
  \/ \E n \in Nodes : QueueSize(n)
  \/ \E s \in Messages : SendEnvelope(s.at, s.envelope)
  \/ \E n \in Nodes, dest \in Keys, id \in MessageIds : SendAck(n, dest, id)
  \/ \E n \in Nodes, m \in Neighbours, ad \in Advertisements :
       m # n /\ ReceiveAdvertisement(n, m, ad)
  \/ \E s \in Messages : ReceiveEnvelope(s.at, "origin", s.envelope)
  \/ \E f \in Injected \cup wire : ReceiveEnvelope(f.to, f.from, f.envelope)
  \/ Tick

Next == SessionStep \/ NodeStep

Spec == Init /\ [][Next]_vars
----------------------------------------------------------------------------
IsNode(n) ==
  /\ peers[n] \in [DOMAIN peers[n] -> Sessions]
  /\ DOMAIN peers[n] \subseteq Neighbours
  /\ IsTable(routes[n])
  /\ pendingAcks[n] \in [DOMAIN pendingAcks[n] -> PendingAcks]
  /\ DOMAIN pendingAcks[n] \subseteq MessageIds
  /\ trust[n] \in [Neighbours -> Nat]
  /\ seenAds[n] \in [DOMAIN seenAds[n] -> Nat]
  /\ IsQueue(queue[n], Envelopes)
  /\ ackCount[n] \in 0 .. MaxAcks

\* Every node's state has the shape the class declares, and every frame on the
\* wire is one that a node may have sent.
TypeOK ==
  /\ DOMAIN peers = Nodes /\ DOMAIN routes = Nodes /\ DOMAIN pendingAcks = Nodes
  /\ DOMAIN trust = Nodes /\ DOMAIN seenAds = Nodes /\ DOMAIN queue = Nodes
  /\ DOMAIN ackCount = Nodes
  /\ \A n \in Nodes : IsNode(n)
  /\ wire \subseteq [from : Nodes, to : Nodes, envelope : Envelopes]
  /\ now \in Nat

\* However sends, failures, receipts and timeouts interleave, a node awaits at
\* most MAX_PENDING_ACKS acknowledgements and remembers at most
\* MAX_SEEN_ROUTING_ADS advertisements.
TablesBounded ==
  \A n \in Nodes :
    /\ Cardinality(DOMAIN pendingAcks[n]) <= MaxPendingAcks
    /\ Cardinality(DOMAIN seenAds[n]) <= MaxSeenAds

\* The queue's counters and limits survive everything the relay does with it:
\* a message stored, retried, refused, handed over or expired.
QueuesSound == \A n \in Nodes : CountsHold(queue[n]) /\ LimitsHold(queue[n])

\* Only a validated route carries a binding: neither a demotion nor a session
\* change leaves one behind that a later advertisement could revive.
ProbationIsUnbound ==
  \A n \in Nodes : \A r \in DOMAIN routes[n] :
    routes[n][r].status = "probation" => routes[n][r].binding = Null

\* In this step n receives, over its peer m, an acknowledgement signed by `signer`
\* of a message to `signer` that n handed to m, within the timeout; n awaits it no
\* longer.
AnswerComes(n, m, signer) ==
  \E f \in received' :
    /\ f.to = n /\ f.from = m /\ m \in DOMAIN peers[n]
    /\ f.envelope.packetType = "Ack" /\ f.envelope.payload.signer = signer
    /\ LET id == f.envelope.payload.acknowledges
       IN  /\ id \in DOMAIN pendingAcks[n] \ DOMAIN pendingAcks'[n]
           /\ pendingAcks[n][id].neighbor = m /\ pendingAcks[n][id].dest = signer
           /\ now - pendingAcks[n][id].sentAt < AckTimeout

\* In a step that changes m's score it gains one point, for an answer.
EarnsTrust(n, m) ==
  /\ trust'[n][m] = trust[n][m] + 1
  /\ \E signer \in Keys : AnswerComes(n, m, signer)

\* In a step that validates or binds the route r, its destination answers over
\* its neighbour, and it is bound to the session that the neighbour has at that
\* moment.
EarnsRoute(n, r) ==
  AnswerComes(n, r[2], r[1]) /\ routes'[n][r].binding = peers[n][r[2]]

\* In a step that changes a score or validates or binds a route, the change is
\* earned.
ChangesAreEarned ==
  /\ \A n \in Nodes, m \in Neighbours : trust'[n][m] # trust[n][m] => EarnsTrust(n, m)
  /\ \A n \in Nodes : \A r \in DOMAIN routes'[n] :
       LET new == routes'[n][r]
           old == routes[n][r]
           validates == r \notin DOMAIN routes[n] \/ old.status # "validated"
           binds == new.binding # Null /\ new.binding # old.binding
       IN  new.status = "validated" /\ (validates \/ binds) => EarnsRoute(n, r)

\* Trust and validation are earned by nothing but an acknowledgement that the
\* message's destination signed, that comes in time over the neighbour the message
\* was handed to, in the session there is, and once for each message: whatever is
\* lost, late, repeated or signed by another, however acknowledgements race their
\* timeout, and whoever goes and comes back meanwhile.
CreditIsEarned == [][ChangesAreEarned]_vars

\* In this step n accepts an advertisement of the destination of r from its
\* neighbour.
Advertised(n, r) ==
  /\ r[2] \in DOMAIN peers[n]
  /\ \E ad \in Advertisements :
       /\ r[1] \in ad.dests /\ FreshAdvertisement(ad)
       /\ <<r[2], ad>> \in DOMAIN seenAds'[n] \ DOMAIN seenAds[n]

\* n still awaits an acknowledgement over the route r that is overdue.
Silent(n, r) ==
  \E id \in DOMAIN pendingAcks[n] :
    /\ r = <<pendingAcks[n][id].dest, pendingAcks[n][id].neighbor>>
    /\ now - pendingAcks[n][id].sentAt >= AckTimeout

\* In a step that gives up an overdue acknowledgement, the route goes with it.
SilentRouteDropped ==
  \A n \in Nodes : \A id \in DOMAIN pendingAcks[n] :
    LET p == pendingAcks[n][id]
        r == <<p.dest, p.neighbor>>
        kept == id \in DOMAIN pendingAcks'[n] /\ pendingAcks'[n][id] = p
    IN  now - p.sentAt >= AckTimeout /\ ~kept => r \notin DOMAIN routes'[n] \/ Advertised(n, r)

\* A route comes into a table, for the first time or again, only when its
\* neighbour advertises its destination.
RoutesAreAdvertised ==
  \A n \in Nodes : \A r \in DOMAIN routes'[n] \ DOMAIN routes[n] : Advertised(n, r)

\* A frame goes to the destination itself, or over a route that the table has and
\* that is not silent, unless just advertised again.
FramesFollowRoutes ==
  \A f \in handed' :
    LET r == <<f.envelope.dest, f.to>>
    IN  \/ f.to \in DirectPeers(f.from, f.envelope.dest)
        \/ /\ r \in DOMAIN routes'[f.from]
           /\ Silent(f.from, r) => Advertised(f.from, r)

SilenceIsHeeded == SilentRouteDropped /\ RoutesAreAdvertised /\ FramesFollowRoutes

\* A neighbour that leaves a message to some destination unanswered past the
\* timeout loses its route there in the step in which the node notices, the route
\* comes back only when that neighbour advertises that destination again, and
\* nothing is routed but over routes there are: so until then it gets no routed
\* message for the destination, unless it is the destination itself.  The node
\* notices what it still awaits: a record that made room for another, or that
\* another send of the same message replaced or deleted (routing.ts:311, 342-346),
\* is never overdue.
SilentHopAvoided == [][SilenceIsHeeded]_vars

\* In a step that takes an unexpired message out of a queue, the message is
\* handed over.
UnsentIsKept ==
  \A n \in Nodes : \A id \in DOMAIN queue[n].entries \ DOMAIN queue'[n].entries :
    \/ id \in Expired(queue[n], now, MaxAge)
    \/ \E f \in handed' : f.from = n /\ f.envelope.id = id

\* A queued message that has not expired leaves the queue only in a step that
\* hands that very message to a neighbour.
QueueKeepsUnsent == [][UnsentIsKept]_vars

\* In a step that hands a frame over while a validated route to its destination
\* is usable, the frame goes to the destination itself, or over a route that was
\* validated before, or by the answer the step handles.
ProvedRoutesPreferred ==
  \A f \in handed' :
    LET n == f.from
        dest == f.envelope.dest
        proved == UsableHops(LiveRoutes(n), dest, "validated", peers[n])
        justProved == UsableHops(routes'[n], dest, "validated", peers[n])
    IN  proved # {} => f.to \in proved \cup justProved \cup DirectPeers(n, dest)

\* An advertisement never draws traffic away from a route that has proved
\* itself: while some validated route to a destination is usable, messages
\* to it go to a neighbour with such a route or to the destination itself.
AdvertisementDoesNotDivert == [][ProvedRoutesPreferred]_vars

\* A loop of routes dies out: every Data frame that a node did not originate
\* was caused by one that reached it with exactly one hop more to live, so a
\* message crosses at most as many links as its ttl.
LoopsDieOut ==
  \A f \in wire : f.envelope.packetType = "Data" =>
    \/ \E s \in Messages : s.at = f.from /\ f.envelope = OneHopOn(s.envelope)
    \/ \E g \in wire \cup Injected :
         /\ g.to = f.from /\ g.envelope.id = f.envelope.id
         /\ g.envelope.ttl = f.envelope.ttl + 1

----------------------------------------------------------------------------
(* What the documents say and the code does not do. *)

\* Trust in a neighbour, and a validated route over it, prove that the message
\* took that path: the neighbour had received the message it is credited for.
RelayPathProven ==
  [][\A n \in Nodes, m \in Nodes :
       trust'[n][m] # trust[n][m] =>
         \E id \in DOMAIN pendingAcks[n] \ DOMAIN pendingAcks'[n] :
           \E x \in arrived : x.from = n /\ x.to = m /\ x.id = id]_vars
=============================================================================
