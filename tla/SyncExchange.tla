---------------------------- MODULE SyncExchange ----------------------------
(***************************************************************************)
(* Synchronization of store-and-forward queues between authenticated peers *)
(* (initiateSync and handleSyncPacket of src/routing/routing.ts, the       *)
(* sealing of src/sync/session-sync.ts): summary, request, transfer.       *)
(*                                                                         *)
(* A packet is sealed in its sender's session under a random nonce, so it  *)
(* is named by its place in `sent` and opens only where its receiver has   *)
(* the same session registered for that neighbour.  It may arrive late,    *)
(* out of order, many times or never; a refused send is one that never     *)
(* arrives.  What the rest of RelayNode does to the queues is kept to      *)
(* three steps: an envelope comes in, is passed on, or grows too old.      *)
(* A transfer's byte limit stands with its limit on the number.            *)
(***************************************************************************)
EXTENDS ForwardQueue, Sequences, SequencesExt

CONSTANTS
  Nodes,         \* nodes
  Envelopes,     \* data envelopes under way: [id, dest, ttl, timestamp]
  Sessions,      \* bound: the sessions two nodes establish, 1, 2, ...
  MaxEntries,    \* MAX_SYNC_ENTRIES and MAX_SYNC_REQUESTS
  MaxTransfer,   \* MAX_SYNC_TRANSFER_ENVELOPES
  MaxSeen,       \* MAX_SEEN_SYNC_PACKETS
  ReplayTtl,     \* SYNC_REPLAY_TTL_MS
  ReplayPurges,  \* bound: <<node, age limit>>, the calls of purgeStaleSyncReplayRecords() from outside
  Arrivals,      \* bound: <<node, envelope, sender>>, where envelopes come in
  Syncs,         \* bound: <<node, neighbour>>, the exchanges begun, one each
  MaxPackets,    \* bound on the packets sent
  MaxTimes,      \* bound on the times one packet is handled
  Horizon        \* bound on the clock

ASSUME SyncConstants ==
  /\ Nodes \cup {"origin"} \subseteq Senders
  /\ \A e, f \in Envelopes : e.id = f.id => e = f
  /\ \A e \in Envelopes : e.timestamp \in Int
  /\ Skew # 0
  /\ {MaxEntries, MaxTransfer, MaxSeen, Sessions} \subseteq Nat \ {0}
  /\ {ReplayTtl, MaxPackets, MaxTimes, Horizon} \subseteq Nat
  /\ ReplayPurges \subseteq Nodes \X Nat
  /\ Arrivals \subseteq Nodes \X Envelopes \X Senders /\ Syncs \subseteq Nodes \X Nodes

VARIABLES
  queue,      \* node -> its StoreForwardQueue
  session,    \* authenticatedPeers' sessions: node -> node -> the last one, and whether it is still registered
  seen,       \* seenSyncPackets: node -> sequence of [no, at], in the map's order
  sent,       \* packets sent: sequence of [kind, from, to, session, content, timestamp, cause]
  handled,    \* packet -> how often it was handled, when last, how many others its receiver handled since (up to MaxSeen, or MaxSeen at once when a caller's purge forgot it), and whether it ever was to the end
  arrived,    \* node -> ids it delivered, passed on or stored
  settled,    \* ids delivered, or passed on elsewhere
  refused,    \* node -> ids its limits refused
  now         \* Date.now()

vars == <<queue, session, seen, sent, handled, arrived, settled, refused, now>>

Init ==
  /\ queue = [n \in Nodes |-> EmptyQueue]
  /\ session = [n \in Nodes |-> [m \in Nodes \ {n} |-> [no |-> 1, live |-> TRUE]]]
  /\ seen = [n \in Nodes |-> <<>>]
  /\ sent = <<>>
  /\ handled = [no \in 1 .. MaxPackets |-> [times |-> 0, last |-> 0, since |-> 0, whole |-> FALSE]]
  /\ arrived = [n \in Nodes |-> {}] /\ refused = [n \in Nodes |-> {}]
  /\ settled = {}
  /\ now = 0

----------------------------------------------------------------------------
(* What the nodes do outside synchronization. *)

\* registerAuthenticatedSession: each end registers a session when its own
\* handshake ends, and the later one replaces the earlier.
RegisterSession(n, m, no) ==
  /\ no > session[n][m].no
  /\ session' = [session EXCEPT ![n][m] = [no |-> no, live |-> TRUE]]
  /\ UNCHANGED <<queue, seen, sent, handled, arrived, settled, refused, now>>

\* unregisterAuthenticatedPeer, or a registration without a session.
Unregister(n, m) ==
  /\ session[n][m].live
  /\ session' = [session EXCEPT ![n][m].live = FALSE]
  /\ UNCHANGED <<queue, seen, sent, handled, arrived, settled, refused, now>>

\* An envelope comes in from elsewhere and is stored: once at each node.
Accept(n, e, from) ==
  /\ e.dest # n /\ e.id \notin arrived[n] \cup refused[n]
  /\ queue' = [queue EXCEPT ![n] = Stored(@, e, from, now)]
  /\ IF e.id \in DOMAIN queue'[n].entries
       THEN arrived' = [arrived EXCEPT ![n] = @ \cup {e.id}] /\ refused' = refused
       ELSE refused' = [refused EXCEPT ![n] = @ \cup {e.id}] /\ arrived' = arrived
  /\ UNCHANGED <<session, seen, sent, handled, settled, now>>

\* attemptQueuedDelivery sends a stored envelope on.
PassOn(n, id) ==
  /\ id \in DOMAIN queue[n].entries \ Expired(queue[n], now, MaxAge)
  /\ queue' = [queue EXCEPT ![n] = RemoveByKey(PurgeExpired(@, now, MaxAge), {id})]
  /\ settled' = settled \cup {id}
  /\ UNCHANGED <<session, seen, sent, handled, arrived, refused, now>>

Tick ==
  /\ now < Horizon
  /\ now' = now + 1
  /\ UNCHANGED <<queue, session, seen, sent, handled, arrived, settled, refused>>

----------------------------------------------------------------------------
(* Sending. *)

Purged(n) == PurgeExpired(queue[n], now, MaxAge)

CoarseTimestamp == now - (now % Skew)

\* As many of `ids` as a packet takes, in the queue's order.
UpTo(max, ids) ==
  IF Cardinality(ids) <= max THEN {ids} ELSE {s \in SUBSET ids : Cardinality(s) = max}

Send(kind, n, m, content, cause) ==
  /\ Len(sent) < MaxPackets
  /\ sent' = Append(sent, [kind |-> kind, from |-> n, to |-> m, session |-> session[n][m].no,
                            content |-> content, timestamp |-> CoarseTimestamp, cause |-> cause])

InitiateSync(n, m) ==
  /\ <<n, m>> \in Syncs
  /\ ~\E no \in DOMAIN sent : sent[no].kind = "summary" /\ sent[no].from = n /\ sent[no].to = m
  /\ session[n][m].live
  /\ queue' = [queue EXCEPT ![n] = Purged(n)]
  /\ \E ids \in UpTo(MaxEntries, DOMAIN Purged(n).entries) : Send("summary", n, m, ids, 0)
  /\ UNCHANGED <<session, seen, handled, arrived, settled, refused, now>>

----------------------------------------------------------------------------
(* Receiving. *)

\* A replay record that lives one unit too short.
KeptOfLowerAge(n) == SelectSeq(seen[n], LAMBDA r : now - r.at < ReplayTtl)

\* purgeStaleSyncReplayRecords(maxAge): the first i records, less those that are stale.
KeptWithin(n, maxAge) ==
  LET kept[i \in 0 .. Len(seen[n])] ==
        IF i = 0 THEN <<>>
        ELSE IF now - seen[n][i].at <= maxAge THEN Append(kept[i - 1], seen[n][i])
        ELSE kept[i - 1]
  IN  kept[Len(seen[n])]

\* The purge that handleSyncPacket makes, with the age limit that is the default.
Kept(n) == KeptWithin(n, ReplayTtl)

\* purgeStaleSyncReplayRecords called from outside, with the caller's own limit.
PurgeReplayRecords(n, maxAge) ==
  /\ seen' = [seen EXCEPT ![n] = KeptWithin(n, maxAge)]
  /\ handled' = [no \in DOMAIN handled |->
       IF handled[no].times > 0 /\ sent[no].to = n /\ now - handled[no].last > maxAge
         THEN [handled[no] EXCEPT !.since = MaxSeen]
         ELSE handled[no]]
  /\ UNCHANGED <<queue, session, sent, arrived, settled, refused, now>>

\* A replay record without a limit.
RecordedUnbounded(n, no) == Append(Kept(n), [no |-> no, at |-> now])

\* The replay record with no added; a full one forgets its oldest.
Recorded(n, no) ==
  Append(IF Len(Kept(n)) >= MaxSeen THEN Tail(Kept(n)) ELSE Kept(n), [no |-> no, at |-> now])

\* A summary answered with what the node already holds.
Held(n, ids) == ids \cap DOMAIN Purged(n).entries

Missing(n, ids) == ids \ DOMAIN Purged(n).entries

HandleSummary(no, p) ==
  LET n == p.to IN
  /\ queue' = [queue EXCEPT ![n] = IF p.content = {} THEN @ ELSE Purged(n)]
  /\ IF Missing(n, p.content) = {} THEN sent' = sent
     ELSE \E ids \in UpTo(MaxEntries, Missing(n, p.content)) : Send("request", n, p.from, ids, no)
  /\ UNCHANGED <<arrived, settled, refused>>

\* A transfer that counts as delivery: the copies sent are dropped.
AfterTransferMoved(q, ids) == RemoveByKey(q, ids)

\* The queue keeps what it hands over.
AfterTransfer(q, ids) == q

HandleRequest(no, p) ==
  LET n == p.to
      entries == Purged(n).entries
  IN  /\ \E ids \in UpTo(MaxTransfer, p.content \cap DOMAIN entries) :
           /\ Send("transfer", n, p.from, {entries[id].envelope : id \in ids}, no)
           /\ queue' = [queue EXCEPT ![n] = AfterTransfer(Purged(n), ids)]
      /\ UNCHANGED <<arrived, settled, refused>>

\* receiveEnvelope for one envelope of a transfer: it is delivered here,
\* passed on if there is a route and the transport takes it, or stored.
Take(acc, e, n, from, onward) ==
  IF ~ValidRoutingHeader(e, now, MaxAge) THEN acc
  ELSE IF e.dest = n \/ e.id \in onward
    THEN [acc EXCEPT !.settled = @ \cup {e.id}, !.arrived = @ \cup {e.id}]
  ELSE LET q == Stored(acc.queue, e, from, now) IN
       IF e.id \in DOMAIN q.entries
         THEN [acc EXCEPT !.queue = q, !.arrived = @ \cup {e.id}]
         ELSE [acc EXCEPT !.queue = q, !.refused = @ \cup {e.id}]

\* A listener that throws ends the loop: the envelopes after it are lost.
HandleTransfer(p, whole) ==
  LET n == p.to
      before == [queue |-> queue[n], arrived |-> arrived[n], settled |-> settled, refused |-> refused[n]]
  IN  \E order \in SetToSeqs(p.content), onward \in SUBSET {e.id : e \in p.content},
         last \in 0 .. Cardinality(p.content) :
        LET after[i \in 0 .. last] ==
              IF i = 0 THEN before ELSE Take(after[i - 1], order[i], n, p.from, onward)
        IN  /\ IF whole THEN last = Len(order) ELSE last > 0 /\ order[last].dest = n
            /\ queue' = [queue EXCEPT ![n] = after[last].queue]
            /\ arrived' = [arrived EXCEPT ![n] = after[last].arrived]
            /\ refused' = [refused EXCEPT ![n] = after[last].refused]
            /\ settled' = after[last].settled
            /\ sent' = sent

\* What is remembered of the packets handled when no is.
CountHandling(no, whole) ==
  [k \in DOMAIN handled |->
    IF k = no THEN [times |-> handled[no].times + 1, last |-> now, since |-> 0,
                    whole |-> whole \/ handled[no].whole]
    ELSE IF k \in DOMAIN sent /\ sent[k].to = sent[no].to /\ handled[k].times > 0 /\ handled[k].since < MaxSeen
      THEN [handled[k] EXCEPT !.since = @ + 1]
    ELSE handled[k]]

\* handleSyncPacket: the session and the replay record decide; the packet is
\* recorded before it is handled, whatever comes of it.
ReceivePacket(no) ==
  LET p == sent[no]
      peer == session[p.to][p.from]
      replayed == \E i \in DOMAIN Kept(p.to) : Kept(p.to)[i].no = no
  IN  /\ peer.live
      /\ ValidRoutingHeader([ttl |-> 1, timestamp |-> p.timestamp], now, MaxAge)
      /\ \/ /\ peer.no # p.session \/ replayed
            /\ seen' = [seen EXCEPT ![p.to] = Kept(p.to)]
            /\ UNCHANGED <<queue, sent, handled, arrived, settled, refused>>
         \/ /\ peer.no = p.session /\ ~replayed
            /\ handled[no].times < MaxTimes
            /\ seen' = [seen EXCEPT ![p.to] = Recorded(p.to, no)]
            /\ \E whole \in BOOLEAN :
                 /\ handled' = CountHandling(no, whole)
                 /\ \/ p.kind = "summary" /\ whole /\ HandleSummary(no, p)
                    \/ p.kind = "request" /\ whole /\ HandleRequest(no, p)
                    \/ p.kind = "transfer" /\ HandleTransfer(p, whole)
      /\ UNCHANGED <<session, now>>

Next ==
  \/ \E n \in Nodes : \E m \in Nodes \ {n} :
       \/ \E no \in 1 .. Sessions : RegisterSession(n, m, no)
       \/ Unregister(n, m)
       \/ InitiateSync(n, m)
  \/ \E arrival \in Arrivals : Accept(arrival[1], arrival[2], arrival[3])
  \/ \E n \in Nodes : \E id \in DOMAIN queue[n].entries : PassOn(n, id)
  \/ \E no \in DOMAIN sent : ReceivePacket(no)
  \/ \E purge \in ReplayPurges : PurgeReplayRecords(purge[1], purge[2])
  \/ Tick

Spec == Init /\ [][Next]_vars
----------------------------------------------------------------------------
(* Properties *)

\* Every value is one the program can hold.
TypeOK ==
  /\ \A n \in Nodes :
       /\ IsQueue(queue[n], Envelopes) /\ CountsHold(queue[n]) /\ LimitsHold(queue[n])
       /\ Len(seen[n]) <= MaxSeen
       /\ \A i \in DOMAIN seen[n] : sent[seen[n][i].no].to = n /\ seen[n][i].at <= now
       /\ DOMAIN queue[n].entries \subseteq arrived[n]
  /\ \A no \in DOMAIN sent : sent[no].cause < no /\ sent[no].timestamp <= now
  /\ \A no \in DOMAIN handled : handled[no].times > 0 => no \in DOMAIN sent /\ handled[no].last <= now

\* In a step that handles a packet again, its replay record has outlived its time
\* or was pushed out: by as many packets as the record holds, or by a caller's
\* purge whose age limit it had outlived.
HandledAgainLate ==
  \A no \in DOMAIN handled :
    handled[no].times > 0 /\ handled'[no].times > handled[no].times =>
      now - handled[no].last > ReplayTtl \/ handled[no].since >= MaxSeen

\* A node handles a packet once for as long as its replay record may last,
\* whatever sessions come and go in between, and whichever other records are
\* purged early.
HandledOnce == [][HandledAgainLate]_vars

\* An envelope a node has stored is still held by some node, or was delivered
\* or passed on, or has expired: packets lost, replayed, cut short or answered
\* in a later session do not lose it.
NeverLost ==
  \A n \in Nodes, e \in Envelopes :
    e.id \in arrived[n] =>
      \/ e.id \in settled
      \/ \E m \in Nodes : e.id \in DOMAIN queue[m].entries
      \/ ~ValidRoutingHeader(e, now, MaxAge)

\* The packets a packet led to.
Follows(no) ==
  LET direct(s) == {k \in DOMAIN sent : sent[k].cause \in s}
  IN  direct({no}) \cup direct(direct({no}))

\* An exchange does its work: once a summary and all that it led to were handled
\* to the end, each envelope it named has reached the node it was sent to, unless
\* it was delivered or passed on from the other end by then, expired, was refused
\* for the limits or did not fit a transfer.  Sessions replaced midway, envelopes
\* that come by another way and duplicates of the packets make no difference.
SyncComplete ==
  \A no \in DOMAIN sent :
    sent[no].kind = "summary" /\ (\A k \in {no} \cup Follows(no) : handled[k].whole) =>
      \A e \in Envelopes :
        e.id \in sent[no].content =>
          \/ e.id \in arrived[sent[no].to] \cup refused[sent[no].to] \cup settled
          \/ ~ValidRoutingHeader(e, now, MaxAge)
          \/ Cardinality(sent[no].content) > MaxTransfer

\* In a step that handles a transfer, every copy that comes to be held has fewer
\* hops left than the copy its sender handed over.
TransfersTakeHop ==
  \A no \in DOMAIN sent :
    sent[no].kind = "transfer" /\ handled'[no].times > handled[no].times =>
      LET n == sent[no].to IN
      \A e \in sent[no].content :
        e.id \in DOMAIN queue'[n].entries \ DOMAIN queue[n].entries =>
          queue'[n].entries[e.id].envelope.ttl < e.ttl

\* A hop that a transfer makes is taken off the ttl (README.md:615: the ttl bounds
\* how many further hops a packet may travel).
SyncTakesHop == [][TransfersTakeHop]_vars
=============================================================================
