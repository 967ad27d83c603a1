--------------------------- MODULE BroadcastFlood ---------------------------
(***************************************************************************)
(* Emergency broadcasts: the flood (broadcast, handleBroadcastPacket of    *)
(* src/routing/routing.ts) and each origin's rate budget                   *)
(* (src/broadcast/broadcast.ts).                                           *)
(*                                                                         *)
(* A broadcast is named by the id of its envelope.  The air holds copies   *)
(* of it; each may be damaged, delayed, received twice or received out of  *)
(* order, and one that is lost, or that the transport refused, stays there *)
(* for ever.  A damaged copy keeps its header and fails to decode or to    *)
(* verify.  Every node is a process of its own, as the rate windows are    *)
(* per process.  What receiveEnvelope purges first is RelayNode's and not  *)
(* kept here.                                                              *)
(***************************************************************************)
EXTENDS Integers, Sequences, FiniteSets, Functions

CONSTANTS
  Nodes,      \* nodes
  Links,      \* discoverNeighbors(): node -> nodes in reach
  Calls,      \* broadcasts the applications make, each once: [at, ttl]
  Budget,     \* MAX_BROADCASTS_PER_ORIGIN_PER_WINDOW
  Window,     \* BROADCAST_RATE_WINDOW_MS
  MaxAge,     \* validateRoutingHeader's age limit
  Skew,       \* TIMESTAMP_GRANULARITY_SECONDS
  PurgeAges,  \* ages callers hand to purgeStaleBroadcastRecords()
  MaxTold,    \* bound: times a node's listeners are told of one broadcast
  Horizon     \* bound on the clock

ASSUME FloodConstants ==
  /\ Links \in [Nodes -> SUBSET Nodes]
  /\ \A c \in Calls : c.at \in Nodes /\ c.ttl \in Nat
  /\ {Budget, Window, Skew} \subseteq Nat \ {0}
  /\ {MaxAge, MaxTold, Horizon} \subseteq Nat
  /\ PurgeAges \subseteq Nat

VARIABLES
  seen,       \* seenBroadcasts: node -> id -> when
  creation,   \* creationRateWindows: node -> window of its own identity
  receive,    \* receiveRateWindows: node -> origin -> window
  air,        \* copies on their way
  made,       \* broadcasts made
  told,       \* node -> id -> when its listeners were told
  spoilt,     \* ids a copy of which was damaged, late, refused or not passed on
  now         \* Date.now()

vars == <<seen, creation, receive, air, made, told, spoilt, now>>

\* A broadcast's id stands for the call that made it.
Ids == Calls

\* A window the map does not hold: nothing is counted.
NoWindow == [since |-> 0, count |-> 0]

Init ==
  /\ seen = [n \in Nodes |-> [id \in {} |-> id]]
  /\ creation = [n \in Nodes |-> NoWindow]
  /\ receive = [n \in Nodes |-> [o \in Nodes |-> NoWindow]]
  /\ air = {}
  /\ made = {}
  /\ told = [n \in Nodes |-> [id \in Ids |-> <<>>]]
  /\ spoilt = {}
  /\ now = 0

----------------------------------------------------------------------------
(* consumeBudget and purgeRateWindows. *)

\* A window past its length is deleted.
Current(window) ==
  IF window # NoWindow /\ now - window.since >= Window THEN NoWindow ELSE window

\* A budget nobody checks.
AlwaysWithin(window) == TRUE

WithinBudget(window) == Current(window).count < Budget

Charged(window) ==
  IF Current(window) = NoWindow THEN [since |-> now, count |-> 1]
  ELSE [window EXCEPT !.count = @ + 1]

PurgedWindows(windows) == [o \in Nodes |-> Current(windows[o])]

----------------------------------------------------------------------------
CoarseTimestamp == now - (now % Skew)

TooOld(f) == now - f.timestamp > MaxAge

ValidHeader(f) == f.ttl > 0 /\ f.timestamp <= now + Skew /\ ~TooOld(f)

\* What n hands the transport, one copy to each neighbour but `except`.
Copies(n, id, ttl, timestamp, except) ==
  [from : {n}, to : Links[n] \ except, id : {id}, ttl : {ttl}, timestamp : {timestamp}]

\* broadcast().  The origin does not mark the broadcast as seen.
Broadcast(id) ==
  LET n == id.at IN
  /\ id \notin made
  /\ receive' = [receive EXCEPT ![n] = PurgedWindows(@)]
  /\ IF WithinBudget(creation[n])
       THEN /\ creation' = [creation EXCEPT ![n] = Charged(@)]
            /\ made' = made \cup {id}
            /\ air' = air \cup Copies(n, id, id.ttl, CoarseTimestamp, {})
       ELSE /\ creation' = [creation EXCEPT ![n] = Current(@)]
            /\ UNCHANGED <<made, air>>
  /\ UNCHANGED <<seen, told, spoilt, now>>

\* A flood that forgets the ttl.
SameTtl(ttl) == ttl

\* What a hop takes off.
OneHopOn(ttl) == ttl - 1

\* A record that takes an origin's broadcasts for one another.
SeenFromOrigin(n, id) == \E i \in DOMAIN seen[n] : i.at = id.at

Seen(n, id) == id \in DOMAIN seen[n]

Marked(n, id) ==
  [seen EXCEPT ![n] = [i \in DOMAIN @ \cup {id} |-> IF i = id THEN now ELSE @[i]]]

\* The broadcast's first record, and no more than that: it is spoilt here.
MarkOnly(f) ==
  /\ seen' = Marked(f.to, f.id)
  /\ spoilt' = spoilt \cup {f.id}
  /\ told' = told

Drop(f) ==
  /\ spoilt' = IF TooOld(f) THEN spoilt \cup {f.id} ELSE spoilt
  /\ UNCHANGED <<seen, receive, told>>

\* A signature that verifies: the rate windows are purged, then charged.
Verified(f) ==
  LET n == f.to
      origin == f.id.at
  IN  /\ creation' = [creation EXCEPT ![n] = Current(@)]
      /\ receive' = [receive EXCEPT ![n] =
           IF WithinBudget(@[origin])
             THEN [PurgedWindows(@) EXCEPT ![origin] = Charged(receive[n][origin])]
             ELSE PurgedWindows(@)]

\* The listeners are told, and the rest of the neighbours; a listener that
\* throws keeps the broadcast from them.
Deliver(f, rest) ==
  LET n == f.to IN
  /\ Len(told[n][f.id]) < MaxTold
  /\ seen' = Marked(n, f.id)
  /\ told' = [told EXCEPT ![n][f.id] = Append(@, now)]
  /\ \/ /\ air' = rest \cup Copies(n, f.id, OneHopOn(f.ttl), f.timestamp, {f.from})
        /\ spoilt' = spoilt
     \/ /\ air' = rest
        /\ spoilt' = spoilt \cup {f.id}

\* receiveEnvelope of a broadcast: the header, the record, the signature and
\* the budget decide in this order; a copy that fails the last two stays
\* marked as seen.
ReceiveBroadcast(f, intact, rest) ==
  \/ /\ ~ValidHeader(f) \/ Seen(f.to, f.id)
     /\ Drop(f)
     /\ air' = rest /\ UNCHANGED creation
  \/ /\ ValidHeader(f) /\ ~Seen(f.to, f.id)
     /\ \/ ~intact /\ MarkOnly(f) /\ air' = rest /\ UNCHANGED <<creation, receive>>
        \/ /\ intact /\ ~WithinBudget(receive[f.to][f.id.at])
           /\ Verified(f) /\ MarkOnly(f) /\ air' = rest
        \/ /\ intact /\ WithinBudget(receive[f.to][f.id.at])
           /\ Verified(f) /\ Deliver(f, rest)

\* The transport brings a copy, and may bring it again.
Arrive(f) ==
  /\ \E intact \in BOOLEAN, rest \in {air, air \ {f}} : ReceiveBroadcast(f, intact, rest)
  /\ UNCHANGED <<made, now>>

\* A purge that takes a record of just that age.
PurgeRecordsOfAge(n, maxAge) ==
  /\ seen' = [seen EXCEPT ![n] = Restrict(@, {id \in DOMAIN @ : now - @[id] < maxAge})]
  /\ UNCHANGED <<creation, receive, air, made, told, spoilt, now>>

PurgeStaleBroadcastRecords(n, maxAge) ==
  /\ seen' = [seen EXCEPT ![n] = Restrict(@, {id \in DOMAIN @ : now - @[id] <= maxAge})]
  /\ UNCHANGED <<creation, receive, air, made, told, spoilt, now>>

Tick ==
  /\ now < Horizon
  /\ now' = now + 1
  /\ UNCHANGED <<seen, creation, receive, air, made, told, spoilt>>

Next ==
  \/ \E id \in Calls : Broadcast(id)
  \/ \E f \in air : Arrive(f)
  \/ \E n \in Nodes, maxAge \in PurgeAges : PurgeStaleBroadcastRecords(n, maxAge)
  \/ Tick

Spec == Init /\ [][Next]_vars

----------------------------------------------------------------------------
(* Properties *)

\* Every value is one the program can hold.
TypeOK ==
  /\ \A n \in Nodes :
       /\ DOMAIN seen[n] \subseteq Ids /\ seen[n] \in [DOMAIN seen[n] -> 0 .. now]
       /\ \A w \in {creation[n]} \cup {receive[n][o] : o \in Nodes} :
            w.since \in 0 .. now /\ w.count \in 0 .. Budget
  /\ \A f \in air : f.to \in Links[f.from] /\ f.id \in made /\ f.ttl <= f.id.ttl
  /\ spoilt \subseteq made /\ made \subseteq Calls

\* A node's listeners are told of a broadcast a second time only if a caller's
\* purge may have forgotten it meanwhile: never, when callers keep the records
\* as long as headers stay valid.
ToldOnce ==
  \A n \in Nodes, id \in Ids : \A i, j \in DOMAIN told[n][id] :
    i < j => \E age \in PurgeAges : told[n][id][j] - told[n][id][i] > age

\* `hops` links lead from n to m.
Walk(n, m, hops) ==
  \E walk \in [0 .. hops -> Nodes] :
    /\ walk[0] = n /\ walk[hops] = m
    /\ \A i \in 1 .. hops : walk[i] \in Links[walk[i - 1]]

\* The nodes that at most `hops` links lead to from n.
WithinHops(n, hops) == {m \in Nodes : \E h \in 0 .. hops : Walk(n, m, h)}

\* The ttl bounds the flood: no node further from the origin is told, whatever
\* loops, echoes and duplicates the copies take part in.
TtlBoundsReach ==
  \A n \in Nodes, id \in Ids :
    told[n][id] # <<>> => n \in WithinHops(id.at, id.ttl)

Tellings(n, origin, since) ==
  UNION {{<<id, i>> : i \in {i \in DOMAIN told[n][id] : told[n][id][i] >= since}} :
           id \in {id \in Ids : id.at = origin}}

\* Since its window began, a node was told as many broadcasts of an origin as
\* the window counts, and at most Budget: neither duplicates nor refused copies
\* are charged, and however the copies bunch up on the way the budget holds.
BudgetHolds ==
  \A n \in Nodes, o \in Nodes :
    LET window == receive[n][o] IN
    window # NoWindow => Cardinality(Tellings(n, o, window.since)) = window.count /\ window.count <= Budget

\* The windows have their shape and mean what they count.
WindowsSound == TypeOK /\ BudgetHolds

\* When no copy is on its way any more, a broadcast with hops enough for every
\* node has reached every node, unless a copy was damaged, late or refused or a
\* node was told of it twice: nodes that a purge made forget it may let the flood
\* spend its hops in a loop.  The bound is the number of nodes, as the flood may
\* pass through its own origin.
FloodComplete ==
  \A id \in made :
    /\ id.ttl >= Cardinality(Nodes)
    /\ id \notin spoilt
    /\ \A n \in Nodes : Len(told[n][id]) <= 1
    /\ ~\E f \in air : f.id = id
    => \A n \in Nodes \ {id.at} : told[n][id] # <<>>
=============================================================================
