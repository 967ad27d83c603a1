---------------------------- MODULE RelayMeshMC ----------------------------
(* Modelled nodes only.  Either a chain a - b - d, with a route at b that      *)
(* leads back to a; or a diamond in which a reaches d over b, d reaches a      *)
(* over c, and c has not advertised d to a yet.  The nodes start registered    *)
(* with each other and with routes just learned from the advertisements of a   *)
(* and d.                                                                      *)
EXTENDS RelayNode

CONSTANTS a, b, c, d, m1

MCMessages ==
  {[at |-> a,
    envelope |-> [packetType |-> "Data", id |-> m1, dest |-> d, ttl |-> 3, timestamp |-> 0,
                  payload |-> Null]]}

MCSenders == Nodes \cup {"origin"}
MCKeysOf == [m \in Nodes |-> {m}]

Ad(dest) == [advertiser |-> dest, dests |-> {dest}, timestamp |-> 0]
MCAdvertisements == {Ad(a), Ad(d)}

PeersOf == [n \in Nodes |-> Nodes \cap IF n \in {a, d} THEN {b, c} ELSE {a, d}]
Chain ==
  [n \in Nodes |->
     CASE n = a -> {<<d, b>>}
       [] n = b -> {<<d, d>>, <<d, a>>, <<a, a>>}
       [] n = d -> {<<a, b>>}]
Diamond ==
  [n \in Nodes |->
     CASE n = a -> {<<d, b>>}
       [] n \in {b, c} -> {<<d, d>>, <<a, a>>}
       [] n = d -> {<<a, c>>}]
RoutesOf == IF c \in Nodes THEN Diamond ELSE Chain

\* Init, every registration, and every advertisement RoutesOf comes from.
MCInit ==
  /\ peers = [n \in Nodes |-> [m \in PeersOf[n] |-> [key |-> m, establishedAt |-> 0]]]
  /\ routes = [n \in Nodes |-> [r \in RoutesOf[n] |->
                 [status |-> "probation", expiresAt |-> Probation, binding |-> Null]]]
  /\ seenAds = [n \in Nodes |-> [k \in {<<r[2], Ad(r[1])>> : r \in RoutesOf[n]} |-> 0]]
  /\ pendingAcks = [n \in Nodes |-> NoEntries]
  /\ trust = [n \in Nodes |-> [m \in Neighbours |-> 0]]
  /\ queue = [n \in Nodes |-> EmptyQueue]
  /\ ackCount = [n \in Nodes |-> 0]
  /\ wire = {} /\ handed = {} /\ received = {} /\ arrived = {} /\ now = 0

\* The links stay up.
MCSpec == MCInit /\ [][NodeStep]_vars

\* No frame goes over a hop that lookup() could have chosen another for, so that
\* the order of insertion, which decides in the code, decides nothing.
NoChoiceOfHop ==
  \A f \in handed' :
    Lookup(routes'[f.from], f.envelope.dest, peers[f.from], trust'[f.from]) \subseteq {f.to}

\* a may lose b, and no hop is chosen among equals.
MCPathSpec ==
  MCInit /\ [][/\ \/ NodeStep
                  \/ UnregisterAuthenticatedPeer(a, b)
               /\ NoChoiceOfHop]_vars

WithoutLastStep == <<nodeVars, wire, arrived, now>>
=============================================================================
