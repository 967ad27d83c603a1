---------------------------- MODULE RelayNodeMC ----------------------------
(* One modelled node, a, between two neighbours, b and c; destination d lies *)
(* behind either of them.                                                    *)
EXTENDS RelayNode

CONSTANTS a, b, c, d, m1, m2, k1, k2

Data(id, dest, ttl, time) ==
  [id |-> id, dest |-> dest, ttl |-> ttl, packetType |-> "Data", timestamp |-> time,
   payload |-> Null]

Ack(id, dest, acknowledged, signer) ==
  [id |-> id, dest |-> dest, ttl |-> 2, packetType |-> "Ack", timestamp |-> 0,
   payload |-> [acknowledges |-> acknowledged, signer |-> signer]]

From(m, e) == [from |-> m, to |-> a, envelope |-> e]

MCNeighbours == {a, b, c}
MCSenders == MCNeighbours \cup {"origin"}
MCKeysOf == [m \in MCNeighbours |-> {m}]

\* One message of a's own and one that b passes on, both for d; d answers over
\* either neighbour, and b signs an answer of its own.
MCMessages == {[at |-> a, envelope |-> Data(m1, d, 2, 0)]}
MCInjected ==
  {From(b, Data(m2, d, 1, 0)), From(b, Ack(k1, a, m1, d)), From(c, Ack(k1, a, m1, d)),
   From(c, Ack(k2, b, m2, d)), From(b, Ack(k1, a, m1, b))}
MCAdvertisements == [advertiser : {d}, dests : {{d}}, timestamp : {0, 1}]

\* What the next steps depend on: `handed` and `received` only say what the last
\* one sent and took in.
WithoutLastStep == <<nodeVars, wire, arrived, now>>
=============================================================================
