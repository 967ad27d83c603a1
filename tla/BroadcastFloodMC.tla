-------------------------- MODULE BroadcastFloodMC --------------------------
(* A ring with a chord: what a floods comes back to it, and b hears it twice. *)
(* A node has the addresses of its neighbours; a link need not go both ways.  *)
EXTENDS BroadcastFlood

CONSTANTS a, b, c

MCLinks == [n \in Nodes |-> CASE n = a -> {b} [] n = b -> {c} [] n = c -> {a, b}]

\* A broadcast for everybody and one for the neighbours.
MCCalls == {[at |-> a, ttl |-> Cardinality(Nodes)], [at |-> a, ttl |-> 1]}
=============================================================================
