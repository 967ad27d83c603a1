--------------------------- MODULE SyncExchangeMC ---------------------------
EXTENDS SyncExchange

CONSTANTS a, b, c, elsewhere, e1, e2, e3

MCNodes == {a, b}
MCSenders == {a, b, c, "origin"}

Env(id, dest, timestamp) == [id |-> id, dest |-> dest, ttl |-> 1, timestamp |-> timestamp]

\* The one that goes on through b is the first to expire.
Onward == Env(e1, elsewhere, -1)
ForB == Env(e2, b, 0)
Other == Env(e3, elsewhere, 0)
MCEnvelopes == {Onward, ForB, Other}

\* a has one envelope to pass on and one for b, which may get the first by
\* another way, and another from a by routing, which takes up a's share.
MCArrivals ==
  {<<a, Onward, "origin">>, <<b, Onward, "origin">>, <<a, ForB, c>>, <<b, Other, a>>}
MCSyncs == {<<a, b>>}
MCReplayPurges == {<<b, 0>>}
=============================================================================
