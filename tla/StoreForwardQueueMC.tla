------------------------ MODULE StoreForwardQueueMC ------------------------
(* Instances of StoreForwardQueue for TLC. *)
EXTENDS StoreForwardQueue

CONSTANTS m1, m2, m3, m4

\* Four message ids; every id comes fresh or exhausted (ttl 0), created at
\* the start, later, or in the tolerated future.
MCEnvelopes ==
  [id : {m1, m2, m3, m4}, ttl : {1}, timestamp : {0, 2}]
    \cup [id : {m1}, ttl : {0, 2}, timestamp : {4}]
=============================================================================
