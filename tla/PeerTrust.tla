----------------------------- MODULE PeerTrust ------------------------------
(***************************************************************************)
(* The trust a node has in the peers it was shown (class PeerTrustStore of *)
(* src/identity/peer-trust.ts) as a value: identity -> record, Null when   *)
(* there is none.  A record is its trust and the session that earned it.   *)
(* Names, times and the reason of the last failure are left out: nothing   *)
(* the store does depends on them.                                         *)
(***************************************************************************)
CONSTANTS
  Identities,  \* Ed25519 identity keys
  Null

Introduction == [trust |-> "introduced", session |-> Null]

NoRecords == [i \in Identities |-> Null]

Introduced(records, i) ==
  IF records[i] # Null THEN records ELSE [records EXCEPT ![i] = Introduction]

\* markVerified throws PEER_NOT_INTRODUCED.
Verifiable(records, i) == records[i] # Null

MarkedVerified(records, i, session) ==
  [records EXCEPT ![i] = [trust |-> "verified", session |-> session]]

\* A failure that leaves the session it takes the trust of.
MarkedFailedKeepingSession(records, i) ==
  IF records[i] = Null THEN records ELSE [records EXCEPT ![i].trust = "introduced"]

MarkedFailed(records, i) ==
  IF records[i] = Null THEN records ELSE [records EXCEPT ![i] = Introduction]

Forgotten(records, i) == [records EXCEPT ![i] = Null]

IsVerified(records, i) == records[i] # Null /\ records[i].trust = "verified"
=============================================================================
