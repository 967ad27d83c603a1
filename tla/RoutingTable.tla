---------------------------- MODULE RoutingTable ----------------------------
(***************************************************************************)
(* The routing table of one node (class RoutingTable of                    *)
(* src/routing/routing.ts) and the trust bindings it holds                 *)
(* (src/routing/route-provenance.ts), as a value and its operations.       *)
(*                                                                         *)
(* The nested map destination hint -> neighbour -> candidate is a function *)
(* on pairs <<dest, neighbour>>; a pair outside its domain has no          *)
(* candidate.  A destination hint stands for the identity it hashes.       *)
(* lastAdvertisedAt and validatedAt are written and never decide anything, *)
(* so they are not kept.  Of a binding only the session is kept, because   *)
(* the destination, the hint and the neighbour it also names are those of  *)
(* the candidate that carries it.                                          *)
(***************************************************************************)
EXTENDS Integers, FiniteSets, Functions

CONSTANTS
  Keys,           \* identity public keys
  Neighbours,     \* neighbour ids
  Null,           \* null
  Probation,      \* ROUTE_PROBATION_MS
  ValidationTtl   \* ROUTE_VALIDATION_TTL_MS

ASSUME RouteTimes == Probation \in Nat /\ ValidationTtl \in Nat

\* An authenticated session: the peer's key and when it was registered.
Sessions == [key : Keys, establishedAt : Nat]
RouteStatus == {"probation", "validated"}
RouteCandidates ==
  [status : RouteStatus, expiresAt : Nat, binding : Sessions \cup {Null}]

EmptyTable == [r \in {} |-> r]

PurgedRoutes(table, t) == Restrict(table, {r \in DOMAIN table : table[r].expiresAt > t})

\* demote() of every route of `lost`, followed by the purge that each caller
\* of demote() makes: a demoted route expires at 0.
DemotedAndPurged(table, lost, t) ==
  LET live == PurgedRoutes(table, t)
  IN  Restrict(live, DOMAIN live \ lost)

StillValidated(table, r, t) ==
  r \in DOMAIN table /\ table[r].status = "validated" /\ table[r].expiresAt > t

\* A learn step that binds every route to the advertising session at once.
LearnedBound(table, from, dests, session, t) ==
  [r \in DOMAIN table \cup (dests \X {from}) |->
     IF r \in dests \X {from}
       THEN [status |-> "probation", expiresAt |-> t + Probation, binding |-> session]
       ELSE table[r]]

\* learnFromAdvertisement() for an advertisement of `dests` already verified.
\* A route that is still validated stays so, but keeps its binding only if it
\* was made in the session the advertisement came through.
Learned(table, from, dests, session, t) ==
  LET candidate(r) ==
        LET valid == StillValidated(table, r, t)
        IN  [status    |-> IF valid THEN "validated" ELSE "probation",
             expiresAt |-> t + (IF valid THEN ValidationTtl ELSE Probation),
             binding   |-> IF r \in DOMAIN table /\ table[r].binding = session
                             THEN session ELSE Null]
  IN  [r \in DOMAIN table \cup (dests \X {from}) |->
         IF r \in dests \X {from} THEN candidate(r) ELSE table[r]]

\* A validation that forgets to bind the route to the session.
ValidatedUnbound(table, r, session, t) ==
  IF r \in DOMAIN table
    THEN [table EXCEPT ![r].status = "validated", ![r].expiresAt = t + ValidationTtl]
    ELSE table

\* markValidated(): does nothing for a route the table no longer has.
MarkedValidated(table, r, session, t) ==
  IF r \in DOMAIN table
    THEN [table EXCEPT ![r] = [status    |-> "validated",
                               expiresAt |-> t + ValidationTtl,
                               binding   |-> session]]
    ELSE table

\* The neighbours that lookup() may consider for dest with this status: they
\* are authenticated, and a validated route must be bound to the session the
\* neighbour has now (matchesRouteTrustBinding).
UsableHops(table, dest, status, peers) ==
  {m \in DOMAIN peers :
     /\ <<dest, m>> \in DOMAIN table
     /\ table[<<dest, m>>].status = status
     /\ status = "validated" => table[<<dest, m>>].binding = peers[m]}

\* A lookup that ignores what the route proved.
AnyUsableHop(table, dest, peers, trust) ==
  UsableHops(table, dest, "validated", peers) \cup UsableHops(table, dest, "probation", peers)

\* lookup() on a purged table: a most trusted neighbour among the validated
\* candidates, or else among those on probation; the empty set is null.  Of
\* equally trusted ones the code takes the one inserted first, here any: what
\* holds of every choice holds of the code's, and a run that shows a behaviour
\* must leave lookup() no choice.
Lookup(table, dest, peers, trust) ==
  LET validated == UsableHops(table, dest, "validated", peers)
      pool == IF validated # {} THEN validated
              ELSE UsableHops(table, dest, "probation", peers)
  IN  {m \in pool : \A k \in pool : trust[k] <= trust[m]}

----------------------------------------------------------------------------
\* What a value of the class is.
IsTable(table) ==
  /\ table \in [DOMAIN table -> RouteCandidates]
  /\ DOMAIN table \subseteq Keys \X Neighbours
=============================================================================
