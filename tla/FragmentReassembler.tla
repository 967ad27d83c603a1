------------------------ MODULE FragmentReassembler ------------------------
(***************************************************************************)
(* The reassembly store of one node (class FragmentReassembler of          *)
(* src/envelope/fragment.ts): the fragments its link layer hands it, in    *)
(* any order, from any peer, any number of times.  A peer is the string    *)
(* RelayNode makes of a neighbour and its session, or 'unknown'.           *)
(*                                                                         *)
(* A fragment is its header and the length of its data.  Of each fragment  *)
(* received a set keeps that length and, for the properties alone, who     *)
(* sent it and when.  Whether the bytes of a complete set decode is not    *)
(* modelled: the set is gone either way.                                   *)
(***************************************************************************)
EXTENDS Integers, FiniteSets, Functions

CONSTANTS
  Peers,           \* authenticated peers
  Unknown,         \* 'unknown', the default peer
  MessageIds,
  Sizes,           \* lengths of a fragment's data
  Counts,          \* fragment counts
  MaxSets,         \* MAX_PENDING_FRAGMENT_SETS
  MaxBytes,        \* MAX_PENDING_FRAGMENT_BYTES
  MaxSetsPerPeer,  \* MAX_PENDING_FRAGMENT_SETS_PER_PEER
  MaxBytesPerPeer, \* MAX_PENDING_FRAGMENT_BYTES_PER_PEER
  MaxAge,          \* DEFAULT_FRAGMENT_MAX_AGE_MS
  PurgeAges,       \* ages callers hand to purgeStale()
  Horizon          \* bound on the clock

ASSUME ReassemblerConstants ==
  /\ Unknown \notin Peers
  /\ Sizes \subseteq Nat
  /\ Counts \subseteq Nat \ {0}
  /\ {MaxSets, MaxBytes, MaxSetsPerPeer, MaxBytesPerPeer, MaxAge, Horizon} \subseteq Nat
  /\ PurgeAges \subseteq Nat

VARIABLES
  pending,           \* message id -> set being put together
  pendingBytes,      \* length of all data held
  peerPendingSets,   \* peer -> number of sets, 0 if absent
  peerPendingBytes,  \* peer -> length of data held, 0 if absent
  now,               \* Date.now()
  assembled          \* {the set the last call completed}, or {} for null

store == <<pending, pendingBytes, peerPendingSets, peerPendingBytes>>
vars == <<store, now, assembled>>

Senders == Peers \cup {Unknown}
Fragments ==
  UNION {[id : MessageIds, index : 0 .. c - 1, count : {c}, size : Sizes] : c \in Counts}

Init ==
  /\ pending = [id \in {} |-> id]
  /\ pendingBytes = 0
  /\ peerPendingSets = [p \in Senders |-> 0]
  /\ peerPendingBytes = [p \in Senders |-> 0]
  /\ now = 0
  /\ assembled = {}

----------------------------------------------------------------------------
(* The store as a value: what removing and adding make of it. *)

Store == [pending |-> pending, bytes |-> pendingBytes,
          peerSets |-> peerPendingSets, peerBytes |-> peerPendingBytes]

Becomes(s) ==
  /\ pending' = s.pending
  /\ pendingBytes' = s.bytes
  /\ peerPendingSets' = s.peerSets
  /\ peerPendingBytes' = s.peerBytes

OfPeer(s, ids, p) == {id \in ids : s.pending[id].peerId = p}
BytesOf(s, ids) == SumFunction([id \in ids |-> s.pending[id].bytes])
FromZero(n) == IF n < 0 THEN 0 ELSE n

\* A removal that gives back a peer's bytes and keeps its sets counted.
RemovedKeepingSets(s, ids) ==
  [pending |-> Restrict(s.pending, DOMAIN s.pending \ ids),
   bytes |-> s.bytes - BytesOf(s, ids),
   peerSets |-> s.peerSets,
   peerBytes |-> [p \in Senders |-> IF p = Unknown THEN s.peerBytes[p]
                                    ELSE FromZero(s.peerBytes[p] - BytesOf(s, OfPeer(s, ids, p)))]]

\* removeEntry of each of `ids`.
Removed(s, ids) ==
  LET left(p, counter, gone) == IF p = Unknown THEN counter[p] ELSE FromZero(counter[p] - gone)
  IN  [pending |-> Restrict(s.pending, DOMAIN s.pending \ ids),
       bytes |-> s.bytes - BytesOf(s, ids),
       peerSets |-> [p \in Senders |-> left(p, s.peerSets, Cardinality(OfPeer(s, ids, p)))],
       peerBytes |-> [p \in Senders |-> left(p, s.peerBytes, BytesOf(s, OfPeer(s, ids, p)))]]

Older(s, maxAge) == {id \in DOMAIN s.pending : now - s.pending[id].firstSeenAt > maxAge}

\* A purge that finds nothing.
NonePurged(s, maxAge) == s

\* A purge that takes the sets of exactly that age too.
PurgedEarly(s, maxAge) == Removed(s, Older(s, maxAge - 1))

Purged(s, maxAge) == Removed(s, Older(s, maxAge))

\* A check that asks whether the peer has used its bytes up already.
NoRoomWhenFull(s, f, p) ==
  \/ s.bytes >= MaxBytes
  \/ p # Unknown /\ s.peerBytes[p] >= MaxBytesPerPeer

\* The data of f does not fit any more.
NoRoomForData(s, f, p) ==
  \/ s.bytes + f.size > MaxBytes
  \/ p # Unknown /\ s.peerBytes[p] + f.size > MaxBytesPerPeer

\* A check that asks for room among the sets, and for none among the bytes.
NoRoomAmongSets(s, f, p) ==
  \/ Cardinality(DOMAIN s.pending) >= MaxSets
  \/ p # Unknown /\ s.peerSets[p] >= MaxSetsPerPeer

\* No set is begun for f.  All the data held is not asked about here.
NoRoomForSet(s, f, p) ==
  \/ Cardinality(DOMAIN s.pending) >= MaxSets
  \/ p # Unknown /\ s.peerSets[p] >= MaxSetsPerPeer
  \/ f.size > MaxBytes
  \/ p # Unknown /\ s.peerBytes[p] + f.size > MaxBytesPerPeer

Counted(p, counter, more) == IF p = Unknown THEN counter ELSE [counter EXCEPT ![p] = @ + more]

\* An empty set is begun for f.
Begun(s, f, p) ==
  [s EXCEPT !.pending = [id \in DOMAIN @ \cup {f.id} |->
                           IF id = f.id
                             THEN [fragmentCount |-> f.count, received |-> [i \in {} |-> i],
                                   firstSeenAt |-> now, bytes |-> 0, peerId |-> p]
                             ELSE @[id]],
            !.peerSets = Counted(p, @, 1)]

\* The set `entry` with f received.
Received(entry, f, p) ==
  [entry EXCEPT !.bytes = @ + f.size,
                !.received = [i \in DOMAIN @ \cup {f.index} |->
                   IF i = f.index THEN [size |-> f.size, from |-> p, at |-> now] ELSE @[i]]]

\* f is entered in its set.
Entered(s, f, p) ==
  [s EXCEPT !.pending = [@ EXCEPT ![f.id] = Received(s.pending[f.id], f, p)],
            !.bytes = @ + f.size,
            !.peerBytes = Counted(p, @, f.size)]

\* A set takes fragments of any count from the peer that began it.
OfOtherPeer(entry, f, p) == entry.peerId # p

\* A set takes fragments from anyone who gets their count right.
OfOtherCount(entry, f, p) == entry.fragmentCount # f.count

\* The set was begun by somebody else or with another count.
Foreign(entry, f, p) == entry.fragmentCount # f.count \/ entry.peerId # p

Complete(entry) == Cardinality(DOMAIN entry.received) >= entry.fragmentCount

----------------------------------------------------------------------------
\* What addFragment does once f has its set in s.
AddToSet(s, f, p) ==
  LET entered == Entered(s, f, p)
      done == Complete(entered.pending[f.id])
  IN  \/ /\ f.index \in DOMAIN s.pending[f.id].received \/ NoRoomForData(s, f, p)
         /\ Becomes(s)
         /\ assembled' = {}
      \/ /\ f.index \notin DOMAIN s.pending[f.id].received /\ ~NoRoomForData(s, f, p)
         /\ IF done THEN Becomes(Removed(entered, {f.id})) ELSE Becomes(entered)
         /\ assembled' = IF done THEN {[id |-> f.id, set |-> entered.pending[f.id]]} ELSE {}

\* addFragment() of a fragment that decodes; of any other frame it only purges.
AddFragment(f, p) ==
  /\ LET s == Purged(Store, MaxAge)
     IN  \/ /\ f.id \notin DOMAIN s.pending
            /\ NoRoomForSet(s, f, p)
            /\ Becomes(s) /\ assembled' = {}
         \/ /\ f.id \notin DOMAIN s.pending
            /\ ~NoRoomForSet(s, f, p)
            /\ AddToSet(Begun(s, f, p), f, p)
         \/ /\ f.id \in DOMAIN s.pending
            /\ Foreign(s.pending[f.id], f, p)
            /\ Becomes(s) /\ assembled' = {}
         \/ /\ f.id \in DOMAIN s.pending
            /\ ~Foreign(s.pending[f.id], f, p)
            /\ AddToSet(s, f, p)
  /\ UNCHANGED now

\* purgeStale() with the caller's own age.
PurgeStale(maxAge) ==
  /\ Becomes(Purged(Store, maxAge))
  /\ assembled' = {}
  /\ UNCHANGED now

Tick ==
  /\ now < Horizon
  /\ now' = now + 1
  /\ assembled' = {}
  /\ UNCHANGED store

Next ==
  \/ \E f \in Fragments, p \in Senders : AddFragment(f, p)
  \/ \E maxAge \in PurgeAges \cup {MaxAge} : PurgeStale(maxAge)
  \/ Tick

Spec == Init /\ [][Next]_vars
----------------------------------------------------------------------------
IsSet(entry) ==
  /\ DOMAIN entry = {"fragmentCount", "received", "firstSeenAt", "bytes", "peerId"}
  /\ entry.fragmentCount \in Counts
  /\ entry.received \in [DOMAIN entry.received -> [size : Sizes, from : Senders, at : Nat]]
  /\ DOMAIN entry.received \subseteq 0 .. entry.fragmentCount - 1
  /\ entry.firstSeenAt \in Nat
  /\ entry.bytes \in Nat
  /\ entry.peerId \in Senders

\* The state has the shape the class declares, and a set holds only fragments
\* that its count announces.
TypeOK ==
  /\ \A id \in DOMAIN pending : id \in MessageIds /\ IsSet(pending[id])
  /\ pendingBytes \in Nat
  /\ peerPendingSets \in [Senders -> Nat]
  /\ peerPendingBytes \in [Senders -> Nat]
  /\ now \in Nat
  /\ \A done \in assembled : IsSet(done.set)

HeldBytes(ids) == SumFunction([id \in ids |-> pending[id].bytes])
SetsOf(p) == {id \in DOMAIN pending : pending[id].peerId = p}

\* Every counter the limits are enforced by equals what is really held, after
\* any mixture of duplicates, refusals, completions and purges; 'unknown' has
\* no counters of its own.
AccountsExact ==
  /\ \A id \in DOMAIN pending :
       LET received == pending[id].received
       IN  pending[id].bytes = SumFunction([i \in DOMAIN received |-> received[i].size])
  /\ pendingBytes = HeldBytes(DOMAIN pending)
  /\ \A p \in Senders :
       /\ peerPendingSets[p] = IF p = Unknown THEN 0 ELSE Cardinality(SetsOf(p))
       /\ peerPendingBytes[p] = IF p = Unknown THEN 0 ELSE HeldBytes(SetsOf(p))

\* The store holds no more sets and bytes than it may, in all and from any
\* authenticated peer, and no set that could have been assembled.
WithinLimits ==
  /\ Cardinality(DOMAIN pending) <= MaxSets
  /\ HeldBytes(DOMAIN pending) <= MaxBytes
  /\ \A p \in Peers :
       Cardinality(SetsOf(p)) <= MaxSetsPerPeer /\ HeldBytes(SetsOf(p)) <= MaxBytesPerPeer
  /\ \A id \in DOMAIN pending : ~Complete(pending[id])

\* The store's shape, counters and limits hold together: none of them drifts
\* over sets begun, refused, completed and given up in any order.
AccountsSound == TypeOK /\ AccountsExact /\ WithinLimits

\* What is assembled is whole, comes from one peer, and arrived within the
\* lifetime of a set: fragments of a set given up, or of another peer's
\* message with the same id, never get into it.
AssembledWhole ==
  \A done \in assembled :
    LET set == done.set
    IN  /\ DOMAIN set.received = 0 .. set.fragmentCount - 1
        /\ \A i \in DOMAIN set.received :
             /\ set.received[i].from = set.peerId
             /\ now - set.received[i].at <= MaxAge

\* Every fragment received is still in its set, or in the set assembled, or its
\* set was old enough to be purged.
ReceivedIsKept ==
  \A id \in DOMAIN pending : \A i \in DOMAIN pending[id].received :
    \/ /\ id \in DOMAIN pending' /\ i \in DOMAIN pending'[id].received
       /\ pending'[id].received[i] = pending[id].received[i]
    \/ \E done \in assembled' :
         /\ done.id = id /\ i \in DOMAIN done.set.received
         /\ done.set.received[i] = pending[id].received[i]
    \/ \E maxAge \in PurgeAges \cup {MaxAge} : now - pending[id].firstSeenAt > maxAge

\* A fragment received leaves the store only with its whole set, complete or
\* older than some age that sets are purged by, and is never replaced by a later
\* copy.
KeptUntilWhole == [][ReceivedIsKept]_vars

\* Every empty set was there before, or the bytes held leave too little room for
\* some fragment.
EmptySetMeansFull ==
  \A id \in DOMAIN pending' :
    DOMAIN pending'[id].received = {} =>
      \/ id \in DOMAIN pending /\ pending'[id] = pending[id]
      \/ \E size \in Sizes : pendingBytes' + size > MaxBytes

\* addFragment begins a set before it asks whether all the data held leaves
\* room for the fragment, and so may leave an empty set behind; it does so
\* only when the bytes of the whole store are all but used up.
EmptySetOnlyWhenFull == [][EmptySetMeansFull]_vars
=============================================================================
