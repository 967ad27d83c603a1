# Zaycomm in TLA+

Zaycomm is an offline-first mesh messenger in TypeScript: phones and laptops pass
end-to-end encrypted envelopes from neighbour to neighbour over BLE or UDP, keep
them while nobody is near, and learn whom to hand them to from signed
advertisements and from end-to-end acknowledgements. This directory holds TLA+
models of its core, the TLC configurations that check them, and proofs for TLAPS.
Paths such as `src/routing/routing.ts` are those of the repository.

`PROJECT.json` lists the runs, maps every definition to the source lines it
translates, names the hazards each property is for, and gives for every checked
property a plausible bug (a *mutant*) that breaks it.

## 1. The system

| component | state | operations | interacts with |
|---|---|---|---|
| store-and-forward queue, `storage/store.ts` | entries by message id, a counter per neighbour | store, purgeExpired, acknowledge, reads (all of which purge first) | called by the relay node |
| routing table, `routing/routing.ts` 99-183, `routing/route-provenance.ts` | per destination and neighbour a candidate: probation or validated, expiry, binding to a session | learnFromAdvertisement, markValidated, demote, purgeExpired, lookup | called by the relay node |
| relay node, `routing/routing.ts` 221-455 | authenticated peers, pending acknowledgements, trust scores, replay caches, a queue, a table, a reassembler | register/unregister peer, sendEnvelope, sendAck, receiveAdvertisement, receiveEnvelope, purges, sync, broadcast | transport (send, onReceive), application (delivery, ack and broadcast listeners) |
| envelope codec, `envelope/envelope.ts` | none | encode, decode, header validation, acknowledgement envelopes | everything that sends |
| fragmentation, `envelope/fragment.ts` | sets being reassembled, byte and set counters, in all and per peer | fragmentEnvelope, addFragment, purgeStale | relay node's frame dispatch |
| double ratchet, `crypto/ratchet.ts` | root key, two chains, counters, cache of skipped keys | init, encrypt, decrypt (with snapshot and restore) | application, over whatever the mesh delivers |
| handshake and session gate, `crypto/handshake.ts`, `session.ts`, `keys.ts` | handshake state | Noise IK messages, identity binding, establishAuthenticatedSession | introductions, ratchet |
| identity and introductions, `identity/*.ts` | introduction records | create, decode, authenticateScannedPeer, respondToScannedPeer | handshake, frame channel |
| peer trust, `identity/peer-trust.ts` | record per identity: introduced or verified | introduce, markVerified, markFailed, forget, load | mobile authentication |
| broadcast, `broadcast/broadcast.ts`, `routing.ts` 274-278, 322-325, 393-399 | two sets of rate windows per origin (per process), a seen-cache per node | create, verify, flood, purge of the seen-cache | transport, broadcast listeners |
| sync, `sync/session-sync.ts`, `routing.ts` 199-219, 285-289, 348-392 | replay record; a session per peer | initiateSync, summary, request, transfer | queue, receiveEnvelope |
| messages, `message/*.ts` | file reassembly, voice jitter buffer | add chunk, pop frame | application |
| transports, `transport/*.ts` | UDP address book | send, onReceive | relay node |
| mobile, `mobile/src/*.ts` | frame chunks, the active authentication channel | accept, authenticateScannedPayload | BLE transports, introductions, peer trust |
| scanner, `mobile/AppV2.tsx` 50-59, `mobile/src/ScanQrScreen.tsx` | stage and result of a scan, whether the screen is open; on the screen the permission and whether a code was captured | openScan, closeScan, retryScan, runScan, onCodeScanned | mobile authentication |

Everything is single-threaded: a handler runs to completion unless it awaits, and
only the mobile authentication and the introductions await. No timer calls any
`purge*` method; what is stale is removed by the next call that happens to purge.
All state is in memory.

### What is hard, and what makes each part correct

* **Queue**: quotas kept by incremental counters; expiry noticed only at the next
  call. Correct if counters equal contents, limits hold, nothing live is lost or
  replaced, nothing dead keeps a live message out.
* **Routing and trust**: advertisements are cheap, so a route must be *earned* by an
  acknowledgement the destination signed, coming back over the neighbour it was
  sent to, in time, and in a session that still exists. Timeouts race answers;
  sessions come and go; advertisements are repeated; sends fail.
* **Mesh**: frames are lost, duplicated, reordered; routes can be cyclic.
* **Ratchet**: messages of several chains arrive in any order, damaged or repeated,
  and decryption mutates state before it knows whether it succeeds.
* **Reassembly**: fragments of many peers compete for four limits; ids may collide;
  sets are given up half-way.
* **Introductions on the phone**: every step awaits; attempts overlap and share one
  active channel and one trust store; a timeout ends the wait and not the exchange;
  chunks arrive late or never. Correct if trust is only what a finished call's own
  session earned, and every call returns.
* **Broadcast**: copies are repeated, delayed, damaged and echoed while rate windows
  and the seen-cache expire. Correct if nobody is told twice while the record lives,
  nobody beyond the ttl or the budget, and an undisturbed flood reaches everybody.
* **Sync**: what a summary, a request and a transfer say is stale when it arrives, the
  session may have been replaced, and packets are lost and replayed. Correct if no
  envelope is lost or packet handled twice, and a finished exchange did its work.
* **Scanner**: runs go on when the screen is closed and share one stage and one
  result, and handlers read what was last rendered. Correct if the camera hands up
  nothing more once a rendering has followed a hand-up, and what is shown as in
  progress comes to an end.

`PROJECT.json` lists the hazards one by one with their lines.

## 2. The modules

```
ForwardQueue            the queue as a value and its methods
 |-- StoreForwardQueue      one queue under any sequence of calls
 |     |-- StoreForwardQueueMC
 |     `-- StoreForwardQueueProofs
 |-- ForwardQueueProofs     lemmas about the value, used by three proof modules
 `-- RelayNode  (with RoutingTable)
       |-- RelayNodeMC          one relay among unpredictable neighbours
       |-- RelayMeshMC          several relays
       `-- RelayNodeProofs
SecureChannel <-refines- DoubleRatchet -- DoubleRatchetMC, DoubleRatchetProofs
FragmentReassembler -- FragmentReassemblerMC, FragmentReassemblerProofs
FrameChannel, PeerTrust  the channel and the trust store as values
 `-- PeerAuthentication -- PeerAuthenticationMC
ScanScreen                  the scanner and its runs
MobileProofs                of PeerAuthentication and ScanScreen
ForwardQueue -- SyncExchange -- SyncExchangeMC, SyncExchangeProofs    queues synchronized
BroadcastFlood -- BroadcastFloodMC, BroadcastFloodProofs    the flood and its budgets
```

`MobileProofs` extends both modules of the phone, which is why `ScanScreen`'s initial
states, steps and specification have names of their own (`ScreenInit`, `ScreenNext`,
`ScreenSpec`).

**ForwardQueue / StoreForwardQueue** (`storage/store.ts`, header check of
`envelope.ts`). The value holds the two maps of the class; `storedAt` and
`integrityHash` decide nothing and are left out. Each method is an action, every
one but `acknowledge()` purging first, as in the code. The clock ticks in the
queue's seconds; `reply` keeps how the last call ended, and `caller` whose copy it was.

**RoutingTable** (`RoutingTable`, `route-provenance.ts`). A function from
<<destination, neighbour>> to candidates. Destination hints are hashes and are
identified with the keys they hash. Of a binding only the session is kept, the
rest of what the code binds being the candidate's own key. Among equally trusted
hops the code takes the first inserted; the model takes any. What holds of every choice
holds of the code's; a run that shows a behaviour must leave `lookup()` no choice.

**RelayNode** (`RelayNode`, Data and Ack packets). One action per public method.
Every handler purges first; purge, demotion, recording, sending, the failure
branch and the queue are all part of the one atomic action, because the handler
runs to completion. `transport.send` may succeed or fail. A frame sent to a
modelled node stays on `wire` for ever, which is loss (never received),
duplication (received again) and reordering at once. `Externals` are neighbours of
which nothing is assumed but the frames they may send (`Injected`) and the
advertisements they may pass on. A full map evicts its first inserted record; the
model evicts any. `purgeStaleRoutingAdvertisements` takes its caller's age limit, one of
`AdPurgeAges`. `sendAck` is called by the application's delivery listener and
is an action of its own, enabled for what has `arrived`. Signatures are taken to
be good: an acknowledgement names its signer. `handed`, `received` and `arrived` are
history for the properties (`arrived` also enables `SendAck`); the `VIEW` of the runs
(`WithoutLastStep`) drops `handed` and `received`, which say what the last step sent and
took in and which no guard reads.

**SecureChannel / DoubleRatchet** (`crypto/ratchet.ts`). Both ends of a session.
Keys are symbolic: a root key is the sequence of Diffie-Hellman outputs mixed into
it, a chain or message key is its chain and number of steps. Decryption is
all-or-nothing as in the code: it computes the advanced state, tries the
ciphertext, and restores the snapshot if that throws. Packets may be lost,
repeated, reordered, reflected to their sender, or arrive with any header of
`Damage`. `SecureChannel` is the promise: what is opened was sent by the other end
and is opened once; `KeepsChannelPromise` is the refinement, `sent` being the count
of packets encrypted.

**FragmentReassembler** (`envelope/fragment.ts`). All four accounts, the purge that
opens every call, the order of the checks (including the set begun before the last
check, which may stay behind empty), completion, and removal. Who sent a fragment
and when is kept for the properties alone.

**FrameChannel / PeerTrust / PeerAuthentication** (`mobile/src/frameChannel.ts`,
`identity/peer-trust.ts`, `mobile/src/peerAuth.ts` over
`identity/introduction-session.ts`, `crypto/session.ts` and the two messages of
`crypto/handshake.ts`). An attempt is one call of `authenticateScannedPayload`; its
`phase` is the `await` its exchange stands at, its `outcome` what the call returned.
The two part company at a timeout: the call returns, the exchange may go on.
Between two awaits the code runs without interruption, and the continuation of a
promise runs before the next event; hence `Quiet` in the guard of every event. A
`connect()` that fails returns before the `try` whose `finally` clears the active
channel, so `ConnectFails` leaves it alone. Cryptography is symbolic: a transcript
hash is the attempt and the displayer's call it belongs to, and a message reads as
what it is. Chunks sent stay in `air` until they arrive, in any order or never;
a frame mixed of two messages reads as nothing or, of two identity messages, perhaps
as the one whose binding survived (a binding is shorter than an identity message).
The displayer is `respondToScannedPeer`, called again after it returned; the caller
is not in the repository. Its side reads whole messages: what chunks do to a channel
is modelled once, at the scanner. Left out: `expectedIntroduction` (no caller passes
it), `load()`, `clear()` and `reset()` (no caller), and that the receive callback is
installed on the first transport only, while the application makes a transport per
scan (`AppV2.tsx:57`): the first one keeps its native subscriptions, and so the frames.
That a code's node is found among the advertised ones is an assumption: see section 3.

**BroadcastFlood** (`broadcast/broadcast.ts` and the broadcast packets of
`routing.ts`). A broadcast is named by the call that makes it. Copies stay in `air`
or leave it as they arrive, so that each may arrive twice, late, or never; one may
fail to verify. Listener and flood are one step, as in the handler, and a listener
that throws keeps the broadcast from the neighbours. `spoilt` is history: ids of
which some copy was damaged, too old, refused or kept back, for which nothing can be
promised. The origin does not mark its own broadcast, so an echo is delivered to it,
charged, and flooded once more. `purgeStaleBroadcastRecords()` is called by
nothing in the repository; the model lets a caller call it at any time with an age of
`PurgeAges`. Rate windows are per process, and each node is a process. The limit on
the content's size is left out, as is `BROADCAST_FORWARD_BUDGET_PER_WINDOW`, which
nothing reads.

**SyncExchange** (`sync/session-sync.ts` and the sync packets of `routing.ts`). Two or
more nodes with queues of `ForwardQueue`. A packet is sealed with a random nonce in
its sender's session; it is named by its place in `sent`, may be received any number
of times, and opens only where the receiver has that session for that neighbour.
`registerAuthenticatedSession` happens at each end on its own. What the rest of the
node does to a queue is reduced to three steps (an envelope comes in, is passed on,
expires), because sync reads the queue at three moments and must bear any change
between them. Envelopes are Data only:
an envelope of a transfer goes through what `receiveEnvelope` does with Data (`Take`):
dropped, delivered, passed on, stored or refused; its branch for acknowledgements
(lines 434-440) is `RelayNode`'s. A delivery listener that throws ends the loop. The
byte limit of a transfer stands with the one on its number (`MaxTransfer`). The replay
record is purged by age before each packet, and at an age of a caller's choice
(`ReplayPurges`). `handled`, `arrived`, `settled` and `refused` are history.

**ScanScreen** (`mobile/AppV2.tsx`, `mobile/src/ScanQrScreen.tsx`). A run of `runScan`
is a sequence of steps from one `await` to the next, interleaved with what the user
and the camera do. `shown` is what the last rendering read of the state: the handlers of
a screen are closures of that rendering, so `onCodeScanned` tests the `captured` it read
and not the one just set. `Render` is a step of its own, which also mounts the screen
with its initial state or unmounts it; a run's `fresh` says that no rendering has
followed its hand-up. How the exchange goes is PeerAuthentication's subject; here it
succeeds, fails or is timed out. `connect()` may hang: the native promise is settled
only once services are discovered (`ZaycommBleModule.kt:30`). The stages `captured`
and (for longer than a step) `validating` are never seen: nothing sets the former, and
what follows the latter follows without an `await`.

## 3. The runs

| run | what it asks |
|---|---|
| `queue` | four messages, three places, two per neighbour, ages 0 to 4 against a limit of 2: type, exact counters, limits; nothing leaves but by expiry or its own acknowledgement; refusals only where live messages fill the queue or the caller's own share |
| `relay_node` | one relay, two neighbours, a message of its own and one passed on, acknowledgements right, wrong and for others, room for one pending acknowledgement and one remembered advertisement: limits kept, credit (trust and validation) earned only by an acknowledgement of the destination, in time and in the current session, no probation route bound, silent hops without a route until they advertise again, the queue keeps what was not sent, advertisements divert nothing from a proven route |
| `relay_mesh` | three relays with a cyclic route: each copy stems from one with a hop more to live |
| `ratchet` | four messages each way, gaps up to two: the ends stay in step, first receipts open, cache exact, keys unique, forward secrecy, refinement of SecureChannel |
| `reassembly` | four messages of one or two fragments, two peers and 'unknown', both quotas and both totals binding: exact accounts within limits, whole messages only, nothing lost early, empty sets only when full |
| `peer_auth` | two scans of two nodes, overlapping or not, with five codes (two right, one each of a wrong identity, static key and transport); identity messages of two chunks; each displayer answers twice: verified only by a session both ends let pass, frames of peers never mixed, frames never routed to a call that returned, trust earned by running calls only, every connected call returns |
| `broadcast` | two broadcasts of one origin among three nodes, a budget of one, a clock that outlasts a window and a header: windows mean what they count, nobody told twice while the record lives, the ttl bounds the reach, an undisturbed flood of which nobody is told twice is complete |
| `sync` | one exchange of three packets and one more, each handled up to twice, two sessions, a replay record of one, three envelopes that come and go by other ways and compete for one place per neighbour: nothing lost, nothing handled twice while recorded, a finished exchange complete |
| `scan` | two codes over two openings of the screen, by camera or by hand, any number of events between renderings: the camera stops at the rendering that follows a hand-up, no activity shown for ever |

Three runs *expect a violation*: each states what a document or comment of the
repository says, and TLC shows the code doing otherwise.

| run | statement | what happens |
|---|---|---|
| `path_credit` | the neighbour of an acknowledgement proves the path (`routing.ts:421`) | a second send replaces the record of the first, whose acknowledgement then credits the neighbour used last (`routing.ts:312`) |
| `sync_ttl` | the ttl bounds how many further hops a packet may travel (`README.md:615`) | after a transfer the receiver holds a copy with the ttl it had at the sender (`routing.ts:389`) |
| `other_peers_frames` | frames for other peers are ignored (`peerAuth.ts:58`) | the active channel completes any peer's frames (`peerAuth.ts:63`, `frameChannel.ts:78`) |

In `path_credit` (`MCPathSpec`, a diamond of four relays in which no time passes) a
sends a message over b, and it arrives; sent again it is refused by the transport, which
deletes the record (`routing.ts:346`), and queued. The acknowledgement travels back over
c. Then a loses b, c's advertisement draws the queued copy over c, and the
acknowledgement of the first copy comes in from there: c is trusted for a message it has
not received. The specification allows only steps in which `lookup()` has no choice
(`NoChoiceOfHop`), so that the code's order of insertion makes no difference.

More disagreements were met while modelling; they have no run of their own. These
steps are in the models:

* A stored copy is dropped when the transport takes it (`routing.ts:340`), not once
  delivery is confirmed (`store.ts:106`, `README.md:766`).
* Data packets are relayed again each time they come in (`routing.ts:451`), while
  `README.md:666` has relays drop duplicates. Broadcasts are deduplicated.
* A validated route advertised again over a new session stays validated but loses its
  binding, so `lookup` skips it and the destination is unreachable until the route
  expires (`routing.ts:119-122`, `167`; `test/routing-sinkhole.test.ts:18` treats every
  advertised route as on probation).
* The cache of skipped keys is bounded gap by gap only; gaps on successive chains add up
  (`ratchet.ts:151`, against the comment at line 4).
* A re-scan that fails takes the trust of a verified peer away by `markFailed`
  (`peerAuth.ts:120`, `149`); `peer-trust.ts:59` says a re-scan never does.
* The end of one authentication sets the active channel to null under another one that
  waits on it, which can then only time out (`peerAuth.ts:159`).
* Of several codes the camera reads before the screen is rendered again each is handed
  up (`ScanQrScreen.tsx:120`), although the comment at line 123 has no further frames
  accepted; `CameraStops` says what does hold.
* SCAN AGAIN (`ScanQrScreen.tsx:197`) puts the stage back to idle, but `captured` stays
  true, so the camera does not come back; only closing and opening, or entering the
  code by hand, scans again. By hand a code may be submitted twice while the
  permission is asked for. After a reset of the identity `runScan` returns and the
  screen is never told.

These lie outside the models:

* Android advertises a device by its Bluetooth address (`ZaycommBleModule.kt:24`), which
  `findNearbyPeer` compares with the node id of the code (`peerAuth.ts:68`): as built
  every Android scan ends in `PEER_NOT_NEARBY`. PeerAuthentication models what follows
  when the ids agree.
* The receiver is installed once per process, not "once per transport"
  (`peerAuth.ts:58`), and listeners of a scan's transport are never removed. A scan's new
  transport knows only peers advertised since it was made, so `send` may fail for one
  that the list shows.
* Sync re-requests at every exchange what the receiver delivered, passed on or refused,
  for it holds no copy; behind 128 such envelopes further ones never fit a transfer.
  Nothing relates a transfer to a request.

### Bounds, and why they are enough

* *Clock* (`Horizon`). One unit stands for each of the code's time limits, which
  keep their order where it matters (a validated route outlives one on probation).
  The horizon lets every limit pass at least once after something happened; the
  mesh runs let no time pass because their questions are about paths.
* *Limits* (places, quotas, `MAX_PENDING_ACKS`, `MAX_SKIP`, byte totals) are set so
  low that they bind: with fewer places than messages, each limit is reached and
  overrun in every run that is about it.
* *Messages*: two for the relay (one of its own, one passed on), which is what it
  takes for two records, two queue entries, an eviction. `AdPurgeAges` has an age that
  forgets an advertisement while it is fresh and one that does not. Four for the ratchet and
  the queue, so that gaps on two chains, or both limits at once, occur.
* *Attempts*: two, which is what it takes to overlap, to scan again, and to have an
  earlier exchange still running. Two calls per displayer, so that chunks of two
  replies of one node may meet; with `MaxCalls` used up a displayer is silent, which
  the calls must survive.
* *Broadcasts*: two of one origin, which is what it takes to exceed a budget of one;
  three nodes in a ring with a chord, where a flood passes through its origin again and
  one node hears it twice. The clock outlasts a window, a purge age and a header.
* *Sync*: four packets are an exchange and one more; a replay record of one is pushed
  out by the next packet, and its life is shorter than a header's, as in the code.
  Two sessions make the packets of the first unreadable midway. One node's record is
  also purged at age 0 (`MCReplayPurges`), sooner than its time.
* *Scans*: two codes and two openings, so that a run of the first opening meets the
  second, and so that both codes may come before one rendering.
* *Counters*: `MaxTrust`, `MaxAcks`, `MaxMessages` stop unbounded counting; nothing
  compares a trust score with anything but another score.
* `SYMMETRY` is used for the reassembler, whose peers and ids are interchangeable
  and which no liveness property concerns.

`PeerAuthentication` and `ScanScreen` assume fairness, and of the phone alone: the
timer of `withTimeout` fires, continuations of resolved promises run, and
`cameraPermission()` and `disconnect()` settle, and React renders what was set. Nothing
is assumed of the radio, the
displayers, `send()`, the user, or `connect()`: the native bridge settles that promise
only when services are discovered, and the code has no timeout for it. `CallsReturn`
is therefore about calls that got their connection, and `BusyEnds` excepts a run
that hangs in `connect()`: such a scan never ends.

Deadlock is not checked in `peer_auth` (when the attempts are used up nothing is left to
do) and `sync` (the bounds on clock, packets and handlings stop it).

## 4. What is proved

For every value of the constants that satisfies the named assumptions
(`QueueLimits`, `CallerInputs`, `RouteTimes`, `RelayConstants`, `RelayInputs`,
`RatchetConstants`, `ReassemblerConstants`, `ChannelConstants`,
`AuthenticationConstants`, `FloodConstants`, `SyncConstants`), TLAPS proves:

| theorem | statement |
|---|---|
| `QueueTypeCorrect`, `QueueCountersExact`, `QueueWithinLimits` | the queue's shape, exact counters, limits |
| `QueueHoldsUntilReleased` | what is held leaves only by expiry or its own acknowledgement |
| `QueueRefusesOnlyByLiveMessages` | a copy is refused only where unexpired messages fill the queue, or the share of the neighbour it came from |
| `RelayTypeCorrect` | the shape of every node of a mesh of any size |
| `RelayQueuesSound` | counters and limits of every relay's queue, through every handler |
| `RelayProbationIsUnbound` | no route on probation is bound |
| `RelayTablesBounded` | pending acknowledgements and remembered advertisements keep their limits |
| `RelayCreditIsEarned` | trust and validation only by an acknowledgement the destination signed, received in that step over the neighbour used, in time, no longer awaited, in the session there is |
| `RelaySilentHopAvoided` | giving up an overdue acknowledgement takes its route away, only that neighbour's advertisement of that destination brings it back, and frames follow routes there are |
| `RelayAdvertisementDoesNotDivert` | no advertisement draws messages away from a proved route |
| `RelayQueueKeepsUnsent` | what leaves a relay's queue unexpired is handed over |
| `RelayLoopsDieOut` | every frame passed on was caused by one with a hop more to live |
| `RatchetEndsInStep` | the counters of each end fit its chains, and the ends fit each other |
| `RatchetFirstReceiptOpens` | every packet opens at its first receipt, within `MAX_SKIP`, in any order |
| `RatchetSkippedKeysAwaited` | the cache is what was passed over and not opened |
| `RatchetKeysUsedOnce` | no two messages under one key |
| `RatchetForwardSecrecy` | what an end holds yields no key of a message sent or opened |
| `RatchetKeepsChannelPromise` | the ratchet implements `SecureChannel` |
| `FragmentsAssembledWhole` | what is assembled is whole, one peer's and recent |
| `FragmentsKeptUntilWhole` | what was received stays until its set is assembled or given up |
| `FragmentSetsEmptyWhenFull` | an empty set is left behind only when the bytes are all but used up |
| `FragmentAccountsSound` | the four accounts are the sums they stand for, within their limits |
| `AuthenticationTypeCorrect` | the shape of scans, channels, air, displayers and trust store |
| `FramesToRunningCalls` | frames are routed to running calls only, however scans overlap |
| `FramesOfOnePeer` | no frame is put together from chunks of two peers |
| `TrustEarned` | trust comes only from the session of the call that is returning |
| `VerifiedHasSession` | whoever is verified let the same session pass, as holder of the identity scanned |
| `FloodWindowsSound` | a window counts what its node was told since it began, within the budget |
| `FloodToldOnce` | a second telling only after a purge that may have forgotten the first |
| `FloodTtlBoundsReach` | nobody is told further from the origin than the ttl allows |
| `FloodReachesAll` | a flood that nothing spoils, of which nobody is told twice, reaches every node, for finitely many nodes and links that lead everywhere from where broadcasts are made |
| `SyncTypeCorrect` | counters and limits of every queue, bounded replay records of packets received |
| `SyncHandledOnce` | a packet is handled again only when its record outlived its time, was pushed out or was purged by a caller |
| `SyncNeverLost` | what a node stored it holds until it is settled or expires |
| `SyncExchangeComplete` | a summary, request and transfer handled to the end brought each envelope over, or it is accounted for |
| `CameraStopsOnceRendered` | once a rendering has followed a hand-up, the camera hands up nothing more while the screen stays open |

*The queue.* `ForwardQueueProofs` shows that removing and adding preserve three
facts about a value: its shape, that counters equal cardinalities, and the limits.
Limits alone are not inductive: `store()` consults the counters, so that a quota is
respected only because the counters are exact, and both need finiteness of the
entries. The conjunction is inductive; the theorems project it. The relay reuses
the same lemmas for each node's queue. A refusal is of live messages because
`store()` purges before it counts, and the counters it then reads, of all and of the
caller's own, are exact.

*The relay.* Typing needs that an acknowledgement on the wire carries a payload, so
`RelayInvariant` adds that to `TypeOK`. Each handler then has its own lemma;
the shared tails (`ForwardOrStore`, `AttemptQueuedDelivery`, `DeliverOrRelay`) have
theirs. The action properties need no more than that invariant, but each needs the
effect of every handler. The two about next hops come from one statement about each
handler, `FramesWellSent`: what it hands over goes to the destination itself, or over a
route that is live after the purge and that no usable validated one beats, or else an
advertisement was accepted. Silence is heeded because the purge that opens each handler
demotes what it gives up (`RoutedHopAnswers`), and because a step that makes a route, or
uses one that was silent, is the acceptance of its own neighbour's advertisement of its
own destination. What the node no longer awaits is outside: a record that made room for
another (`routing.ts:311`), or was overwritten or deleted by another send of the same
message (`312`, `346`), is never overdue, and its route stays. Credit is earned because
`Answers` compares record, neighbour and signer before anything is added. Proved routes
are preferred because an
advertisement leaves one that is bound to the present session usable
(`ProvedAfterAdvertisement`), and an answer takes none away (`ProvedAfterAnswer`). The
bound on the tables needs them finite, which the shape does not say (`TablesFinite`).
That loops die out needs of the queues that they change no ttl: `QueueTraced` says that
every stored Data envelope is an own message or arrived as it is.

*The ratchet.* Both ends go along one sequence of turns. Turn n has its owner, its
key pair (`PairOf(n)`) and its root key (`Root(n)`), whatever is sent; an end
at turn n sends on chain n and receives on chain n - 1, and the ends are never more
than one turn apart (`TurnsNear`). `Inv` places the rest on that sequence: every
packet sent lies on a chain of a turn reached, at its number, under the key of that
place (`WireSound`); the lengths that ends and headers give are those of the chains
(`Lengths`); what an end has gone past was sent (`Reached`); its cache is what it has
gone past and not opened (`CacheSound`). `Advanced`, the state `decrypt()` works out
before it tries the ciphertext, then has three outcomes: a cached key
(`OutcomeCached`), further on the receiving chain (`OutcomeHere`), the next chain
(`OutcomeNext`), and in each the key is the packet's own. Here first receipt and "no
second opening" are the same fact read in two directions: the cache holds a passed-over
packet exactly as long as it is unopened. Forward secrecy follows from the place: what an
end can derive lies ahead on its chains or in the cache. The refinement maps `Inv` to
`SecureChannel`: `encrypt()` is a `Send`, a `decrypt()` that opens an `Open`, and one that
does not open a stutter. That a key is not `Null` is an assumption on the constants
(`RatchetConstants`), as `undefined` is no key in the code.

*The reassembler.* That a complete set is whole rests on its indices lying below
its count (so that as many parts as the count means all of them), that every part
came from the peer that began the set, and that no part is older than the set; the
purge that opens `addFragment` then bounds the age of what is assembled. The accounts
are sums over finite sets. A few lemmas (`SmallestSet` to `SumOfParts`) state a sum by a
function of partial sums over the subsets, and show that there is exactly one, that it
is a number, and what adding or changing an element does to it; each is proved from a
smallest set for which it would fail, as finite sets are well-founded. `AccountsInvariant`
adds that no complete set is pending: removal after assembly is what takes a set off the accounts.

*Peer authentication.* That the trust a step adds belongs to the call that returns
in that step needs to know whose session an attempt carries: the invariant says that
from the reply on it is one of the attempt's own opening. That the active channel
belongs to a running call also needs that a call still connecting has not returned,
for `Connect` makes it the active one. Every step of an attempt then reduces to one
lemma (`AttemptStep`) about what it makes of that attempt and of the channel; the
steps of other actors leave all three variables alone. That a verified peer has proved
itself needs the messages on the air: `Exchange`, a part of `TrustInvariant`, says that
each frame of a channel is of one node, and that an identity message is of a session that
passed the gate of the node it names, and names what that node holds. The scanner
compares that identity with the code's and the message's session with its own, so the
session on record is one that both ends let pass (`ProvenHolds`).

*The flood.* The shape (`FloodTyped`) says that windows and records lie in the past.
`WindowsFit` relates a receiving window to the history: a telling is charged in its own
step, and a window is replaced only when it has lapsed, when all earlier tellings are
older than the new one; so the tellings since it began are those it counted. `Remembered` says of every telling that its record is in
the seen-cache, at its time or later, or that a purge may have taken it. `CopiesInReach` bounds
the walk of a copy by the hops taken off its ttl.

That a flood is complete rests on two facts (`Flowing`). From a node that has the
broadcast, every neighbour has it or will get a copy (`Spread`): the node that sent the
copy is the only one left out, and it has the broadcast. And as long as nobody is told
twice, each hop taken off a copy's ttl told another node, so that a copy reaching a node
not yet told has a hop left when the ttl is the number of nodes (`HopsLeft`): none is
dropped for its ttl. When no copy is left, those who have the broadcast are a set of
nodes that links do not leave. The proof showed that the premise "nobody is told twice" is
needed, which the three nodes of the run do not: when a purge lets nodes of a loop
forget a broadcast, it may go round the loop again, and a node behind the loop may hear
first a copy that has spent its hops. On eight nodes (a loop of three entered by one link
and left by another to a chain of four) and a purge of age 0 the far end of the chain is
never told; callers that keep records as long as headers stay valid exclude it
(`FloodToldOnce`).

*Sync.* `Keeps` relates a node's queue to what it took in: what arrived is held, or
settled, or too old; and nothing that arrived is dated ahead, so that what is too old
stays so (`GoneStays`) and a node gives up nothing else. `Remembered` relates a handled
packet to the replay record of its receiver: it stands on the record, behind no more
packets than were handled since, unless its time is up; a packet that is not on record
was therefore pushed out by `MaxSeen` others or has outlived `ReplayTtl`. `Done` says
what a packet handled to the end brought about, in terms that no later step undoes: what
a summary lists is in the request it caused or had arrived already, a request's in the
transfer, a transfer's was taken. The record's filter (`Kept`) and the loop over a
transfer's envelopes are recursive functions; that they exist, and what holds of them
step by step, is shown from the least argument for which it would fail (`LeastNumber`).
`Skew # 0` stands for the code's constant of 300 seconds.

*The scanner.* `HandUpsSeen` relates the runs of the present opening to the screen:
where there is one, `captured` is set, and either the last rendering has read it or the
run is fresh, no rendering having followed. A rendering keeps this because it reads
`captured`, which only mounting resets; and mounting begins an opening no run belongs to,
which is why the shape bounds each run's opening by the number of openings. A camera
event is acted on where the last rendering read `captured` as not set, so every other
code of the opening is fresh.

Left to TLC: liveness (`CallsReturn`, `BusyEnds`) and `ENABLED`, which the prover has no
rules for. Every invariant and action property of a passing run is a theorem.

The library's induction theorems cannot be instantiated by the provers here, since they
take an operator; well-founded minima of a *set* can, and that is how sums and recursive functions are done.

## 5. What is not modelled, and why

* Byte formats, CBOR, signatures and ciphers: abstracted to what they guarantee.
* Restarts: all state is in memory, a restart is `Init`.
* Re-entrancy: the test double `SimulatedTransport` delivers inside `send`; the real
  transports do not, and the models follow those.
* `message/file.ts` and `message/voice.ts`: a map each, filled by one caller in
  sequence; their tests reach what could go wrong. `message.ts` only encodes.
* `transport/udp.ts` and the BLE adapters: socket and bridge calls around an address
  book; the models have what they guarantee, a wire that loses, repeats and reorders.
* The handshake's key schedule and the parsing of codes: single functions without state.
* The pages of the application besides the scanner, native bridges, build scripts,
  film: no protocol state.

## 6. Running

```
tlc -workers 2 -config RelayNodeMC.cfg RelayNodeMC     (about a minute)
tlapm RelayNodeProofs.tla
```

## 7. Plan

Done: the queue, the routing core, the ratchet, reassembly, peer authentication,
broadcast, sync, the scanner, and the theorems above. Next, in this order:

1. `MeshDelivery`: liveness of queued delivery under fair advertisements, links that
   come and go.
2. An abstract `RouteTrust` (a route is proven, doubted or unknown) refined by
   `RelayNode`.
3. Reassembly composed with sessions (`routing.ts:247`).
