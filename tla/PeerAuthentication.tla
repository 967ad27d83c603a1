------------------------- MODULE PeerAuthentication -------------------------
(***************************************************************************)
(* A phone that scans codes and authenticates the nodes that show them     *)
(* (mobile/src/peerAuth.ts over src/identity/introduction-session.ts).     *)
(* Every scan is an attempt of its own: a connection, then four messages.  *)
(*                                                                         *)
(*   opening   Noise message 1, for the static key of the code             *)
(*   reply     Noise message 2; the handshake is complete                  *)
(*   proof     the scanner's introduction and session binding              *)
(*   identity  the displayer's introduction and session binding            *)
(*                                                                         *)
(* The user may close the scanner and scan again while an attempt runs, so *)
(* attempts overlap; they share the trust store and the one active channel *)
(* frames are routed to.  A timeout gives up the wait, not the exchange:   *)
(* what it still does is seen by nobody but the displayer.  A chunk in the *)
(* air may come at any time after it was sent, or never.                   *)
(*                                                                         *)
(* The code runs the continuation of a promise before the next event:      *)
(* `Quiet` holds when none is due.  A handshake's transcript hash is the   *)
(* attempt and the displayer's call it is of.                              *)
(***************************************************************************)
EXTENDS FrameChannel

CONSTANTS
  Identities, \* Ed25519 identity keys
  Attempts,  \* scans the user makes
  Codes,     \* scanned introductions, each of a node in reach
  Keys,      \* node -> the identity and the static key it answers with
  MaxCalls   \* bound on a displayer's calls of respondToScannedPeer

ASSUME AuthenticationConstants ==
  /\ MaxCalls \in Nat \ {0}
  /\ DOMAIN MessageChunks = {"reply", "identity"}
  /\ \A n \in Nodes : Keys[n].identity \in Identities
  /\ \A c \in Codes : c.identity \in Identities /\ c.node \in Nodes

INSTANCE PeerTrust

VARIABLES
  records,        \* the trust store
  attempts,       \* attempt -> how far it is
  channels,       \* attempt -> its FrameChannel
  activeChannel,  \* attempt whose channel takes the frames, or Null
  air,            \* chunks on their way to the scanner
  inbox,          \* node -> messages on their way to it
  displayers,     \* node -> its call of respondToScannedPeer
  sessions        \* sessions a displayer's gate let pass

link == <<air, inbox, displayers, sessions>>
vars == <<records, attempts, channels, activeChannel, link>>

Hashes == [attempt : Attempts, node : Nodes, call : 1 .. MaxCalls]
Messages ==
  [kind : {"opening"}, attempt : Attempts, static : {c.static : c \in Codes}]
    \cup [kind : {"reply", "proof"}, hash : Hashes]
    \cup [kind : {"identity"}, hash : Hashes, identity : Identities,
          static : {Keys[n].static : n \in Nodes}]

Init ==
  /\ records = NoRecords
  /\ attempts = [a \in Attempts |->
       [code |-> Null, phase |-> "unused", outcome |-> Null, session |-> Null]]
  /\ channels = [a \in Attempts |-> NewChannel]
  /\ activeChannel = Null
  /\ air = {}
  /\ inbox = [n \in Nodes |-> <<>>]
  /\ displayers = [n \in Nodes |-> [phase |-> "listening", call |-> 1, session |-> Null]]
  /\ sessions = {}

Waiting == {"awaiting reply", "awaiting identity"}
Exchanging == Waiting \cup {"opening", "proving"}

\* A frame awaits an attempt that waits for one.
Due(a) == attempts[a].phase \in Waiting /\ channels[a].complete # <<>>
Quiet == \A a \in Attempts : ~Due(a)

At(a, phase) == attempts' = [attempts EXCEPT ![a].phase = phase]

----------------------------------------------------------------------------
(* How an attempt ends: authenticateScannedPayload catches and returns. *)

\* An end that leaves the channel active.
EndsListening(a, phase, outcome, trust) ==
  /\ attempts' = [attempts EXCEPT ![a].phase = phase, ![a].outcome = outcome]
  /\ records' = trust
  /\ activeChannel' = activeChannel

\* The call returns: whatever the active channel is, there is none after.
Ends(a, phase, outcome, trust) ==
  /\ attempts' = [attempts EXCEPT ![a].phase = phase, ![a].outcome = outcome]
  /\ records' = trust
  /\ activeChannel' = Null

\* The exchange throws.  Nobody is told if the call has returned.
Throws(a) ==
  \/ /\ attempts[a].outcome = Null
     /\ Ends(a, "over", "failed", MarkedFailed(records, attempts[a].code.identity))
  \/ /\ attempts[a].outcome # Null
     /\ At(a, "over")
     /\ UNCHANGED <<records, activeChannel>>

\* An exchange that is believed even after the call has returned.
SucceedsLate(a) ==
  Ends(a, "over", "verified",
       MarkedVerified(records, attempts[a].code.identity, attempts[a].session))

\* The exchange returns a session.
Succeeds(a) ==
  LET i == attempts[a].code.identity IN
  \/ /\ attempts[a].outcome = Null
     /\ Verifiable(records, i)
     /\ Ends(a, "over", "verified", MarkedVerified(records, i, attempts[a].session))
  \/ /\ attempts[a].outcome = Null
     /\ ~Verifiable(records, i)
     /\ Ends(a, "over", "failed", MarkedFailed(records, i))
  \/ /\ attempts[a].outcome # Null
     /\ At(a, "over")
     /\ UNCHANGED <<records, activeChannel>>

----------------------------------------------------------------------------
(* The call's own steps: introduce, connect, time out. *)

\* authenticateScannedPayload up to connect().  A code that is malformed, the
\* phone's own or of no node in reach returns before anything changes.
Scan(a) ==
  /\ Quiet
  /\ attempts[a].phase = "unused"
  /\ \E c \in Codes :
       /\ attempts' = [attempts EXCEPT ![a].code = c, ![a].phase = "connecting"]
       /\ records' = Introduced(records, c.identity)
  /\ UNCHANGED <<channels, activeChannel, link>>

\* connect() rejects: the return is outside the finally.
ConnectFails(a) ==
  /\ Quiet
  /\ attempts[a].phase = "connecting"
  /\ attempts' = [attempts EXCEPT ![a].phase = "over", ![a].outcome = "failed"]
  /\ records' = MarkedFailed(records, attempts[a].code.identity)
  /\ UNCHANGED <<channels, activeChannel, link>>

\* connect() resolves.  assertUsable throws for a code without the transport.
Connect(a) ==
  /\ Quiet
  /\ attempts[a].phase = "connecting"
  /\ channels' = [channels EXCEPT ![a] = NewChannel]
  /\ \/ /\ attempts[a].code.usable
        /\ At(a, "opening")
        /\ activeChannel' = a
        /\ records' = records
     \/ /\ ~attempts[a].code.usable
        /\ Ends(a, "over", "failed", MarkedFailed(records, attempts[a].code.identity))
  /\ UNCHANGED link

\* A timer that runs only while a frame is awaited.
TimeoutWhileWaiting(a) ==
  /\ Quiet
  /\ attempts[a].outcome = Null
  /\ attempts[a].phase \in Waiting
  /\ Ends(a, attempts[a].phase, "failed", MarkedFailed(records, attempts[a].code.identity))
  /\ UNCHANGED <<channels, link>>

\* withTimeout rejects.  The exchange stays where it is.
Timeout(a) ==
  /\ Quiet
  /\ attempts[a].outcome = Null
  /\ attempts[a].phase \in Exchanging
  /\ Ends(a, attempts[a].phase, "failed", MarkedFailed(records, attempts[a].code.identity))
  /\ UNCHANGED <<channels, link>>

----------------------------------------------------------------------------
(* The exchange: authenticateScannedPeer. *)

\* channel.send: the message, all of it or not, leaves for the code's node, and
\* the exchange waits; or the transport refuses it.
Sends(a, message, next) ==
  \/ /\ At(a, next)
     /\ \/ inbox' = [inbox EXCEPT ![attempts[a].code.node] = Append(@, message)]
        \/ inbox' = inbox
     /\ UNCHANGED <<records, channels, activeChannel, air, displayers, sessions>>
  \/ /\ Throws(a)
     /\ UNCHANGED <<channels, link>>

SendOpening(a) ==
  /\ Quiet
  /\ attempts[a].phase = "opening"
  /\ Sends(a, [kind |-> "opening", attempt |-> a, static |-> attempts[a].code.static],
           "awaiting reply")

SendProof(a) ==
  /\ Quiet
  /\ attempts[a].phase = "proving"
  /\ Sends(a, [kind |-> "proof", hash |-> attempts[a].session], "awaiting identity")

\* The next frame reads as `message`.
Takes(a, message) ==
  /\ channels[a].complete # <<>>
  /\ message \in Readings(Head(channels[a].complete))
  /\ channels' = [channels EXCEPT ![a].complete = Tail(@)]

\* initiatorReadMessage2 decrypts it.
CompletesHandshake(a, message) ==
  /\ message # Garbled
  /\ message.kind = "reply"
  /\ message.hash.attempt = a

ReadReply(a) ==
  /\ attempts[a].phase = "awaiting reply"
  /\ \E message \in Messages \cup {Garbled} :
       /\ Takes(a, message)
       /\ \/ /\ CompletesHandshake(a, message)
             /\ attempts' = [attempts EXCEPT ![a].phase = "proving", ![a].session = message.hash]
             /\ UNCHANGED <<records, activeChannel>>
          \/ /\ ~CompletesHandshake(a, message)
             /\ Throws(a)
  /\ UNCHANGED link

\* A gate that does not ask who the displayer is.
ProvesSomebody(a, message) ==
  /\ message # Garbled
  /\ message.kind = "identity"
  /\ message.static = attempts[a].code.static
  /\ message.hash = attempts[a].session

\* The introduction is the one scanned, and establishAuthenticatedSession lets
\* the binding pass.
ProvesIdentity(a, message) ==
  /\ message # Garbled
  /\ message.kind = "identity"
  /\ message.identity = attempts[a].code.identity
  /\ message.static = attempts[a].code.static
  /\ message.hash = attempts[a].session

ReadIdentity(a) ==
  /\ attempts[a].phase = "awaiting identity"
  /\ \E message \in Messages \cup {Garbled} :
       /\ Takes(a, message)
       /\ \/ ProvesIdentity(a, message) /\ Succeeds(a)
          \/ ~ProvesIdentity(a, message) /\ Throws(a)
  /\ UNCHANGED link

\* The transport's receive callback: accept() of the active channel, if any.
Receive(chunk) ==
  /\ Quiet
  /\ air' = air \ {chunk}
  /\ channels' = IF activeChannel = Null THEN channels
                 ELSE [channels EXCEPT ![activeChannel] = Accepted(@, chunk)]
  /\ UNCHANGED <<records, attempts, activeChannel, inbox, displayers, sessions>>

\* The store's forget(), from the user's side of the application.
Forget(i) ==
  /\ Quiet
  /\ records[i] # Null
  /\ records' = Forgotten(records, i)
  /\ UNCHANGED <<attempts, channels, activeChannel, link>>

----------------------------------------------------------------------------
(* The displayer: respondToScannedPeer, called again when it has returned. *)

\* What it sends leaves for the scanner, and it waits on; or send() throws.
Answers(n, message, next) ==
  /\ air' = air \cup Chunks(n, message)
  /\ \E phase \in {next, "over"} : displayers' = [displayers EXCEPT ![n].phase = phase,
                                                   ![n].session = message.hash]

Opens(n, message) == message.kind = "opening" /\ message.static = Keys[n].static
Proves(n, message) == message.kind = "proof" /\ message.hash = displayers[n].session

Reply(n) ==
  LET message == Head(inbox[n]) IN
  /\ displayers[n].phase = "listening"
  /\ Opens(n, message)
  /\ Answers(n, [kind |-> "reply",
                 hash |-> [attempt |-> message.attempt, node |-> n, call |-> displayers[n].call]],
             "replied")
  /\ UNCHANGED sessions

Identify(n) ==
  LET message == Head(inbox[n]) IN
  /\ displayers[n].phase = "replied"
  /\ Proves(n, message)
  /\ sessions' = sessions \cup {message.hash}
  /\ Answers(n, [kind |-> "identity", hash |-> message.hash,
                 identity |-> Keys[n].identity, static |-> Keys[n].static], "over")

\* Any other message makes it throw.
Refuse(n) ==
  LET message == Head(inbox[n]) IN
  /\ \/ displayers[n].phase = "listening" /\ ~Opens(n, message)
     \/ displayers[n].phase = "replied" /\ ~Proves(n, message)
  /\ displayers' = [displayers EXCEPT ![n].phase = "over"]
  /\ UNCHANGED <<air, sessions>>

Listen(n) ==
  /\ displayers[n].phase = "over"
  /\ displayers[n].call < MaxCalls
  /\ displayers' = [displayers EXCEPT ![n] =
       [phase |-> "listening", call |-> displayers[n].call + 1, session |-> Null]]
  /\ UNCHANGED <<records, attempts, channels, activeChannel, air, inbox, sessions>>

TakeMessage(n) ==
  /\ inbox[n] # <<>>
  /\ inbox' = [inbox EXCEPT ![n] = Tail(@)]
  /\ Reply(n) \/ Identify(n) \/ Refuse(n)
  /\ UNCHANGED <<records, attempts, channels, activeChannel>>

----------------------------------------------------------------------------
Attempt(a) ==
  \/ Scan(a) \/ ConnectFails(a) \/ Connect(a) \/ Timeout(a)
  \/ SendOpening(a) \/ ReadReply(a) \/ SendProof(a) \/ ReadIdentity(a)
Displayer(n) == TakeMessage(n) \/ Listen(n)

Next ==
  \/ \E a \in Attempts : Attempt(a)
  \/ \E n \in Nodes : Displayer(n)
  \/ \E chunk \in air : Receive(chunk)
  \/ \E i \in Identities : Forget(i)

\* The timer fires and continuations run.  The radio, the displayers and
\* connect() owe nothing: the native bridge may never settle its promise.
Fairness ==
  \A a \in Attempts :
    /\ WF_vars(Timeout(a))
    /\ WF_vars(ReadReply(a))
    /\ WF_vars(ReadIdentity(a))

Spec == Init /\ [][Next]_vars /\ Fairness

----------------------------------------------------------------------------
(* Properties *)

\* Every value is one the program can hold.
TypeOK ==
  /\ records \in [Identities ->
       {Null, Introduction} \cup [trust : {"verified"}, session : Hashes]]
  /\ attempts \in [Attempts -> [code : Codes \cup {Null},
                                phase : Exchanging \cup {"unused", "connecting", "over"},
                                outcome : {Null, "verified", "failed"},
                                session : Hashes \cup {Null}]]
  /\ \A a \in Attempts :
       /\ \A n \in Nodes : channels[a].pending[n] # Null => Null \in Range(channels[a].pending[n])
       /\ \A f \in Range(channels[a].complete) : Range(f) \subseteq Messages
  /\ activeChannel \in Attempts \cup {Null}
  /\ \A chunk \in air : chunk.peer \in Nodes /\ chunk.message \in Messages
  /\ \A n \in Nodes : displayers[n].phase \in {"listening", "replied", "over"}
                     /\ displayers[n].call \in 1 .. MaxCalls
  /\ sessions \subseteq Hashes

\* A peer the store calls verified has proved itself: the session its record
\* names is one an attempt for that identity ended with, and at the other end
\* a node that holds the identity let the same session pass its own gate
\* (authenticateScannedPeer, markVerified).
VerifiedBySession ==
  \A i \in Identities : IsVerified(records, i) =>
    LET session == records[i].session IN
    /\ session \in sessions
    /\ Keys[session.node].identity = i
    /\ attempts[session.attempt].code.identity = i
    /\ attempts[session.attempt].outcome = "verified"

\* No frame is put together from chunks of two peers, however they interleave
\* (accept's set per peer).
PeersApart ==
  \A a \in Attempts : \A f \in Range(channels[a].complete) :
    \A k, l \in DOMAIN f : f[k].hash.node = f[l].hash.node

\* Frames are never routed to an attempt whose call has returned, also when
\* attempts overlap (the finally of authenticateScannedPayload).
ActiveIsRunning ==
  activeChannel # Null =>
    attempts[activeChannel].outcome = Null /\ attempts[activeChannel].phase \in Exchanging

\* A peer becomes verified, or verified by another session, only as the call
\* whose session it is returns: an exchange that was given up on earns no
\* trust, nor does a peer that was forgotten meanwhile.
EarnedByRunningCall ==
  [][\A i \in Identities :
       IsVerified(records, i)' /\ records'[i] # records[i] =>
         /\ records[i] # Null
         /\ attempts[records'[i].session.attempt].outcome = Null]_vars

\* A call that got its connection returns: neither a displayer that falls silent
\* nor another attempt that takes its channel keeps it (withTimeout).
CallsReturn ==
  \A a \in Attempts : attempts[a].phase \in Exchanging ~> attempts[a].outcome # Null

----------------------------------------------------------------------------
(* What a comment says and the code does not do. *)

\* Frames for other peers are ignored.
OtherPeersIgnored ==
  \A a \in Attempts : \A f \in Range(channels[a].complete) :
    \A k \in DOMAIN f : f[k].hash.node = attempts[a].code.node
=============================================================================
