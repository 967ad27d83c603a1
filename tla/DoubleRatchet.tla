--------------------------- MODULE DoubleRatchet ---------------------------
(***************************************************************************)
(* The double ratchet of a session (class DoubleRatchet of                 *)
(* src/crypto/ratchet.ts), run by its two ends over a network that loses,  *)
(* duplicates, reorders, reflects and damages packets.                     *)
(*                                                                         *)
(* Keys are symbolic.  A root key is the sequence of Diffie-Hellman        *)
(* outputs that were mixed into it, and a chain carries the root key it    *)
(* came out with; a Diffie-Hellman output is the set of the two key pairs  *)
(* it is made of; a chain key and the message key taken from it are the    *)
(* chain and the number of steps made along it.  Different inputs give     *)
(* different keys, and a ciphertext opens only under its own key and with  *)
(* the header it was sealed with.                                          *)
(***************************************************************************)
EXTENDS Integers, Sequences, FiniteSets, Functions

CONSTANTS
  Initiator,    \* the end that wrote the first handshake message
  Responder,    \* the end that answered it
  Null,         \* null
  MaxSkip,      \* MAX_SKIP
  MaxMessages,  \* bound: messages each end encrypts
  Damage        \* headers that a damaged packet may show

Parties == {Initiator, Responder}
KeyPairs == [owner : Parties, number : Nat]

ASSUME RatchetConstants ==
  /\ Initiator # Responder
  /\ Null \notin KeyPairs \cup [chain : Seq(SUBSET KeyPairs), step : Nat]
  /\ MaxSkip \in Nat
  /\ MaxMessages \in Nat

Peer(p) == CHOOSE q \in Parties : q # p

VARIABLES
  ratchet,  \* party -> its DoubleRatchet object
  wire,     \* packets either end has encrypted
  openings  \* party -> message -> how often the party has opened it

vars == <<ratchet, wire, openings>>

Messages == [from : Parties, number : 1 .. MaxMessages]

\* Key pairs are numbered as their owner generates them.
KeyPair(p, number) == [owner |-> p, number |-> number]
NextKeyPair(pair) == [pair EXCEPT !.number = @ + 1]

DeriveSharedSecret(own, remote) == {own, remote}
KdfRootKey(rootKey, dhOutput) == Append(rootKey, dhOutput)
FirstChainKey(rootKey) == [chain |-> rootKey, step |-> 0]
StepsOn(chainKey, k) == [chainKey EXCEPT !.step = @ + k]

----------------------------------------------------------------------------
InitAsResponder ==
  [rootKey |-> <<>>, dhSelf |-> KeyPair(Responder, 0), dhRemote |-> Null,
   sendingChainKey |-> Null, receivingChainKey |-> Null,
   sendMessageNumber |-> 0, receiveMessageNumber |-> 0,
   previousSendingChainLength |-> 0, skippedMessageKeys |-> [k \in {} |-> k]]

InitAsInitiator ==
  LET dhSelf == KeyPair(Initiator, 0)
      dhRemote == KeyPair(Responder, 0)
      rootKey == KdfRootKey(<<>>, DeriveSharedSecret(dhSelf, dhRemote))
  IN  [InitAsResponder EXCEPT !.rootKey = rootKey, !.dhSelf = dhSelf, !.dhRemote = dhRemote,
                              !.sendingChainKey = FirstChainKey(rootKey)]

Init ==
  /\ ratchet = [p \in Parties |-> IF p = Initiator THEN InitAsInitiator ELSE InitAsResponder]
  /\ wire = {}
  /\ openings = [p \in Parties |-> [m \in Messages |-> 0]]

----------------------------------------------------------------------------
(* The steps of decrypt(). *)

\* skipMessageKeysUntil throws.
TooManySkipped(s, until) ==
  /\ s.receivingChainKey # Null
  /\ s.dhRemote # Null
  /\ until - s.receiveMessageNumber > MaxSkip

\* A skip that passes the messages over without keeping their keys.
PassOver(s, until) ==
  IF s.receivingChainKey = Null \/ s.dhRemote = Null \/ until <= s.receiveMessageNumber THEN s
  ELSE [s EXCEPT !.receivingChainKey = StepsOn(@, until - s.receiveMessageNumber),
                 !.receiveMessageNumber = until]

SkipMessageKeysUntil(s, until) ==
  LET first == s.receiveMessageNumber
      passed == {<<s.dhRemote, i>> : i \in first .. until - 1}
  IN  IF s.receivingChainKey = Null \/ s.dhRemote = Null \/ until <= first THEN s
      ELSE [s EXCEPT
              !.receivingChainKey = StepsOn(@, until - first),
              !.receiveMessageNumber = until,
              !.skippedMessageKeys =
                [k \in DOMAIN @ \cup passed |->
                   IF k \in passed THEN StepsOn(s.receivingChainKey, k[2] - first) ELSE @[k]]]

\* A step whose two chains come out of the same root key.
SingleRatchetStep(s, remote) ==
  LET received == KdfRootKey(s.rootKey, DeriveSharedSecret(s.dhSelf, remote))
  IN  [s EXCEPT !.previousSendingChainLength = s.sendMessageNumber,
                !.sendMessageNumber = 0, !.receiveMessageNumber = 0, !.dhRemote = remote,
                !.rootKey = received, !.receivingChainKey = FirstChainKey(received),
                !.dhSelf = NextKeyPair(@), !.sendingChainKey = FirstChainKey(received)]

\* A step that forgets the length of the chain it closes.
StepForgettingLength(s, remote) ==
  LET dhSelf == NextKeyPair(s.dhSelf)
      received == KdfRootKey(s.rootKey, DeriveSharedSecret(s.dhSelf, remote))
      sending == KdfRootKey(received, DeriveSharedSecret(dhSelf, remote))
  IN  [s EXCEPT !.sendMessageNumber = 0, !.receiveMessageNumber = 0, !.dhRemote = remote,
                !.rootKey = sending, !.receivingChainKey = FirstChainKey(received),
                !.dhSelf = dhSelf, !.sendingChainKey = FirstChainKey(sending)]

\* A pair generated by a decrypt() that fails is never seen again, so the next
\* one takes its number.
PerformDhRatchetStep(s, remote) ==
  LET dhSelf == NextKeyPair(s.dhSelf)
      received == KdfRootKey(s.rootKey, DeriveSharedSecret(s.dhSelf, remote))
      sending == KdfRootKey(received, DeriveSharedSecret(dhSelf, remote))
  IN  [s EXCEPT !.previousSendingChainLength = s.sendMessageNumber,
                !.sendMessageNumber = 0, !.receiveMessageNumber = 0, !.dhRemote = remote,
                !.rootKey = sending, !.receivingChainKey = FirstChainKey(received),
                !.dhSelf = dhSelf, !.sendingChainKey = FirstChainKey(sending)]

\* The cached key of the message the header h announces, if there is one.
HasSkippedKey(s, h) == <<h.dhPublicKey, h.messageNumber>> \in DOMAIN s.skippedMessageKeys

OnNewChain(s, h) == s.dhRemote = Null \/ h.dhPublicKey # s.dhRemote

\* The state once its receiving chain is the one h belongs to.
OnChainOf(s, h) ==
  IF OnNewChain(s, h)
    THEN PerformDhRatchetStep(SkipMessageKeysUntil(s, h.previousChainLength), h.dhPublicKey)
    ELSE s

\* No step throws before the ciphertext is tried.
ReachesKey(s, h) ==
  \/ HasSkippedKey(s, h)
  \/ /\ OnNewChain(s, h) => ~TooManySkipped(s, h.previousChainLength)
     /\ ~TooManySkipped(OnChainOf(s, h), h.messageNumber)
     /\ OnChainOf(s, h).receivingChainKey # Null

\* The key the ciphertext is tried with.
MessageKey(s, h) ==
  IF HasSkippedKey(s, h) THEN s.skippedMessageKeys[<<h.dhPublicKey, h.messageNumber>>]
  ELSE SkipMessageKeysUntil(OnChainOf(s, h), h.messageNumber).receivingChainKey

\* An advance that leaves a cached key where it was.
AdvancedKeepingKey(s, h) ==
  IF HasSkippedKey(s, h) THEN s
  ELSE LET t == SkipMessageKeysUntil(OnChainOf(s, h), h.messageNumber)
       IN  [t EXCEPT !.receivingChainKey = StepsOn(@, 1), !.receiveMessageNumber = @ + 1]

\* The state the ciphertext leaves behind when it opens.
Advanced(s, h) ==
  IF HasSkippedKey(s, h)
    THEN [s EXCEPT !.skippedMessageKeys =
            Restrict(@, DOMAIN @ \ {<<h.dhPublicKey, h.messageNumber>>})]
    ELSE LET t == SkipMessageKeysUntil(OnChainOf(s, h), h.messageNumber)
         IN  [t EXCEPT !.receivingChainKey = StepsOn(@, 1), !.receiveMessageNumber = @ + 1]

\* A decrypt() that keeps what it did for a ciphertext that does not open.
CommittedAlways(s, h, opens) == IF ReachesKey(s, h) THEN Advanced(s, h) ELSE s

\* Whatever throws, the snapshot is restored.
AfterDecrypt(s, h, opens) == IF opens THEN Advanced(s, h) ELSE s

----------------------------------------------------------------------------
SentBy(p) == Cardinality({m \in wire : m.from = p})

\* An encrypt() that leaves the chain where it was.
EncryptInPlace(p) ==
  LET s == ratchet[p]
  IN  /\ s.sendingChainKey # Null
      /\ SentBy(p) < MaxMessages
      /\ wire' = wire \cup
           {[from |-> p, number |-> SentBy(p) + 1, key |-> s.sendingChainKey,
             header |-> [dhPublicKey |-> s.dhSelf,
                         previousChainLength |-> s.previousSendingChainLength,
                         messageNumber |-> s.sendMessageNumber]]}
      /\ ratchet' = [ratchet EXCEPT ![p].sendMessageNumber = @ + 1]
      /\ UNCHANGED openings

\* encrypt(); it throws while there is no sending chain.
Encrypt(p) ==
  LET s == ratchet[p]
  IN  /\ s.sendingChainKey # Null
      /\ SentBy(p) < MaxMessages
      /\ wire' = wire \cup
           {[from |-> p, number |-> SentBy(p) + 1, key |-> s.sendingChainKey,
             header |-> [dhPublicKey |-> s.dhSelf,
                         previousChainLength |-> s.previousSendingChainLength,
                         messageNumber |-> s.sendMessageNumber]]}
      /\ ratchet' = [ratchet EXCEPT ![p].sendingChainKey = StepsOn(@, 1),
                                    ![p].sendMessageNumber = @ + 1]
      /\ UNCHANGED openings

Opens(p, m) ==
  /\ ReachesKey(ratchet[p], m.header)
  /\ MessageKey(ratchet[p], m.header) = m.key

\* decrypt() of a packet that arrives as it was sent, be it p's own.
Decrypt(p, m) ==
  /\ ratchet' = [ratchet EXCEPT ![p] = AfterDecrypt(@, m.header, Opens(p, m))]
  /\ openings' = IF Opens(p, m)
                   THEN [openings EXCEPT ![p][[from |-> m.from, number |-> m.number]] = @ + 1]
                   ELSE openings
  /\ UNCHANGED wire

\* decrypt() of a packet that arrives damaged, showing header h.
DecryptDamaged(p, h) ==
  /\ ratchet' = [ratchet EXCEPT ![p] = AfterDecrypt(@, h, FALSE)]
  /\ UNCHANGED <<wire, openings>>

Next ==
  \/ \E p \in Parties : Encrypt(p)
  \/ \E p \in Parties, m \in wire : Decrypt(p, m)
  \/ \E p \in Parties, h \in Damage : DecryptDamaged(p, h)

Spec == Init /\ [][Next]_vars
----------------------------------------------------------------------------
Headers ==
  [dhPublicKey : KeyPairs, previousChainLength : Nat, messageNumber : Nat]
IsKey(k) == k.step \in Nat /\ DOMAIN k = {"chain", "step"}
Opened(p, m) == openings[p][[from |-> m.from, number |-> m.number]] > 0

\* The state has the shape the class declares; a receiving chain belongs to a
\* known remote key, and both ends count the messages of a chain as they go
\* along it.
TypeOK ==
  /\ \A p \in Parties :
       LET s == ratchet[p]
       IN  /\ s.dhSelf \in [owner : {p}, number : Nat]
           /\ s.dhRemote \in [owner : {Peer(p)}, number : Nat] \cup {Null}
           /\ s.previousSendingChainLength \in Nat
           /\ s.sendingChainKey # Null =>
                IsKey(s.sendingChainKey) /\ s.sendMessageNumber = s.sendingChainKey.step
           /\ s.receivingChainKey # Null =>
                /\ IsKey(s.receivingChainKey) /\ s.dhRemote # Null
                /\ s.receiveMessageNumber = s.receivingChainKey.step
  /\ \A m \in wire : m.from \in Parties /\ m.header \in Headers /\ IsKey(m.key)
  /\ openings \in [Parties -> [Messages -> Nat]]

\* The two ends never lose each other: whatever is lost, replayed, reordered
\* or damaged, one root key is the other with exactly one more output mixed in.
RootsAgree ==
  \E p \in Parties :
    LET ahead == ratchet[p].rootKey
    IN  ahead # <<>> /\ ratchet[Peer(p)].rootKey = SubSeq(ahead, 1, Len(ahead) - 1)

\* Each end's counters fit its chains, and the two ends fit each other.
EndsInStep == TypeOK /\ RootsAgree

\* In whatever order packets arrive, one that arrives for the first time opens,
\* as long as its chain and the chain before it are no longer than MAX_SKIP.
FirstReceiptOpens ==
  \A m \in wire :
    /\ ~Opened(Peer(m.from), m)
    /\ m.header.messageNumber <= MaxSkip
    /\ m.header.previousChainLength <= MaxSkip
    => Opens(Peer(m.from), m)

\* The cache holds the keys of packets that were passed over and not opened
\* since, each under its own packet's name: nothing damaged or replayed leaves
\* a key in it.
SkippedKeysAwaited ==
  \A p \in Parties : \A k \in DOMAIN ratchet[p].skippedMessageKeys :
    \E m \in wire :
      /\ m.from = Peer(p) /\ ~Opened(p, m)
      /\ k = <<m.header.dhPublicKey, m.header.messageNumber>>
      /\ m.key = ratchet[p].skippedMessageKeys[k]

\* No two messages are ever encrypted under one key.
KeysUsedOnce == \A m, o \in wire : m.key = o.key => m = o

\* The keys that state s still yields.
Yields(s, key) ==
  \/ key \in Range(s.skippedMessageKeys)
  \/ \E chainKey \in {s.sendingChainKey, s.receivingChainKey} \ {Null} :
       chainKey.chain = key.chain /\ chainKey.step <= key.step
  \/ \E remote \in [owner : Parties, number : 0 .. 2 * MaxMessages] :
       key.chain = KdfRootKey(s.rootKey, DeriveSharedSecret(s.dhSelf, remote))

\* Forward secrecy: what an end holds never yields the key of a message it has
\* sent or opened already.
ForwardSecrecy ==
  \A m \in wire :
    /\ ~Yields(ratchet[m.from], m.key)
    /\ Opened(Peer(m.from), m) => ~Yields(ratchet[Peer(m.from)], m.key)

\* The ratchet keeps the promise of a secure channel: only messages of the
\* other end are opened, and none twice.
Channel == INSTANCE SecureChannel WITH sent <- [p \in Parties |-> SentBy(p)]
KeepsChannelPromise == Channel!Spec
=============================================================================
