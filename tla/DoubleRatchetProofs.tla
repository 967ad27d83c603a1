------------------------ MODULE DoubleRatchetProofs ------------------------
(***************************************************************************)
(* For sessions of any length, any MAX_SKIP and any packets lost, repeated,*)
(* reordered, reflected or damaged: the two ends stay in step, no key is   *)
(* used twice or kept once it is spent, a packet opens when it first       *)
(* arrives unless too many were passed over, and the ratchet implements    *)
(* SecureChannel.                                                          *)
(***************************************************************************)
EXTENDS DoubleRatchet, FiniteSetTheorems, TLAPS

\* The key pairs of a session in the order they come into use: each end's next
\* follows the other's.  The pair of turn n sends on chain n.
PairOf(n) == KeyPair(IF n % 2 = 1 THEN Initiator ELSE Responder, n \div 2)

\* The root key that chain n comes out with.
Root(n) == [i \in 1 .. n |-> {PairOf(i - 1), PairOf(i)}]

\* Each end's peer is the other end.
LEMMA PeerFacts ==
  /\ Peer(Initiator) = Responder /\ Peer(Responder) = Initiator
  /\ \A p \in Parties : Peer(p) \in Parties /\ Peer(p) # p /\ Peer(Peer(p)) = p
  /\ \A p, q \in Parties : q # p => q = Peer(p)
BY RatchetConstants DEF Peer, Parties

\* The pairs of different turns are different, those of neighbouring turns
\* belong to different ends, and an end's next pair is that of the turn after
\* the other's.
LEMMA PairFacts ==
  /\ PairOf(0) = KeyPair(Responder, 0) /\ PairOf(1) = KeyPair(Initiator, 0)
  /\ \A n \in Nat : /\ PairOf(n) \in KeyPairs
                    /\ PairOf(n).owner \in Parties
                    /\ PairOf(n + 1).owner = Peer(PairOf(n).owner)
                    /\ NextKeyPair(PairOf(n)) = PairOf(n + 2)
  /\ \A m, n \in Nat : PairOf(m) = PairOf(n) => m = n
<1>1. \A n \in Nat : n % 2 \in {0, 1} /\ n \div 2 \in Nat
  OBVIOUS
<1>2. \A n \in Nat : (n + 1) % 2 = 1 - (n % 2)
  OBVIOUS
<1>3. \A n \in Nat : (n + 2) % 2 = n % 2 /\ (n + 2) \div 2 = n \div 2 + 1
  OBVIOUS
<1>4. \A m, n \in Nat : m % 2 = n % 2 /\ m \div 2 = n \div 2 => m = n
  OBVIOUS
<1>5. PairOf(0) = KeyPair(Responder, 0) /\ PairOf(1) = KeyPair(Initiator, 0)
  BY DEF PairOf
<1>6. ASSUME NEW n \in Nat
      PROVE  /\ PairOf(n) \in KeyPairs
             /\ PairOf(n).owner \in Parties
             /\ PairOf(n + 1).owner = Peer(PairOf(n).owner)
             /\ NextKeyPair(PairOf(n)) = PairOf(n + 2)
  <2>1. PairOf(n) \in KeyPairs /\ PairOf(n).owner \in Parties
    BY <1>1 DEF PairOf, KeyPair, KeyPairs, Parties
  <2>2. PairOf(n + 1).owner = Peer(PairOf(n).owner)
    BY <1>1, <1>2, PeerFacts DEF PairOf, KeyPair
  <2>3. NextKeyPair(PairOf(n)) = PairOf(n + 2)
    BY <1>3 DEF PairOf, KeyPair, NextKeyPair
  <2> QED
    BY <2>1, <2>2, <2>3
<1>7. ASSUME NEW m \in Nat, NEW n \in Nat, PairOf(m) = PairOf(n)
      PROVE  m = n
  <2>1. m % 2 = n % 2 /\ m \div 2 = n \div 2
    BY <1>1, <1>7, RatchetConstants DEF PairOf, KeyPair
  <2> QED
    BY <1>4, <2>1
<1> QED
  BY <1>5, <1>6, <1>7

\* Root keys grow by one output a turn, and those of different turns differ.
LEMMA RootFacts ==
  /\ Root(0) = <<>>
  /\ \A n \in Nat : /\ Root(n) \in Seq(SUBSET KeyPairs) /\ Len(Root(n)) = n
                    /\ KdfRootKey(Root(n), DeriveSharedSecret(PairOf(n), PairOf(n + 1)))
                         = Root(n + 1)
                    /\ KdfRootKey(Root(n), DeriveSharedSecret(PairOf(n + 1), PairOf(n)))
                         = Root(n + 1)
                    /\ \A a, b \in KeyPairs :
                         Len(KdfRootKey(Root(n), DeriveSharedSecret(a, b))) = n + 1
  /\ \A m, n \in Nat : Root(m) = Root(n) => m = n
<1>1. ASSUME NEW n \in Nat
      PROVE  /\ Root(n) \in Seq(SUBSET KeyPairs) /\ Len(Root(n)) = n
             /\ \A x \in SUBSET KeyPairs : Len(Append(Root(n), x)) = n + 1
             /\ Append(Root(n), {PairOf(n), PairOf(n + 1)}) = Root(n + 1)
  <2> DEFINE r == Root(n)
             x == {PairOf(n), PairOf(n + 1)}
  <2>1. \A m \in Nat : \A i \in 1 .. m : {PairOf(i - 1), PairOf(i)} \in SUBSET KeyPairs
    BY PairFacts
  <2>2. \A m \in Nat : /\ Root(m) \in Seq(SUBSET KeyPairs) /\ Len(Root(m)) = m
                       /\ \A i \in 1 .. m : Root(m)[i] = {PairOf(i - 1), PairOf(i)}
    BY <2>1 DEF Root
  <2>3. x \in SUBSET KeyPairs
    BY PairFacts
  <2>4. Append(r, x) \in Seq(SUBSET KeyPairs) /\ Len(Append(r, x)) = n + 1
    BY <2>2, <2>3
  <2>5. \A i \in 1 .. n + 1 : Append(r, x)[i] = Root(n + 1)[i]
    <3>1. /\ r \in Seq(SUBSET KeyPairs) /\ Len(r) = n
          /\ \A i \in 1 .. n : r[i] = {PairOf(i - 1), PairOf(i)}
      BY <2>2
    <3>2. \A i \in 1 .. n + 1 : Root(n + 1)[i] = {PairOf(i - 1), PairOf(i)}
      BY <2>2
    <3>3. x = {PairOf(n + 1 - 1), PairOf(n + 1)}
      OBVIOUS
    <3> HIDE DEF r, x
    <3>4. /\ Append(r, x)[n + 1] = x
          /\ \A i \in 1 .. n : Append(r, x)[i] = r[i]
      BY <2>3, <3>1
    <3>5. \A i \in 1 .. n : i \in 1 .. n + 1
      OBVIOUS
    <3>6. n + 1 \in 1 .. n + 1
      OBVIOUS
    <3>7. Root(n + 1)[n + 1] = x
      BY <3>2, <3>3, <3>6
    <3>8. \A i \in 1 .. n : Append(r, x)[i] = Root(n + 1)[i]
      BY <3>1, <3>2, <3>4, <3>5
    <3>9. \A i \in 1 .. n + 1 : i = n + 1 \/ i \in 1 .. n
      OBVIOUS
    <3> QED
      BY <3>4, <3>7, <3>8, <3>9
  <2>6. Root(n + 1) \in Seq(SUBSET KeyPairs) /\ Len(Root(n + 1)) = n + 1
    BY <2>2
  <2>7. Append(r, x) = Root(n + 1)
    <3> HIDE DEF r, x
    <3> QED
      BY <2>4, <2>5, <2>6
  <2> QED
    BY <2>2, <2>7
<1>2. ASSUME NEW m \in Nat, NEW n \in Nat, Root(m) = Root(n)
      PROVE  m = n
  BY <1>1, <1>2
<1>3. Root(0) = <<>>
  BY DEF Root
<1>4. \A n \in Nat : {PairOf(n + 1), PairOf(n)} = {PairOf(n), PairOf(n + 1)}
  OBVIOUS
<1> QED
  BY <1>1, <1>2, <1>3, <1>4 DEF KdfRootKey, DeriveSharedSecret

----------------------------------------------------------------------------
RatchetFields ==
  {"rootKey", "dhSelf", "dhRemote", "sendingChainKey", "receivingChainKey", "sendMessageNumber",
   "receiveMessageNumber", "previousSendingChainLength", "skippedMessageKeys"}

\* The ratchet of the end that has got to turn n.
IsEnd(s, n) ==
  /\ DOMAIN s = RatchetFields
  /\ s.rootKey = Root(n)
  /\ s.dhSelf = PairOf(n)
  /\ s.dhRemote = IF n = 0 THEN Null ELSE PairOf(n - 1)
  /\ s.sendingChainKey = IF n = 0 THEN Null ELSE [chain |-> Root(n), step |-> s.sendMessageNumber]
  /\ s.receivingChainKey = IF n <= 1 THEN Null
                           ELSE [chain |-> Root(n - 1), step |-> s.receiveMessageNumber]
  /\ s.sendMessageNumber \in Nat
  /\ s.receiveMessageNumber \in Nat
  /\ s.previousSendingChainLength \in Nat

\* The names in the cache of the messages of chain c from first to until.
NamesOf(c, first, until) == {<<PairOf(c), i>> : i \in first .. until - 1}

\* No key pair and no chain key is null.
LEMMA NotNull ==
  /\ \A n \in Nat : PairOf(n) # Null
  /\ \A n, i \in Nat : [chain |-> Root(n), step |-> i] # Null
<1>1. \A n \in Nat : PairOf(n) # Null
  BY PairFacts, RatchetConstants
<1>2. \A n, i \in Nat :
        [chain |-> Root(n), step |-> i] \in [chain : Seq(SUBSET KeyPairs), step : Nat]
  BY RootFacts
<1> QED
  BY <1>1, <1>2, RatchetConstants

\* The key of message i of chain c.
KeyAt(c, i) == [chain |-> Root(c), step |-> i]

\* t is the end s of turn n once it has passed over what comes before message
\* `until` of its receiving chain, and has cached the key of each such message
\* under the message's name.
SkippedTo(s, n, until, t) ==
  LET first == s.receiveMessageNumber
  IN  /\ IsEnd(t, n)
      /\ t.receiveMessageNumber = IF until <= first THEN first ELSE until
      /\ t.sendMessageNumber = s.sendMessageNumber
      /\ t.previousSendingChainLength = s.previousSendingChainLength
      /\ DOMAIN t.skippedMessageKeys
           = DOMAIN s.skippedMessageKeys \cup NamesOf(n - 1, first, until)
      /\ \A k \in DOMAIN s.skippedMessageKeys \ NamesOf(n - 1, first, until) :
           t.skippedMessageKeys[k] = s.skippedMessageKeys[k]
      /\ \A i \in first .. until - 1 :
           t.skippedMessageKeys[<<PairOf(n - 1), i>>] = KeyAt(n - 1, i)

\* That is what skipMessageKeysUntil does.
LEMMA SkipFacts ==
  ASSUME NEW s, NEW n \in Nat, IsEnd(s, n), n >= 2, NEW until \in Nat
  PROVE  SkippedTo(s, n, until, SkipMessageKeysUntil(s, until))
<1> DEFINE t == SkipMessageKeysUntil(s, until)
           first == s.receiveMessageNumber
           passed == {<<s.dhRemote, i>> : i \in first .. until - 1}
<1>1. /\ n - 1 \in Nat /\ n # 0 /\ ~(n <= 1) /\ first \in Nat
      /\ s.dhRemote = PairOf(n - 1) /\ s.dhRemote # Null
      /\ s.receivingChainKey = [chain |-> Root(n - 1), step |-> first]
      /\ s.receivingChainKey # Null
  BY NotNull DEF IsEnd
<1>2. passed = NamesOf(n - 1, first, until)
  BY <1>1 DEF NamesOf
<1>3. CASE until <= first
  <2>1. t = s
    BY <1>3 DEF SkipMessageKeysUntil
  <2>2. NamesOf(n - 1, first, until) = {} /\ first .. until - 1 = {}
    BY <1>1, <1>3 DEF NamesOf
  <2> HIDE DEF t
  <2> QED
    BY <1>3, <2>1, <2>2 DEF t, SkippedTo
<1>4. CASE ~(until <= first)
  <2>1. t = [s EXCEPT
              !.receivingChainKey = StepsOn(@, until - first),
              !.receiveMessageNumber = until,
              !.skippedMessageKeys =
                [k \in DOMAIN @ \cup passed |->
                   IF k \in passed THEN StepsOn(s.receivingChainKey, k[2] - first) ELSE @[k]]]
    BY <1>1, <1>4 DEF SkipMessageKeysUntil
  <2>2. \A d \in Int : StepsOn(s.receivingChainKey, d) = [chain |-> Root(n - 1), step |-> first + d]
    BY <1>1 DEF StepsOn
  <2>3. /\ DOMAIN t = DOMAIN s
        /\ t.rootKey = s.rootKey /\ t.dhSelf = s.dhSelf /\ t.dhRemote = s.dhRemote
        /\ t.sendingChainKey = s.sendingChainKey /\ t.sendMessageNumber = s.sendMessageNumber
        /\ t.previousSendingChainLength = s.previousSendingChainLength
        /\ t.receiveMessageNumber = until
        /\ t.receivingChainKey = StepsOn(s.receivingChainKey, until - first)
        /\ t.skippedMessageKeys = [k \in DOMAIN s.skippedMessageKeys \cup passed |->
              IF k \in passed THEN StepsOn(s.receivingChainKey, k[2] - first)
              ELSE s.skippedMessageKeys[k]]
    <3> HIDE DEF t, passed
    <3> QED
      BY <2>1 DEF IsEnd, RatchetFields
  <2> HIDE DEF t
  <2>4. t.receivingChainKey = [chain |-> Root(n - 1), step |-> until]
    <3>1. until - first \in Int /\ first + (until - first) = until
      BY <1>1
    <3> QED
      BY <2>2, <2>3, <3>1
  <2>5. IsEnd(t, n)
    BY <1>1, <2>3, <2>4 DEF IsEnd
  <2>6. ASSUME NEW i \in first .. until - 1
        PROVE  t.skippedMessageKeys[<<PairOf(n - 1), i>>] = [chain |-> Root(n - 1), step |-> i]
    <3> DEFINE k == <<PairOf(n - 1), i>>
    <3>1. k \in passed /\ k[2] = i
      BY <1>1
    <3>2. i - first \in Int /\ first + (i - first) = i
      BY <1>1
    <3>3. t.skippedMessageKeys[k] = StepsOn(s.receivingChainKey, k[2] - first)
      <4> HIDE DEF k, passed
      <4> QED
        BY <2>3, <3>1
    <3> QED
      BY <2>2, <3>1, <3>2, <3>3
  <2>7. /\ DOMAIN t.skippedMessageKeys = DOMAIN s.skippedMessageKeys \cup passed
        /\ \A k \in DOMAIN s.skippedMessageKeys \ passed :
             t.skippedMessageKeys[k] = s.skippedMessageKeys[k]
    <3> HIDE DEF passed
    <3> QED
      BY <2>3
  <2> HIDE DEF passed, first
  <2> QED
    BY <1>2, <1>4, <2>3, <2>5, <2>6, <2>7 DEF t, first, SkippedTo, KeyAt
<1> QED
  BY <1>3, <1>4

\* Without a receiving chain nothing is skipped.
LEMMA NoSkip ==
  ASSUME NEW s, NEW n \in Nat, IsEnd(s, n), n <= 1, NEW until
  PROVE  SkipMessageKeysUntil(s, until) = s /\ ~TooManySkipped(s, until)
BY DEF IsEnd, SkipMessageKeysUntil, TooManySkipped

\* A step to the pair of turn n + 1 takes the end two turns on.
LEMMA StepFacts ==
  ASSUME NEW s, NEW n \in Nat, IsEnd(s, n)
  PROVE  LET t == PerformDhRatchetStep(s, PairOf(n + 1))
         IN  /\ IsEnd(t, n + 2)
             /\ t.receiveMessageNumber = 0
             /\ t.sendMessageNumber = 0
             /\ t.previousSendingChainLength = s.sendMessageNumber
             /\ t.skippedMessageKeys = s.skippedMessageKeys
<1> DEFINE t == PerformDhRatchetStep(s, PairOf(n + 1))
           dhSelf == NextKeyPair(s.dhSelf)
           received == KdfRootKey(s.rootKey, DeriveSharedSecret(s.dhSelf, PairOf(n + 1)))
           sending == KdfRootKey(received, DeriveSharedSecret(dhSelf, PairOf(n + 1)))
<1>1. dhSelf = PairOf(n + 2)
  BY PairFacts DEF IsEnd
<1>2. received = Root(n + 1)
  BY RootFacts DEF IsEnd
<1>3. sending = Root(n + 2)
  <2>1. n + 1 \in Nat /\ n + 1 + 1 = n + 2
    OBVIOUS
  <2>2. KdfRootKey(Root(n + 1), DeriveSharedSecret(PairOf(n + 2), PairOf(n + 1))) = Root(n + 2)
    BY <2>1, RootFacts
  <2> QED
    BY <1>1, <1>2, <2>2
<1> HIDE DEF dhSelf, received, sending
<1>4. /\ DOMAIN t = RatchetFields
      /\ t.previousSendingChainLength = s.sendMessageNumber
      /\ t.sendMessageNumber = 0 /\ t.receiveMessageNumber = 0
      /\ t.dhRemote = PairOf(n + 1) /\ t.rootKey = sending /\ t.dhSelf = dhSelf
      /\ t.receivingChainKey = FirstChainKey(received)
      /\ t.sendingChainKey = FirstChainKey(sending)
      /\ t.skippedMessageKeys = s.skippedMessageKeys
  BY DEF PerformDhRatchetStep, IsEnd, RatchetFields, dhSelf, received, sending
<1>5. s.sendMessageNumber \in Nat
  BY DEF IsEnd
<1> HIDE DEF t
<1>6. IsEnd(t, n + 2)
  <2>1. n + 2 - 1 = n + 1 /\ n + 2 # 0 /\ ~(n + 2 <= 1)
    OBVIOUS
  <2> QED
    BY <1>1, <1>2, <1>3, <1>4, <1>5, <2>1 DEF IsEnd, FirstChainKey
<1> QED
  BY <1>4, <1>6 DEF t

\* The names of the messages that the end s of turn n passes over when it is
\* told that the chain it receives on has `length` messages.
LateNames(s, n, length) ==
  IF n <= 1 THEN {} ELSE NamesOf(n - 1, s.receiveMessageNumber, length)

\* The cache `new` is `old` with the keys of the messages named in `names`.
Caches(old, new, names) ==
  /\ DOMAIN new = DOMAIN old \cup names
  /\ \A k \in DOMAIN old \ names : new[k] = old[k]
  /\ \A c, i \in Nat : <<PairOf(c), i>> \in names => new[<<PairOf(c), i>>] = KeyAt(c, i)

\* Where a header belongs to the chain the end receives on, or to one it left.
LEMMA ChainOfHeader ==
  ASSUME NEW s, NEW n \in Nat, IsEnd(s, n), NEW h, NEW c \in Nat, h.dhPublicKey = PairOf(c)
  PROVE  OnNewChain(s, h) <=> n = 0 \/ c # n - 1
BY PairFacts, NotNull DEF OnNewChain, IsEnd

\* The names of different chains are different, and so are those of one chain.
LEMMA NamesFacts ==
  ASSUME NEW c \in Nat, NEW first \in Nat, NEW until \in Nat
  PROVE  \A d, i \in Nat : <<PairOf(d), i>> \in NamesOf(c, first, until)
                             <=> d = c /\ first <= i /\ i < until
<1>1. ASSUME NEW d \in Nat, NEW i \in Nat, <<PairOf(d), i>> \in NamesOf(c, first, until)
      PROVE  d = c /\ first <= i /\ i < until
  <2>1. PICK j \in first .. until - 1 : <<PairOf(d), i>> = <<PairOf(c), j>>
    BY <1>1 DEF NamesOf
  <2>2. PairOf(d) = PairOf(c) /\ i = j
    BY <2>1
  <2> QED
    BY <2>2, PairFacts
<1>2. ASSUME NEW i \in Nat, first <= i, i < until
      PROVE  <<PairOf(c), i>> \in NamesOf(c, first, until)
  BY <1>2 DEF NamesOf
<1> QED
  BY <1>1, <1>2

\* The end goes along the chain it receives on.
LEMMA AdvancedHere ==
  ASSUME NEW s, NEW n \in Nat, IsEnd(s, n), n >= 2, NEW h, h.dhPublicKey = PairOf(n - 1),
         h.messageNumber \in Nat, h.messageNumber >= s.receiveMessageNumber, ~HasSkippedKey(s, h)
  PROVE  LET t == Advanced(s, h)
         IN  /\ IsEnd(t, n)
             /\ t.receiveMessageNumber = h.messageNumber + 1
             /\ t.sendMessageNumber = s.sendMessageNumber
             /\ t.previousSendingChainLength = s.previousSendingChainLength
             /\ Caches(s.skippedMessageKeys, t.skippedMessageKeys,
                       LateNames(s, n, h.messageNumber))
<1> DEFINE u == SkipMessageKeysUntil(s, h.messageNumber)
           t == Advanced(s, h)
           first == s.receiveMessageNumber
           names == NamesOf(n - 1, first, h.messageNumber)
<1>1. n - 1 \in Nat /\ first \in Nat /\ ~(n <= 1) /\ n # 0
  BY DEF IsEnd
<1>2. OnChainOf(s, h) = s
  BY <1>1, ChainOfHeader DEF OnChainOf
<1>3. t = [u EXCEPT !.receivingChainKey = StepsOn(@, 1), !.receiveMessageNumber = @ + 1]
  BY <1>2 DEF Advanced
<1>4. /\ IsEnd(u, n)
      /\ u.receiveMessageNumber = h.messageNumber
      /\ u.sendMessageNumber = s.sendMessageNumber
      /\ u.previousSendingChainLength = s.previousSendingChainLength
      /\ DOMAIN u.skippedMessageKeys = DOMAIN s.skippedMessageKeys \cup names
      /\ \A k \in DOMAIN s.skippedMessageKeys \ names :
           u.skippedMessageKeys[k] = s.skippedMessageKeys[k]
      /\ \A i \in first .. h.messageNumber - 1 :
           u.skippedMessageKeys[<<PairOf(n - 1), i>>] = KeyAt(n - 1, i)
  <2>1. SkippedTo(s, n, h.messageNumber, u)
    BY SkipFacts
  <2>2. h.messageNumber <= first => h.messageNumber = first
    BY <1>1
  <2> HIDE DEF u
  <2> QED
    BY <2>1, <2>2 DEF SkippedTo
<1>5. Caches(s.skippedMessageKeys, u.skippedMessageKeys, names)
  <2>1. ASSUME NEW c \in Nat, NEW i \in Nat, <<PairOf(c), i>> \in names
        PROVE  u.skippedMessageKeys[<<PairOf(c), i>>] = KeyAt(c, i)
    <3>1. c = n - 1 /\ first <= i /\ i < h.messageNumber
      <4> HIDE DEF first
      <4> QED
        BY <1>1, <2>1, NamesFacts
    <3>2. i \in first .. h.messageNumber - 1
      BY <1>1, <3>1
    <3> QED
      BY <1>4, <3>1, <3>2 DEF KeyAt
  <2> HIDE DEF u, names
  <2> QED
    BY <1>4, <2>1 DEF Caches
<1> HIDE DEF u
<1>6. u.receivingChainKey = [chain |-> Root(n - 1), step |-> h.messageNumber]
  BY <1>1, <1>4 DEF IsEnd
<1>7. /\ DOMAIN t = DOMAIN u
      /\ t.rootKey = u.rootKey /\ t.dhSelf = u.dhSelf /\ t.dhRemote = u.dhRemote
      /\ t.sendingChainKey = u.sendingChainKey /\ t.sendMessageNumber = u.sendMessageNumber
      /\ t.previousSendingChainLength = u.previousSendingChainLength
      /\ t.skippedMessageKeys = u.skippedMessageKeys
      /\ t.receiveMessageNumber = h.messageNumber + 1
      /\ t.receivingChainKey = StepsOn(u.receivingChainKey, 1)
  <2> HIDE DEF t
  <2> QED
    BY <1>3, <1>4 DEF IsEnd, RatchetFields
<1>8. StepsOn(u.receivingChainKey, 1) = [chain |-> Root(n - 1), step |-> h.messageNumber + 1]
  BY <1>6 DEF StepsOn
<1> HIDE DEF t
<1>9. IsEnd(t, n)
  BY <1>1, <1>4, <1>7, <1>8 DEF IsEnd
<1> HIDE DEF names
<1> QED
  BY <1>1, <1>4, <1>5, <1>7, <1>9 DEF LateNames, t, names

\* The end turns to the next chain: it passes over the rest of the one it leaves
\* and what comes before the message on the new one.
LEMMA AdvancedNext ==
  ASSUME NEW s, NEW n \in Nat, IsEnd(s, n), NEW h, h.dhPublicKey = PairOf(n + 1),
         h.messageNumber \in Nat, h.previousChainLength \in Nat, ~HasSkippedKey(s, h)
  PROVE  LET t == Advanced(s, h)
         IN  /\ IsEnd(t, n + 2)
             /\ t.receiveMessageNumber = h.messageNumber + 1
             /\ t.sendMessageNumber = 0
             /\ t.previousSendingChainLength = s.sendMessageNumber
             /\ Caches(s.skippedMessageKeys, t.skippedMessageKeys,
                       LateNames(s, n, h.previousChainLength)
                         \cup NamesOf(n + 1, 0, h.messageNumber))
<1> DEFINE r == SkipMessageKeysUntil(s, h.previousChainLength)
           v == PerformDhRatchetStep(r, h.dhPublicKey)
           u == SkipMessageKeysUntil(v, h.messageNumber)
           t == Advanced(s, h)
           late == LateNames(s, n, h.previousChainLength)
           fresh == NamesOf(n + 1, 0, h.messageNumber)
           first == s.receiveMessageNumber
<1>1. /\ n + 1 \in Nat /\ n + 2 \in Nat /\ n + 2 >= 2 /\ n + 2 - 1 = n + 1 /\ n + 1 # n - 1
      /\ first \in Nat
  BY DEF IsEnd
<1>2. OnChainOf(s, h) = v
  BY <1>1, ChainOfHeader DEF OnChainOf
<1>3. t = [u EXCEPT !.receivingChainKey = StepsOn(@, 1), !.receiveMessageNumber = @ + 1]
  BY <1>2 DEF Advanced
<1>4. /\ IsEnd(r, n)
      /\ r.sendMessageNumber = s.sendMessageNumber
      /\ Caches(s.skippedMessageKeys, r.skippedMessageKeys, late)
  <2>1. CASE n <= 1
    <3>1. r = s /\ late = {}
      BY <2>1, NoSkip DEF LateNames
    <3> HIDE DEF r, late
    <3> QED
      BY <3>1 DEF Caches
  <2>2. CASE ~(n <= 1)
    <3>1. n >= 2 /\ n - 1 \in Nat
      BY <2>2
    <3>2. late = NamesOf(n - 1, first, h.previousChainLength)
      BY <2>2 DEF LateNames
    <3> HIDE DEF late
    <3>3. SkippedTo(s, n, h.previousChainLength, r)
      BY <3>1, SkipFacts
    <3>4. ASSUME NEW c \in Nat, NEW i \in Nat, <<PairOf(c), i>> \in late
          PROVE  r.skippedMessageKeys[<<PairOf(c), i>>] = KeyAt(c, i)
      <4>1. c = n - 1 /\ first <= i /\ i < h.previousChainLength
        <5> HIDE DEF first
        <5> QED
          BY <1>1, <3>1, <3>2, <3>4, NamesFacts
      <4>2. i \in first .. h.previousChainLength - 1
        BY <1>1, <4>1
      <4> HIDE DEF r
      <4> QED
        BY <3>3, <4>1, <4>2 DEF SkippedTo
    <3> HIDE DEF r
    <3> QED
      BY <3>2, <3>3, <3>4 DEF SkippedTo, Caches
  <2> QED
    BY <2>1, <2>2
<1> HIDE DEF r
<1>5. /\ IsEnd(v, n + 2)
      /\ v.receiveMessageNumber = 0
      /\ v.sendMessageNumber = 0
      /\ v.previousSendingChainLength = r.sendMessageNumber
      /\ v.skippedMessageKeys = r.skippedMessageKeys
  BY <1>4, StepFacts
<1> HIDE DEF v
<1>6. SkippedTo(v, n + 2, h.messageNumber, u)
  BY <1>1, <1>5, SkipFacts
<1> HIDE DEF u
<1>7. /\ IsEnd(u, n + 2) /\ u.receiveMessageNumber = h.messageNumber
      /\ u.sendMessageNumber = v.sendMessageNumber
      /\ u.previousSendingChainLength = v.previousSendingChainLength
  BY <1>5, <1>6 DEF SkippedTo
<1>8. /\ DOMAIN u.skippedMessageKeys = DOMAIN r.skippedMessageKeys \cup fresh
      /\ \A k \in DOMAIN r.skippedMessageKeys \ fresh :
           u.skippedMessageKeys[k] = r.skippedMessageKeys[k]
      /\ \A i \in 0 .. h.messageNumber - 1 :
           u.skippedMessageKeys[<<PairOf(n + 1), i>>] = KeyAt(n + 1, i)
  BY <1>1, <1>5, <1>6 DEF SkippedTo
<1>9. \A c, i \in Nat : <<PairOf(c), i>> \in fresh <=> c = n + 1 /\ 0 <= i /\ i < h.messageNumber
  BY <1>1, NamesFacts
<1>10. \A c, i \in Nat : <<PairOf(c), i>> \in fresh =>
                           u.skippedMessageKeys[<<PairOf(c), i>>] = KeyAt(c, i)
  <2> HIDE DEF fresh
  <2> QED
    BY <1>8, <1>9
<1>11. Caches(s.skippedMessageKeys, u.skippedMessageKeys, late \cup fresh)
  <2> HIDE DEF fresh, late
  <2>1. ASSUME NEW c \in Nat, NEW i \in Nat, <<PairOf(c), i>> \in late \cup fresh
        PROVE  u.skippedMessageKeys[<<PairOf(c), i>>] = KeyAt(c, i)
    <3> DEFINE k == <<PairOf(c), i>>
    <3>1. CASE k \in fresh
      BY <1>10, <3>1
    <3>2. CASE k \notin fresh
      <4>1. k \in late /\ k \in DOMAIN r.skippedMessageKeys /\ r.skippedMessageKeys[k] = KeyAt(c, i)
        BY <1>4, <2>1, <3>2 DEF Caches
      <4> HIDE DEF k
      <4> QED
        BY <1>8, <3>2, <4>1 DEF k
    <3> QED
      BY <3>1, <3>2
  <2>2. DOMAIN u.skippedMessageKeys = DOMAIN s.skippedMessageKeys \cup (late \cup fresh)
    BY <1>4, <1>8 DEF Caches
  <2>3. \A k \in DOMAIN s.skippedMessageKeys \ (late \cup fresh) :
          u.skippedMessageKeys[k] = s.skippedMessageKeys[k]
    BY <1>4, <1>8 DEF Caches
  <2> QED
    BY <2>1, <2>2, <2>3 DEF Caches
<1>12. u.receivingChainKey = [chain |-> Root(n + 1), step |-> h.messageNumber]
  BY <1>1, <1>7 DEF IsEnd
<1>13. /\ DOMAIN t = DOMAIN u
       /\ t.rootKey = u.rootKey /\ t.dhSelf = u.dhSelf /\ t.dhRemote = u.dhRemote
       /\ t.sendingChainKey = u.sendingChainKey /\ t.sendMessageNumber = u.sendMessageNumber
       /\ t.previousSendingChainLength = u.previousSendingChainLength
       /\ t.skippedMessageKeys = u.skippedMessageKeys
       /\ t.receiveMessageNumber = h.messageNumber + 1
       /\ t.receivingChainKey = StepsOn(u.receivingChainKey, 1)
  <2> HIDE DEF t
  <2> QED
    BY <1>3, <1>7 DEF IsEnd, RatchetFields
<1>14. StepsOn(u.receivingChainKey, 1) = [chain |-> Root(n + 1), step |-> h.messageNumber + 1]
  BY <1>12 DEF StepsOn
<1> HIDE DEF t
<1>15. IsEnd(t, n + 2)
  BY <1>1, <1>7, <1>13, <1>14 DEF IsEnd
<1> HIDE DEF late, fresh
<1> QED
  BY <1>4, <1>5, <1>7, <1>11, <1>13, <1>15 DEF t, late, fresh

\* A packet that opens under no cached key is on the chain the end receives on,
\* not passed over, or on the next chain.
LEMMA OpensOnlyAhead ==
  ASSUME NEW s, NEW n \in Nat, IsEnd(s, n), NEW h, NEW c \in Nat \ {0}, h.dhPublicKey = PairOf(c),
         h.messageNumber \in Nat, h.previousChainLength \in Nat, ~HasSkippedKey(s, h),
         ReachesKey(s, h), MessageKey(s, h) = KeyAt(c, h.messageNumber)
  PROVE  \/ n >= 2 /\ c = n - 1 /\ h.messageNumber >= s.receiveMessageNumber
         \/ c = n + 1
<1> DEFINE u == SkipMessageKeysUntil(OnChainOf(s, h), h.messageNumber)
           first == s.receiveMessageNumber
<1>1. u.receivingChainKey = KeyAt(c, h.messageNumber)
  BY DEF MessageKey
<1>2. CASE ~OnNewChain(s, h)
  <2>1. n >= 2 /\ c = n - 1
    BY <1>2, ChainOfHeader
  <2>2. OnChainOf(s, h) = s
    BY <1>2 DEF OnChainOf
  <2>3. SkippedTo(s, n, h.messageNumber, u)
    BY <2>1, <2>2, SkipFacts
  <2> HIDE DEF u
  <2>4. u.receivingChainKey = [chain |-> Root(n - 1), step |-> u.receiveMessageNumber]
    BY <2>1, <2>3 DEF SkippedTo, IsEnd
  <2>5. u.receiveMessageNumber = h.messageNumber
    BY <1>1, <2>4 DEF KeyAt
  <2>6. first \in Nat
    BY DEF IsEnd
  <2> QED
    BY <2>1, <2>3, <2>5, <2>6 DEF SkippedTo
<1>3. CASE OnNewChain(s, h)
  <2> DEFINE r == SkipMessageKeysUntil(s, h.previousChainLength)
             v == PerformDhRatchetStep(r, PairOf(c))
             x == KdfRootKey(Root(n), DeriveSharedSecret(PairOf(n), PairOf(c)))
  <2>1. IsEnd(r, n)
    <3>1. CASE n <= 1
      BY <3>1, NoSkip
    <3>2. CASE ~(n <= 1)
      <4>1. n >= 2
        BY <3>2
      <4>2. SkippedTo(s, n, h.previousChainLength, r)
        BY <4>1, SkipFacts
      <4> HIDE DEF r
      <4> QED
        BY <4>2 DEF SkippedTo
    <3> QED
      BY <3>1, <3>2
  <2>2. OnChainOf(s, h) = v
    BY <1>3 DEF OnChainOf
  <2> HIDE DEF r
  <2>3. v.receivingChainKey.chain = x
    BY <2>1 DEF PerformDhRatchetStep, IsEnd, RatchetFields, FirstChainKey
  <2> HIDE DEF v
  <2>4. u.receivingChainKey.chain = v.receivingChainKey.chain
    <3>1. u = SkipMessageKeysUntil(v, h.messageNumber)
      BY <2>2
    <3>2. DOMAIN v = RatchetFields /\ v.receivingChainKey = FirstChainKey(x)
      BY <2>1 DEF v, PerformDhRatchetStep, IsEnd, RatchetFields
    <3> HIDE DEF x, u
    <3>3. \A k : StepsOn(v.receivingChainKey, k).chain = v.receivingChainKey.chain
      BY <3>2 DEF StepsOn, FirstChainKey
    <3> QED
      BY <3>1, <3>2, <3>3 DEF SkipMessageKeysUntil, RatchetFields
  <2>5. Root(c) = x
    BY <1>1, <2>3, <2>4 DEF KeyAt
  <2>6. Len(x) = n + 1 /\ Len(Root(c)) = c
    BY PairFacts, RootFacts
  <2> HIDE DEF x
  <2> QED
    BY <2>5, <2>6
<1> QED
  BY <1>2, <1>3

\* A packet ahead opens where no more than MAX_SKIP messages are passed over.
LEMMA OpensAhead ==
  ASSUME NEW s, NEW n \in Nat, IsEnd(s, n), NEW h, NEW c \in Nat \ {0}, h.dhPublicKey = PairOf(c),
         h.messageNumber \in Nat, h.previousChainLength \in Nat, ~HasSkippedKey(s, h),
         h.messageNumber <= MaxSkip, h.previousChainLength <= MaxSkip,
         \/ c = n - 1 /\ h.messageNumber >= s.receiveMessageNumber
         \/ c = n + 1
  PROVE  ReachesKey(s, h) /\ MessageKey(s, h) = KeyAt(c, h.messageNumber)
<1> DEFINE u == SkipMessageKeysUntil(OnChainOf(s, h), h.messageNumber)
           first == s.receiveMessageNumber
<1>0. first \in Nat /\ MaxSkip \in Nat
  BY RatchetConstants DEF IsEnd
<1>1. CASE c = n - 1 /\ h.messageNumber >= first
  <2>1. n >= 2 /\ n - 1 \in Nat /\ n # 0 /\ ~(n <= 1)
    BY <1>1
  <2>2. ~OnNewChain(s, h) /\ OnChainOf(s, h) = s
    BY <1>1, <2>1, ChainOfHeader DEF OnChainOf
  <2>3. s.receivingChainKey # Null
    BY <1>0, <2>1, NotNull DEF IsEnd
  <2>4. ReachesKey(s, h)
    BY <1>0, <1>1, <2>2, <2>3 DEF ReachesKey, TooManySkipped
  <2>5. SkippedTo(s, n, h.messageNumber, u)
    BY <2>1, <2>2, SkipFacts
  <2>6. MessageKey(s, h) = u.receivingChainKey
    BY DEF MessageKey
  <2> HIDE DEF u
  <2>7. u.receiveMessageNumber = h.messageNumber
    BY <1>0, <1>1, <2>5 DEF SkippedTo
  <2> QED
    BY <1>1, <2>1, <2>4, <2>5, <2>6, <2>7 DEF SkippedTo, IsEnd, KeyAt
<1>2. CASE c = n + 1
  <2> DEFINE r == SkipMessageKeysUntil(s, h.previousChainLength)
             v == PerformDhRatchetStep(r, PairOf(n + 1))
  <2>1. OnNewChain(s, h)
    BY <1>2, ChainOfHeader
  <2>2. OnChainOf(s, h) = v
    BY <1>2, <2>1 DEF OnChainOf
  <2>3. IsEnd(r, n) /\ ~TooManySkipped(s, h.previousChainLength)
    <3>1. CASE n <= 1
      BY <3>1, NoSkip
    <3>2. CASE ~(n <= 1)
      <4>1. n >= 2
        BY <3>2
      <4>2. SkippedTo(s, n, h.previousChainLength, r)
        BY <4>1, SkipFacts
      <4>3. ~TooManySkipped(s, h.previousChainLength)
        BY <1>0 DEF TooManySkipped
      <4> HIDE DEF r
      <4> QED
        BY <4>2, <4>3 DEF SkippedTo
    <3> QED
      BY <3>1, <3>2
  <2> HIDE DEF r
  <2>4. IsEnd(v, n + 2) /\ v.receiveMessageNumber = 0
    BY <2>3, StepFacts
  <2> HIDE DEF v
  <2>5. n + 2 \in Nat /\ n + 2 >= 2 /\ n + 2 - 1 = n + 1 /\ ~(n + 2 <= 1) /\ n + 1 \in Nat
    OBVIOUS
  <2>6. v.receivingChainKey # Null
    BY <2>4, <2>5, NotNull DEF IsEnd
  <2>7. ReachesKey(s, h)
    BY <1>0, <2>2, <2>3, <2>4, <2>6 DEF ReachesKey, TooManySkipped
  <2>8. SkippedTo(v, n + 2, h.messageNumber, u)
    BY <2>2, <2>4, <2>5, SkipFacts
  <2>9. MessageKey(s, h) = u.receivingChainKey
    BY DEF MessageKey
  <2> HIDE DEF u
  <2>10. u.receiveMessageNumber = h.messageNumber
    BY <2>4, <2>8 DEF SkippedTo
  <2>11. u.receivingChainKey = [chain |-> Root(n + 1), step |-> h.messageNumber]
    BY <2>5, <2>8, <2>10 DEF SkippedTo, IsEnd
  <2> QED
    BY <1>2, <2>7, <2>9, <2>11 DEF KeyAt
<1> QED
  BY <1>1, <1>2

----------------------------------------------------------------------------
(* The inductive invariant.  Both ends go along one sequence of turns, never *)
(* more than one apart, and everything else follows from the turns: which    *)
(* keys an end holds, which chain a packet is on, and what the other end has *)
(* passed over.                                                              *)

Turn(p) == Len(ratchet[p].rootKey)
Chain(m) == Len(m.key.chain)
Number(m) == m.header.messageNumber
Name(m) == <<m.header.dhPublicKey, m.header.messageNumber>>
Ident(m) == [from |-> m.from, number |-> m.number]

SentOn(c, k) == \E o \in wire : Chain(o) = c /\ Number(o) = k

\* Messages 0 to length - 1 of chain c have been sent.
HasLength(c, length) == \A k \in Nat : SentOn(c, k) <=> k < length

\* p's receiving chain has gone past the message of packet m.
Passed(p, m) ==
  \/ Chain(m) < Turn(p) - 1
  \/ Chain(m) = Turn(p) - 1 /\ Number(m) < ratchet[p].receiveMessageNumber

EndSound(p) ==
  /\ Turn(p) \in Nat
  /\ PairOf(Turn(p)).owner = p
  /\ IsEnd(ratchet[p], Turn(p))

TurnsNear ==
  Turn(Initiator) = Turn(Responder) + 1 \/ Turn(Responder) = Turn(Initiator) + 1

PacketSound(m) ==
  /\ m.from \in Parties
  /\ Chain(m) \in 1 .. Turn(m.from)
  /\ PairOf(Chain(m)).owner = m.from
  /\ m.header \in Headers
  /\ m.header.dhPublicKey = PairOf(Chain(m))
  /\ m.key = KeyAt(Chain(m), Number(m))
  /\ m.number \in 1 .. SentBy(m.from)

WireSound ==
  /\ IsFiniteSet(wire)
  /\ \A m \in wire : PacketSound(m)
  /\ \A m, o \in wire : Ident(m) = Ident(o) => m = o
  /\ \A m, o \in wire : Chain(m) = Chain(o) /\ Number(m) = Number(o) => m = o
  /\ \A p \in Parties : SentBy(p) <= MaxMessages

\* Every length an end or a header gives is right.
Lengths ==
  /\ \A p \in Parties : /\ HasLength(Turn(p), ratchet[p].sendMessageNumber)
                        /\ HasLength(Turn(p) - 2, ratchet[p].previousSendingChainLength)
  /\ \A m \in wire : HasLength(Chain(m) - 2, m.header.previousChainLength)

\* What p has gone past on its receiving chain was sent.
Reached(p) ==
  ratchet[p].receiveMessageNumber > 0 =>
    SentOn(Turn(p) - 1, ratchet[p].receiveMessageNumber - 1)

\* Key k of p's cache is that of a packet that p has passed over.
Awaited(p, k) ==
  \E m \in wire : /\ m.from = Peer(p) /\ k = Name(m)
                  /\ ratchet[p].skippedMessageKeys[k] = m.key
                  /\ Passed(p, m) /\ openings[p][Ident(m)] = 0

\* p's cache holds the keys of what it has passed over and not opened, and of
\* nothing else.
CacheSound(p) ==
  /\ \A k \in DOMAIN ratchet[p].skippedMessageKeys : Awaited(p, k)
  /\ \A m \in wire : m.from = Peer(p) /\ Passed(p, m) /\ openings[p][Ident(m)] = 0 =>
                       Name(m) \in DOMAIN ratchet[p].skippedMessageKeys
  /\ \A m \in wire : m.from = Peer(p) /\ openings[p][Ident(m)] > 0 => Passed(p, m)

\* Only packets of the other end have been opened, and each once.
OpeningsSound(p) ==
  \A x \in Messages : \/ openings[p][x] = 0
                      \/ /\ openings[p][x] = 1
                         /\ \E m \in wire : m.from = Peer(p) /\ x = Ident(m)

Inv ==
  /\ ratchet = [p \in Parties |-> ratchet[p]]
  /\ openings \in [Parties -> [Messages -> Nat]]
  /\ \A p \in Parties : EndSound(p)
  /\ TurnsNear
  /\ WireSound
  /\ Lengths
  /\ \A p \in Parties : Reached(p)
  /\ \A p \in Parties : CacheSound(p)
  /\ \A p \in Parties : OpeningsSound(p)

\* The ends are one turn apart.
LEMMA TurnFacts ==
  ASSUME Inv, NEW p \in Parties
  PROVE  /\ Turn(p) \in Nat /\ Turn(Peer(p)) \in Nat
         /\ Turn(p) = Turn(Peer(p)) + 1 \/ Turn(Peer(p)) = Turn(p) + 1
BY PeerFacts DEF Inv, EndSound, TurnsNear, Parties

\* The chain of a packet alternates with the turns of its receiver.
LEMMA ChainFacts ==
  ASSUME Inv, NEW m \in wire, NEW p \in Parties
  PROVE  /\ m.from \in Parties /\ Chain(m) \in Nat \ {0} /\ Number(m) \in Nat
         /\ m.header.previousChainLength \in Nat
         /\ m.from = Peer(p) => /\ Chain(m) # Turn(p) /\ Chain(m) # Turn(p) - 2
                                /\ Chain(m) <= Turn(p) + 1
         /\ m.from = p => /\ Chain(m) # Turn(p) - 1 /\ Chain(m) # Turn(p) + 1
                          /\ Chain(m) <= Turn(p)
<1>1. PacketSound(m) /\ EndSound(p) /\ EndSound(Peer(p))
  BY PeerFacts DEF Inv, WireSound
<1>2. /\ m.from \in Parties /\ Chain(m) \in Nat \ {0} /\ Number(m) \in Nat
      /\ m.header.previousChainLength \in Nat
      /\ Chain(m) <= Turn(m.from) /\ PairOf(Chain(m)).owner = m.from
  <2>1. Turn(m.from) \in Nat
    BY <1>1, TurnFacts DEF PacketSound
  <2> QED
    BY <1>1, <2>1 DEF PacketSound, Headers, Number
<1>3. \A c, n \in Nat : c = n + 1 \/ c + 1 = n => PairOf(c).owner = Peer(PairOf(n).owner)
  BY PairFacts, PeerFacts
<1>4. \A n \in Nat : PairOf(n + 2).owner = PairOf(n).owner
  <2>1. \A n \in Nat : n + 1 \in Nat /\ n + 1 + 1 = n + 2
    OBVIOUS
  <2> QED
    BY <2>1, PairFacts, PeerFacts
<1>5. PairOf(Turn(p)).owner = p /\ Peer(p) # p
  BY <1>1, PeerFacts DEF EndSound
<1>6. m.from = Peer(p) => Chain(m) # Turn(p) /\ Chain(m) # Turn(p) - 2
  <2>1. Chain(m) = Turn(p) - 2 => Chain(m) + 2 = Turn(p)
    BY TurnFacts
  <2> QED
    BY <1>2, <1>4, <1>5, <2>1
<1>7. m.from = p => Chain(m) # Turn(p) - 1 /\ Chain(m) # Turn(p) + 1
  <2>1. Chain(m) = Turn(p) - 1 => Chain(m) + 1 = Turn(p)
    BY TurnFacts
  <2> QED
    BY <1>2, <1>3, <1>5, <2>1, TurnFacts
<1> QED
  BY <1>2, <1>6, <1>7, TurnFacts

\* A packet is known by its name, by its key and by its identity.
LEMMA WireFacts ==
  ASSUME Inv, NEW m \in wire, NEW o \in wire
  PROVE  /\ m.header.dhPublicKey = PairOf(Chain(m)) /\ m.key = KeyAt(Chain(m), Number(m))
         /\ Name(m) = Name(o) => m = o
         /\ m.key = o.key => m = o
         /\ Ident(m) = Ident(o) => m = o
         /\ Ident(m) \in Messages
<1>1. PacketSound(m) /\ PacketSound(o)
  BY DEF Inv, WireSound
<1>2. /\ Chain(m) \in Nat /\ Chain(o) \in Nat /\ Number(m) \in Nat /\ Number(o) \in Nat
      /\ m.from \in Parties
  BY ChainFacts, PeerFacts DEF Parties
<1>3. /\ Name(m) = Name(o) => Chain(m) = Chain(o) /\ Number(m) = Number(o)
      /\ m.key = o.key => Chain(m) = Chain(o) /\ Number(m) = Number(o)
  <2>1. Name(m) = Name(o) => PairOf(Chain(m)) = PairOf(Chain(o)) /\ Number(m) = Number(o)
    BY <1>1 DEF Name, PacketSound, Number
  <2>2. m.key = o.key => Chain(m) = Chain(o)
    BY DEF Chain
  <2>3. m.key = o.key => Number(m) = Number(o)
    BY <1>1 DEF PacketSound, KeyAt
  <2> QED
    BY <1>2, <2>1, <2>2, <2>3, PairFacts
<1>4. Ident(m) \in Messages
  <2>1. SentBy(m.from) <= MaxMessages /\ SentBy(m.from) \in Nat
    <3>1. IsFiniteSet({x \in wire : x.from = m.from})
      BY FS_Subset DEF Inv, WireSound
    <3> QED
      BY <1>2, <3>1, FS_CardinalityType DEF SentBy, Inv, WireSound
  <2>2. m.number \in 1 .. MaxMessages
    BY <1>1, <2>1, RatchetConstants DEF PacketSound
  <2> QED
    BY <1>2, <2>2 DEF Ident, Messages
<1> QED
  BY <1>1, <1>3, <1>4 DEF PacketSound, Inv, WireSound

\* An end opens no packet of its own.
LEMMA OwnStaysClosed ==
  ASSUME Inv, NEW p \in Parties, NEW m \in wire, m.from = p
  PROVE  ~Opens(p, m) /\ openings[p][Ident(m)] = 0
<1> DEFINE s == ratchet[p]
           h == m.header
<1>1. Peer(p) # p
  BY PeerFacts
<1>2. openings[p][Ident(m)] = 0
  <2>1. OpeningsSound(p) /\ Ident(m) \in Messages
    BY WireFacts DEF Inv
  <2> QED
    BY <1>1, <2>1 DEF OpeningsSound, Ident
<1>3. ~HasSkippedKey(s, h)
  <2> SUFFICES ASSUME Name(m) \in DOMAIN s.skippedMessageKeys
               PROVE  FALSE
    BY DEF HasSkippedKey, Name
  <2>1. PICK o \in wire : o.from = Peer(p) /\ Name(m) = Name(o)
    BY DEF Inv, CacheSound, Awaited
  <2> QED
    BY <1>1, <2>1, WireFacts
<1>4. ASSUME Opens(p, m)
      PROVE  FALSE
  <2>1. IsEnd(s, Turn(p)) /\ Turn(p) \in Nat
    BY DEF Inv, EndSound
  <2>2. /\ Chain(m) \in Nat \ {0} /\ h.messageNumber \in Nat /\ h.previousChainLength \in Nat
        /\ Chain(m) # Turn(p) - 1 /\ Chain(m) # Turn(p) + 1
    BY ChainFacts DEF Number
  <2>3. h.dhPublicKey = PairOf(Chain(m)) /\ m.key = KeyAt(Chain(m), h.messageNumber)
    BY WireFacts DEF Number
  <2>4. ReachesKey(s, h) /\ MessageKey(s, h) = KeyAt(Chain(m), h.messageNumber)
    BY <1>4, <2>3 DEF Opens
  <2> HIDE DEF s, h
  <2> QED
    BY <1>3, <2>1, <2>2, <2>3, <2>4, OpensOnlyAhead
<1> QED
  BY <1>2, <1>4

\* A packet of the other end opens under its cached key if it was passed over,
\* and else it is ahead.
LEMMA OpensWhere ==
  ASSUME Inv, NEW p \in Parties, NEW m \in wire, m.from = Peer(p), Opens(p, m)
  PROVE  /\ openings[p][Ident(m)] = 0
         /\ \/ Name(m) \in DOMAIN ratchet[p].skippedMessageKeys /\ Passed(p, m)
            \/ /\ Name(m) \notin DOMAIN ratchet[p].skippedMessageKeys /\ ~Passed(p, m)
               /\ \/ /\ Turn(p) >= 2 /\ Chain(m) = Turn(p) - 1
                     /\ Number(m) >= ratchet[p].receiveMessageNumber
                  \/ Chain(m) = Turn(p) + 1
<1> DEFINE s == ratchet[p]
           h == m.header
<1>1. CacheSound(p) /\ OpeningsSound(p) /\ Ident(m) \in Messages
  BY WireFacts DEF Inv
<1>2. CASE Name(m) \in DOMAIN s.skippedMessageKeys
  <2>1. PICK o \in wire : Name(m) = Name(o) /\ Passed(p, o) /\ openings[p][Ident(o)] = 0
    BY <1>1, <1>2 DEF CacheSound, Awaited
  <2>2. o = m
    BY <2>1, WireFacts
  <2> QED
    BY <1>2, <2>1, <2>2
<1>3. CASE Name(m) \notin DOMAIN s.skippedMessageKeys
  <2>1. IsEnd(s, Turn(p)) /\ Turn(p) \in Nat
    BY DEF Inv, EndSound
  <2>2. Chain(m) \in Nat \ {0} /\ h.messageNumber \in Nat /\ h.previousChainLength \in Nat
    BY ChainFacts DEF Number
  <2>3. h.dhPublicKey = PairOf(Chain(m)) /\ m.key = KeyAt(Chain(m), h.messageNumber)
    BY WireFacts DEF Number
  <2>4. ReachesKey(s, h) /\ MessageKey(s, h) = KeyAt(Chain(m), h.messageNumber)
    BY <2>3 DEF Opens
  <2>5. ~HasSkippedKey(s, h)
    BY <1>3 DEF HasSkippedKey, Name
  <2>6. \/ Turn(p) >= 2 /\ Chain(m) = Turn(p) - 1 /\ h.messageNumber >= s.receiveMessageNumber
        \/ Chain(m) = Turn(p) + 1
    <3> HIDE DEF s, h
    <3> QED
      BY <2>1, <2>2, <2>3, <2>4, <2>5, OpensOnlyAhead
  <2>7. ~Passed(p, m)
    <3>1. s.receiveMessageNumber \in Nat
      BY <2>1 DEF IsEnd
    <3> QED
      BY <2>1, <2>2, <2>6, <3>1 DEF Passed, Number
  <2>8. openings[p][Ident(m)] = 0
    BY <1>1, <2>7 DEF CacheSound, OpeningsSound
  <2> QED
    BY <1>3, <2>6, <2>7, <2>8 DEF Number
<1> QED
  BY <1>2, <1>3

----------------------------------------------------------------------------
(* What the invariant says of the properties. *)

\* The two ends' root keys differ by the last output.
LEMMA InvRoots == Inv => RootsAgree
<1>1. ASSUME Inv, NEW p \in Parties, Turn(p) = Turn(Peer(p)) + 1
      PROVE  RootsAgree
  <2> DEFINE n == Turn(Peer(p))
  <2>1. n \in Nat /\ Turn(p) = n + 1
    BY <1>1, TurnFacts
  <2>2. ratchet[p].rootKey = Root(n + 1) /\ ratchet[Peer(p)].rootKey = Root(n)
    BY <1>1, <2>1, PeerFacts DEF Inv, EndSound, IsEnd
  <2>3. \A k \in Nat : Root(k) \in Seq(SUBSET KeyPairs) /\ Len(Root(k)) = k
    BY RootFacts
  <2> HIDE DEF n
  <2>4. Root(n) = SubSeq(Root(n + 1), 1, n)
    <3>1. \A i \in 1 .. n : i \in 1 .. n + 1
      BY <2>1
    <3>2. /\ Root(n) = [i \in 1 .. n |-> {PairOf(i - 1), PairOf(i)}]
          /\ Root(n + 1) = [i \in 1 .. n + 1 |-> {PairOf(i - 1), PairOf(i)}]
      BY DEF Root
    <3>3. \A i \in 1 .. n : Root(n)[i] = Root(n + 1)[i]
      BY <3>1, <3>2
    <3>4. SubSeq(Root(n + 1), 1, n) \in Seq(SUBSET KeyPairs)
      BY <2>1, <2>3
    <3>5. Len(SubSeq(Root(n + 1), 1, n)) = n
      BY <2>1, <2>3
    <3>6. \A i \in 1 .. n : SubSeq(Root(n + 1), 1, n)[i] = Root(n + 1)[i]
      BY <2>1, <2>3
    <3> QED
      BY <2>1, <2>3, <3>3, <3>4, <3>5, <3>6
  <2>5. Root(n + 1) # <<>> /\ Len(Root(n + 1)) - 1 = n
    <3>1. n + 1 \in Nat /\ n + 1 # 0
      BY <2>1
    <3> QED
      BY <2>1, <3>1, RootFacts
  <2> QED
    BY <2>1, <2>2, <2>4, <2>5 DEF RootsAgree
<1>2. ASSUME Inv
      PROVE  \E p \in Parties : Turn(p) = Turn(Peer(p)) + 1
  BY <1>2, PeerFacts DEF Inv, TurnsNear, Parties
<1> QED
  BY <1>1, <1>2

\* The state is well typed.
LEMMA InvTypes == Inv => TypeOK
<1> SUFFICES ASSUME Inv
             PROVE  TypeOK
  OBVIOUS
<1>1. ASSUME NEW p \in Parties
      PROVE  LET s == ratchet[p]
             IN  /\ s.dhSelf \in [owner : {p}, number : Nat]
                 /\ s.dhRemote \in [owner : {Peer(p)}, number : Nat] \cup {Null}
                 /\ s.previousSendingChainLength \in Nat
                 /\ s.sendingChainKey # Null =>
                      IsKey(s.sendingChainKey) /\ s.sendMessageNumber = s.sendingChainKey.step
                 /\ s.receivingChainKey # Null =>
                      /\ IsKey(s.receivingChainKey) /\ s.dhRemote # Null
                      /\ s.receiveMessageNumber = s.receivingChainKey.step
  <2> DEFINE s == ratchet[p]
             n == Turn(p)
  <2>1. IsEnd(s, n) /\ n \in Nat /\ PairOf(n).owner = p
    BY DEF Inv, EndSound
  <2>2. \A k \in Nat : PairOf(k) \in [owner : {PairOf(k).owner}, number : Nat]
    BY PairFacts DEF KeyPairs
  <2>3. s.dhSelf \in [owner : {p}, number : Nat]
    BY <2>1, <2>2 DEF IsEnd
  <2>4. s.dhRemote \in [owner : {Peer(p)}, number : Nat] \cup {Null}
    <3>1. CASE n = 0
      BY <2>1, <3>1 DEF IsEnd
    <3>2. CASE n # 0
      <4>1. n - 1 \in Nat /\ n - 1 + 1 = n
        BY <2>1, <3>2
      <4>2. PairOf(n - 1).owner = Peer(p)
        BY <2>1, <4>1, PairFacts, PeerFacts
      <4>3. s.dhRemote = PairOf(n - 1)
        BY <2>1, <3>2 DEF IsEnd
      <4> QED
        BY <2>2, <4>1, <4>2, <4>3
    <3> QED
      BY <3>1, <3>2
  <2>5. s.previousSendingChainLength \in Nat
    BY <2>1 DEF IsEnd
  <2>6. s.sendingChainKey # Null =>
          IsKey(s.sendingChainKey) /\ s.sendMessageNumber = s.sendingChainKey.step
    BY <2>1 DEF IsEnd, IsKey
  <2>7. s.receivingChainKey # Null =>
          /\ IsKey(s.receivingChainKey) /\ s.dhRemote # Null
          /\ s.receiveMessageNumber = s.receivingChainKey.step
    <3> SUFFICES ASSUME s.receivingChainKey # Null
                 PROVE  /\ IsKey(s.receivingChainKey) /\ s.dhRemote # Null
                        /\ s.receiveMessageNumber = s.receivingChainKey.step
      OBVIOUS
    <3>1. ~(n <= 1) /\ n # 0 /\ n - 1 \in Nat
      BY <2>1 DEF IsEnd
    <3>2. s.dhRemote # Null
      BY <2>1, <3>1, NotNull DEF IsEnd
    <3> QED
      BY <2>1, <3>1, <3>2 DEF IsEnd, IsKey
  <2> QED
    BY <2>3, <2>4, <2>5, <2>6, <2>7
<1>2. \A m \in wire : m.from \in Parties /\ m.header \in Headers /\ IsKey(m.key)
  <2>1. \A m \in wire : Number(m) \in Nat
    BY ChainFacts, PeerFacts DEF Parties
  <2>2. \A c, i \in Nat : IsKey(KeyAt(c, i))
    BY DEF KeyAt, IsKey
  <2> QED
    BY <2>1, <2>2, WireFacts, ChainFacts, PeerFacts DEF Inv, WireSound, PacketSound, Parties
<1> QED
  BY <1>1, <1>2 DEF TypeOK, Inv

\* A packet that has not been opened opens, unless too many were passed over.
LEMMA InvOpens == Inv => FirstReceiptOpens
<1> SUFFICES ASSUME Inv, NEW m \in wire, ~Opened(Peer(m.from), m),
                    m.header.messageNumber <= MaxSkip, m.header.previousChainLength <= MaxSkip
             PROVE  Opens(Peer(m.from), m)
  BY DEF FirstReceiptOpens
<1> DEFINE q == Peer(m.from)
           s == ratchet[q]
           n == Turn(q)
           h == m.header
<1>1. m.from \in Parties /\ q \in Parties /\ m.from = Peer(q)
  BY ChainFacts, PeerFacts DEF Parties
<1> HIDE DEF q
<1>2. CacheSound(q) /\ OpeningsSound(q) /\ Ident(m) \in Messages
  BY <1>1, WireFacts DEF Inv
<1>3. openings[q][Ident(m)] = 0
  BY <1>2 DEF Opened, Ident, OpeningsSound, q
<1>4. CASE Name(m) \in DOMAIN s.skippedMessageKeys
  <2>1. PICK o \in wire : Name(m) = Name(o) /\ s.skippedMessageKeys[Name(m)] = o.key
    BY <1>2, <1>4 DEF CacheSound, Awaited
  <2>2. o = m
    BY <2>1, WireFacts
  <2>3. HasSkippedKey(s, h)
    BY <1>4 DEF HasSkippedKey, Name
  <2>4. ReachesKey(s, h)
    BY <2>3 DEF ReachesKey
  <2>5. MessageKey(s, h) = m.key
    BY <2>1, <2>2, <2>3 DEF MessageKey, Name
  <2> QED
    BY <2>4, <2>5 DEF Opens, q
<1>5. CASE Name(m) \notin DOMAIN s.skippedMessageKeys
  <2>1. ~Passed(q, m)
    BY <1>1, <1>2, <1>3, <1>5 DEF CacheSound
  <2>2. IsEnd(s, n) /\ n \in Nat
    BY <1>1 DEF Inv, EndSound
  <2>3. s.receiveMessageNumber \in Nat
    BY <2>2 DEF IsEnd
  <2>4. /\ Chain(m) \in Nat \ {0} /\ h.messageNumber \in Nat /\ h.previousChainLength \in Nat
        /\ Chain(m) # n /\ Chain(m) <= n + 1
    BY <1>1, ChainFacts DEF Number
  <2>5. h.dhPublicKey = PairOf(Chain(m)) /\ m.key = KeyAt(Chain(m), h.messageNumber)
    BY WireFacts DEF Number
  <2>6. ~HasSkippedKey(s, h)
    BY <1>5 DEF HasSkippedKey, Name
  <2>7. \/ Chain(m) = n - 1 /\ h.messageNumber >= s.receiveMessageNumber
        \/ Chain(m) = n + 1
    BY <2>1, <2>2, <2>3, <2>4 DEF Passed, Number
  <2>8. ReachesKey(s, h) /\ MessageKey(s, h) = KeyAt(Chain(m), h.messageNumber)
    <3> HIDE DEF s, h, n
    <3>1. h.messageNumber <= MaxSkip /\ h.previousChainLength <= MaxSkip
      BY DEF h
    <3> QED
      BY <2>2, <2>4, <2>5, <2>6, <2>7, <3>1, OpensAhead
  <2> QED
    BY <2>5, <2>8 DEF Opens, q
<1> QED
  BY <1>4, <1>5

\* What an end holds is not the key of anything it has passed over and opened,
\* nor of anything it has sent.
LEMMA InvSecrecy == Inv => ForwardSecrecy
<1> SUFFICES ASSUME Inv, NEW m \in wire
             PROVE  /\ ~Yields(ratchet[m.from], m.key)
                    /\ Opened(Peer(m.from), m) => ~Yields(ratchet[Peer(m.from)], m.key)
  BY DEF ForwardSecrecy
<1>1. ASSUME NEW p \in Parties, Yields(ratchet[p], m.key),
             m.from = p \/ (m.from = Peer(p) /\ openings[p][Ident(m)] > 0)
      PROVE  FALSE
  <2> DEFINE s == ratchet[p]
             n == Turn(p)
             c == Chain(m)
  <2>1. IsEnd(s, n) /\ n \in Nat /\ CacheSound(p) /\ Peer(p) # p /\ Peer(p) \in Parties
    BY PeerFacts DEF Inv, EndSound
  <2>2. c \in Nat \ {0} /\ Number(m) \in Nat /\ m.key = KeyAt(c, Number(m))
    BY ChainFacts, WireFacts
  <2>3. s.sendMessageNumber \in Nat /\ s.receiveMessageNumber \in Nat
    BY <2>1 DEF IsEnd
  <2>4. m.from = p => c <= n /\ c # n - 1
    BY ChainFacts
  <2>5. m.from # p => Passed(p, m)
    BY <1>1, <2>1 DEF CacheSound
  <2>6. m.from # p => c <= n - 1 /\ c # n
    BY <2>1, <2>2, <2>5 DEF Passed
  <2>7. CASE m.key \in Range(s.skippedMessageKeys)
    <3>1. PICK k \in DOMAIN s.skippedMessageKeys : m.key = s.skippedMessageKeys[k]
      BY <2>7 DEF Range
    <3>2. PICK o \in wire : o.from = Peer(p) /\ m.key = o.key /\ openings[p][Ident(o)] = 0
      BY <2>1, <3>1 DEF CacheSound, Awaited
    <3>3. o = m
      BY <3>2, WireFacts
    <3> QED
      BY <1>1, <2>1, <3>2, <3>3
  <2>8. CASE \E chainKey \in {s.sendingChainKey, s.receivingChainKey} \ {Null} :
               chainKey.chain = m.key.chain /\ chainKey.step <= m.key.step
    <3>1. m.key.chain = Root(c) /\ m.key.step = Number(m)
      BY <2>2 DEF KeyAt
    <3>2. ~(/\ s.sendingChainKey # Null
            /\ s.sendingChainKey.chain = Root(c) /\ s.sendingChainKey.step <= Number(m))
      <4> SUFFICES ASSUME s.sendingChainKey # Null, s.sendingChainKey.chain = Root(c),
                          s.sendingChainKey.step <= Number(m)
                   PROVE  FALSE
        OBVIOUS
      <4>1. s.sendingChainKey = [chain |-> Root(n), step |-> s.sendMessageNumber]
        BY <2>1 DEF IsEnd
      <4>2. Root(n) = Root(c) /\ s.sendMessageNumber <= Number(m)
        BY <4>1
      <4>3. c = n
        BY <2>1, <2>2, <4>2, RootFacts
      <4>4. HasLength(n, s.sendMessageNumber)
        BY DEF Inv, Lengths
      <4>5. Number(m) < s.sendMessageNumber
        BY <2>2, <4>3, <4>4 DEF HasLength, SentOn
      <4> QED
        BY <2>2, <2>3, <4>2, <4>5
    <3>3. ~(/\ s.receivingChainKey # Null
            /\ s.receivingChainKey.chain = Root(c) /\ s.receivingChainKey.step <= Number(m))
      <4> SUFFICES ASSUME s.receivingChainKey # Null, s.receivingChainKey.chain = Root(c),
                          s.receivingChainKey.step <= Number(m)
                   PROVE  FALSE
        OBVIOUS
      <4>1. /\ n - 1 \in Nat
            /\ s.receivingChainKey = [chain |-> Root(n - 1), step |-> s.receiveMessageNumber]
        BY <2>1 DEF IsEnd
      <4>2. Root(n - 1) = Root(c) /\ s.receiveMessageNumber <= Number(m)
        BY <4>1
      <4>3. c = n - 1
        BY <2>1, <2>2, <4>1, <4>2, RootFacts
      <4>4. Passed(p, m)
        BY <2>4, <2>5, <4>3
      <4> QED
        BY <2>2, <2>3, <4>1, <4>2, <4>3, <4>4 DEF Passed
    <3> QED
      BY <2>8, <3>1, <3>2, <3>3
  <2>9. CASE \E remote \in [owner : Parties, number : 0 .. 2 * MaxMessages] :
               m.key.chain = KdfRootKey(s.rootKey, DeriveSharedSecret(s.dhSelf, remote))
    <3>1. PICK remote \in [owner : Parties, number : 0 .. 2 * MaxMessages] :
                 m.key.chain = KdfRootKey(s.rootKey, DeriveSharedSecret(s.dhSelf, remote))
      BY <2>9
    <3>2. remote \in KeyPairs
      BY RatchetConstants DEF KeyPairs
    <3>3. m.key.chain = KdfRootKey(Root(n), DeriveSharedSecret(PairOf(n), remote))
      BY <2>1, <3>1 DEF IsEnd
    <3>4. Len(KdfRootKey(Root(n), DeriveSharedSecret(PairOf(n), remote))) = n + 1
      BY <2>1, <3>2, PairFacts, RootFacts
    <3>5. c = n + 1
      BY <3>3, <3>4 DEF Chain
    <3> QED
      BY <2>1, <2>2, <2>4, <2>6, <3>5
  <2> QED
    BY <1>1, <2>7, <2>8, <2>9 DEF Yields
<1>2. m.from \in Parties /\ Peer(m.from) \in Parties /\ m.from = Peer(Peer(m.from))
  BY ChainFacts, PeerFacts DEF Parties
<1>3. Opened(Peer(m.from), m) => openings[Peer(m.from)][Ident(m)] > 0
  BY DEF Opened, Ident
<1> QED
  BY <1>1, <1>2, <1>3

\* The cache keeps what is awaited, and no key is used twice.
LEMMA InvAwaited == Inv => SkippedKeysAwaited /\ KeysUsedOnce
<1> SUFFICES ASSUME Inv
             PROVE  SkippedKeysAwaited /\ KeysUsedOnce
  OBVIOUS
<1>1. KeysUsedOnce
  BY WireFacts DEF KeysUsedOnce
<1>2. ASSUME NEW p \in Parties, NEW k \in DOMAIN ratchet[p].skippedMessageKeys
      PROVE  \E m \in wire :
               /\ m.from = Peer(p) /\ ~Opened(p, m)
               /\ k = <<m.header.dhPublicKey, m.header.messageNumber>>
               /\ m.key = ratchet[p].skippedMessageKeys[k]
  <2>1. PICK m \in wire : /\ m.from = Peer(p) /\ k = Name(m)
                          /\ ratchet[p].skippedMessageKeys[k] = m.key
                          /\ openings[p][Ident(m)] = 0
    BY DEF Inv, CacheSound, Awaited
  <2>2. ~Opened(p, m)
    BY <2>1 DEF Opened, Ident
  <2> QED
    BY <2>1, <2>2 DEF Name
<1> QED
  BY <1>1, <1>2 DEF SkippedKeysAwaited

----------------------------------------------------------------------------
(* The invariant holds at first. *)

LEMMA InitInv == Init => Inv
<1> SUFFICES ASSUME Init
             PROVE  Inv
  OBVIOUS
<1>1. /\ ratchet = [p \in Parties |-> ratchet[p]]
      /\ ratchet[Initiator] = InitAsInitiator /\ ratchet[Responder] = InitAsResponder
      /\ wire = {} /\ openings = [p \in Parties |-> [m \in Messages |-> 0]]
  BY RatchetConstants DEF Init, Parties
<1>2. KdfRootKey(<<>>, DeriveSharedSecret(PairOf(1), PairOf(0))) = Root(1)
  BY RootFacts
<1>3. IsEnd(InitAsResponder, 0)
  BY PairFacts, RootFacts DEF IsEnd, InitAsResponder, RatchetFields
<1>4. IsEnd(InitAsInitiator, 1)
  <2> DEFINE a == InitAsInitiator
  <2>1. /\ DOMAIN a = RatchetFields /\ a.rootKey = Root(1) /\ a.dhSelf = PairOf(1)
        /\ a.dhRemote = PairOf(0) /\ a.sendingChainKey = FirstChainKey(Root(1))
        /\ a.receivingChainKey = Null /\ a.sendMessageNumber = 0 /\ a.receiveMessageNumber = 0
        /\ a.previousSendingChainLength = 0
    BY <1>2, PairFacts DEF InitAsInitiator, InitAsResponder, RatchetFields
  <2> HIDE DEF a
  <2> QED
    BY <2>1 DEF IsEnd, FirstChainKey, a
<1>5. /\ InitAsResponder.sendMessageNumber = 0 /\ InitAsInitiator.sendMessageNumber = 0
      /\ InitAsResponder.receiveMessageNumber = 0 /\ InitAsInitiator.receiveMessageNumber = 0
      /\ InitAsResponder.previousSendingChainLength = 0
      /\ InitAsInitiator.previousSendingChainLength = 0
      /\ DOMAIN InitAsResponder.skippedMessageKeys = {}
      /\ DOMAIN InitAsInitiator.skippedMessageKeys = {}
  BY DEF InitAsResponder, InitAsInitiator
<1>6. Turn(Initiator) = 1 /\ Turn(Responder) = 0
  BY <1>1, <1>3, <1>4, RootFacts DEF Turn, IsEnd
<1>7. \A p \in Parties : EndSound(p)
  BY <1>1, <1>3, <1>4, <1>6, PairFacts DEF EndSound, Parties, KeyPair
<1>8. \A p \in Parties : SentBy(p) = 0
  <2>1. \A p \in Parties : {m \in wire : m.from = p} = {}
    BY <1>1
  <2> QED
    BY <2>1, FS_EmptySet DEF SentBy
<1>9. WireSound
  BY <1>1, <1>8, FS_EmptySet, RatchetConstants DEF WireSound
<1>10. \A c : HasLength(c, 0)
  BY <1>1 DEF HasLength, SentOn
<1>11. Lengths
  BY <1>1, <1>5, <1>10 DEF Lengths, Parties
<1>12. \A p \in Parties : Reached(p) /\ CacheSound(p) /\ OpeningsSound(p)
  BY <1>1, <1>5 DEF Reached, CacheSound, OpeningsSound, Parties
<1>13. openings \in [Parties -> [Messages -> Nat]]
  BY <1>1
<1> QED
  BY <1>1, <1>6, <1>7, <1>9, <1>11, <1>12, <1>13 DEF Inv, TurnsNear

----------------------------------------------------------------------------
(* Encrypting: the chain of the end's own turn grows by one. *)

LEMMA EncryptStep ==
  ASSUME Inv, NEW p \in Parties, Encrypt(p)
  PROVE  /\ Inv'
         /\ SentBy(p) < MaxMessages
         /\ \A q \in Parties : SentBy(q)' = IF q = p THEN SentBy(q) + 1 ELSE SentBy(q)
         /\ openings' = openings
<1> DEFINE s == ratchet[p]
           n == Turn(p)
           k == s.sendMessageNumber
           packet == [from |-> p, number |-> SentBy(p) + 1, key |-> s.sendingChainKey,
                      header |-> [dhPublicKey |-> s.dhSelf,
                                  previousChainLength |-> s.previousSendingChainLength,
                                  messageNumber |-> k]]
           SentNext(c, j) == \E o \in wire' : Chain(o) = c /\ Number(o) = j
           LengthNext(c, l) == \A j \in Nat : SentNext(c, j) <=> j < l
           t == [s EXCEPT !.sendingChainKey = StepsOn(@, 1), !.sendMessageNumber = @ + 1]
<1>1. IsEnd(s, n) /\ n \in Nat /\ PairOf(n).owner = p
  BY DEF Inv, EndSound
<1> PICK x : x = packet
  OBVIOUS
<1>2. /\ wire' = wire \cup {x} /\ openings' = openings /\ SentBy(p) < MaxMessages
      /\ s.sendingChainKey # Null
  BY DEF Encrypt
<1>3. ratchet' = [ratchet EXCEPT ![p] = t]
  BY DEF Encrypt
<1>4. n # 0 /\ k \in Nat /\ s.previousSendingChainLength \in Nat
      /\ s.sendingChainKey = KeyAt(n, k) /\ s.dhSelf = PairOf(n)
  BY <1>1, <1>2 DEF IsEnd, KeyAt
<1>5. /\ IsEnd(t, n) /\ t.rootKey = s.rootKey /\ t.sendMessageNumber = k + 1
      /\ t.receiveMessageNumber = s.receiveMessageNumber
      /\ t.previousSendingChainLength = s.previousSendingChainLength
      /\ t.skippedMessageKeys = s.skippedMessageKeys
  <2>1. /\ DOMAIN t = DOMAIN s
        /\ t.rootKey = s.rootKey /\ t.dhSelf = s.dhSelf /\ t.dhRemote = s.dhRemote
        /\ t.sendingChainKey = StepsOn(s.sendingChainKey, 1) /\ t.sendMessageNumber = k + 1
        /\ t.receivingChainKey = s.receivingChainKey
        /\ t.receiveMessageNumber = s.receiveMessageNumber
        /\ t.previousSendingChainLength = s.previousSendingChainLength
        /\ t.skippedMessageKeys = s.skippedMessageKeys
    BY <1>1 DEF IsEnd, RatchetFields
  <2>2. StepsOn(s.sendingChainKey, 1) = [chain |-> Root(n), step |-> k + 1]
    BY <1>4 DEF StepsOn, KeyAt
  <2> HIDE DEF t
  <2> QED
    BY <1>1, <1>4, <2>1, <2>2 DEF IsEnd
<1> HIDE DEF t
<1>6. /\ x.from = p /\ x.number = SentBy(p) + 1 /\ x.key = KeyAt(n, k)
      /\ x.header.dhPublicKey = PairOf(n) /\ Number(x) = k
      /\ x.header.previousChainLength = s.previousSendingChainLength
      /\ Chain(x) = n /\ x.header \in Headers
  <2>1. Len(KeyAt(n, k).chain) = n
    BY <1>1, RootFacts DEF KeyAt
  <2>2. PairOf(n) \in KeyPairs
    BY <1>1, PairFacts
  <2> QED
    BY <1>4, <2>1, <2>2 DEF Chain, Number, Headers
<1> HIDE DEF packet
<1>7. /\ DOMAIN ratchet = Parties /\ ratchet'[p] = t
      /\ \A q \in Parties : q # p => ratchet'[q] = ratchet[q]
      /\ ratchet' = [q \in Parties |-> ratchet'[q]]
  BY <1>3 DEF Inv
<1>8. \A q \in Parties :
        /\ ratchet'[q].rootKey = ratchet[q].rootKey
        /\ ratchet'[q].receiveMessageNumber = ratchet[q].receiveMessageNumber
        /\ ratchet'[q].skippedMessageKeys = ratchet[q].skippedMessageKeys
        /\ ratchet'[q].previousSendingChainLength = ratchet[q].previousSendingChainLength
        /\ Turn(q)' = Turn(q)
  BY <1>5, <1>7 DEF Turn
<1>9. \A q \in Parties : q # p => n # Turn(q) /\ n # Turn(q) - 2
  BY <1>1, TurnFacts, PeerFacts
<1>10. /\ \A q \in Parties : SentBy(q) \in Nat
       /\ \A q \in Parties : SentBy(q)' = IF q = p THEN SentBy(q) + 1 ELSE SentBy(q)
  <2>1. ASSUME NEW q \in Parties
        PROVE  SentBy(q) \in Nat /\ SentBy(q)' = IF q = p THEN SentBy(q) + 1 ELSE SentBy(q)
    <3> DEFINE S == {m \in wire : m.from = q}
               T == {m \in wire' : m.from = q}
    <3>1. IsFiniteSet(S)
      BY FS_Subset DEF Inv, WireSound
    <3>2. Cardinality(S) \in Nat
      BY <3>1, FS_CardinalityType
    <3>3. CASE q = p
      <4>1. T = S \cup {x}
        BY <1>2, <1>6, <3>3
      <4>2. x \notin S
        <5> SUFFICES ASSUME x \in wire
                     PROVE  FALSE
          OBVIOUS
        <5>1. x.number \in 1 .. SentBy(p)
          BY <1>6 DEF Inv, WireSound, PacketSound
        <5>2. SentBy(p) \in Nat
          BY <3>2, <3>3 DEF SentBy
        <5> QED
          BY <1>6, <5>1, <5>2
      <4>3. Cardinality(T) = Cardinality(S) + 1
        BY <3>1, <4>1, <4>2, FS_AddElement
      <4> QED
        BY <3>2, <3>3, <4>3 DEF SentBy
    <3>4. CASE q # p
      <4>1. T = S
        BY <1>2, <1>6, <3>4
      <4> QED
        BY <3>2, <3>4, <4>1 DEF SentBy
    <3> QED
      BY <3>3, <3>4
  <2> QED
    BY <2>1
<1>11. \A c, j : SentNext(c, j) <=> SentOn(c, j) \/ (c = n /\ j = k)
  BY <1>2, <1>6 DEF SentOn
<1>12. HasLength(n, k) /\ HasLength(n - 2, s.previousSendingChainLength)
  BY DEF Inv, Lengths
<1> HIDE DEF SentNext
<1>13. LengthNext(n, k + 1)
  BY <1>4, <1>11, <1>12 DEF HasLength
<1>14. \A c, l : c # n /\ HasLength(c, l) => LengthNext(c, l)
  BY <1>11 DEF HasLength
<1> HIDE DEF LengthNext
<1>15. \A m \in wire : n # Chain(m) - 2
  BY <1>1, ChainFacts, PeerFacts, TurnFacts DEF Parties
<1>16. ~SentOn(n, k)
  BY <1>4, <1>12 DEF HasLength
<1>17. \A m \in wire : Ident(m) # Ident(x) /\ m.number \in 1 .. SentBy(m.from)
  <2> SUFFICES ASSUME NEW m \in wire
               PROVE  Ident(m) # Ident(x) /\ m.number \in 1 .. SentBy(m.from)
    OBVIOUS
  <2>1. m.number \in 1 .. SentBy(m.from)
    BY DEF Inv, WireSound, PacketSound
  <2>2. Ident(m) = Ident(x) => m.from = p /\ m.number = SentBy(p) + 1
    BY <1>6 DEF Ident
  <2>3. SentBy(p) \in Nat
    BY <1>10
  <2> QED
    BY <2>1, <2>2, <2>3
<1>18. WireSound'
  <2>1. IsFiniteSet(wire)'
    BY <1>2, FS_AddElement DEF Inv, WireSound
  <2>2. ASSUME NEW m \in wire'
        PROVE  PacketSound(m)'
    <3>1. CASE m \in wire
      <4>1. PacketSound(m) /\ m.from \in Parties
        BY <3>1 DEF Inv, WireSound, PacketSound
      <4>2. Turn(m.from)' = Turn(m.from) /\ m.number \in 1 .. SentBy(m.from)'
        BY <1>8, <1>10, <4>1 DEF PacketSound
      <4> QED
        BY <4>1, <4>2 DEF PacketSound, Chain, Number
    <3>2. CASE m = x
      <4>1. Turn(p)' = n /\ n \in 1 .. n
        BY <1>1, <1>4, <1>8
      <4>2. SentBy(p) + 1 \in 1 .. SentBy(p)'
        BY <1>10
      <4> QED
        BY <1>1, <1>6, <3>2, <4>1, <4>2 DEF PacketSound, Chain, Number
    <3> QED
      BY <1>2, <3>1, <3>2
  <2>3. \A m, o \in wire' : Ident(m) = Ident(o) => m = o
    BY <1>2, <1>17 DEF Inv, WireSound
  <2>4. \A m, o \in wire' : Chain(m) = Chain(o) /\ Number(m) = Number(o) => m = o
    BY <1>2, <1>6, <1>16 DEF Inv, WireSound, SentOn
  <2>5. \A q \in Parties : SentBy(q)' <= MaxMessages
    <3>1. \A q \in Parties : SentBy(q) <= MaxMessages
      BY DEF Inv, WireSound
    <3>2. SentBy(p) \in Nat /\ SentBy(p) + 1 <= MaxMessages
      BY <1>2, <1>10, RatchetConstants
    <3> QED
      BY <1>10, <3>1, <3>2
  <2> QED
    BY <2>1, <2>2, <2>3, <2>4, <2>5 DEF WireSound, Ident, Chain, Number
<1>19. Lengths'
  <2>1. ASSUME NEW q \in Parties
        PROVE  /\ LengthNext(Turn(q)', ratchet'[q].sendMessageNumber)
               /\ LengthNext(Turn(q)' - 2, ratchet'[q].previousSendingChainLength)
    <3>1. HasLength(Turn(q), ratchet[q].sendMessageNumber)
          /\ HasLength(Turn(q) - 2, ratchet[q].previousSendingChainLength)
      BY DEF Inv, Lengths
    <3>2. n # Turn(q) - 2
      BY <1>1, <1>9
    <3>3. CASE q = p
      BY <1>5, <1>7, <1>8, <1>13, <1>14, <3>1, <3>2, <3>3
    <3>4. CASE q # p
      BY <1>7, <1>8, <1>9, <1>14, <3>1, <3>2, <3>4
    <3> QED
      BY <3>3, <3>4
  <2>2. ASSUME NEW m \in wire'
        PROVE  LengthNext(Chain(m) - 2, m.header.previousChainLength)
    <3>1. CASE m \in wire
      BY <1>14, <1>15, <3>1 DEF Inv, Lengths
    <3>2. CASE m = x
      <4>1. n - 2 # n
        BY <1>1
      <4> QED
        BY <1>6, <1>12, <1>14, <3>2, <4>1
    <3> QED
      BY <1>2, <3>1, <3>2
  <2> QED
    BY <2>1, <2>2 DEF Lengths, HasLength, SentOn, LengthNext, SentNext, Chain, Number
<1>20. ASSUME NEW q \in Parties
       PROVE  EndSound(q)' /\ Reached(q)'
  <2>1. EndSound(q) /\ Reached(q)
    BY DEF Inv
  <2>2. IsEnd(ratchet'[q], Turn(q)')
    BY <1>1, <1>5, <1>7, <1>8, <2>1 DEF EndSound
  <2> QED
    <3>1. EndSound(q)'
      BY <1>8, <2>1, <2>2 DEF EndSound
    <3>2. ratchet'[q].receiveMessageNumber > 0 =>
            SentNext(Turn(q)' - 1, ratchet'[q].receiveMessageNumber - 1)
      BY <1>8, <1>11, <2>1 DEF Reached
    <3>3. Reached(q)'
      BY <3>2 DEF Reached, SentOn, SentNext, Chain, Number
    <3> QED
      BY <3>1, <3>3
<1>21. ASSUME NEW q \in Parties, NEW m \in wire
       PROVE  Passed(q, m)' <=> Passed(q, m)
  BY <1>8 DEF Passed, Chain, Number
<1>22. ASSUME NEW q \in Parties
       PROVE  CacheSound(q)' /\ OpeningsSound(q)'
  <2>1. CacheSound(q) /\ OpeningsSound(q)
    BY DEF Inv
  <2>2. p = Peer(q) => ~Passed(q, x)' /\ openings[q][Ident(x)] = 0
    <3> SUFFICES ASSUME p = Peer(q)
                 PROVE  ~Passed(q, x)' /\ openings[q][Ident(x)] = 0
      OBVIOUS
    <3>1. q = Peer(p)
      BY PeerFacts
    <3>2. Turn(q) \in Nat /\ ~(n < Turn(q) - 1)
      BY <1>1, <3>1, TurnFacts
    <3>3. ~(n = Turn(q) - 1 /\ k < ratchet[q].receiveMessageNumber)
      <4> SUFFICES ASSUME n = Turn(q) - 1, k < ratchet[q].receiveMessageNumber
                   PROVE  FALSE
        OBVIOUS
      <4> DEFINE r == ratchet[q].receiveMessageNumber
      <4>1. r \in Nat /\ r > 0 /\ r - 1 \in Nat /\ ~(r - 1 < k)
        <5>1. IsEnd(ratchet[q], Turn(q))
          BY DEF Inv, EndSound
        <5>2. r \in Nat
          BY <5>1 DEF IsEnd
        <5> QED
          BY <1>4, <5>2
      <4>2. SentOn(n, r - 1)
        BY <4>1 DEF Inv, Reached
      <4> HIDE DEF r, n, k
      <4> QED
        BY <1>12, <4>1, <4>2 DEF HasLength
    <3>4. ~Passed(q, x)'
      <4>1. Turn(q)' = Turn(q) /\ ratchet'[q].receiveMessageNumber = ratchet[q].receiveMessageNumber
        BY <1>8
      <4>2. Passed(q, x)' <=> \/ Chain(x) < Turn(q)' - 1
                              \/ /\ Chain(x) = Turn(q)' - 1
                                 /\ Number(x) < ratchet'[q].receiveMessageNumber
        BY DEF Passed, Chain, Number
      <4> QED
        BY <1>6, <3>2, <3>3, <4>1, <4>2
    <3>5. openings[q][Ident(x)] = 0
      <4>1. Ident(x) \in Messages
        <5>1. SentBy(p) + 1 \in 1 .. MaxMessages
          BY <1>2, <1>10, RatchetConstants
        <5> QED
          BY <1>6, <5>1 DEF Ident, Messages
      <4> QED
        BY <1>17, <2>1, <4>1 DEF OpeningsSound
    <3> QED
      BY <3>4, <3>5
  <2>3. \A k2 \in DOMAIN ratchet'[q].skippedMessageKeys : Awaited(q, k2)'
    <3>1. ASSUME NEW k2 \in DOMAIN ratchet[q].skippedMessageKeys
          PROVE  Awaited(q, k2)'
      <4>1. PICK m \in wire : /\ m.from = Peer(q) /\ k2 = Name(m)
                              /\ ratchet[q].skippedMessageKeys[k2] = m.key
                              /\ Passed(q, m) /\ openings[q][Ident(m)] = 0
        BY <2>1 DEF CacheSound, Awaited
      <4>2. m \in wire' /\ Passed(q, m)' /\ openings'[q][Ident(m)] = 0
        BY <1>2, <1>21, <4>1
      <4>3. ratchet'[q].skippedMessageKeys[k2] = m.key
        BY <1>8, <4>1
      <4> QED
        BY <4>1, <4>2, <4>3 DEF Awaited, Name, Ident
    <3> QED
      BY <1>8, <3>1
  <2>4. \A m \in wire' : m.from = Peer(q) /\ Passed(q, m)' /\ openings'[q][Ident(m)] = 0 =>
                           Name(m) \in DOMAIN ratchet'[q].skippedMessageKeys
    <3>1. ASSUME NEW m \in wire', m.from = Peer(q), Passed(q, m)', openings'[q][Ident(m)] = 0
          PROVE  Name(m) \in DOMAIN ratchet[q].skippedMessageKeys
      <4>1. m # x
        BY <1>6, <2>2, <3>1
      <4>2. m \in wire /\ Passed(q, m) /\ openings[q][Ident(m)] = 0
        BY <1>2, <1>21, <3>1, <4>1
      <4> QED
        BY <2>1, <3>1, <4>2 DEF CacheSound
    <3> QED
      BY <1>8, <3>1
  <2>5. \A m \in wire' : m.from = Peer(q) /\ openings'[q][Ident(m)] > 0 => Passed(q, m)'
    <3>1. ASSUME NEW m \in wire', m.from = Peer(q), openings'[q][Ident(m)] > 0
          PROVE  Passed(q, m)'
      <4>1. m # x
        BY <1>2, <1>6, <2>2, <3>1
      <4>2. m \in wire /\ openings[q][Ident(m)] > 0
        BY <1>2, <3>1, <4>1
      <4> QED
        BY <1>21, <2>1, <3>1, <4>2 DEF CacheSound
    <3> QED
      BY <3>1
  <2>6. OpeningsSound(q)'
    BY <1>2, <2>1 DEF OpeningsSound, Ident
  <2> QED
    BY <2>3, <2>4, <2>5, <2>6 DEF CacheSound, Ident, Name
<1>23. TurnsNear'
  BY <1>8 DEF Inv, TurnsNear, Parties
<1>24. (openings \in [Parties -> [Messages -> Nat]])'
  BY <1>2 DEF Inv
<1>25. Inv'
  BY <1>7, <1>18, <1>19, <1>20, <1>22, <1>23, <1>24 DEF Inv
<1> QED
  BY <1>2, <1>10, <1>25

----------------------------------------------------------------------------
(* Decrypting: the receiving chain goes as far as the packet that opened. *)

\* t, the end of turn n, has passed over packet o.
PassedBy(t, n, o) ==
  \/ Chain(o) < n - 1
  \/ Chain(o) = n - 1 /\ Number(o) < t.receiveMessageNumber

\* t is what packet m, as it opens, makes of p: the end of turn n, that has
\* passed over the packets of `names` too.
Outcome(p, m, t, n, names) ==
  LET s == ratchet[p]
  IN  /\ IsEnd(t, n)
      /\ \/ n = Turn(p)
         \/ n = Turn(p) + 2 /\ Turn(Peer(p)) = Turn(p) + 1
      /\ HasLength(n, t.sendMessageNumber)
      /\ HasLength(n - 2, t.previousSendingChainLength)
      /\ t.receiveMessageNumber > 0 => SentOn(n - 1, t.receiveMessageNumber - 1)
      /\ \A o \in wire : o.from = Peer(p) =>
           (PassedBy(t, n, o) <=> Passed(p, o) \/ o = m \/ Name(o) \in names)
      /\ DOMAIN t.skippedMessageKeys = (DOMAIN s.skippedMessageKeys \cup names) \ {Name(m)}
      /\ \A k \in DOMAIN s.skippedMessageKeys \ (names \cup {Name(m)}) :
           t.skippedMessageKeys[k] = s.skippedMessageKeys[k]
      /\ \A k \in names : \E o \in wire :
           /\ o.from = Peer(p) /\ o # m /\ k = Name(o)
           /\ t.skippedMessageKeys[k] = o.key /\ ~Passed(p, o)

\* Whatever the case, such an outcome keeps the invariant.
LEMMA OpeningStep ==
  ASSUME Inv, NEW p \in Parties, NEW m \in wire, m.from = Peer(p), Decrypt(p, m), Opens(p, m),
         openings[p][Ident(m)] = 0, NEW n \in Nat, NEW names,
         Outcome(p, m, Advanced(ratchet[p], m.header), n, names)
  PROVE  Inv'
<1> PICK t : t = Advanced(ratchet[p], m.header)
  OBVIOUS
<1> DEFINE s == ratchet[p]
           id == Ident(m)
<1>1. Outcome(p, m, t, n, names)
  OBVIOUS
<1>2. ratchet' = [ratchet EXCEPT ![p] = t] /\ wire' = wire
  BY DEF Decrypt, AfterDecrypt
<1>3. openings' = [openings EXCEPT ![p][id] = @ + 1]
  BY DEF Decrypt, Ident
<1>4. /\ ratchet' = [q \in Parties |-> ratchet'[q]] /\ ratchet'[p] = t
      /\ \A q \in Parties : q # p => ratchet'[q] = ratchet[q]
  BY <1>2 DEF Inv
<1>5. id \in Messages /\ openings \in [Parties -> [Messages -> Nat]]
  BY WireFacts DEF Inv
<1>6. /\ openings' \in [Parties -> [Messages -> Nat]]
      /\ openings'[p][id] = 1
      /\ \A x \in Messages : x # id => openings'[p][x] = openings[p][x]
      /\ \A q \in Parties : q # p => openings'[q] = openings[q]
  <2> HIDE DEF id
  <2> QED
    BY <1>3, <1>5 DEF Ident, id
<1>7. Turn(p)' = n /\ \A q \in Parties : q # p => Turn(q)' = Turn(q)
  BY <1>1, <1>4, RootFacts DEF Turn, Outcome, IsEnd
<1>8. \A q \in Parties : Turn(q) \in Nat /\ Turn(q)' \in Nat /\ Turn(q) <= Turn(q)'
  BY <1>1, <1>7, TurnFacts DEF Outcome
<1>9. \A q \in Parties : SentBy(q)' = SentBy(q)
  BY <1>2 DEF SentBy
<1>10. WireSound'
  <2>1. ASSUME NEW o \in wire
        PROVE  PacketSound(o)'
    <3>1. PacketSound(o) /\ o.from \in Parties
      BY DEF Inv, WireSound, PacketSound
    <3>2. Chain(o) \in 1 .. Turn(o.from)'
      BY <1>8, <3>1 DEF PacketSound
    <3> QED
      BY <1>9, <3>1, <3>2 DEF PacketSound, Chain, Number
  <2> QED
    BY <1>2, <1>9, <2>1 DEF Inv, WireSound, Ident, Chain, Number
<1>11. ASSUME NEW q \in Parties
       PROVE  /\ HasLength(Turn(q)', ratchet'[q].sendMessageNumber)
              /\ HasLength(Turn(q)' - 2, ratchet'[q].previousSendingChainLength)
  BY <1>1, <1>4, <1>7 DEF Inv, Lengths, Outcome
<1>12. Lengths'
  <2>1. \A o \in wire : HasLength(Chain(o) - 2, o.header.previousChainLength)
    BY DEF Inv, Lengths
  <2> QED
    BY <1>2, <1>11, <2>1 DEF Lengths, HasLength, SentOn, Chain, Number
<1>13. ASSUME NEW q \in Parties
       PROVE  EndSound(q)'
  <2>1. EndSound(q)
    BY DEF Inv
  <2>2. CASE q # p
    BY <1>4, <1>7, <2>1, <2>2 DEF EndSound
  <2>3. CASE q = p
    <3>1. PairOf(n).owner = p
      <4>1. Turn(p) + 1 \in Nat /\ Turn(p) + 1 + 1 = Turn(p) + 2
        BY <1>8
      <4> QED
        BY <1>1, <1>8, <2>1, <2>3, <4>1, PairFacts, PeerFacts DEF Outcome, EndSound
    <3> QED
      BY <1>1, <1>4, <1>7, <2>3, <3>1 DEF EndSound, Outcome
  <2> QED
    BY <2>2, <2>3
<1>14. ASSUME NEW q \in Parties
       PROVE  Reached(q)'
  <2>1. ratchet'[q].receiveMessageNumber > 0 =>
          SentOn(Turn(q)' - 1, ratchet'[q].receiveMessageNumber - 1)
    BY <1>1, <1>4, <1>7 DEF Inv, Reached, Outcome
  <2> QED
    BY <1>2, <2>1 DEF Reached, SentOn, Chain, Number
<1>15. TurnsNear'
  <2>1. Turn(p)' = Turn(Peer(p))' + 1 \/ Turn(Peer(p))' = Turn(p)' + 1
    BY <1>1, <1>7, TurnFacts, PeerFacts DEF Outcome
  <2> QED
    BY <2>1, PeerFacts DEF TurnsNear, Parties
<1>16. ASSUME NEW q \in Parties, q # p
       PROVE  CacheSound(q)' /\ OpeningsSound(q)'
  <2>1. CacheSound(q) /\ OpeningsSound(q)
    BY DEF Inv
  <2>2. ratchet'[q] = ratchet[q] /\ openings'[q] = openings[q] /\ Turn(q)' = Turn(q)
    BY <1>4, <1>6, <1>7, <1>16
  <2>3. \A o : Passed(q, o)' <=> Passed(q, o)
    BY <2>2 DEF Passed, Chain, Number
  <2>4. \A k : Awaited(q, k)' <=> Awaited(q, k)
    BY <1>2, <2>2, <2>3 DEF Awaited, Name, Ident
  <2> QED
    BY <1>2, <2>1, <2>2, <2>3, <2>4 DEF CacheSound, OpeningsSound, Name, Ident
<1>17. \A o \in wire : o.from = Peer(p) =>
         (Passed(p, o)' <=> Passed(p, o) \/ o = m \/ Name(o) \in names)
  <2>1. \A o : Passed(p, o)' <=> PassedBy(t, n, o)
    BY <1>4, <1>7 DEF Passed, PassedBy, Chain, Number
  <2> QED
    BY <1>1, <2>1 DEF Outcome
<1>18. \A o \in wire : o # m => /\ Ident(o) \in Messages /\ Ident(o) # id
                                /\ openings'[p][Ident(o)] = openings[p][Ident(o)]
                                /\ Name(o) # Name(m)
  BY <1>6, WireFacts
<1>19. CacheSound(p) /\ OpeningsSound(p)
  BY DEF Inv
<1>20. CacheSound(p)'
  <2>1. ASSUME NEW k \in DOMAIN t.skippedMessageKeys
        PROVE  \E o \in wire : /\ o.from = Peer(p) /\ k = Name(o)
                               /\ t.skippedMessageKeys[k] = o.key
                               /\ Passed(p, o)' /\ openings'[p][Ident(o)] = 0
    <3>1. k \in DOMAIN s.skippedMessageKeys \cup names /\ k # Name(m)
      BY <1>1 DEF Outcome
    <3>2. CASE k \in names
      <4>1. PICK o \in wire : /\ o.from = Peer(p) /\ o # m /\ k = Name(o)
                              /\ t.skippedMessageKeys[k] = o.key /\ ~Passed(p, o)
        BY <1>1, <3>2 DEF Outcome
      <4>2. Passed(p, o)'
        BY <1>17, <3>2, <4>1
      <4>3. openings[p][Ident(o)] = 0
        BY <1>18, <1>19, <4>1 DEF CacheSound, OpeningsSound
      <4>4. openings'[p][Ident(o)] = 0
        BY <1>18, <4>1, <4>3
      <4> QED
        BY <4>1, <4>2, <4>4
    <3>3. CASE k \notin names
      <4>1. /\ k \in DOMAIN s.skippedMessageKeys
            /\ t.skippedMessageKeys[k] = s.skippedMessageKeys[k]
        BY <1>1, <3>1, <3>3 DEF Outcome
      <4>2. PICK o \in wire : /\ o.from = Peer(p) /\ k = Name(o)
                              /\ s.skippedMessageKeys[k] = o.key
                              /\ Passed(p, o) /\ openings[p][Ident(o)] = 0
        BY <1>19, <4>1 DEF CacheSound, Awaited
      <4>3. openings'[p][Ident(o)] = 0
        BY <1>18, <3>1, <4>2
      <4>4. Passed(p, o)'
        BY <1>17, <4>2
      <4> QED
        BY <4>1, <4>2, <4>3, <4>4
    <3> QED
      BY <3>2, <3>3
  <2>2. \A k \in DOMAIN ratchet'[p].skippedMessageKeys : Awaited(p, k)'
    BY <1>2, <1>4, <2>1 DEF Awaited, Name, Ident
  <2>3. ASSUME NEW o \in wire, o.from = Peer(p), Passed(p, o)', openings'[p][Ident(o)] = 0
        PROVE  Name(o) \in DOMAIN t.skippedMessageKeys
    <3>1. o # m
      BY <1>6, <2>3
    <3>2. Passed(p, o) \/ Name(o) \in names
      BY <1>17, <2>3, <3>1
    <3>3. Passed(p, o) => Name(o) \in DOMAIN s.skippedMessageKeys
      BY <1>18, <1>19, <2>3, <3>1 DEF CacheSound
    <3> QED
      BY <1>1, <1>18, <3>1, <3>2, <3>3 DEF Outcome
  <2>4. ASSUME NEW o \in wire, o.from = Peer(p), openings'[p][Ident(o)] > 0
        PROVE  Passed(p, o)'
    <3>1. o # m => Passed(p, o)
      BY <1>18, <1>19, <2>4 DEF CacheSound
    <3> QED
      BY <1>17, <2>4, <3>1
  <2> QED
    BY <1>2, <1>4, <2>2, <2>3, <2>4 DEF CacheSound, Name, Ident
<1>21. OpeningsSound(p)'
  <2>1. ASSUME NEW x \in Messages
        PROVE  \/ openings'[p][x] = 0
               \/ openings'[p][x] = 1 /\ \E o \in wire : o.from = Peer(p) /\ x = Ident(o)
    BY <1>6, <1>19 DEF OpeningsSound
  <2> QED
    BY <1>2, <2>1 DEF OpeningsSound, Ident
<1> QED
  BY <1>4, <1>6, <1>10, <1>12, <1>13, <1>14, <1>15, <1>16, <1>20, <1>21 DEF Inv

\* What a chain is known to be long enough for has been sent on it.
LEMMA SentBefore ==
  ASSUME Inv, NEW c \in Nat, NEW length \in Nat, HasLength(c, length), NEW i \in Nat, i < length
  PROVE  \E o \in wire : /\ Chain(o) = c /\ Number(o) = i /\ o.from = PairOf(c).owner
                         /\ Name(o) = <<PairOf(c), i>> /\ o.key = KeyAt(c, i)
<1>1. PICK o \in wire : Chain(o) = c /\ Number(o) = i
  BY DEF HasLength, SentOn
<1>2. PacketSound(o)
  BY DEF Inv, WireSound
<1>3. o.from = PairOf(c).owner /\ Name(o) = <<PairOf(c), i>> /\ o.key = KeyAt(c, i)
  BY <1>1, <1>2 DEF PacketSound, Name, Number
<1> QED
  BY <1>1, <1>3

\* The name of a packet is one of chain c's where its number is.
LEMMA NameIn ==
  ASSUME Inv, NEW o \in wire, NEW c \in Nat, NEW first \in Nat, NEW until \in Nat
  PROVE  Name(o) \in NamesOf(c, first, until)
           <=> Chain(o) = c /\ first <= Number(o) /\ Number(o) < until
<1>1. Chain(o) \in Nat /\ Number(o) \in Nat
  BY ChainFacts, PeerFacts DEF Parties
<1>2. Name(o) = <<PairOf(Chain(o)), Number(o)>>
  BY WireFacts DEF Name, Number
<1> QED
  BY <1>1, <1>2, NamesFacts

\* A packet that opens under its cached key takes the key out of the cache.
LEMMA OutcomeCached ==
  ASSUME Inv, NEW p \in Parties, NEW m \in wire, m.from = Peer(p),
         Name(m) \in DOMAIN ratchet[p].skippedMessageKeys, Passed(p, m)
  PROVE  Outcome(p, m, Advanced(ratchet[p], m.header), Turn(p), {})
<1> DEFINE s == ratchet[p]
           n == Turn(p)
           t == Advanced(s, m.header)
<1>1. IsEnd(s, n) /\ n \in Nat
  BY DEF Inv, EndSound
<1>2. t = [s EXCEPT !.skippedMessageKeys = Restrict(@, DOMAIN @ \ {Name(m)})]
  BY DEF Advanced, HasSkippedKey, Name
<1> HIDE DEF t
<1>3. /\ DOMAIN t = DOMAIN s
      /\ t.rootKey = s.rootKey /\ t.dhSelf = s.dhSelf /\ t.dhRemote = s.dhRemote
      /\ t.sendingChainKey = s.sendingChainKey /\ t.sendMessageNumber = s.sendMessageNumber
      /\ t.receivingChainKey = s.receivingChainKey
      /\ t.receiveMessageNumber = s.receiveMessageNumber
      /\ t.previousSendingChainLength = s.previousSendingChainLength
      /\ t.skippedMessageKeys
           = Restrict(s.skippedMessageKeys, DOMAIN s.skippedMessageKeys \ {Name(m)})
  BY <1>1, <1>2 DEF IsEnd, RatchetFields
<1>4. /\ DOMAIN t.skippedMessageKeys = DOMAIN s.skippedMessageKeys \ {Name(m)}
      /\ \A k \in DOMAIN s.skippedMessageKeys \ {Name(m)} :
           t.skippedMessageKeys[k] = s.skippedMessageKeys[k]
  BY <1>3 DEF Restrict
<1>5. IsEnd(t, n)
  BY <1>1, <1>3 DEF IsEnd
<1>6. /\ HasLength(n, t.sendMessageNumber) /\ HasLength(n - 2, t.previousSendingChainLength)
      /\ t.receiveMessageNumber > 0 => SentOn(n - 1, t.receiveMessageNumber - 1)
  BY <1>3 DEF Inv, Lengths, Reached
<1>7. \A o : PassedBy(t, n, o) <=> Passed(p, o)
  BY <1>3 DEF PassedBy, Passed
<1> QED
  BY <1>4, <1>5, <1>6, <1>7 DEF Outcome, t

\* A packet further along the receiving chain passes over what comes before it.
LEMMA OutcomeHere ==
  ASSUME Inv, NEW p \in Parties, NEW m \in wire, m.from = Peer(p),
         Name(m) \notin DOMAIN ratchet[p].skippedMessageKeys,
         Turn(p) >= 2, Chain(m) = Turn(p) - 1, Number(m) >= ratchet[p].receiveMessageNumber
  PROVE  Outcome(p, m, Advanced(ratchet[p], m.header), Turn(p),
                 NamesOf(Turn(p) - 1, ratchet[p].receiveMessageNumber, Number(m)))
<1> DEFINE s == ratchet[p]
           n == Turn(p)
           h == m.header
           r == s.receiveMessageNumber
           t == Advanced(s, h)
           names == NamesOf(n - 1, r, Number(m))
<1>1. IsEnd(s, n) /\ n \in Nat /\ n - 1 \in Nat /\ ~(n <= 1)
  BY DEF Inv, EndSound
<1>2. r \in Nat /\ Number(m) \in Nat
  BY <1>1, ChainFacts DEF IsEnd
<1>3. h.dhPublicKey = PairOf(n - 1) /\ h.messageNumber \in Nat /\ h.messageNumber >= r
  BY <1>2, WireFacts DEF Number
<1>4. ~HasSkippedKey(s, h)
  BY DEF HasSkippedKey, Name
<1>5. names = LateNames(s, n, h.messageNumber)
  BY <1>1 DEF LateNames, Number
<1> HIDE DEF h
<1>6. /\ IsEnd(t, n)
      /\ t.receiveMessageNumber = h.messageNumber + 1
      /\ t.sendMessageNumber = s.sendMessageNumber
      /\ t.previousSendingChainLength = s.previousSendingChainLength
      /\ Caches(s.skippedMessageKeys, t.skippedMessageKeys, LateNames(s, n, h.messageNumber))
  <2> HIDE DEF s, n, r
  <2>1. n >= 2 /\ h.messageNumber >= s.receiveMessageNumber
    BY <1>3 DEF n, r
  <2> QED
    BY <1>1, <1>3, <1>4, <2>1, AdvancedHere
<1> HIDE DEF t
<1>7. t.receiveMessageNumber = Number(m) + 1
  BY <1>6 DEF h, Number
<1>8. Caches(s.skippedMessageKeys, t.skippedMessageKeys, names)
  BY <1>5, <1>6
<1>9. \A o \in wire : Name(o) \in names <=>
        Chain(o) = n - 1 /\ r <= Number(o) /\ Number(o) < Number(m)
  BY <1>1, <1>2, NameIn
<1>10. \A o \in wire : /\ Chain(o) \in Nat /\ Number(o) \in Nat
                       /\ Chain(o) = Chain(m) /\ Number(o) = Number(m) => o = m
  BY ChainFacts DEF Inv, WireSound
<1>11. ASSUME NEW o \in wire
       PROVE  PassedBy(t, n, o) <=> Passed(p, o) \/ o = m \/ Name(o) \in names
  <2>1. PassedBy(t, n, o) <=> Chain(o) < n - 1 \/ (Chain(o) = n - 1 /\ Number(o) < Number(m) + 1)
    BY <1>7 DEF PassedBy
  <2>2. Passed(p, o) <=> Chain(o) < n - 1 \/ (Chain(o) = n - 1 /\ Number(o) < r)
    BY DEF Passed
  <2>3. Number(o) < Number(m) + 1 <=> \/ Number(o) < r \/ Number(o) = Number(m)
                                      \/ r <= Number(o) /\ Number(o) < Number(m)
    BY <1>2, <1>3, <1>10 DEF h, Number
  <2> QED
    BY <1>9, <1>10, <2>1, <2>2, <2>3
<1>12. PICK length \in Nat : HasLength(n - 1, length)
  <2>1. CASE Turn(p) = Turn(Peer(p)) + 1
    <3>1. n - 1 = Turn(Peer(p)) /\ Peer(p) \in Parties
      BY <2>1, TurnFacts, PeerFacts
    <3>2. HasLength(n - 1, ratchet[Peer(p)].sendMessageNumber)
      BY <3>1 DEF Inv, Lengths
    <3>3. ratchet[Peer(p)].sendMessageNumber \in Nat
      BY <3>1 DEF Inv, EndSound, IsEnd
    <3> QED
      BY <3>2, <3>3
  <2>2. CASE Turn(Peer(p)) = Turn(p) + 1
    <3>1. n - 1 = Turn(Peer(p)) - 2 /\ Peer(p) \in Parties
      BY <2>2, TurnFacts, PeerFacts
    <3>2. HasLength(n - 1, ratchet[Peer(p)].previousSendingChainLength)
      BY <3>1 DEF Inv, Lengths
    <3>3. ratchet[Peer(p)].previousSendingChainLength \in Nat
      BY <3>1 DEF Inv, EndSound, IsEnd
    <3> QED
      BY <3>2, <3>3
  <2> QED
    BY <2>1, <2>2, TurnFacts
<1>13. Number(m) < length
  BY <1>2, <1>12 DEF HasLength, SentOn
<1>14. PairOf(n - 1).owner = Peer(p)
  BY DEF Inv, WireSound, PacketSound
<1>15. ASSUME NEW k \in names
       PROVE  \E o \in wire : /\ o.from = Peer(p) /\ o # m /\ k = Name(o)
                              /\ t.skippedMessageKeys[k] = o.key /\ ~Passed(p, o)
  <2>1. PICK i \in r .. Number(m) - 1 : k = <<PairOf(n - 1), i>>
    BY DEF NamesOf
  <2>2. i \in Nat /\ i < Number(m) /\ i < length /\ r <= i
    BY <1>2, <1>12, <1>13
  <2>3. PICK o \in wire : /\ Chain(o) = n - 1 /\ Number(o) = i /\ o.from = PairOf(n - 1).owner
                          /\ Name(o) = <<PairOf(n - 1), i>> /\ o.key = KeyAt(n - 1, i)
    BY <1>1, <1>12, <2>2, SentBefore
  <2>4. t.skippedMessageKeys[k] = KeyAt(n - 1, i)
    BY <1>1, <1>8, <2>1, <2>2 DEF Caches
  <2>5. ~Passed(p, o)
    BY <1>1, <1>2, <2>2, <2>3 DEF Passed
  <2>6. o # m
    BY <1>2, <2>2, <2>3
  <2> QED
    BY <1>14, <2>1, <2>3, <2>4, <2>5, <2>6
<1>16. Name(m) \notin names
  BY <1>2, <1>9
<1>17. /\ HasLength(n, t.sendMessageNumber) /\ HasLength(n - 2, t.previousSendingChainLength)
       /\ t.receiveMessageNumber > 0 => SentOn(n - 1, t.receiveMessageNumber - 1)
  <2>1. HasLength(n, t.sendMessageNumber) /\ HasLength(n - 2, t.previousSendingChainLength)
    BY <1>6 DEF Inv, Lengths
  <2>2. t.receiveMessageNumber - 1 = Number(m)
    BY <1>2, <1>7
  <2> QED
    BY <2>1, <2>2 DEF SentOn
<1> HIDE DEF names
<1>18. DOMAIN t.skippedMessageKeys = (DOMAIN s.skippedMessageKeys \cup names) \ {Name(m)}
  BY <1>8, <1>16 DEF Caches
<1>19. \A k \in DOMAIN s.skippedMessageKeys \ (names \cup {Name(m)}) :
         t.skippedMessageKeys[k] = s.skippedMessageKeys[k]
  BY <1>8 DEF Caches
<1> HIDE DEF s, n
<1> QED
  BY <1>6, <1>11, <1>15, <1>17, <1>18, <1>19 DEF Outcome, t, h, names, s, n

\* A packet of the next chain passes over the rest of the chain that is left,
\* and what comes before it on its own.
LEMMA OutcomeNext ==
  ASSUME Inv, NEW p \in Parties, NEW m \in wire, m.from = Peer(p),
         Name(m) \notin DOMAIN ratchet[p].skippedMessageKeys, Chain(m) = Turn(p) + 1
  PROVE  Outcome(p, m, Advanced(ratchet[p], m.header), Turn(p) + 2,
                 LateNames(ratchet[p], Turn(p), m.header.previousChainLength)
                   \cup NamesOf(Turn(p) + 1, 0, Number(m)))
<1> DEFINE s == ratchet[p]
           n == Turn(p)
           h == m.header
           r == s.receiveMessageNumber
           t == Advanced(s, h)
           late == LateNames(s, n, h.previousChainLength)
           fresh == NamesOf(n + 1, 0, Number(m))
           names == late \cup fresh
<1>1. IsEnd(s, n) /\ n \in Nat /\ n + 1 \in Nat /\ n + 2 \in Nat /\ 0 \in Nat
  BY DEF Inv, EndSound
<1>turn. PICK z \in Nat : z = n + 2 /\ z - 1 = n + 1 /\ z - 2 = n
  BY <1>1
<1>2. r \in Nat /\ s.sendMessageNumber \in Nat /\ Number(m) \in Nat /\ h.previousChainLength \in Nat
  BY <1>1, ChainFacts DEF IsEnd
<1>3. h.dhPublicKey = PairOf(n + 1) /\ h.messageNumber \in Nat
  BY <1>2, WireFacts DEF Number
<1>4. ~HasSkippedKey(s, h)
  BY DEF HasSkippedKey, Name
<1>5. fresh = NamesOf(n + 1, 0, h.messageNumber)
  BY DEF Number
<1>6. Turn(Peer(p)) = n + 1 /\ Peer(p) \in Parties
  <2>1. Chain(m) <= Turn(Peer(p)) /\ Peer(p) \in Parties
    BY ChainFacts, PeerFacts
  <2> QED
    BY <1>1, <2>1, TurnFacts
<1>7. HasLength(n - 1, h.previousChainLength)
  <2>1. Chain(m) - 2 = n - 1
    BY <1>1
  <2> QED
    BY <2>1 DEF Inv, Lengths
<1> HIDE DEF h
<1>8. /\ IsEnd(t, n + 2)
      /\ t.receiveMessageNumber = h.messageNumber + 1
      /\ t.sendMessageNumber = 0
      /\ t.previousSendingChainLength = s.sendMessageNumber
      /\ Caches(s.skippedMessageKeys, t.skippedMessageKeys,
                LateNames(s, n, h.previousChainLength) \cup NamesOf(n + 1, 0, h.messageNumber))
  <2> HIDE DEF s, n
  <2> QED
    BY <1>1, <1>2, <1>3, <1>4, AdvancedNext
<1> HIDE DEF t
<1>9. t.receiveMessageNumber = Number(m) + 1
  BY <1>8 DEF h, Number
<1>10. Caches(s.skippedMessageKeys, t.skippedMessageKeys, names)
  BY <1>5, <1>8
<1>11. \A o \in wire : Name(o) \in fresh <=> Chain(o) = n + 1 /\ Number(o) < Number(m)
  <2>1. \A o \in wire : Name(o) \in fresh <=>
          Chain(o) = n + 1 /\ 0 <= Number(o) /\ Number(o) < Number(m)
    BY <1>1, <1>2, NameIn
  <2>2. \A o \in wire : Number(o) \in Nat
    BY ChainFacts
  <2> QED
    BY <2>1, <2>2
<1>12. \A o \in wire : Name(o) \in late <=>
         n >= 2 /\ Chain(o) = n - 1 /\ r <= Number(o) /\ Number(o) < h.previousChainLength
  <2>1. CASE n <= 1
    BY <1>1, <2>1 DEF LateNames
  <2>2. CASE ~(n <= 1)
    <3>1. n >= 2 /\ n - 1 \in Nat /\ late = NamesOf(n - 1, r, h.previousChainLength)
      BY <1>1, <2>2 DEF LateNames
    <3> HIDE DEF late
    <3> QED
      BY <1>2, <3>1, NameIn
  <2> QED
    BY <2>1, <2>2
<1> HIDE DEF late, fresh
<1>13. ASSUME NEW o \in wire, o.from = Peer(p)
       PROVE  PassedBy(t, z, o) <=> Passed(p, o) \/ o = m \/ Name(o) \in names
  <2>1. Chain(o) \in Nat \ {0} /\ Number(o) \in Nat /\ Chain(o) # n /\ Chain(o) <= n + 1
    BY <1>13, ChainFacts
  <2>2. PassedBy(t, z, o) <=>
          Chain(o) < n + 1 \/ (Chain(o) = n + 1 /\ Number(o) < Number(m) + 1)
    BY <1>turn, <1>9 DEF PassedBy
  <2>3. Passed(p, o) <=> Chain(o) < n - 1 \/ (Chain(o) = n - 1 /\ Number(o) < r)
    BY DEF Passed
  <2>4. Chain(o) = n - 1 => n >= 2 /\ Number(o) < h.previousChainLength
    <3>1. Chain(o) = n - 1 => Number(o) < h.previousChainLength
      BY <1>7, <2>1 DEF HasLength, SentOn
    <3> QED
      BY <1>1, <2>1, <3>1
  <2>5. Number(o) < Number(m) + 1 <=> Number(o) = Number(m) \/ Number(o) < Number(m)
    BY <1>2, <2>1
  <2>6. Chain(o) < n + 1 <=> Chain(o) < n - 1 \/ Chain(o) = n - 1
    BY <1>1, <2>1
  <2>7. Chain(o) = n + 1 /\ Number(o) = Number(m) <=> o = m
    BY DEF Inv, WireSound
  <2>8. Number(o) < r \/ r <= Number(o)
    BY <1>2, <2>1
  <2>9. Name(o) \in names <=> \/ Chain(o) = n + 1 /\ Number(o) < Number(m)
                              \/ Chain(o) = n - 1 /\ r <= Number(o)
    BY <1>11, <1>12, <2>4
  <2> HIDE DEF names
  <2> QED
    BY <2>2, <2>3, <2>5, <2>6, <2>7, <2>8, <2>9
<1>14. PairOf(n + 1).owner = Peer(p)
  BY DEF Inv, WireSound, PacketSound
<1>15. PICK length \in Nat : HasLength(n + 1, length)
  <2>1. HasLength(n + 1, ratchet[Peer(p)].sendMessageNumber)
    BY <1>6 DEF Inv, Lengths
  <2>2. ratchet[Peer(p)].sendMessageNumber \in Nat
    BY <1>6 DEF Inv, EndSound, IsEnd
  <2> QED
    BY <2>1, <2>2
<1>16. Number(m) < length
  BY <1>2, <1>15 DEF HasLength, SentOn
<1>17. ASSUME NEW k \in fresh
       PROVE  \E o \in wire : /\ o.from = Peer(p) /\ o # m /\ k = Name(o)
                              /\ t.skippedMessageKeys[k] = o.key /\ ~Passed(p, o)
  <2>1. PICK i \in 0 .. Number(m) - 1 : k = <<PairOf(n + 1), i>>
    BY DEF NamesOf, fresh
  <2>2. i \in Nat /\ i < Number(m) /\ i < length
    BY <1>2, <1>15, <1>16
  <2>3. PICK o \in wire : /\ Chain(o) = n + 1 /\ Number(o) = i /\ o.from = PairOf(n + 1).owner
                          /\ Name(o) = <<PairOf(n + 1), i>> /\ o.key = KeyAt(n + 1, i)
    BY <1>1, <1>15, <2>2, SentBefore
  <2>4. t.skippedMessageKeys[k] = KeyAt(n + 1, i)
    BY <1>1, <1>10, <2>1, <2>2 DEF Caches
  <2>5. ~Passed(p, o)
    BY <1>1, <2>3 DEF Passed
  <2>6. o # m
    BY <1>2, <2>2, <2>3
  <2> QED
    BY <1>14, <2>1, <2>3, <2>4, <2>5, <2>6
<1>18. ASSUME NEW k \in late
       PROVE  \E o \in wire : /\ o.from = Peer(p) /\ o # m /\ k = Name(o)
                              /\ t.skippedMessageKeys[k] = o.key /\ ~Passed(p, o)
  <2>1. ~(n <= 1) /\ k \in NamesOf(n - 1, r, h.previousChainLength)
    BY DEF LateNames, late
  <2>2. n - 1 \in Nat
    BY <1>1, <2>1
  <2>3. PICK i \in r .. h.previousChainLength - 1 : k = <<PairOf(n - 1), i>>
    BY <2>1 DEF NamesOf
  <2>4. i \in Nat /\ i < h.previousChainLength /\ r <= i
    BY <1>2 DEF h
  <2>5. h.previousChainLength \in Nat
    BY <1>2
  <2>6. PICK o \in wire : /\ Chain(o) = n - 1 /\ Number(o) = i /\ o.from = PairOf(n - 1).owner
                          /\ Name(o) = <<PairOf(n - 1), i>> /\ o.key = KeyAt(n - 1, i)
    BY <1>7, <2>2, <2>4, <2>5, SentBefore
  <2>7. t.skippedMessageKeys[k] = KeyAt(n - 1, i)
    BY <1>10, <2>2, <2>3, <2>4 DEF Caches
  <2>8. ~Passed(p, o)
    BY <1>1, <1>2, <2>4, <2>6 DEF Passed
  <2>9. o # m
    BY <1>1, <2>6
  <2>10. PairOf(n - 1).owner = PairOf(n + 1).owner
    <3>1. n - 1 + 1 = n
      BY <1>1
    <3> QED
      BY <1>1, <2>2, <3>1, PairFacts, PeerFacts
  <2> QED
    BY <1>14, <2>3, <2>6, <2>7, <2>8, <2>9, <2>10
<1>19. Name(m) \notin names
  <2>1. ~(Number(m) < Number(m)) /\ Chain(m) # n - 1
    BY <1>1, <1>2
  <2> QED
    BY <1>11, <1>12, <2>1
<1>20. HasLength(z, t.sendMessageNumber)
  <2>1. \A o \in wire : Chain(o) # z
    <3>1. \A o \in wire : o.from \in Parties /\ Chain(o) \in Nat /\ Chain(o) <= Turn(o.from)
      BY ChainFacts
    <3>2. \A q \in Parties : q = p \/ q = Peer(p)
      BY PeerFacts
    <3> QED
      BY <1>1, <1>turn, <1>6, <3>1, <3>2
  <2> QED
    BY <1>8, <2>1 DEF HasLength, SentOn
<1>21. HasLength(z - 2, t.previousSendingChainLength)
  BY <1>turn, <1>8 DEF Inv, Lengths
<1>22. t.receiveMessageNumber > 0 => SentOn(z - 1, t.receiveMessageNumber - 1)
  <2>1. t.receiveMessageNumber - 1 = Number(m)
    BY <1>2, <1>9
  <2> QED
    BY <1>turn, <2>1 DEF SentOn
<1>23. DOMAIN t.skippedMessageKeys = (DOMAIN s.skippedMessageKeys \cup names) \ {Name(m)}
  BY <1>10, <1>19 DEF Caches
<1>24. \A k \in DOMAIN s.skippedMessageKeys \ (names \cup {Name(m)}) :
         t.skippedMessageKeys[k] = s.skippedMessageKeys[k]
  BY <1>10 DEF Caches
<1>25. \A k \in names : \E o \in wire :
         /\ o.from = Peer(p) /\ o # m /\ k = Name(o)
         /\ t.skippedMessageKeys[k] = o.key /\ ~Passed(p, o)
  BY <1>17, <1>18
<1> HIDE DEF names
<1>26. z = Turn(p) + 2 /\ Turn(Peer(p)) = Turn(p) + 1
  BY <1>turn, <1>6
<1>27. IsEnd(t, z)
  BY <1>turn, <1>8
<1> HIDE DEF n
<1>28. Outcome(p, m, t, z, names)
  BY <1>13, <1>20, <1>21, <1>22, <1>23, <1>24, <1>25, <1>26, <1>27 DEF Outcome
<1> QED
  BY <1>26, <1>28 DEF t, h, names, late, fresh, n

\* decrypt() keeps the invariant; it opens nothing, or a packet of the other
\* end that was not opened before.
LEMMA DecryptStep ==
  ASSUME Inv, NEW p \in Parties, NEW m \in wire, Decrypt(p, m)
  PROVE  \/ UNCHANGED vars
         \/ /\ Inv' /\ wire' = wire
            /\ m.from = Peer(p) /\ Ident(m) \in Messages /\ openings[p][Ident(m)] = 0
            /\ openings' = [openings EXCEPT ![p][Ident(m)] = 1]
<1>1. CASE ~Opens(p, m)
  <2>1. ratchet' = ratchet
    BY <1>1 DEF Decrypt, AfterDecrypt, Inv
  <2> QED
    BY <1>1, <2>1 DEF Decrypt, vars
<1>2. CASE Opens(p, m)
  <2>1. m.from = Peer(p)
    <3>1. m.from \in Parties
      BY ChainFacts
    <3> QED
      BY <1>2, <3>1, OwnStaysClosed, PeerFacts
  <2>2. openings[p][Ident(m)] = 0
    BY <1>2, <2>1, OpensWhere
  <2>3. \E n \in Nat : \E names : Outcome(p, m, Advanced(ratchet[p], m.header), n, names)
    <3>1. Turn(p) \in Nat /\ Turn(p) + 2 \in Nat
      BY TurnFacts
    <3>2. CASE Name(m) \in DOMAIN ratchet[p].skippedMessageKeys
      <4>1. Passed(p, m)
        BY <1>2, <2>1, <3>2, OpensWhere
      <4> QED
        BY <2>1, <3>1, <3>2, <4>1, OutcomeCached
    <3>3. CASE Name(m) \notin DOMAIN ratchet[p].skippedMessageKeys
      <4>1. \/ /\ Turn(p) >= 2 /\ Chain(m) = Turn(p) - 1
               /\ Number(m) >= ratchet[p].receiveMessageNumber
            \/ Chain(m) = Turn(p) + 1
        BY <1>2, <2>1, <3>3, OpensWhere
      <4>2. CASE /\ Turn(p) >= 2 /\ Chain(m) = Turn(p) - 1
                 /\ Number(m) >= ratchet[p].receiveMessageNumber
        BY <2>1, <3>1, <3>3, <4>2, OutcomeHere
      <4>3. CASE Chain(m) = Turn(p) + 1
        BY <2>1, <3>1, <3>3, <4>3, OutcomeNext
      <4> QED
        BY <4>1, <4>2, <4>3
    <3> QED
      BY <3>2, <3>3
  <2>4. Inv'
    BY <1>2, <2>1, <2>2, <2>3, OpeningStep
  <2>5. Ident(m) \in Messages
    BY WireFacts
  <2>6. openings' = [openings EXCEPT ![p][Ident(m)] = 1]
    <3>1. openings' = [openings EXCEPT ![p][Ident(m)] = @ + 1]
      BY <1>2 DEF Decrypt, Ident
    <3>2. openings \in [Parties -> [Messages -> Nat]]
      BY DEF Inv
    <3> QED
      BY <2>2, <2>5, <3>1, <3>2
  <2> QED
    BY <2>1, <2>2, <2>4, <2>5, <2>6 DEF Decrypt
<1> QED
  BY <1>1, <1>2

\* A damaged packet changes nothing.
LEMMA DamagedStep ==
  ASSUME Inv, NEW p \in Parties, NEW h, DecryptDamaged(p, h)
  PROVE  UNCHANGED vars
BY DEF DecryptDamaged, AfterDecrypt, Inv, vars

----------------------------------------------------------------------------
\* The invariant holds in every state of every session.
THEOREM RatchetInvariant == Spec => []Inv
<1>1. ASSUME Inv, UNCHANGED vars
      PROVE  Inv'
  <2>1. ratchet' = ratchet /\ wire' = wire /\ openings' = openings
    BY <1>1 DEF vars
  <2>2. \A p : /\ EndSound(p)' <=> EndSound(p)
               /\ SentBy(p)' = SentBy(p)
    BY <2>1 DEF EndSound, Turn, SentBy
  <2>3. TurnsNear' <=> TurnsNear
    BY <2>1 DEF TurnsNear, Turn
  <2>4. \A m : PacketSound(m)' <=> PacketSound(m)
    BY <2>1, <2>2 DEF PacketSound, Turn, Chain, Number
  <2>5. WireSound' <=> WireSound
    BY <2>1, <2>2, <2>4 DEF WireSound, Chain, Number, Ident
  <2>6. Lengths' <=> Lengths
    BY <2>1 DEF Lengths, HasLength, SentOn, Turn, Chain, Number
  <2>7. \A p : Reached(p)' <=> Reached(p)
    BY <2>1 DEF Reached, SentOn, Turn, Chain, Number
  <2>8. \A p, m : Passed(p, m)' <=> Passed(p, m)
    BY <2>1 DEF Passed, Turn, Chain, Number
  <2>9. \A p, k : Awaited(p, k)' <=> Awaited(p, k)
    BY <2>1, <2>8 DEF Awaited, Name, Ident
  <2>10. \A p : CacheSound(p)' <=> CacheSound(p)
    BY <2>1, <2>8, <2>9 DEF CacheSound, Name, Ident
  <2>11. \A p : OpeningsSound(p)' <=> OpeningsSound(p)
    BY <2>1 DEF OpeningsSound, Ident
  <2> QED
    BY <1>1, <2>1, <2>2, <2>3, <2>5, <2>6, <2>7, <2>10, <2>11 DEF Inv
<1>2. Inv /\ [Next]_vars => Inv'
  BY <1>1, EncryptStep, DecryptStep, DamagedStep DEF Next
<1> QED
  BY <1>2, InitInv, PTL DEF Spec

\* Each end's counters fit its chains and the two ends fit each other: the roots
\* never differ by anything but the last output.
THEOREM RatchetEndsInStep == Spec => []EndsInStep
<1>1. Inv => EndsInStep
  BY InvRoots, InvTypes DEF EndsInStep
<1> QED
  BY <1>1, RatchetInvariant, PTL

\* decrypt() opens every packet when it first arrives, unless its chain or the
\* one before it is longer than MAX_SKIP.
THEOREM RatchetFirstReceiptOpens == Spec => []FirstReceiptOpens
BY InvOpens, RatchetInvariant, PTL

\* The cache of skipped keys holds what was passed over and is not opened yet,
\* and nothing else.
THEOREM RatchetSkippedKeysAwaited == Spec => []SkippedKeysAwaited
<1>1. Inv => SkippedKeysAwaited
  BY InvAwaited
<1> QED
  BY <1>1, RatchetInvariant, PTL

\* No two messages are encrypted under one key.
THEOREM RatchetKeysUsedOnce == Spec => []KeysUsedOnce
<1>1. Inv => KeysUsedOnce
  BY InvAwaited
<1> QED
  BY <1>1, RatchetInvariant, PTL

\* What an end holds never yields the key of a message it sent or opened.
THEOREM RatchetForwardSecrecy == Spec => []ForwardSecrecy
BY InvSecrecy, RatchetInvariant, PTL

\* The ratchet implements the secure channel: every encrypt() is a Send, every
\* decrypt() that opens is an Open, and the others change nothing.
THEOREM RatchetKeepsChannelPromise == Spec => KeepsChannelPromise
<1>1. Init => Channel!Init
  <2> SUFFICES ASSUME Init
               PROVE  Channel!Init
    OBVIOUS
  <2>1. \A p \in Parties : SentBy(p) = 0
    <3>1. \A p \in Parties : {m \in wire : m.from = p} = {}
      BY DEF Init
    <3> QED
      BY <3>1, FS_EmptySet DEF SentBy
  <2> QED
    BY <2>1 DEF Init, Channel!Init, Channel!Messages, Messages
<1>2. ASSUME Inv, [Next]_vars
      PROVE  [Channel!Next]_(Channel!vars)
  <2>1. ASSUME wire' = wire
        PROVE  [p \in Parties |-> SentBy(p)]' = [p \in Parties |-> SentBy(p)]
    BY <2>1 DEF SentBy
  <2>2. CASE UNCHANGED vars
    BY <2>1, <2>2 DEF vars, Channel!vars
  <2>3. ASSUME NEW p \in Parties, Encrypt(p)
        PROVE  Channel!Send(p)
    <3>1. /\ SentBy(p) < MaxMessages /\ openings' = openings
          /\ \A q \in Parties : SentBy(q)' = IF q = p THEN SentBy(q) + 1 ELSE SentBy(q)
      BY <1>2, <2>3, EncryptStep
    <3>2. [q \in Parties |-> SentBy(q)]'
            = [[q \in Parties |-> SentBy(q)] EXCEPT ![p] = @ + 1]
      BY <3>1
    <3> QED
      BY <3>1, <3>2 DEF Channel!Send
  <2>4. ASSUME NEW p \in Parties, NEW m \in wire, Decrypt(p, m), ~UNCHANGED vars
        PROVE  Channel!Open(p, Ident(m)) /\ Ident(m) \in Messages
    <3>1. /\ wire' = wire
          /\ m.from = Peer(p) /\ Ident(m) \in Messages /\ openings[p][Ident(m)] = 0
          /\ openings' = [openings EXCEPT ![p][Ident(m)] = 1]
      BY <1>2, <2>4, DecryptStep
    <3>2. m.number \in 1 .. SentBy(m.from) /\ m.from \in Parties /\ m.from # p
      BY <1>2, <3>1, PeerFacts DEF Inv, WireSound, PacketSound
    <3>3. SentBy(m.from) \in Nat
      <4>1. IsFiniteSet({x \in wire : x.from = m.from})
        BY <1>2, FS_Subset DEF Inv, WireSound
      <4> QED
        BY <4>1, FS_CardinalityType DEF SentBy
    <3>4. [q \in Parties |-> SentBy(q)][m.from] = SentBy(m.from)
      BY <3>2
    <3>5. Ident(m).from # p /\ Ident(m).number <= [q \in Parties |-> SentBy(q)][Ident(m).from]
      BY <3>2, <3>3, <3>4 DEF Ident
    <3> QED
      BY <2>1, <3>1, <3>5 DEF Channel!Open
  <2>5. ASSUME NEW p \in Parties, NEW h, DecryptDamaged(p, h)
        PROVE  UNCHANGED vars
    BY <1>2, <2>5, DamagedStep
  <2>6. Channel!Messages = Messages
    BY DEF Channel!Messages, Messages
  <2> QED
    BY <1>2, <2>2, <2>3, <2>4, <2>5, <2>6 DEF Next, Channel!Next
<1> QED
  BY <1>1, <1>2, RatchetInvariant, PTL DEF Spec, KeepsChannelPromise, Channel!Spec
=============================================================================
