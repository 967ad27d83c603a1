---------------------------- MODULE MobileProofs ----------------------------
(***************************************************************************)
(* What holds of the phone, its screen and the displayers in every         *)
(* behaviour, for all nodes, codes, attempts and openings of the screen.   *)
(* First that frames go to running calls only, and that only a running     *)
(* call's own session earns trust: it was set by a reply to the attempt's  *)
(* own opening.  Then what is on the air: whatever a channel puts together *)
(* is one node's, and an identity that can be read is of a session that    *)
(* passed the gate of the node that holds it; so that whoever the store    *)
(* calls verified has proved itself.  Last, that the camera hands up       *)
(* nothing more once a rendering has followed a hand-up.                   *)
(***************************************************************************)
EXTENDS PeerAuthentication, ScanScreen, TLAPS

Phases == Exchanging \cup {"unused", "connecting", "over"}
AttemptStates ==
  [code : Codes \cup {Null}, phase : Phases, outcome : {Null, "verified", "failed"},
   session : Hashes \cup {Null}]

\* A function on the identities, whatever its values.
IsStore(r) == r = [i \in Identities |-> r[i]]

Shape ==
  /\ attempts \in [Attempts -> AttemptStates]
  /\ activeChannel \in Attempts \cup {Null}
  /\ IsStore(records)

\* Once its handshake is complete an attempt carries a session of its own.
SessionIsOwn ==
  \A a \in Attempts : attempts[a].phase \in {"proving", "awaiting identity"} =>
    attempts[a].session \in Hashes /\ attempts[a].session.attempt = a

\* A call that has not connected has not returned.
ConnectingIsOpen ==
  \A a \in Attempts : attempts[a].phase \in {"unused", "connecting"} => attempts[a].outcome = Null

Inv == Shape /\ ActiveIsRunning /\ SessionIsOwn /\ ConnectingIsOpen

\* introduce() keeps the store a store and verifies nothing.
LEMMA IntroducedStore ==
  ASSUME NEW r, IsStore(r), NEW j
  PROVE  /\ IsStore(Introduced(r, j))
         /\ \A i \in Identities : IsVerified(Introduced(r, j), i) => Introduced(r, j)[i] = r[i]
  BY DEF IsStore, Introduced, IsVerified, Introduction

\* Nor does a failure.
LEMMA FailedStore ==
  ASSUME NEW r, IsStore(r), NEW j
  PROVE  /\ IsStore(MarkedFailed(r, j))
         /\ \A i \in Identities : IsVerified(MarkedFailed(r, j), i) => MarkedFailed(r, j)[i] = r[i]
  BY DEF IsStore, MarkedFailed, IsVerified, Introduction

\* Nor does forget().
LEMMA ForgottenStore ==
  ASSUME NEW r, IsStore(r), NEW j
  PROVE  /\ IsStore(Forgotten(r, j))
         /\ \A i \in Identities : IsVerified(Forgotten(r, j), i) => Forgotten(r, j)[i] = r[i]
  BY DEF IsStore, Forgotten, IsVerified

\* What EarnedByRunningCall says of a step.
Earned ==
  \A i \in Identities :
    IsVerified(records', i) /\ records'[i] # records[i] =>
      /\ records[i] # Null
      /\ attempts[records'[i].session.attempt].outcome = Null

\* What an end of an attempt leaves and what it makes.
LEMMA EndUpdate ==
  ASSUME attempts \in [Attempts -> AttemptStates], NEW a \in Attempts, NEW p \in Phases,
         NEW o \in {Null, "verified", "failed"},
         attempts' = [attempts EXCEPT ![a].phase = p, ![a].outcome = o]
  PROVE  /\ attempts' \in [Attempts -> AttemptStates]
         /\ \A b \in Attempts : b # a => attempts'[b] = attempts[b]
         /\ attempts'[a].phase = p /\ attempts'[a].outcome = o
         /\ attempts'[a].session = attempts[a].session
<1>1. attempts[a] \in AttemptStates
  OBVIOUS
<1>2. attempts' = [attempts EXCEPT ![a] = [attempts[a] EXCEPT !.phase = p, !.outcome = o]]
  BY <1>1 DEF AttemptStates
<1>3. [attempts[a] EXCEPT !.phase = p, !.outcome = o] \in AttemptStates
  BY <1>1 DEF AttemptStates
<1>4. QED
  BY <1>1, <1>2, <1>3 DEF AttemptStates

\* The same of a move to another phase.
LEMMA MoveUpdate ==
  ASSUME attempts \in [Attempts -> AttemptStates], NEW a \in Attempts, NEW p \in Phases, At(a, p)
  PROVE  /\ attempts' \in [Attempts -> AttemptStates]
         /\ \A b \in Attempts : b # a => attempts'[b] = attempts[b]
         /\ attempts'[a].phase = p /\ attempts'[a].outcome = attempts[a].outcome
         /\ attempts'[a].session = attempts[a].session
<1>1. attempts[a] \in AttemptStates
  OBVIOUS
<1>2. [attempts[a] EXCEPT !.phase = p] \in AttemptStates
  BY <1>1 DEF AttemptStates
<1>3. attempts' = [attempts EXCEPT ![a] = [attempts[a] EXCEPT !.phase = p]]
  BY DEF At
<1>4. QED
  BY <1>1, <1>2, <1>3 DEF AttemptStates

\* The same of a scan.
LEMMA ScanUpdate ==
  ASSUME attempts \in [Attempts -> AttemptStates], NEW a \in Attempts, NEW c \in Codes,
         attempts' = [attempts EXCEPT ![a].code = c, ![a].phase = "connecting"]
  PROVE  /\ attempts' \in [Attempts -> AttemptStates]
         /\ \A b \in Attempts : b # a => attempts'[b] = attempts[b]
         /\ attempts'[a].phase = "connecting" /\ attempts'[a].outcome = attempts[a].outcome
<1>1. attempts[a] \in AttemptStates
  OBVIOUS
<1>2. attempts' = [attempts EXCEPT ![a] = [attempts[a] EXCEPT !.code = c, !.phase = "connecting"]]
  BY <1>1 DEF AttemptStates
<1>3. [attempts[a] EXCEPT !.code = c, !.phase = "connecting"] \in AttemptStates
  BY <1>1 DEF AttemptStates, Phases
<1>4. QED
  BY <1>1, <1>2, <1>3 DEF AttemptStates

\* The same of a reply that completes the handshake.
LEMMA ReplyUpdate ==
  ASSUME attempts \in [Attempts -> AttemptStates], NEW a \in Attempts, NEW h \in Hashes,
         attempts' = [attempts EXCEPT ![a].phase = "proving", ![a].session = h]
  PROVE  /\ attempts' \in [Attempts -> AttemptStates]
         /\ \A b \in Attempts : b # a => attempts'[b] = attempts[b]
         /\ attempts'[a].phase = "proving" /\ attempts'[a].outcome = attempts[a].outcome
         /\ attempts'[a].session = h
<1>1. attempts[a] \in AttemptStates
  OBVIOUS
<1>2. attempts' = [attempts EXCEPT ![a] = [attempts[a] EXCEPT !.phase = "proving", !.session = h]]
  BY <1>1 DEF AttemptStates
<1>3. [attempts[a] EXCEPT !.phase = "proving", !.session = h] \in AttemptStates
  BY <1>1 DEF AttemptStates, Phases, Exchanging
<1>4. QED
  BY <1>1, <1>2, <1>3 DEF AttemptStates

\* A step of one attempt keeps the invariant when what it makes of that attempt
\* does and it leaves the active channel, takes it, or clears it.
LEMMA AttemptStep ==
  ASSUME Inv, NEW a \in Attempts, IsStore(records'),
         attempts' \in [Attempts -> AttemptStates],
         \A b \in Attempts : b # a => attempts'[b] = attempts[b],
         attempts'[a].phase \in {"proving", "awaiting identity"} =>
           attempts'[a].session \in Hashes /\ attempts'[a].session.attempt = a,
         attempts'[a].phase \in {"unused", "connecting"} => attempts'[a].outcome = Null,
         activeChannel' \in {Null, a, activeChannel},
         activeChannel' = a /\ a # Null =>
           attempts'[a].outcome = Null /\ attempts'[a].phase \in Exchanging
  PROVE  Inv'
<1>1. activeChannel' \in Attempts \cup {Null}
  BY DEF Inv, Shape
<1>2. ActiveIsRunning'
  <2>1. CASE activeChannel' = a /\ a # Null
    BY <2>1 DEF ActiveIsRunning
  <2>2. CASE activeChannel' # a /\ activeChannel' # Null
    <3>1. activeChannel' = activeChannel /\ activeChannel \in Attempts
      BY <1>1, <2>2
    <3>2. attempts'[activeChannel] = attempts[activeChannel]
      BY <2>2, <3>1
    <3>3. QED
      BY <2>2, <3>1, <3>2 DEF Inv, ActiveIsRunning
  <2>3. QED
    BY <2>1, <2>2 DEF ActiveIsRunning
<1>3. SessionIsOwn'
  <2>1. SUFFICES ASSUME NEW b \in Attempts, attempts'[b].phase \in {"proving", "awaiting identity"}
                 PROVE  attempts'[b].session \in Hashes /\ attempts'[b].session.attempt = b
    BY DEF SessionIsOwn
  <2>2. CASE b = a
    BY <2>1, <2>2
  <2>3. CASE b # a
    BY <2>1, <2>3 DEF Inv, SessionIsOwn
  <2>4. QED
    BY <2>2, <2>3
<1>4. ConnectingIsOpen'
  <2>1. SUFFICES ASSUME NEW b \in Attempts, attempts'[b].phase \in {"unused", "connecting"}
                 PROVE  attempts'[b].outcome = Null
    BY DEF ConnectingIsOpen
  <2>2. CASE b = a
    BY <2>1, <2>2
  <2>3. CASE b # a
    BY <2>1, <2>3 DEF Inv, ConnectingIsOpen
  <2>4. QED
    BY <2>2, <2>3
<1>5. QED
  BY <1>1, <1>2, <1>3, <1>4 DEF Inv, Shape

\* A failing end, of the call alone or of the exchange with it.
LEMMA EndPreserves ==
  ASSUME Inv, NEW a \in Attempts, NEW p \in {attempts[a].phase, "over"},
         attempts[a].phase \notin {"unused", "connecting"} \/ p = "over",
         NEW o \in {"verified", "failed"}, NEW j, Ends(a, p, o, MarkedFailed(records, j))
  PROVE  Inv' /\ Earned
<1>1. p \in Phases
  BY DEF Inv, Shape, AttemptStates, Phases
<1>2. /\ attempts' \in [Attempts -> AttemptStates]
      /\ \A b \in Attempts : b # a => attempts'[b] = attempts[b]
      /\ attempts'[a].phase = p /\ attempts'[a].session = attempts[a].session
  BY <1>1, EndUpdate DEF Inv, Shape, Ends
<1>3. IsStore(records') /\ Earned
  BY FailedStore DEF Inv, Shape, Ends, Earned
<1>4. activeChannel' = Null
  BY DEF Ends
<1>5. /\ p \in {"proving", "awaiting identity"} =>
           attempts[a].session \in Hashes /\ attempts[a].session.attempt = a
      /\ p \notin {"unused", "connecting"}
  BY DEF Inv, SessionIsOwn
<1>6. Inv'
  BY <1>2, <1>3, <1>4, <1>5, AttemptStep
<1>7. QED
  BY <1>3, <1>6

\* A step of the exchange.
LEMMA MovePreserves ==
  ASSUME Inv, NEW a \in Attempts, NEW p \in Exchanging \cup {"over"}, At(a, p),
         attempts[a].phase \in Exchanging,
         p \in Exchanging \/ attempts[a].outcome # Null,
         p \in {"proving", "awaiting identity"} =>
           attempts[a].phase \in {"proving", "awaiting identity"},
         UNCHANGED <<records, activeChannel>>
  PROVE  Inv' /\ Earned
<1>1. p \in Phases
  BY DEF Phases
<1>2. /\ attempts' \in [Attempts -> AttemptStates]
      /\ \A b \in Attempts : b # a => attempts'[b] = attempts[b]
      /\ attempts'[a].phase = p /\ attempts'[a].outcome = attempts[a].outcome
      /\ attempts'[a].session = attempts[a].session
  BY <1>1, MoveUpdate DEF Inv, Shape
<1>3. IsStore(records') /\ Earned
  BY DEF Inv, Shape, Earned
<1>4. p \in {"proving", "awaiting identity"} =>
        attempts[a].session \in Hashes /\ attempts[a].session.attempt = a
  BY DEF Inv, SessionIsOwn
<1>5. activeChannel' = a /\ a # Null => attempts'[a].outcome = Null /\ attempts'[a].phase \in Exchanging
  BY <1>2 DEF Inv, ActiveIsRunning
<1>6. p \notin {"unused", "connecting"}
  BY DEF Exchanging, Waiting
<1>7. Inv'
  BY <1>2, <1>3, <1>4, <1>5, <1>6, AttemptStep
<1>8. QED
  BY <1>3, <1>7

\* An exchange that throws.
LEMMA ThrowPreserves ==
  ASSUME Inv, NEW a \in Attempts, attempts[a].phase \in Exchanging, Throws(a)
  PROVE  Inv' /\ Earned
<1>1. CASE Ends(a, "over", "failed", MarkedFailed(records, attempts[a].code.identity))
  BY <1>1, EndPreserves
<1>2. CASE attempts[a].outcome # Null /\ At(a, "over") /\ UNCHANGED <<records, activeChannel>>
  BY <1>2, MovePreserves
<1>3. QED
  BY <1>1, <1>2 DEF Throws

\* An exchange that returns a session: the one way to earn trust.
LEMMA SuccessPreserves ==
  ASSUME Inv, NEW a \in Attempts, attempts[a].phase = "awaiting identity", Succeeds(a)
  PROVE  Inv' /\ Earned
<1> DEFINE i == attempts[a].code.identity
           s == attempts[a].session
<1>1. CASE /\ attempts[a].outcome = Null
           /\ Verifiable(records, i)
           /\ Ends(a, "over", "verified", MarkedVerified(records, i, s))
  <2>1. /\ attempts' \in [Attempts -> AttemptStates]
        /\ \A b \in Attempts : b # a => attempts'[b] = attempts[b]
        /\ attempts'[a].phase = "over"
    <3>1. "over" \in Phases
      BY DEF Phases
    <3>2. attempts' = [attempts EXCEPT ![a].phase = "over", ![a].outcome = "verified"]
      BY <1>1 DEF Ends
    <3>3. QED
      BY <3>1, <3>2, EndUpdate DEF Inv, Shape
  <2>2. /\ IsStore(records')
        /\ \A j \in Identities : j # i => records'[j] = records[j]
        /\ i \in Identities => records'[i].session = s
    <3>1. IsStore(records) /\ records' = MarkedVerified(records, i, s)
      BY <1>1 DEF Inv, Shape, Ends
    <3>2. QED
      BY <3>1 DEF IsStore, MarkedVerified
  <2>3. Earned
    <3>1. SUFFICES ASSUME NEW j \in Identities, records'[j] # records[j]
                   PROVE  /\ records[j] # Null
                          /\ attempts[records'[j].session.attempt].outcome = Null
      BY DEF Earned
    <3>2. j = i
      BY <2>2, <3>1
    <3>3. s.attempt = a
      BY DEF Inv, SessionIsOwn
    <3>4. QED
      BY <1>1, <2>2, <3>2, <3>3 DEF Verifiable
  <2>4. activeChannel' = Null
    BY <1>1 DEF Ends
  <2>5. Inv'
    BY <2>1, <2>2, <2>4, AttemptStep
  <2>6. QED
    BY <2>3, <2>5
<1>2. CASE Ends(a, "over", "failed", MarkedFailed(records, i))
  BY <1>2, EndPreserves
<1>3. CASE attempts[a].outcome # Null /\ At(a, "over") /\ UNCHANGED <<records, activeChannel>>
  BY <1>3, MovePreserves DEF Exchanging, Waiting
<1>4. QED
  BY <1>1, <1>2, <1>3 DEF Succeeds

\* A scan.
LEMMA ScanPreserves ==
  ASSUME Inv, NEW a \in Attempts, Scan(a)
  PROVE  Inv' /\ Earned
<1>1. PICK c \in Codes :
        /\ attempts' = [attempts EXCEPT ![a].code = c, ![a].phase = "connecting"]
        /\ records' = Introduced(records, c.identity)
  BY DEF Scan
<1>2. attempts[a].phase = "unused" /\ activeChannel' = activeChannel
  BY DEF Scan
<1>3. /\ attempts' \in [Attempts -> AttemptStates]
      /\ \A b \in Attempts : b # a => attempts'[b] = attempts[b]
      /\ attempts'[a].phase = "connecting" /\ attempts'[a].outcome = attempts[a].outcome
  BY <1>1, ScanUpdate DEF Inv, Shape
<1>4. IsStore(records') /\ Earned
  BY <1>1, IntroducedStore DEF Inv, Shape, Earned
<1>5. attempts[a].outcome = Null /\ (activeChannel = a => a = Null)
  BY <1>2 DEF Inv, ConnectingIsOpen, ActiveIsRunning, Exchanging, Waiting
<1>6. Inv'
  BY <1>2, <1>3, <1>4, <1>5, AttemptStep
<1>7. QED
  BY <1>4, <1>6

\* A connection that fails leaves the active channel to another attempt.
LEMMA ConnectFailurePreserves ==
  ASSUME Inv, NEW a \in Attempts, ConnectFails(a)
  PROVE  Inv' /\ Earned
<1>1. /\ attempts' \in [Attempts -> AttemptStates]
      /\ \A b \in Attempts : b # a => attempts'[b] = attempts[b]
      /\ attempts'[a].phase = "over"
  <2>1. "over" \in Phases
    BY DEF Phases
  <2>2. attempts' = [attempts EXCEPT ![a].phase = "over", ![a].outcome = "failed"]
    BY DEF ConnectFails
  <2>3. QED
    BY <2>1, <2>2, EndUpdate DEF Inv, Shape
<1>2. IsStore(records') /\ Earned
  BY FailedStore DEF ConnectFails, Inv, Shape, Earned
<1>3. activeChannel' = activeChannel /\ (activeChannel = a => a = Null)
  BY DEF ConnectFails, Inv, ActiveIsRunning, Exchanging, Waiting
<1>4. Inv'
  BY <1>1, <1>2, <1>3, AttemptStep
<1>5. QED
  BY <1>2, <1>4

\* A connection takes the active channel.
LEMMA ConnectPreserves ==
  ASSUME Inv, NEW a \in Attempts, Connect(a)
  PROVE  Inv' /\ Earned
<1>1. CASE At(a, "opening") /\ activeChannel' = a /\ records' = records
  <2>1. attempts[a].outcome = Null
    BY DEF Connect, Inv, ConnectingIsOpen
  <2>2. "opening" \in Phases /\ "opening" \in Exchanging
    BY DEF Phases, Exchanging
  <2>3. /\ attempts' \in [Attempts -> AttemptStates]
        /\ \A b \in Attempts : b # a => attempts'[b] = attempts[b]
        /\ attempts'[a].phase = "opening" /\ attempts'[a].outcome = Null
    BY <1>1, <2>1, <2>2, MoveUpdate DEF Inv, Shape
  <2>4. IsStore(records') /\ Earned
    BY <1>1 DEF Inv, Shape, Earned
  <2>5. Inv'
    BY <1>1, <2>2, <2>3, <2>4, AttemptStep
  <2>6. QED
    BY <2>4, <2>5
<1>2. CASE Ends(a, "over", "failed", MarkedFailed(records, attempts[a].code.identity))
  BY <1>2, EndPreserves
<1>3. QED
  BY <1>1, <1>2 DEF Connect

\* A timeout.
LEMMA TimeoutPreserves ==
  ASSUME Inv, NEW a \in Attempts, Timeout(a)
  PROVE  Inv' /\ Earned
<1>1. attempts[a].phase \notin {"unused", "connecting"}
  BY DEF Timeout, Exchanging, Waiting
<1>2. Ends(a, attempts[a].phase, "failed", MarkedFailed(records, attempts[a].code.identity))
  BY DEF Timeout
<1>3. QED
  BY <1>1, <1>2, EndPreserves

\* A reply: the session it makes is of the attempt's own opening.
LEMMA ReplyPreserves ==
  ASSUME Inv, NEW a \in Attempts, ReadReply(a)
  PROVE  Inv' /\ Earned
<1>1. PICK m \in Messages \cup {Garbled} :
        \/ /\ CompletesHandshake(a, m)
           /\ attempts' = [attempts EXCEPT ![a].phase = "proving", ![a].session = m.hash]
           /\ UNCHANGED <<records, activeChannel>>
        \/ Throws(a)
  BY DEF ReadReply
<1>2. attempts[a].phase = "awaiting reply"
  BY DEF ReadReply
<1>3. CASE /\ CompletesHandshake(a, m)
           /\ attempts' = [attempts EXCEPT ![a].phase = "proving", ![a].session = m.hash]
           /\ UNCHANGED <<records, activeChannel>>
  <2>1. m.hash \in Hashes /\ m.hash.attempt = a
    <3>1. m \in Messages /\ m.kind = "reply" /\ m.hash.attempt = a
      BY <1>3 DEF CompletesHandshake
    <3>2. m \in [kind : {"reply", "proof"}, hash : Hashes]
      BY <3>1 DEF Messages
    <3>3. QED
      BY <3>1, <3>2
  <2>2. /\ attempts' \in [Attempts -> AttemptStates]
        /\ \A b \in Attempts : b # a => attempts'[b] = attempts[b]
        /\ attempts'[a].phase = "proving" /\ attempts'[a].outcome = attempts[a].outcome
        /\ attempts'[a].session = m.hash
    <3> DEFINE h == m.hash
    <3>1. h \in Hashes /\ attempts' = [attempts EXCEPT ![a].phase = "proving", ![a].session = h]
      BY <1>3, <2>1
    <3>2. attempts \in [Attempts -> AttemptStates]
      BY DEF Inv, Shape
    <3> HIDE DEF h
    <3>3. /\ attempts' \in [Attempts -> AttemptStates]
          /\ \A b \in Attempts : b # a => attempts'[b] = attempts[b]
          /\ attempts'[a].phase = "proving" /\ attempts'[a].outcome = attempts[a].outcome
          /\ attempts'[a].session = h
      BY <3>1, <3>2, ReplyUpdate
    <3>4. QED
      BY <3>3 DEF h
  <2>3. IsStore(records') /\ Earned
    BY <1>3 DEF Inv, Shape, Earned
  <2>4. activeChannel' = activeChannel /\ "proving" \in Exchanging
    BY <1>3 DEF Exchanging
  <2>5. activeChannel = a /\ a # Null => attempts[a].outcome = Null
    BY DEF Inv, ActiveIsRunning
  <2>6. Inv'
    BY <2>1, <2>2, <2>3, <2>4, <2>5, AttemptStep
  <2>7. QED
    BY <2>3, <2>6
<1>4. CASE Throws(a)
  BY <1>2, <1>4, ThrowPreserves DEF Exchanging, Waiting
<1>5. QED
  BY <1>1, <1>3, <1>4

\* The displayer's proof, right or wrong.
LEMMA IdentityPreserves ==
  ASSUME Inv, NEW a \in Attempts, ReadIdentity(a)
  PROVE  Inv' /\ Earned
<1>1. attempts[a].phase = "awaiting identity" /\ attempts[a].phase \in Exchanging
  BY DEF ReadIdentity, Exchanging, Waiting
<1>2. Succeeds(a) \/ Throws(a)
  BY DEF ReadIdentity
<1>3. QED
  BY <1>1, <1>2, SuccessPreserves, ThrowPreserves

\* What the attempt sends.
LEMMA SendPreserves ==
  ASSUME Inv, NEW a \in Attempts, SendOpening(a) \/ SendProof(a)
  PROVE  Inv' /\ Earned
<1>1. attempts[a].phase \in Exchanging
  BY DEF SendOpening, SendProof, Exchanging
<1>2. CASE Throws(a)
  BY <1>1, <1>2, ThrowPreserves
<1>3. CASE SendOpening(a) /\ At(a, "awaiting reply") /\ UNCHANGED <<records, activeChannel>>
  BY <1>1, <1>3, MovePreserves DEF Exchanging, Waiting
<1>4. CASE SendProof(a) /\ At(a, "awaiting identity") /\ UNCHANGED <<records, activeChannel>>
  <2>1. attempts[a].phase = "proving" /\ "awaiting identity" \in Exchanging
    BY <1>4 DEF SendProof, Exchanging, Waiting
  <2>2. QED
    BY <1>1, <1>4, <2>1, MovePreserves
<1>5. QED
  BY <1>2, <1>3, <1>4 DEF SendOpening, SendProof, Sends

\* Every step keeps the invariant and earns trust as it should.
LEMMA StepPreserves ==
  ASSUME Inv, [Next]_vars
  PROVE  Inv' /\ Earned
<1>1. CASE UNCHANGED <<records, attempts, activeChannel>>
  BY <1>1 DEF Inv, Shape, ActiveIsRunning, SessionIsOwn, ConnectingIsOpen, Earned
<1>2. CASE UNCHANGED vars
  BY <1>1, <1>2 DEF vars
<1>3. ASSUME NEW a \in Attempts, Attempt(a)
      PROVE  Inv' /\ Earned
  BY <1>3, ScanPreserves, ConnectFailurePreserves, ConnectPreserves, TimeoutPreserves,
     SendPreserves, ReplyPreserves, IdentityPreserves DEF Attempt
<1>4. ASSUME NEW n \in Nodes, Displayer(n)
      PROVE  Inv' /\ Earned
  BY <1>1, <1>4 DEF Displayer, TakeMessage, Listen
<1>5. ASSUME NEW chunk \in air, Receive(chunk)
      PROVE  Inv' /\ Earned
  BY <1>1, <1>5 DEF Receive
<1>6. ASSUME NEW i \in Identities, Forget(i)
      PROVE  Inv' /\ Earned
  <2>1. UNCHANGED <<attempts, activeChannel>> /\ records' = Forgotten(records, i)
    BY <1>6 DEF Forget
  <2>2. IsStore(records') /\ Earned
    BY <2>1, ForgottenStore DEF Inv, Shape, Earned
  <2>3. QED
    BY <2>1, <2>2 DEF Inv, Shape, ActiveIsRunning, SessionIsOwn, ConnectingIsOpen
<1>7. QED
  BY <1>2, <1>3, <1>4, <1>5, <1>6 DEF Next

\* No attempt has begun.
LEMMA InitInv == Init => Inv
<1> SUFFICES ASSUME Init PROVE Inv
  OBVIOUS
<1>1. [code |-> Null, phase |-> "unused", outcome |-> Null, session |-> Null] \in AttemptStates
  BY DEF AttemptStates, Phases
<1>2. Shape
  BY <1>1 DEF Init, Shape, IsStore, NoRecords
<1>3. ActiveIsRunning /\ SessionIsOwn /\ ConnectingIsOpen
  BY DEF Init, ActiveIsRunning, SessionIsOwn, ConnectingIsOpen
<1>4. QED
  BY <1>2, <1>3 DEF Inv

----------------------------------------------------------------------------
(* What is on the air, and what a channel makes of it. *)

\* A message that a displayer sends while `known` are the sessions that have
\* passed their gates: an identity is of a session that passed, and is that of
\* the node that was at its end.
Genuine(m, known) ==
  /\ m \in Messages /\ m.kind \in {"reply", "identity"} /\ m.hash \in Hashes
  /\ m.kind = "identity" => m.hash \in known /\ m.identity = Keys[m.hash.node].identity

Frames == UNION {[0 .. k - 1 -> Messages] : k \in Nat \ {0}}

\* Parts of a frame that is not complete, and a complete frame: all of one node.
PartsOK(n, parts, known) ==
  \A k \in DOMAIN parts :
    parts[k] # Null => Genuine(parts[k], known) /\ parts[k].hash.node = n
FrameOK(f, known) ==
  f \in Frames /\ \E n \in Nodes : \A k \in DOMAIN f : Genuine(f[k], known) /\ f[k].hash.node = n

ChunkOK(chunk, known) ==
  chunk.peer \in Nodes /\ Genuine(chunk.message, known) /\ chunk.message.hash.node = chunk.peer

ChannelOK(channel, known) ==
  /\ channel = [pending |-> channel.pending, complete |-> channel.complete]
  /\ DOMAIN channel.pending = Nodes
  /\ channel.pending = [n \in Nodes |-> channel.pending[n]]
  /\ \A n \in Nodes : channel.pending[n] # Null =>
       Null \in Range(channel.pending[n]) /\ PartsOK(n, channel.pending[n], known)
  /\ channel.complete \in Seq(Frames)
  /\ \A i \in DOMAIN channel.complete : FrameOK(channel.complete[i], known)

\* A session that passes its gate makes nothing less genuine.
LEMMA KnownGrows ==
  ASSUME NEW known, NEW more, known \subseteq more
  PROVE  /\ \A chunk : ChunkOK(chunk, known) => ChunkOK(chunk, more)
         /\ \A channel : ChannelOK(channel, known) => ChannelOK(channel, more)
<1>1. \A m : Genuine(m, known) => Genuine(m, more)
  BY DEF Genuine
<1>2. \A n, parts : PartsOK(n, parts, known) => PartsOK(n, parts, more)
  BY <1>1 DEF PartsOK
<1>3. \A f : FrameOK(f, known) => FrameOK(f, more)
  BY <1>1 DEF FrameOK
<1>4. \A chunk : ChunkOK(chunk, known) => ChunkOK(chunk, more)
  BY <1>1 DEF ChunkOK
<1>5. \A channel : ChannelOK(channel, known) => ChannelOK(channel, more)
  BY <1>2, <1>3 DEF ChannelOK
<1>6. QED
  BY <1>4, <1>5

\* A new channel holds nothing.
LEMMA NewChannelOK == ASSUME NEW known PROVE ChannelOK(NewChannel, known)
<1>1. NewChannel.complete = <<>> /\ NewChannel.pending = [n \in Nodes |-> Null]
  BY DEF NewChannel
<1>2. <<>> \in Seq(Frames) /\ DOMAIN <<>> = {}
  OBVIOUS
<1>3. QED
  BY <1>1, <1>2 DEF NewChannel, ChannelOK

\* accept() mixes no peers and makes nothing up.
LEMMA AcceptedOK ==
  ASSUME NEW c, NEW chunk, NEW known, ChannelOK(c, known), ChunkOK(chunk, known)
  PROVE  ChannelOK(Accepted(c, chunk), known)
<1> DEFINE n == chunk.peer
           m == chunk.message
           count == ChunkCount(chunk)
           parts == [SetOf(c, chunk) EXCEPT ![chunk.index] = m]
<1>1. n \in Nodes /\ Genuine(m, known) /\ m.hash.node = n /\ count \in Nat \ {0}
  BY ChannelConstants, AuthenticationConstants DEF ChunkOK, Genuine, ChunkCount
<1>2. DOMAIN SetOf(c, chunk) = 0 .. count - 1 /\ PartsOK(n, SetOf(c, chunk), known)
  <2> DEFINE held == c.pending[n]
             fresh == [k \in 0 .. count - 1 |-> Null]
  <2>1. CASE held # Null /\ DOMAIN held = 0 .. count - 1
    <3>1. SetOf(c, chunk) = held
      BY <2>1 DEF SetOf
    <3>2. PartsOK(n, held, known)
      BY <1>1, <2>1 DEF ChannelOK
    <3>3. QED
      BY <2>1, <3>1, <3>2
  <2>2. CASE ~(held # Null /\ DOMAIN held = 0 .. count - 1)
    <3>1. SetOf(c, chunk) = fresh
      BY <2>2 DEF SetOf
    <3>2. /\ DOMAIN SetOf(c, chunk) = 0 .. count - 1
          /\ \A k \in 0 .. count - 1 : SetOf(c, chunk)[k] = Null
      BY <3>1
    <3>3. QED
      BY <3>2 DEF PartsOK
  <2>3. QED
    BY <2>1, <2>2
<1>3. /\ DOMAIN parts = 0 .. count - 1
      /\ \A k \in DOMAIN parts : parts[k] = m \/ parts[k] = SetOf(c, chunk)[k]
      /\ parts = [k \in 0 .. count - 1 |-> parts[k]]
  BY <1>2
<1>4. PartsOK(n, parts, known)
  BY <1>1, <1>2, <1>3 DEF PartsOK
<1> HIDE DEF parts
<1>5. CASE Null \in Range(parts)
  <2>1. Accepted(c, chunk) = [c EXCEPT !.pending[n] = parts]
    BY <1>5 DEF Accepted, parts
  <2>2. Accepted(c, chunk) = [pending |-> [c.pending EXCEPT ![n] = parts],
                              complete |-> c.complete]
    BY <2>1 DEF ChannelOK
  <2> DEFINE p == [c.pending EXCEPT ![n] = parts]
  <2>3. DOMAIN p = Nodes /\ p[n] = parts /\ \A k \in Nodes \ {n} : p[k] = c.pending[k]
    BY <1>1 DEF ChannelOK
  <2>4. p = [k \in Nodes |-> p[k]]
    BY <2>3
  <2> HIDE DEF p
  <2>5. Accepted(c, chunk).pending = p /\ Accepted(c, chunk).complete = c.complete
        /\ Accepted(c, chunk) = [pending |-> p, complete |-> c.complete]
    BY <2>2 DEF p
  <2>6. QED
    BY <1>4, <1>5, <2>3, <2>4, <2>5 DEF ChannelOK
<1>6. CASE Null \notin Range(parts)
  <2>1. Accepted(c, chunk) = [pending |-> [c.pending EXCEPT ![n] = Null],
                              complete |-> Append(c.complete, parts)]
    BY <1>6 DEF Accepted, parts
  <2>2. \A k \in 0 .. count - 1 : Genuine(parts[k], known) /\ parts[k].hash.node = n
    BY <1>3, <1>4, <1>6 DEF PartsOK, Range
  <2>3. parts \in [0 .. count - 1 -> Messages]
    BY <1>3, <2>2 DEF Genuine
  <2>4. parts \in Frames
    BY <1>1, <2>3 DEF Frames
  <2>5. FrameOK(parts, known)
    BY <1>1, <1>3, <2>2, <2>4 DEF FrameOK
  <2>6. /\ Append(c.complete, parts) \in Seq(Frames)
        /\ \A i \in DOMAIN Append(c.complete, parts) :
             \/ i \in DOMAIN c.complete /\ Append(c.complete, parts)[i] = c.complete[i]
             \/ Append(c.complete, parts)[i] = parts
    BY <2>4 DEF ChannelOK
  <2> DEFINE p == [c.pending EXCEPT ![n] = Null]
             q == Append(c.complete, parts)
  <2>7. DOMAIN p = Nodes /\ p[n] = Null /\ \A k \in Nodes \ {n} : p[k] = c.pending[k]
    BY <1>1 DEF ChannelOK
  <2>8. p = [k \in Nodes |-> p[k]]
    BY <2>7
  <2>9. \A i \in DOMAIN q : FrameOK(q[i], known)
    BY <2>5, <2>6 DEF ChannelOK
  <2>10. q \in Seq(Frames)
    BY <2>6
  <2> HIDE DEF p, q
  <2>11. Accepted(c, chunk).pending = p /\ Accepted(c, chunk).complete = q
         /\ Accepted(c, chunk) = [pending |-> p, complete |-> q]
    BY <2>1 DEF p, q
  <2>12. QED
    BY <2>7, <2>8, <2>9, <2>10, <2>11 DEF ChannelOK
<1>7. QED
  BY <1>5, <1>6

\* What is read, is genuine; and what remains.
LEMMA TakenOK ==
  ASSUME NEW c, NEW known, ChannelOK(c, known), c.complete # <<>>,
         NEW m, m \in Readings(Head(c.complete)), m # Garbled
  PROVE  Genuine(m, known)
<1> DEFINE f == Head(c.complete)
<1>1. FrameOK(f, known)
  <2>1. f = c.complete[1] /\ 1 \in DOMAIN c.complete
    BY DEF ChannelOK
  <2>2. QED
    BY <2>1 DEF ChannelOK
<1> HIDE DEF f
<1>2. 0 \in DOMAIN f
  BY <1>1 DEF FrameOK, Frames
<1>3. \E k \in DOMAIN f : m = f[k]
  BY <1>2 DEF Readings, Range, f
<1>4. QED
  BY <1>1, <1>3 DEF FrameOK

\* A channel with other complete frames.
LEMMA WithComplete ==
  ASSUME NEW c, NEW p, NEW r, c = [pending |-> p, complete |-> r], NEW q
  PROVE  [c EXCEPT !.complete = q] = [pending |-> p, complete |-> q]
OBVIOUS

\* The first complete frame taken off, a channel is what it was.
LEMMA RemainderOK ==
  ASSUME NEW c, NEW known, ChannelOK(c, known), c.complete # <<>>
  PROVE  ChannelOK([c EXCEPT !.complete = Tail(@)], known)
<1> DEFINE q == Tail(c.complete)
<1>1. q \in Seq(Frames) /\ \A i \in DOMAIN q : i + 1 \in DOMAIN c.complete /\ q[i] = c.complete[i + 1]
  BY DEF ChannelOK
<1>2. [c EXCEPT !.complete = Tail(@)] = [pending |-> c.pending, complete |-> q]
  <2>1. c = [pending |-> c.pending, complete |-> c.complete]
    BY DEF ChannelOK
  <2>2. [c EXCEPT !.complete = Tail(@)] = [c EXCEPT !.complete = q]
    OBVIOUS
  <2> HIDE DEF q
  <2>3. [c EXCEPT !.complete = q] = [pending |-> c.pending, complete |-> q]
    BY <2>1, WithComplete
  <2>4. QED
    BY <2>2, <2>3
<1>3. \A i \in DOMAIN q : FrameOK(q[i], known)
  BY <1>1 DEF ChannelOK
<1> HIDE DEF q
<1>4. QED
  BY <1>1, <1>2, <1>3 DEF ChannelOK

----------------------------------------------------------------------------
(* The air, the channels and the displayers. *)

DisplayerStates ==
  [phase : {"listening", "replied", "over"}, call : 1 .. MaxCalls, session : Hashes \cup {Null}]

\* What there is between the phone and the displayers is genuine, and a
\* displayer's session is its own.
Exchange ==
  /\ \A chunk \in air : ChunkOK(chunk, sessions)
  /\ DOMAIN channels = Attempts /\ \A a \in Attempts : ChannelOK(channels[a], sessions)
  /\ inbox \in [Nodes -> Seq(Messages)]
  /\ displayers \in [Nodes -> DisplayerStates]
  /\ \A n \in Nodes : displayers[n].phase = "replied" =>
       displayers[n].session \in Hashes /\ displayers[n].session.node = n
  /\ sessions \subseteq Hashes

\* An attempt that has begun has a code.
HasCode == \A a \in Attempts : attempts[a].phase # "unused" => attempts[a].code \in Codes

\* What a displayer sends is genuine.
LEMMA AnswersGenuine ==
  ASSUME NEW n \in Nodes, NEW m, NEW known, Genuine(m, known), m.hash.node = n
  PROVE  \A chunk \in Chunks(n, m) : ChunkOK(chunk, known)
BY DEF Chunks, ChunkOK

\* A step of the displayer n that moves nothing but its own state.
LEMMA DisplayerUpdate ==
  ASSUME Exchange, NEW n \in Nodes, NEW d \in DisplayerStates,
         displayers' = [displayers EXCEPT ![n] = d],
         d.phase = "replied" => d.session \in Hashes /\ d.session.node = n
  PROVE  /\ displayers' \in [Nodes -> DisplayerStates]
         /\ \A k \in Nodes : displayers'[k].phase = "replied" =>
              displayers'[k].session \in Hashes /\ displayers'[k].session.node = k
BY DEF Exchange

\* An opening makes a session of the node's own; its reply is genuine.
LEMMA ReplyExchange ==
  ASSUME Exchange, NEW n \in Nodes, TakeMessage(n), Reply(n)
  PROVE  Exchange'
<1> DEFINE message == Head(inbox[n])
           h == [attempt |-> message.attempt, node |-> n, call |-> displayers[n].call]
           reply == [kind |-> "reply", hash |-> h]
<1>1. inbox[n] \in Seq(Messages) /\ inbox[n] # <<>> /\ displayers[n] \in DisplayerStates
  BY DEF Exchange, TakeMessage
<1>2. message \in Messages /\ message.kind = "opening" /\ Tail(inbox[n]) \in Seq(Messages)
  BY <1>1 DEF Reply, Opens
<1>3. message.attempt \in Attempts
  BY <1>2 DEF Messages
<1>4. h \in Hashes /\ h.node = n
  BY <1>1, <1>3 DEF Hashes, DisplayerStates
<1> HIDE DEF h, message
<1>5. reply \in Messages /\ reply.kind = "reply" /\ reply.hash = h
  BY <1>4 DEF Messages
<1>6. Genuine(reply, sessions)
  BY <1>4, <1>5 DEF Genuine
<1> HIDE DEF reply
<1>7. /\ air' = air \cup Chunks(n, reply) /\ UNCHANGED <<sessions, channels>>
      /\ inbox' = [inbox EXCEPT ![n] = Tail(@)]
  BY DEF Reply, Answers, TakeMessage, reply, h, message
<1>8. PICK phase \in {"replied", "over"} :
        displayers' = [displayers EXCEPT ![n].phase = phase, ![n].session = reply.hash]
  BY DEF Reply, Answers, reply, h, message
<1> DEFINE d == [displayers[n] EXCEPT !.phase = phase, !.session = h]
<1>9. displayers' = [displayers EXCEPT ![n] = d]
  BY <1>1, <1>5, <1>8 DEF DisplayerStates
<1>10. d \in DisplayerStates /\ d.session = h
  BY <1>1, <1>4 DEF DisplayerStates
<1> HIDE DEF d
<1>11. /\ displayers' \in [Nodes -> DisplayerStates]
       /\ \A k \in Nodes : displayers'[k].phase = "replied" =>
            displayers'[k].session \in Hashes /\ displayers'[k].session.node = k
  BY <1>4, <1>9, <1>10, DisplayerUpdate
<1>12. \A chunk \in air' : ChunkOK(chunk, sessions)
  BY <1>4, <1>5, <1>6, <1>7, AnswersGenuine DEF Exchange
<1>13. QED
  BY <1>2, <1>7, <1>11, <1>12 DEF Exchange, message

\* A proof lets the node's session pass; the identity it answers with is the
\* node's own.
LEMMA IdentifyExchange ==
  ASSUME Exchange, NEW n \in Nodes, TakeMessage(n), Identify(n)
  PROVE  Exchange' /\ sessions \subseteq sessions'
<1> DEFINE message == Head(inbox[n])
           h == message.hash
           answer == [kind |-> "identity", hash |-> h,
                      identity |-> Keys[n].identity, static |-> Keys[n].static]
<1>1. inbox[n] \in Seq(Messages) /\ inbox[n] # <<>> /\ displayers[n] \in DisplayerStates
  BY DEF Exchange, TakeMessage
<1>2. Tail(inbox[n]) \in Seq(Messages)
  BY <1>1
<1>3. h = displayers[n].session /\ displayers[n].phase = "replied"
  BY DEF Identify, Proves
<1>4. h \in Hashes /\ h.node = n
  BY <1>3 DEF Exchange
<1> HIDE DEF h, message
<1>5. /\ air' = air \cup Chunks(n, answer) /\ UNCHANGED channels
      /\ sessions' = sessions \cup {h}
      /\ inbox' = [inbox EXCEPT ![n] = Tail(@)]
  BY DEF Identify, Answers, TakeMessage, h, message
<1>6. /\ answer.kind = "identity" /\ answer.hash = h /\ answer.identity = Keys[n].identity
      /\ answer \in Messages
  BY <1>4, AuthenticationConstants DEF Messages
<1>7. PICK phase \in {"over"} :
        displayers' = [displayers EXCEPT ![n].phase = phase, ![n].session = answer.hash]
  BY DEF Identify, Answers, answer, h, message
<1> HIDE DEF answer
<1>8. Genuine(answer, sessions')
  BY <1>4, <1>5, <1>6 DEF Genuine
<1> DEFINE d == [displayers[n] EXCEPT !.phase = "over", !.session = h]
<1>9. displayers' = [displayers EXCEPT ![n] = d]
  BY <1>1, <1>6, <1>7 DEF DisplayerStates
<1>10. d \in DisplayerStates /\ d.session = h /\ d.phase = "over"
  BY <1>1, <1>4 DEF DisplayerStates
<1> HIDE DEF d
<1>11. /\ displayers' \in [Nodes -> DisplayerStates]
       /\ \A k \in Nodes : displayers'[k].phase = "replied" =>
            displayers'[k].session \in Hashes /\ displayers'[k].session.node = k
  BY <1>4, <1>9, <1>10, DisplayerUpdate
<1>12. sessions \subseteq sessions' /\ sessions' \subseteq Hashes
  BY <1>4, <1>5 DEF Exchange
<1>13. \A chunk \in air' : ChunkOK(chunk, sessions')
  BY <1>4, <1>5, <1>6, <1>8, <1>12, AnswersGenuine, KnownGrows DEF Exchange
<1>14. \A a \in Attempts : ChannelOK(channels[a], sessions')
  BY <1>12, KnownGrows DEF Exchange
<1>15. Exchange'
  BY <1>2, <1>5, <1>11, <1>12, <1>13, <1>14 DEF Exchange, message
<1>16. QED
  BY <1>12, <1>15

\* The other steps of a displayer.
LEMMA DisplayerExchange ==
  ASSUME Exchange, NEW n \in Nodes, Displayer(n)
  PROVE  Exchange' /\ sessions \subseteq sessions'
<1>1. displayers[n] \in DisplayerStates
  BY DEF Exchange
<1>2. CASE TakeMessage(n) /\ Reply(n)
  BY <1>2, ReplyExchange DEF Reply
<1>3. CASE TakeMessage(n) /\ Identify(n)
  BY <1>3, IdentifyExchange
<1>4. CASE TakeMessage(n) /\ Refuse(n)
  <2>1. /\ inbox[n] \in Seq(Messages) /\ inbox[n] # <<>> /\ Tail(inbox[n]) \in Seq(Messages)
    BY <1>4 DEF Exchange, TakeMessage
  <2> DEFINE d == [displayers[n] EXCEPT !.phase = "over"]
  <2>2. d \in DisplayerStates /\ d.phase = "over"
    BY <1>1 DEF DisplayerStates
  <2>3. displayers' = [displayers EXCEPT ![n] = d]
    BY <1>1, <1>4 DEF Refuse, DisplayerStates
  <2> HIDE DEF d
  <2>4. /\ displayers' \in [Nodes -> DisplayerStates]
        /\ \A k \in Nodes : displayers'[k].phase = "replied" =>
             displayers'[k].session \in Hashes /\ displayers'[k].session.node = k
    BY <2>2, <2>3, DisplayerUpdate
  <2>5. UNCHANGED <<air, sessions, channels>> /\ inbox' = [inbox EXCEPT ![n] = Tail(@)]
    BY <1>4 DEF TakeMessage, Refuse
  <2>6. QED
    BY <2>1, <2>4, <2>5 DEF Exchange
<1>5. CASE Listen(n)
  <2> DEFINE d == [phase |-> "listening", call |-> displayers[n].call + 1, session |-> Null]
  <2>1. d \in DisplayerStates /\ d.phase = "listening"
    BY <1>1, <1>5, AuthenticationConstants DEF Listen, DisplayerStates
  <2>2. displayers' = [displayers EXCEPT ![n] = d]
    BY <1>5 DEF Listen
  <2> HIDE DEF d
  <2>3. /\ displayers' \in [Nodes -> DisplayerStates]
        /\ \A k \in Nodes : displayers'[k].phase = "replied" =>
             displayers'[k].session \in Hashes /\ displayers'[k].session.node = k
    BY <2>1, <2>2, DisplayerUpdate
  <2>4. UNCHANGED <<air, sessions, channels, inbox>>
    BY <1>5 DEF Listen
  <2>5. QED
    BY <2>3, <2>4 DEF Exchange
<1>6. QED
  BY <1>2, <1>3, <1>4, <1>5 DEF Displayer, TakeMessage

\* The phone takes a chunk.
LEMMA ReceiveExchange ==
  ASSUME Shape, Exchange, NEW chunk \in air, Receive(chunk)
  PROVE  Exchange'
<1>1. /\ air' \subseteq air /\ UNCHANGED <<inbox, displayers, sessions>>
      /\ channels' = IF activeChannel = Null THEN channels
                     ELSE [channels EXCEPT ![activeChannel] = Accepted(@, chunk)]
  BY DEF Receive
<1>2. ChunkOK(chunk, sessions)
  BY DEF Exchange
<1>3. DOMAIN channels' = Attempts /\ \A a \in Attempts : ChannelOK(channels'[a], sessions)
  <2>1. CASE activeChannel = Null
    BY <1>1, <2>1 DEF Exchange
  <2>2. CASE activeChannel # Null
    <3>1. activeChannel \in Attempts
      BY <2>2 DEF Shape
    <3>2. ChannelOK(Accepted(channels[activeChannel], chunk), sessions)
      BY <1>2, <3>1, AcceptedOK DEF Exchange
    <3>3. QED
      BY <1>1, <2>2, <3>1, <3>2 DEF Exchange
  <2>3. QED
    BY <2>1, <2>2
<1>4. QED
  BY <1>1, <1>3 DEF Exchange

\* The attempt a's own steps.
LEMMA AttemptExchange ==
  ASSUME Exchange, HasCode, SessionIsOwn, NEW a \in Attempts, Attempt(a)
  PROVE  Exchange' /\ UNCHANGED sessions
<1>1. ASSUME NEW m \in Messages, NEW next, Sends(a, m, next)
      PROVE  Exchange' /\ UNCHANGED sessions
  <2>1. /\ UNCHANGED <<air, displayers, sessions, channels>>
        /\ \/ inbox' = [inbox EXCEPT ![attempts[a].code.node] = Append(@, m)]
           \/ inbox' = inbox
    BY <1>1 DEF Sends, link
  <2>2. ASSUME NEW n, NEW q, n \in Nodes => q \in Seq(Messages)
        PROVE  [inbox EXCEPT ![n] = q] \in [Nodes -> Seq(Messages)]
    BY <2>2 DEF Exchange
  <2>3. inbox' \in [Nodes -> Seq(Messages)]
    <3>1. ASSUME NEW n \in Nodes PROVE Append(inbox[n], m) \in Seq(Messages)
      <4>1. inbox[n] \in Seq(Messages)
        BY DEF Exchange
      <4>2. QED
        BY <4>1
    <3>2. CASE inbox' = inbox
      BY <3>2 DEF Exchange
    <3>3. CASE inbox' = [inbox EXCEPT ![attempts[a].code.node] = Append(@, m)]
      <4> DEFINE n == attempts[a].code.node
                 q == Append(inbox[n], m)
      <4>1. inbox' = [inbox EXCEPT ![n] = q]
        BY <3>3
      <4>2. n \in Nodes => q \in Seq(Messages)
        BY <3>1
      <4> HIDE DEF n, q
      <4>3. QED
        BY <2>2, <4>1, <4>2
    <3>4. QED
      BY <2>1, <3>2, <3>3
  <2>4. QED
    BY <2>1, <2>3 DEF Exchange
<1>2. CASE SendOpening(a)
  <2>1. attempts[a].code \in Codes
    BY <1>2 DEF SendOpening, HasCode
  <2>2. [kind |-> "opening", attempt |-> a, static |-> attempts[a].code.static] \in Messages
    BY <2>1 DEF Messages
  <2>3. QED
    BY <1>1, <1>2, <2>2 DEF SendOpening
<1>3. CASE SendProof(a) /\ attempts[a].session \in Hashes
  <2>1. [kind |-> "proof", hash |-> attempts[a].session] \in Messages
    BY <1>3 DEF Messages
  <2>2. QED
    BY <1>1, <1>3, <2>1 DEF SendProof
<1>4. CASE ReadReply(a) \/ ReadIdentity(a)
  <2>1. UNCHANGED link
    BY <1>4 DEF ReadReply, ReadIdentity
  <2>2. UNCHANGED <<air, inbox, displayers, sessions>>
    BY <2>1 DEF link
  <2>3. /\ channels[a].complete # <<>>
        /\ channels' = [channels EXCEPT ![a].complete = Tail(@)]
    BY <1>4 DEF ReadReply, ReadIdentity, Takes
  <2>4. ChannelOK([channels[a] EXCEPT !.complete = Tail(@)], sessions)
    BY <2>3, RemainderOK DEF Exchange
  <2>5. channels' = [channels EXCEPT ![a] = [channels[a] EXCEPT !.complete = Tail(@)]]
    BY <2>3
  <2>6. QED
    BY <2>2, <2>4, <2>5 DEF Exchange
<1>5. CASE Connect(a)
  <2>1. UNCHANGED <<air, inbox, displayers, sessions>> /\ channels' = [channels EXCEPT ![a] = NewChannel]
    BY <1>5 DEF Connect, link
  <2>2. QED
    BY <2>1, NewChannelOK DEF Exchange
<1>6. CASE UNCHANGED <<channels, link>>
  <2>1. UNCHANGED <<air, inbox, displayers, sessions, channels>>
    BY <1>6 DEF link
  <2>2. QED
    BY <2>1 DEF Exchange
<1>7. SendProof(a) => attempts[a].session \in Hashes
  BY DEF SendProof, SessionIsOwn
<1>8. QED
  BY <1>2, <1>3, <1>4, <1>5, <1>6, <1>7 DEF Attempt, Scan, ConnectFails, Timeout

----------------------------------------------------------------------------
(* The trust store. *)

Stores == [Identities -> {Null, Introduction} \cup [trust : {"verified"}, session : Hashes]]

\* Whoever is verified, is by a session of an attempt that is over.
VerifiedIsOver ==
  \A i \in Identities : IsVerified(records, i) => attempts[records[i].session.attempt].phase = "over"

\* Everything that leads to trust.
TrustInvariant ==
  Inv /\ Exchange /\ HasCode /\ records \in Stores /\ VerifiedBySession /\ VerifiedIsOver

\* The store's own operations.
LEMMA StoreOperations ==
  ASSUME NEW r \in Stores, NEW i
  PROVE  /\ Introduced(r, i) \in Stores /\ MarkedFailed(r, i) \in Stores /\ Forgotten(r, i) \in Stores
         /\ \A s \in Hashes : MarkedVerified(r, i, s) \in Stores
         /\ \A j \in Identities : \A q \in {Introduced(r, i), MarkedFailed(r, i), Forgotten(r, i)} :
              IsVerified(q, j) => q[j] = r[j]
<1>1. Introduced(r, i) \in Stores
  BY DEF Stores, Introduced
<1>2. MarkedFailed(r, i) \in Stores
  BY DEF Stores, MarkedFailed
<1>3. Forgotten(r, i) \in Stores
  BY DEF Stores, Forgotten
<1>4. \A s \in Hashes : MarkedVerified(r, i, s) \in Stores
  BY DEF Stores, MarkedVerified
<1>5. IsStore(r)
  BY DEF Stores, IsStore
<1>6. QED
  BY <1>1, <1>2, <1>3, <1>4, <1>5, IntroducedStore, FailedStore, ForgottenStore

\* The end of a call that returns verified: what the identity proves.
Proven(a) ==
  /\ attempts[a].phase = "awaiting identity"
  /\ \E m \in Readings(Head(channels[a].complete)) :
       ProvesIdentity(a, m) /\ channels[a].complete # <<>>
  /\ Ends(a, "over", "verified",
          MarkedVerified(records, attempts[a].code.identity, attempts[a].session))

\* What a step of an attempt does to the store.
LEMMA AttemptRecords ==
  ASSUME NEW a, Attempt(a)
  PROVE  \/ records' = records
         \/ \E i : records' = Introduced(records, i) \/ records' = MarkedFailed(records, i)
         \/ Proven(a)
<1>1. ASSUME Throws(a)
      PROVE  records' = records \/ \E i : records' = MarkedFailed(records, i)
  BY <1>1 DEF Throws, Ends
<1>2. CASE ReadIdentity(a)
  <2>1. PICK m :
          /\ attempts[a].phase = "awaiting identity"
          /\ Takes(a, m)
          /\ \/ ProvesIdentity(a, m) /\ Succeeds(a)
             \/ Throws(a)
    BY <1>2 DEF ReadIdentity
  <2>2. CASE ProvesIdentity(a, m) /\ Succeeds(a)
    BY <2>1, <2>2 DEF Succeeds, Takes, Proven, Ends
  <2>3. QED
    BY <1>1, <2>1, <2>2
<1>3. CASE SendOpening(a) \/ SendProof(a)
  BY <1>1, <1>3 DEF SendOpening, SendProof, Sends
<1>4. CASE ReadReply(a)
  BY <1>1, <1>4 DEF ReadReply
<1>5. CASE Scan(a) \/ ConnectFails(a) \/ Connect(a) \/ Timeout(a)
  BY <1>5 DEF Scan, ConnectFails, Connect, Timeout, Ends
<1>6. QED
  BY <1>2, <1>3, <1>4, <1>5 DEF Attempt

\* What it does to the attempts: one that is over makes no step, no other one
\* moves, and the code is the one first scanned.
LEMMA AttemptMoves ==
  ASSUME attempts \in [Attempts -> AttemptStates], HasCode, NEW a \in Attempts, Attempt(a)
  PROVE  /\ attempts[a].phase # "over" /\ attempts'[a].phase # "unused"
         /\ \A b \in Attempts : b # a => attempts'[b] = attempts[b]
         /\ attempts'[a].code \in Codes
         /\ attempts[a].phase # "unused" => attempts'[a].code = attempts[a].code
<1> DEFINE Moves == /\ attempts'[a].phase # "unused"
                    /\ \A b \in Attempts : b # a => attempts'[b] = attempts[b]
                    /\ attempts'[a].code = attempts[a].code
<1>1. attempts[a] \in AttemptStates
  OBVIOUS
<1>2. ASSUME NEW p \in Phases \ {"unused"}, At(a, p) PROVE Moves
  BY <1>1, <1>2 DEF At, AttemptStates
<1>3. ASSUME NEW p \in Phases \ {"unused"}, NEW o,
             attempts' = [attempts EXCEPT ![a].phase = p, ![a].outcome = o]
      PROVE  Moves
  BY <1>1, <1>3 DEF AttemptStates
<1>4. ASSUME NEW h, attempts' = [attempts EXCEPT ![a].phase = "proving", ![a].session = h]
      PROVE  Moves
  BY <1>1, <1>4 DEF AttemptStates
<1> HIDE DEF Moves
<1>5. attempts[a].phase # "unused" => attempts[a].code \in Codes
  BY DEF HasCode
<1>6. {"over", "opening", "awaiting reply", "awaiting identity", "proving"} \subseteq Phases \ {"unused"}
  BY DEF Phases, Exchanging, Waiting
<1>7. ASSUME Throws(a) PROVE Moves
  BY <1>2, <1>3, <1>6, <1>7 DEF Throws, Ends
<1>8. ASSUME NEW m, NEW p \in Phases \ {"unused"}, Sends(a, m, p) PROVE Moves
  BY <1>2, <1>7, <1>8 DEF Sends
<1>9. CASE Scan(a)
  <2>1. PICK c \in Codes : attempts' = [attempts EXCEPT ![a].code = c, ![a].phase = "connecting"]
    BY <1>9 DEF Scan
  <2>2. attempts[a].phase = "unused"
    BY <1>9 DEF Scan
  <2>3. QED
    BY <1>1, <2>1, <2>2 DEF AttemptStates
<1>10. CASE ConnectFails(a) \/ Connect(a)
  <2>1. attempts[a].phase = "connecting"
    BY <1>10 DEF ConnectFails, Connect
  <2>2. Moves
    BY <1>2, <1>3, <1>6, <1>10 DEF ConnectFails, Connect, Ends
  <2>3. QED
    BY <1>5, <2>1, <2>2 DEF Moves
<1>11. CASE Timeout(a)
  <2>1. attempts[a].phase \in Phases \ {"unused", "over"}
    BY <1>11 DEF Timeout, Exchanging, Waiting, Phases
  <2>2. Moves
    BY <1>3, <1>11, <2>1 DEF Timeout, Ends
  <2>3. QED
    BY <1>5, <2>1, <2>2 DEF Moves
<1>12. CASE SendOpening(a) \/ SendProof(a)
  <2>1. attempts[a].phase \in {"opening", "proving"}
    BY <1>12 DEF SendOpening, SendProof
  <2>2. Moves
    BY <1>6, <1>8, <1>12 DEF SendOpening, SendProof
  <2>3. QED
    BY <1>5, <2>1, <2>2 DEF Moves
<1>13. CASE ReadReply(a) \/ ReadIdentity(a)
  <2>1. attempts[a].phase \in {"awaiting reply", "awaiting identity"}
    BY <1>13 DEF ReadReply, ReadIdentity
  <2>2. Moves
    BY <1>2, <1>3, <1>4, <1>6, <1>7, <1>13 DEF ReadReply, ReadIdentity, Succeeds, Ends
  <2>3. QED
    BY <1>5, <2>1, <2>2 DEF Moves
<1>14. QED
  BY <1>9, <1>10, <1>11, <1>12, <1>13 DEF Attempt

\* The call whose displayer proved itself returns: the record holds what the
\* property says.
LEMMA ProvenHolds ==
  ASSUME TrustInvariant, NEW a \in Attempts, Proven(a)
  PROVE  LET i == attempts[a].code.identity
             s == attempts[a].session
         IN  /\ s \in sessions /\ s.attempt = a /\ Keys[s.node].identity = i
             /\ attempts'[a].outcome = "verified" /\ attempts'[a].phase = "over"
<1>1. PICK m \in Readings(Head(channels[a].complete)) :
        ProvesIdentity(a, m) /\ channels[a].complete # <<>>
  BY DEF Proven
<1>2. Genuine(m, sessions)
  BY <1>1, TakenOK DEF TrustInvariant, Exchange, ProvesIdentity
<1>3. /\ m.kind = "identity" /\ m.identity = attempts[a].code.identity
      /\ m.hash = attempts[a].session
  BY <1>1 DEF ProvesIdentity
<1>4. attempts[a].session.attempt = a
  BY DEF TrustInvariant, Inv, SessionIsOwn, Proven
<1>5. attempts'[a].outcome = "verified" /\ attempts'[a].phase = "over"
  <2>1. attempts' = [attempts EXCEPT ![a].phase = "over", ![a].outcome = "verified"]
    BY DEF Proven, Ends
  <2>2. attempts \in [Attempts -> AttemptStates] /\ "over" \in Phases
    BY DEF TrustInvariant, Inv, Shape, Phases
  <2>3. QED
    BY <2>1, <2>2, EndUpdate
<1>6. QED
  BY <1>2, <1>3, <1>4, <1>5 DEF Genuine

\* Trust already earned outlives every step that earns none.
LEMMA TrustKept ==
  ASSUME TrustInvariant, sessions \subseteq sessions',
         NEW i \in Identities, IsVerified(records, i), records'[i] = records[i],
         \A b \in Attempts : attempts[b].phase = "over" => attempts'[b] = attempts[b]
  PROVE  LET s == records'[i].session
         IN  /\ s \in sessions' /\ Keys[s.node].identity = i
             /\ attempts'[s.attempt].code.identity = i
             /\ attempts'[s.attempt].outcome = "verified"
             /\ attempts'[s.attempt].phase = "over"
<1> DEFINE s == records[i].session
<1>1. /\ s \in sessions /\ Keys[s.node].identity = i /\ attempts[s.attempt].code.identity = i
      /\ attempts[s.attempt].outcome = "verified" /\ attempts[s.attempt].phase = "over"
  BY DEF TrustInvariant, VerifiedBySession, VerifiedIsOver
<1>2. s.attempt \in Attempts
  BY <1>1 DEF TrustInvariant, Exchange, Hashes
<1>3. attempts'[s.attempt] = attempts[s.attempt]
  BY <1>1, <1>2
<1>4. QED
  BY <1>1, <1>3

\* A step that verifies nobody.
LEMMA StoreStep ==
  ASSUME TrustInvariant, sessions \subseteq sessions', records' \in Stores,
         \A i \in Identities : IsVerified(records', i) => records'[i] = records[i],
         \A b \in Attempts : attempts[b].phase = "over" => attempts'[b] = attempts[b]
  PROVE  records' \in Stores /\ VerifiedBySession' /\ VerifiedIsOver'
<1> SUFFICES ASSUME NEW i \in Identities, IsVerified(records', i)
             PROVE  LET s == records'[i].session
                    IN  /\ s \in sessions' /\ Keys[s.node].identity = i
                        /\ attempts'[s.attempt].code.identity = i
                        /\ attempts'[s.attempt].outcome = "verified"
                        /\ attempts'[s.attempt].phase = "over"
  BY DEF VerifiedBySession, VerifiedIsOver, IsVerified
<1>1. records'[i] = records[i] /\ IsVerified(records, i)
  BY DEF IsVerified
<1>2. QED
  BY <1>1, TrustKept

\* A step of an attempt.
LEMMA AttemptTrust ==
  ASSUME TrustInvariant, NEW a \in Attempts, Attempt(a)
  PROVE  HasCode' /\ records' \in Stores /\ VerifiedBySession' /\ VerifiedIsOver'
<1>1. attempts \in [Attempts -> AttemptStates] /\ HasCode /\ records \in Stores /\ IsStore(records)
  BY DEF TrustInvariant, Inv, Shape
<1>2. /\ attempts[a].phase # "over" /\ attempts'[a].phase # "unused"
      /\ \A b \in Attempts : b # a => attempts'[b] = attempts[b]
      /\ attempts'[a].code \in Codes
      /\ attempts[a].phase # "unused" => attempts'[a].code = attempts[a].code
  BY <1>1, AttemptMoves
<1>3. HasCode'
  BY <1>1, <1>2 DEF HasCode
<1>4. \A b \in Attempts : attempts[b].phase = "over" => attempts'[b] = attempts[b]
  BY <1>2
<1>5. UNCHANGED sessions
  BY AttemptExchange DEF TrustInvariant, Inv
<1>6. CASE records' = records
  <2>1. records' \in Stores /\ \A i \in Identities : records'[i] = records[i]
    BY <1>1, <1>6
  <2>2. sessions \subseteq sessions'
    BY <1>5
  <2>3. QED
    BY <1>3, <1>4, <2>1, <2>2, StoreStep
<1>7. CASE \E i : records' = Introduced(records, i) \/ records' = MarkedFailed(records, i)
  <2>1. /\ records' \in Stores
        /\ \A i \in Identities : IsVerified(records', i) => records'[i] = records[i]
    BY <1>1, <1>7, StoreOperations
  <2>2. sessions \subseteq sessions'
    BY <1>5
  <2>3. QED
    BY <1>3, <1>4, <2>1, <2>2, StoreStep
<1>8. CASE Proven(a)
  <2> DEFINE i == attempts[a].code.identity
             s == attempts[a].session
  <2>1. /\ s \in sessions /\ s.attempt = a /\ Keys[s.node].identity = i
        /\ attempts'[a].outcome = "verified" /\ attempts'[a].phase = "over"
    BY <1>8, ProvenHolds
  <2>2. attempts'[a].code = attempts[a].code
    BY <1>2, <1>8 DEF Proven
  <2>3. records' = MarkedVerified(records, i, s)
    BY <1>8 DEF Proven, Ends
  <2>4. s \in Hashes
    BY <2>1 DEF TrustInvariant, Exchange
  <2>5. records' \in Stores
    BY <1>1, <2>3, <2>4, StoreOperations
  <2>6. i \in Identities
    BY <1>2, <2>2, AuthenticationConstants
  <2>7. records'[i] = [trust |-> "verified", session |-> s]
        /\ \A j \in Identities \ {i} : records'[j] = records[j]
    BY <1>1, <2>3, <2>6 DEF MarkedVerified, Stores
  <2>8. ASSUME NEW j \in Identities, IsVerified(records', j)
        PROVE  LET t == records'[j].session
               IN  /\ t \in sessions' /\ Keys[t.node].identity = j
                   /\ attempts'[t.attempt].code.identity = j
                   /\ attempts'[t.attempt].outcome = "verified"
                   /\ attempts'[t.attempt].phase = "over"
    <3>1. CASE j = i
      <4>1. records'[j].session = s
        BY <2>7, <3>1
      <4>2. QED
        BY <1>5, <2>1, <2>2, <3>1, <4>1
    <3>2. CASE j # i
      <4>1. records'[j] = records[j] /\ IsVerified(records, j)
        BY <2>7, <2>8, <3>2 DEF IsVerified
      <4>2. QED
        BY <1>4, <1>5, <4>1, TrustKept
    <3>3. QED
      BY <3>1, <3>2
  <2> HIDE DEF i, s
  <2>9. VerifiedBySession' /\ VerifiedIsOver'
    BY <2>8 DEF VerifiedBySession, VerifiedIsOver, IsVerified
  <2>10. QED
    BY <1>3, <2>5, <2>9
<1>9. QED
  BY <1>3, <1>6, <1>7, <1>8, AttemptRecords

\* Every step keeps what leads to trust.
LEMMA TrustStep == TrustInvariant /\ [Next]_vars => TrustInvariant'
<1> SUFFICES ASSUME TrustInvariant, [Next]_vars PROVE TrustInvariant'
  OBVIOUS
<1>1. Inv'
  BY StepPreserves DEF TrustInvariant
<1>2. /\ Inv /\ Exchange /\ HasCode /\ records \in Stores /\ Shape /\ SessionIsOwn
  BY DEF TrustInvariant, Inv
<1>3. ASSUME UNCHANGED <<attempts, records>>, sessions \subseteq sessions'
      PROVE  HasCode' /\ records' \in Stores /\ VerifiedBySession' /\ VerifiedIsOver'
  <2>1. records' = records /\ attempts' = attempts
    BY <1>3
  <2>2. HasCode'
    BY <1>2, <2>1 DEF HasCode
  <2>3. QED
    BY <1>2, <1>3, <2>1, <2>2, StoreStep
<1>4. CASE UNCHANGED vars
  <2>1. UNCHANGED <<attempts, records, channels, air, inbox, displayers, sessions>>
    BY <1>4 DEF vars, link
  <2>2. Exchange'
    BY <1>2, <2>1 DEF Exchange
  <2>3. QED
    BY <1>1, <1>3, <2>1, <2>2 DEF TrustInvariant
<1>5. ASSUME NEW a \in Attempts, Attempt(a) PROVE TrustInvariant'
  <2>1. Exchange'
    BY <1>2, <1>5, AttemptExchange
  <2>2. HasCode' /\ records' \in Stores /\ VerifiedBySession' /\ VerifiedIsOver'
    BY <1>5, AttemptTrust
  <2>3. QED
    BY <1>1, <2>1, <2>2 DEF TrustInvariant
<1>6. ASSUME NEW n \in Nodes, Displayer(n) PROVE TrustInvariant'
  <2>1. Exchange' /\ sessions \subseteq sessions'
    BY <1>2, <1>6, DisplayerExchange
  <2>2. UNCHANGED <<attempts, records>>
    BY <1>6 DEF Displayer, TakeMessage, Listen
  <2>3. QED
    BY <1>1, <1>3, <2>1, <2>2 DEF TrustInvariant
<1>7. ASSUME NEW chunk \in air, Receive(chunk) PROVE TrustInvariant'
  <2>1. Exchange'
    BY <1>2, <1>7, ReceiveExchange
  <2>2. UNCHANGED <<attempts, records, sessions>>
    BY <1>7 DEF Receive
  <2>3. QED
    BY <1>1, <1>3, <2>1, <2>2 DEF TrustInvariant
<1>8. ASSUME NEW i \in Identities, Forget(i) PROVE TrustInvariant'
  <2>1. UNCHANGED <<attempts, channels, air, inbox, displayers, sessions>>
        /\ records' = Forgotten(records, i)
    BY <1>8 DEF Forget, link
  <2>2. Exchange' /\ HasCode'
    BY <1>2, <2>1 DEF Exchange, HasCode
  <2>3. records' \in Stores /\ VerifiedBySession' /\ VerifiedIsOver'
    BY <1>2, <2>1, StoreOperations, StoreStep
  <2>4. QED
    BY <1>1, <2>2, <2>3 DEF TrustInvariant
<1>9. QED
  BY <1>4, <1>5, <1>6, <1>7, <1>8 DEF Next

\* Nobody is trusted at first.
LEMMA TrustInit == Init => TrustInvariant
<1> SUFFICES ASSUME Init PROVE TrustInvariant
  OBVIOUS
<1>1. Inv
  BY InitInv
<1>2. Exchange
  <2>1. \A a \in Attempts : ChannelOK(channels[a], sessions)
    BY NewChannelOK DEF Init
  <2>2. [phase |-> "listening", call |-> 1, session |-> Null] \in DisplayerStates
    BY AuthenticationConstants DEF DisplayerStates
  <2>3. <<>> \in Seq(Messages)
    OBVIOUS
  <2>4. QED
    BY <2>1, <2>2, <2>3 DEF Init, Exchange
<1>3. HasCode
  BY DEF Init, HasCode
<1>4. records \in Stores /\ \A i \in Identities : ~IsVerified(records, i)
  BY DEF Init, NoRecords, Stores, IsVerified
<1>5. QED
  BY <1>1, <1>2, <1>3, <1>4 DEF TrustInvariant, VerifiedBySession, VerifiedIsOver

\* It holds in every behaviour.
LEMMA TrustInvariantHolds == Spec => []TrustInvariant
BY TrustInit, TrustStep, PTL DEF Spec

\* The types, and that frames are of one peer each, follow.
LEMMA TrustInvariantMeaning == TrustInvariant => TypeOK /\ VerifiedBySession /\ PeersApart
<1> SUFFICES ASSUME TrustInvariant PROVE TypeOK /\ PeersApart
  BY DEF TrustInvariant
<1>1. Inv /\ Shape /\ Exchange /\ records \in Stores
  BY DEF TrustInvariant, Inv
<1>2. \A a \in Attempts :
        /\ \A n \in Nodes : channels[a].pending[n] # Null => Null \in Range(channels[a].pending[n])
        /\ \A f \in Range(channels[a].complete) : FrameOK(f, sessions)
  BY <1>1 DEF Exchange, ChannelOK, Range
<1>3. \A f : FrameOK(f, sessions) => Range(f) \subseteq Messages
  BY DEF FrameOK, Genuine, Range
<1>4. \A chunk \in air : chunk.peer \in Nodes /\ chunk.message \in Messages
  BY <1>1 DEF Exchange, ChunkOK, Genuine
<1>5. \A n \in Nodes : displayers[n].phase \in {"listening", "replied", "over"}
                       /\ displayers[n].call \in 1 .. MaxCalls
  BY <1>1 DEF Exchange, DisplayerStates
<1>6. attempts \in [Attempts -> [code : Codes \cup {Null},
                                 phase : Exchanging \cup {"unused", "connecting", "over"},
                                 outcome : {Null, "verified", "failed"},
                                 session : Hashes \cup {Null}]]
      /\ activeChannel \in Attempts \cup {Null}
  BY <1>1 DEF Shape, AttemptStates, Phases
<1>7. TypeOK
  BY <1>1, <1>2, <1>3, <1>4, <1>5, <1>6 DEF TypeOK, Stores, Exchange
<1>8. PeersApart
  BY <1>2 DEF PeersApart, FrameOK
<1>9. QED
  BY <1>7, <1>8

----------------------------------------------------------------------------
\* Frames go to no attempt whose call has returned (the finally of
\* authenticateScannedPayload), however attempts overlap.
THEOREM FramesToRunningCalls == Spec => []ActiveIsRunning
<1>1. Inv /\ [Next]_vars => Inv'
  BY StepPreserves
<1>2. Inv => ActiveIsRunning
  BY DEF Inv
<1>3. QED
  BY InitInv, <1>1, <1>2, PTL DEF Spec

\* Only the session of a call that is returning earns a peer trust, and only a
\* peer the store knows (markVerified after withTimeout).
THEOREM TrustEarned == Spec => EarnedByRunningCall
<1>1. Inv /\ [Next]_vars => Inv' /\ Earned
  BY StepPreserves
<1>2. Earned =>
        \A i \in Identities :
          IsVerified(records, i)' /\ records'[i] # records[i] =>
            /\ records[i] # Null
            /\ attempts[records'[i].session.attempt].outcome = Null
  BY DEF Earned, IsVerified
<1>3. QED
  BY InitInv, <1>1, <1>2, PTL DEF Spec, EarnedByRunningCall

\* Every value is one the program can hold.
THEOREM AuthenticationTypeCorrect == Spec => []TypeOK
BY TrustInvariantHolds, TrustInvariantMeaning, PTL

\* Whoever is verified let the same session pass at its own gate, as the holder
\* of the identity scanned, in an attempt that ended well.
THEOREM VerifiedHasSession == Spec => []VerifiedBySession
BY TrustInvariantHolds, TrustInvariantMeaning, PTL

\* Whatever order chunks of several peers come in, a frame is of one of them.
THEOREM FramesOfOnePeer == Spec => []PeersApart
BY TrustInvariantHolds, TrustInvariantMeaning, PTL
----------------------------------------------------------------------------
(* The screen that scans the codes, for any number of codes and openings.  *)

RunShape == [phase : RunPhases, opening : Nat, by : {"camera", "hand"}, fresh : BOOLEAN]

\* Runs belong to openings there have been.
ScreenShape ==
  /\ openings \in Nat
  /\ runs \in [Runs -> RunShape]
  /\ \A r \in Runs : runs[r].opening <= openings

\* Run r is of a code handed up since the screen was last mounted.
OfThisOpening(r) == runs[r].phase # "unused" /\ runs[r].opening = openings

\* A screen that has handed up a code has set `captured`, and a rendering since
\* then has read it.
HandUpsSeen ==
  shown.open =>
    \A r \in Runs : OfThisOpening(r) => captured /\ (shown.captured \/ runs[r].fresh)

ScreenInv == ScreenShape /\ HandUpsSeen

\* At the start nothing is handed up.
LEMMA ScreenInvInit == ScreenInit => ScreenInv
  BY DEF ScreenInit, RunPhases, OfThisOpening, ScreenInv, ScreenShape, HandUpsSeen, RunShape

\* A rendering that mounts the screen begins an opening no run belongs to; any
\* other reads what was set.
LEMMA RenderStep ==
  ASSUME ScreenInv, Render
  PROVE  /\ ScreenInv'
         /\ \A q \in Runs : runs'[q].phase = runs[q].phase
<1>1. /\ runs' = [r \in Runs |-> [runs[r] EXCEPT !.fresh = FALSE]]
      /\ shown'.open = open /\ shown'.captured = captured'
  BY DEF Render, Current
<1>2. /\ runs' \in [Runs -> RunShape]
      /\ \A q \in Runs : runs'[q].phase = runs[q].phase /\ runs'[q].opening = runs[q].opening
  BY <1>1 DEF ScreenInv, ScreenShape, RunShape
<1>3. \A q \in Runs : runs[q].opening \in Nat /\ runs[q].opening <= openings
  BY DEF ScreenInv, ScreenShape, RunShape
<1>4. CASE open /\ ~shown.open
  <2>1. openings' = openings + 1 /\ openings' \in Nat
    BY <1>4 DEF Render, ScreenInv, ScreenShape
  <2>2. \A q \in Runs : runs'[q].opening <= openings' /\ runs'[q].opening # openings'
    BY <1>2, <1>3, <2>1 DEF ScreenInv, ScreenShape
  <2> QED
    BY <1>2, <2>1, <2>2 DEF ScreenInv, ScreenShape, HandUpsSeen, OfThisOpening
<1>5. CASE ~(open /\ ~shown.open)
  <2>1. openings' = openings /\ captured' = (captured /\ TRUE)
    BY <1>5 DEF Render, ScreenInv, ScreenShape
  <2>2. ScreenShape'
    BY <1>2, <2>1 DEF ScreenInv, ScreenShape
  <2>3. HandUpsSeen'
    BY <1>1, <1>2, <1>5, <2>1 DEF ScreenInv, HandUpsSeen, OfThisOpening
  <2> QED
    BY <1>2, <2>2, <2>3 DEF ScreenInv
<1> QED
  BY <1>4, <1>5

\* A code handed up by the screen that was last rendered sets `captured`, and its
\* run is one of this opening that no rendering has followed.
LEMMA HandsUpStep ==
  ASSUME ScreenInv, NEW r \in Runs, NEW by \in {"camera", "hand"}, HandsUp(r, by)
  PROVE  /\ ScreenInv'
         /\ runs'[r].by = by
         /\ \A q \in Runs \ {r} : runs'[q] = runs[q]
<1>1. PICK phase \in {"permission", "over"} :
        runs' = [runs EXCEPT ![r] =
          [phase |-> phase, opening |-> openings, by |-> by, fresh |-> TRUE]]
  BY DEF HandsUp, HandUp, HandUpWithoutBridge
<1>2. captured' /\ openings' = openings /\ shown' = shown
  BY DEF HandsUp, HandUp, HandUpWithoutBridge
<1>3. [phase |-> phase, opening |-> openings, by |-> by, fresh |-> TRUE] \in RunShape
  BY DEF ScreenInv, ScreenShape, RunShape, RunPhases
<1>4. ScreenShape'
  BY <1>1, <1>2, <1>3 DEF ScreenInv, ScreenShape
<1>5. /\ runs'[r].fresh /\ runs'[r].by = by
      /\ \A q \in Runs \ {r} : runs'[q] = runs[q]
  BY <1>1 DEF ScreenInv, ScreenShape
<1>6. HandUpsSeen'
  BY <1>2, <1>5 DEF ScreenInv, HandUpsSeen, OfThisOpening
<1> QED
  BY <1>4, <1>5, <1>6 DEF ScreenInv

\* A run that goes on or ends was handed up, and stays of the opening it was of.
LEMMA RunStep ==
  ASSUME ScreenInv, NEW r \in Runs, Run(r)
  PROVE  /\ ScreenInv'
         /\ \A q \in Runs : runs[q].phase = "unused" => runs'[q] = runs[q]
<1>1. /\ UNCHANGED screen
      /\ runs[r].phase \notin {"unused", "over"}
      /\ \E phase \in RunPhases : MovesTo(r, phase)
  BY DEF Run, GoOn, Connected, Hangs, Exchanged,
         Disconnected, FailsAtOnce, RunPhases
<1>2. PICK phase \in RunPhases : runs' = [runs EXCEPT ![r].phase = phase]
  BY <1>1 DEF MovesTo
<1>3. openings' = openings /\ captured' = captured /\ shown' = shown
  BY <1>1 DEF screen
<1>4. /\ runs' \in [Runs -> RunShape]
      /\ \A q \in Runs : runs'[q].opening = runs[q].opening /\ runs'[q].fresh = runs[q].fresh
      /\ \A q \in Runs \ {r} : runs'[q] = runs[q]
  BY <1>2 DEF ScreenInv, ScreenShape, RunShape
<1>5. ScreenShape'
  BY <1>3, <1>4 DEF ScreenInv, ScreenShape
<1>6. HandUpsSeen'
  BY <1>1, <1>3, <1>4 DEF ScreenInv, HandUpsSeen, OfThisOpening
<1> QED
  BY <1>1, <1>4, <1>5, <1>6 DEF ScreenInv

\* What neither hands up a code nor moves a run on nor renders.
LEMMA OtherStep ==
  ASSUME ScreenInv,
         \/ OpenScan \/ CloseScan \/ RetryScan \/ Regenerate \/ Configure
         \/ AskPermission \/ PermissionAnswered \/ RemoveIdentity
         \/ UNCHANGED screenVars
  PROVE  ScreenInv' /\ UNCHANGED runs
<1>1. runs' = runs /\ openings' = openings /\ captured' = captured /\ shown' = shown
  BY DEF OpenScan, CloseScan, RetryScan, Regenerate, Configure,
         AskPermission, PermissionAnswered, RemoveIdentity,
         screenVars, screen
<1> QED
  BY <1>1 DEF ScreenInv, ScreenShape, HandUpsSeen, OfThisOpening

\* Every step keeps the invariant, and hands up a code of the camera only where
\* no rendering has followed the ones before.
LEMMA ScreenStep == ScreenInv /\ [ScreenNext]_screenVars => ScreenInv' /\ FramesBeforeRender
<1> SUFFICES ASSUME ScreenInv, [ScreenNext]_screenVars
             PROVE  ScreenInv' /\ FramesBeforeRender
  OBVIOUS
<1>1. CASE Render
  BY <1>1, RenderStep DEF FramesBeforeRender
<1>2. CASE \E r \in Runs : ScanCode(r)
  <2>1. PICK r \in Runs : ScanCode(r)
    BY <1>2
  <2>2. HandsUp(r, "camera") /\ shown.open /\ ~shown.captured
    BY <2>1 DEF ScanCode, Viewfinder, Scanning
  <2>3. \A q \in Runs :
          runs[q].phase # "unused" /\ runs[q].opening = openings => runs[q].fresh
    BY <2>2 DEF ScreenInv, HandUpsSeen, OfThisOpening
  <2> QED
    BY <2>2, <2>3, HandsUpStep DEF FramesBeforeRender
<1>3. CASE \E r \in Runs : EnterCode(r)
  <2>1. PICK r \in Runs : HandsUp(r, "hand")
    BY <1>3 DEF EnterCode
  <2>2. /\ ScreenInv' /\ runs'[r].by = "hand"
        /\ \A q \in Runs \ {r} : runs'[q] = runs[q]
    BY <2>1, HandsUpStep
  <2> QED
    BY <2>2 DEF FramesBeforeRender
<1>4. CASE \E r \in Runs : Run(r)
  BY <1>4, RunStep DEF FramesBeforeRender
<1>5. CASE \/ OpenScan \/ CloseScan \/ RetryScan \/ Regenerate \/ Configure
           \/ AskPermission \/ PermissionAnswered \/ RemoveIdentity
           \/ UNCHANGED screenVars
  BY <1>5, OtherStep DEF FramesBeforeRender
<1> QED
  BY <1>1, <1>2, <1>3, <1>4, <1>5 DEF ScreenNext, User

\* However often the screen is opened, whatever is typed in meanwhile and however
\* runs overlap: once a rendering has followed a hand-up, the camera hands up
\* nothing more before the screen is mounted again.
THEOREM CameraStopsOnceRendered == ScreenSpec => CameraStops
<1>1. ScreenInit => ScreenInv
  BY ScreenInvInit
<1>2. ScreenInv /\ [ScreenNext]_screenVars => ScreenInv'
  BY ScreenStep
<1>3. ScreenInv /\ [ScreenNext]_screenVars => [FramesBeforeRender]_screenVars
  BY ScreenStep
<1> QED
  BY <1>1, <1>2, <1>3, PTL DEF ScreenSpec, CameraStops
=============================================================================
