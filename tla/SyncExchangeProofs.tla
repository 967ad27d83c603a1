------------------------- MODULE SyncExchangeProofs -------------------------
(***************************************************************************)
(* Synchronization between any number of nodes and sessions, over packets  *)
(* that come late, out of order, many times or never: a packet is handled  *)
(* once for as long as its replay record may last, no exchange loses an    *)
(* envelope, and one handled to its end has done its work.                 *)
(***************************************************************************)
EXTENDS SyncExchange, ForwardQueueProofs, WellFoundedInduction

Ids == {e.id : e \in Envelopes}

Packet ==
  [kind : {"summary", "request", "transfer"}, from : Nodes, to : Nodes, session : Nat,
   content : SUBSET (Ids \cup Envelopes), timestamp : Int, cause : Nat]

Record == [no : Nat, at : Nat]

\* The types of the variables.
Shape ==
  /\ now \in Nat
  /\ DOMAIN queue = Nodes
  /\ DOMAIN session = Nodes
  /\ \A n \in Nodes : session[n] \in [Nodes \ {n} -> [no : Nat, live : BOOLEAN]]
  /\ seen \in [Nodes -> Seq(Record)]
  /\ sent \in Seq(Packet) /\ Len(sent) <= MaxPackets
  /\ handled \in [1 .. MaxPackets -> [times : Nat, last : Nat, since : Nat, whole : BOOLEAN]]
  /\ arrived \in [Nodes -> SUBSET Ids]
  /\ refused \in [Nodes -> SUBSET Ids]
  /\ settled \in SUBSET Ids

Sound(q) == IsQueue(q, Envelopes) /\ CountsHold(q) /\ LimitsHold(q)

Gone(e) == ~ValidRoutingHeader(e, now, MaxAge)

\* What arrived is no longer dated in the future, so once it is gone it stays so;
\* and a node gives it up only when it is settled or gone.
Keeps(q, had, done) ==
  /\ Sound(q)
  /\ DOMAIN q.entries \subseteq had
  /\ \A e \in Envelopes :
       e.id \in had =>
         /\ e.timestamp <= now + Skew
         /\ e.id \in done \/ e.id \in DOMAIN q.entries \/ Gone(e)

\* A packet names what its sender had, and answers a packet of the other end.
PacketOK(no) ==
  LET p == sent[no]
      cause == sent[p.cause]
      Answers(kind) ==
        /\ p.cause \in DOMAIN sent /\ cause.kind = kind
        /\ cause.from = p.to /\ cause.to = p.from
  IN  /\ p.from # p.to
      /\ p.cause < no /\ p.timestamp <= now
      /\ IsFiniteSet(p.content)
      /\ p.kind = "summary" =>
           p.content \subseteq arrived[p.from] /\ Cardinality(p.content) <= MaxEntries
      /\ p.kind = "request" =>
           /\ Answers("summary")
           /\ p.content \subseteq cause.content
      /\ p.kind = "transfer" =>
           /\ Answers("request")
           /\ p.content \subseteq Envelopes
           /\ \A e \in p.content : e.id \in arrived[p.from]

\* A replay record is of packets the node was sent, none too many.
RecordOK(n) ==
  /\ Len(seen[n]) <= MaxSeen
  /\ \A i \in DOMAIN seen[n] :
       LET r == seen[n][i]
       IN  r.no \in DOMAIN sent /\ sent[r.no].to = n /\ r.at <= now

\* A packet that was handled is on its receiver's record, behind no more packets
\* than were handled since, unless its time is up or it was pushed out.
Remembered(no) ==
  LET h == handled[no]
      record == seen[sent[no].to]
  IN  /\ h.whole => h.times > 0
      /\ h.times > 0 =>
           /\ no \in DOMAIN sent /\ h.last <= now
           /\ \/ h.since >= MaxSeen
              \/ now - h.last > ReplayTtl
              \/ \E i \in DOMAIN record :
                   record[i].no = no /\ record[i].at = h.last /\ Len(record) - i <= h.since

\* What a packet handled to the end has brought about.
Done(no) ==
  LET p == sent[no]
      Answer(kind, id) ==
        \E k \in DOMAIN sent :
          /\ sent[k].cause = no /\ sent[k].kind = kind
          /\ IF kind = "request" THEN id \in sent[k].content
             ELSE \E e \in sent[k].content : e.id = id
  IN  /\ p.kind = "summary" => \A id \in p.content : id \in arrived[p.to] \/ Answer("request", id)
      /\ p.kind = "request" =>
           \A e \in Envelopes :
             e.id \in p.content =>
               \/ e.id \in settled \/ Gone(e) \/ Answer("transfer", e.id)
               \/ Cardinality(p.content) > MaxTransfer
      /\ p.kind = "transfer" =>
           \A e \in p.content :
             e.id \in arrived[p.to] \cup refused[p.to] \cup settled \/ Gone(e)

Inv ==
  /\ Shape
  /\ \A n \in Nodes : Keeps(queue[n], arrived[n], settled) /\ RecordOK(n)
  /\ \A no \in DOMAIN sent : PacketOK(no)
  /\ \A no \in DOMAIN handled : Remembered(no)
  /\ \A no \in DOMAIN handled : handled[no].whole => Done(no)

----------------------------------------------------------------------------
(* Numbers, sets and queues. *)

\* Among natural numbers there is a least.
LEMMA LeastNumber ==
  ASSUME NEW S \in SUBSET Nat, S # {}
  PROVE  \E m \in S : \A k \in S : m <= k
<1>1. PICK m \in S : \A k \in S : ~(<<k, m>> \in OpToRel(<, Nat))
  BY NatLessThanWellFounded, WFMin
<1>2. ASSUME NEW k \in S
      PROVE  m <= k
  <2>1. ~(<<k, m>> \in OpToRel(<, Nat)) /\ <<k, m>> \in Nat \X Nat
    BY <1>1
  <2>2. ~(k < m)
    BY <2>1 DEF OpToRel
  <2> QED
    BY <2>2
<1> QED
  BY <1>2

\* What a packet takes of a set: all of it when that is no more than it may.
LEMMA UpToFacts ==
  ASSUME NEW max \in Nat, NEW ids, IsFiniteSet(ids), NEW s \in UpTo(max, ids)
  PROVE  /\ s \subseteq ids /\ IsFiniteSet(s) /\ Cardinality(s) <= max
         /\ Cardinality(ids) <= max => s = ids
<1>1. Cardinality(ids) \in Nat
  BY FS_CardinalityType
<1>2. CASE Cardinality(ids) <= max
  <2>1. s = ids
    BY <1>2 DEF UpTo
  <2> QED
    BY <1>2, <2>1
<1>3. CASE ~(Cardinality(ids) <= max)
  <2>1. s \in SUBSET ids /\ Cardinality(s) = max
    BY <1>3 DEF UpTo
  <2>2. IsFiniteSet(s)
    BY <2>1, FS_Subset
  <2> QED
    BY <1>3, <2>1, <2>2
<1> QED
  BY <1>2, <1>3

\* An id stands for one envelope, the one a queue holds under it.
LEMMA EnvelopeOfId ==
  ASSUME NEW q, Sound(q)
  PROVE  /\ \A id \in DOMAIN q.entries :
              /\ q.entries[id].envelope \in Envelopes
              /\ q.entries[id].envelope.id = id
         /\ \A e \in Envelopes : e.id \in DOMAIN q.entries => q.entries[e.id].envelope = e
         /\ IsFiniteSet(DOMAIN q.entries)
<1>1. /\ q.entries \in [DOMAIN q.entries -> [envelope : Envelopes, receivedFrom : Senders]]
      /\ \A id \in DOMAIN q.entries : q.entries[id].envelope.id = id
  BY DEF Sound, IsQueue
<1>2. \A id \in DOMAIN q.entries : q.entries[id].envelope \in Envelopes
  BY <1>1
<1>3. IsFiniteSet(DOMAIN q.entries)
  BY DEF Sound, CountsHold
<1> QED
  BY <1>1, <1>2, <1>3, SyncConstants

\* What is gone stays gone, if it was not dated in the future.
LEMMA GoneStays ==
  ASSUME NEW e \in Envelopes, now \in Nat, now' \in Nat, now <= now',
         e.timestamp <= now + Skew, Gone(e)
  PROVE  Gone(e)'
<1>1. e.timestamp \in Int /\ MaxAge \in Nat /\ Skew \in Nat
  BY SyncConstants, QueueLimits
<1> QED
  BY <1>1 DEF Gone, ValidRoutingHeader

\* A node that keeps what it had keeps it when more is settled, and when time
\* goes on.
LEMMA KeepsOn ==
  ASSUME NEW q, NEW had, NEW done, NEW more, done \subseteq more, Keeps(q, had, done)
  PROVE  /\ Keeps(q, had, more)
         /\ now \in Nat /\ now' \in Nat /\ now <= now' =>
              \A e \in Envelopes :
                e.id \in had =>
                  /\ e.timestamp <= now' + Skew
                  /\ e.id \in more \/ e.id \in DOMAIN q.entries \/ Gone(e)'
<1>1. Keeps(q, had, more)
  BY DEF Keeps
<1>2. ASSUME now \in Nat, now' \in Nat, now <= now', NEW e \in Envelopes, e.id \in had
      PROVE  /\ e.timestamp <= now' + Skew
             /\ e.id \in more \/ e.id \in DOMAIN q.entries \/ Gone(e)'
  <2>1. e.timestamp \in Int /\ Skew \in Nat
    BY SyncConstants, QueueLimits
  <2>2. e.timestamp <= now + Skew /\ (e.id \in more \/ e.id \in DOMAIN q.entries \/ Gone(e))
    BY <1>1, <1>2 DEF Keeps
  <2>3. Gone(e) => Gone(e)'
    BY <1>2, <2>2, GoneStays
  <2> QED
    BY <1>2, <2>1, <2>2, <2>3
<1> QED
  BY <1>1, <1>2

\* A purge gives up only what is gone, and leaves only what is valid.
LEMMA PurgeKeeps ==
  ASSUME NEW q, NEW had, NEW done, Keeps(q, had, done)
  PROVE  LET p == PurgeExpired(q, now, MaxAge)
         IN  /\ Keeps(p, had, done)
             /\ DOMAIN p.entries \subseteq DOMAIN q.entries
             /\ \A id \in DOMAIN p.entries : ~Gone(p.entries[id].envelope)
<1> DEFINE p == PurgeExpired(q, now, MaxAge)
           X == Expired(q, now, MaxAge)
<1>1. Sound(q)
  BY DEF Keeps
<1>2. /\ Sound(p)
      /\ DOMAIN p.entries = DOMAIN q.entries \ X
      /\ \A id \in DOMAIN q.entries \ X : p.entries[id] = q.entries[id]
  BY <1>1, RemoveFacts DEF Sound, PurgeExpired
<1>3. \A id \in DOMAIN q.entries : id \in X <=> Gone(q.entries[id].envelope)
  BY DEF Expired, Gone
<1>4. \A e \in Envelopes : e.id \in DOMAIN q.entries => e.id \in DOMAIN p.entries \/ Gone(e)
  <2> HIDE DEF p, X
  <2> QED
    BY <1>1, <1>2, <1>3, EnvelopeOfId
<1>5. \A id \in DOMAIN p.entries : ~Gone(p.entries[id].envelope)
  <2> HIDE DEF p, X
  <2> QED
    BY <1>2, <1>3
<1> HIDE DEF p, X
<1>6. Keeps(p, had, done)
  BY <1>2, <1>4 DEF Keeps
<1> QED
  BY <1>2, <1>5, <1>6 DEF p

\* What is taken off a queue is settled.
LEMMA RemoveKeeps ==
  ASSUME NEW q, NEW had, NEW done, Keeps(q, had, done), NEW ids
  PROVE  Keeps(RemoveByKey(q, ids), had, done \cup ids)
<1> DEFINE p == RemoveByKey(q, ids)
<1>1. Sound(q)
  BY DEF Keeps
<1>2. Sound(p) /\ DOMAIN p.entries = DOMAIN q.entries \ ids
  <2>1. IsQueue(q, Envelopes) /\ CountsHold(q) /\ LimitsHold(q)
    BY <1>1 DEF Sound
  <2>2. IsQueue(p, Envelopes) /\ CountsHold(p) /\ LimitsHold(p)
    BY <2>1, RemoveFacts
  <2>3. p.entries = Restrict(q.entries, DOMAIN q.entries \ (ids \cap DOMAIN q.entries))
    BY DEF RemoveByKey
  <2>4. DOMAIN p.entries = DOMAIN q.entries \ ids
    <3> HIDE DEF p
    <3> QED
      BY <2>3 DEF Restrict
  <2> QED
    BY <2>2, <2>4 DEF Sound
<1> HIDE DEF p
<1>3. Keeps(p, had, done \cup ids)
  BY <1>2 DEF Keeps
<1> QED
  BY <1>3 DEF p

\* store() gives up only what is gone, and what it stored has arrived.
LEMMA StoreKeeps ==
  ASSUME NEW q, NEW had, NEW done, NEW e \in Envelopes, NEW from \in Senders,
         now \in Nat, Keeps(q, had, done)
  PROVE  LET p == Stored(q, e, from, now)
         IN  Keeps(p, IF e.id \in DOMAIN p.entries THEN had \cup {e.id} ELSE had, done)
<1> DEFINE purged == PurgeExpired(q, now, MaxAge)
           p == Stored(q, e, from, now)
           has == IF e.id \in DOMAIN p.entries THEN had \cup {e.id} ELSE had
<1>1. Keeps(purged, had, done) /\ \A id \in DOMAIN purged.entries : ~Gone(purged.entries[id].envelope)
  BY PurgeKeeps
<1>2. Sound(p)
  BY StoredFacts DEF Keeps, Sound
<1>3. Sound(purged)
  BY <1>1 DEF Keeps
<1>4. CASE StoreVerdict(purged, e, from, now) = "stored"
  <2>1. p = Added(purged, e, from)
    BY <1>4 DEF Stored
  <2>2. e.id \notin DOMAIN purged.entries /\ ~Gone(e)
    BY <1>4 DEF StoreVerdict, Gone
  <2>3. DOMAIN p.entries = DOMAIN purged.entries \cup {e.id}
    BY <1>3, <2>1, <2>2, AddFacts DEF Sound
  <2>4. e.timestamp <= now + Skew
    BY <2>2 DEF Gone, ValidRoutingHeader
  <2> HIDE DEF p, purged
  <2>5. Keeps(p, had \cup {e.id}, done)
    <3>1. \A f \in Envelopes : f.id = e.id => f = e
      BY SyncConstants
    <3> QED
      BY <1>1, <1>2, <2>3, <2>4, <3>1 DEF Keeps
  <2> QED
    BY <2>3, <2>5 DEF p
<1>5. CASE StoreVerdict(purged, e, from, now) # "stored"
  <2>1. p = purged
    BY <1>5 DEF Stored
  <2> HIDE DEF p, purged
  <2>2. e.id \in DOMAIN p.entries => had \cup {e.id} = had
    BY <1>1, <2>1 DEF Keeps
  <2> QED
    BY <1>1, <2>1, <2>2 DEF p
<1> QED
  BY <1>4, <1>5

----------------------------------------------------------------------------
(* The purge of the replay record. *)

\* The recursion that what is kept of the first k records is defined by.
IsKeeping(F, s, t, age, k) ==
  F = [i \in 0 .. k |->
        IF i = 0 THEN <<>>
        ELSE IF t - s[i].at <= age THEN Append(F[i - 1], s[i])
        ELSE F[i - 1]]

\* There is such a function.
LEMMA KeepingExists ==
  ASSUME NEW s, NEW t, NEW age, NEW k \in Nat
  PROVE  \E F : IsKeeping(F, s, t, age, k)
<1> DEFINE Bad == {j \in Nat : ~\E F : IsKeeping(F, s, t, age, j)}
<1>1. ASSUME Bad # {}
      PROVE  FALSE
  <2>1. PICK j \in Bad : \A i \in Bad : j <= i
    <3>1. Bad \in SUBSET Nat
      OBVIOUS
    <3> HIDE DEF Bad
    <3> QED
      BY <1>1, <3>1, LeastNumber
  <2>2. j \in Nat /\ ~\E F : IsKeeping(F, s, t, age, j)
    BY <2>1
  <2>3. j # 0
    <3>1. IsKeeping([i \in 0 .. 0 |-> <<>>], s, t, age, 0)
      BY DEF IsKeeping
    <3> QED
      BY <2>2, <3>1
  <2>4. j - 1 \in Nat /\ ~(j <= j - 1)
    BY <2>2, <2>3
  <2>5. PICK F : IsKeeping(F, s, t, age, j - 1)
    BY <2>1, <2>4
  <2> DEFINE last == IF t - s[j].at <= age THEN Append(F[j - 1], s[j]) ELSE F[j - 1]
             G == [i \in 0 .. j |-> IF i = j THEN last ELSE F[i]]
  <2>6. IsKeeping(G, s, t, age, j)
    <3>1. \A i \in 0 .. j - 1 : i # j /\ i \in 0 .. j
      BY <2>4
    <3>2. G[j] = last /\ \A i \in 0 .. j - 1 : G[i] = F[i]
      BY <2>2, <3>1
    <3>3. \A i \in 0 .. j : i # j => i \in 0 .. j - 1 /\ (i # 0 => i - 1 \in 0 .. j - 1)
      BY <2>4
    <3>4. j - 1 \in 0 .. j - 1
      BY <2>4
    <3> HIDE DEF G, last
    <3>5. \A i \in 0 .. j :
            G[i] = IF i = 0 THEN <<>>
                   ELSE IF t - s[i].at <= age THEN Append(G[i - 1], s[i])
                   ELSE G[i - 1]
      <4> SUFFICES ASSUME NEW i \in 0 .. j
                   PROVE  G[i] = IF i = 0 THEN <<>>
                                 ELSE IF t - s[i].at <= age THEN Append(G[i - 1], s[i])
                                 ELSE G[i - 1]
        OBVIOUS
      <4>1. CASE i = j
        BY <2>3, <3>2, <3>4, <4>1 DEF last
      <4>2. CASE i # j
        <5>1. F[i] = IF i = 0 THEN <<>>
                     ELSE IF t - s[i].at <= age THEN Append(F[i - 1], s[i])
                     ELSE F[i - 1]
          BY <2>5, <3>3, <4>2 DEF IsKeeping
        <5> QED
          BY <3>2, <3>3, <4>2, <5>1
      <4> QED
        BY <4>1, <4>2
    <3>6. G = [i \in 0 .. j |-> G[i]]
      BY DEF G
    <3> QED
      BY <3>5, <3>6 DEF IsKeeping
  <2> QED
    BY <2>2, <2>6
<1> QED
  BY <1>1

\* Of the first i records, all that are fresh are kept, and none comes to stand
\* further from the end.
KeptOf(F, s, t, age, i) ==
  /\ F[i] \in Seq(Record) /\ Len(F[i]) <= i
  /\ \A k \in 1 .. Len(F[i]) : \E j \in 1 .. i : F[i][k] = s[j]
  /\ \A j \in 1 .. i :
       t - s[j].at <= age =>
         \E k \in 1 .. Len(F[i]) : F[i][k] = s[j] /\ Len(F[i]) - k <= i - j

\* One more record keeps that so.
LEMMA KeptOfStep ==
  ASSUME NEW s \in Seq(Record), NEW t \in Nat, NEW age, NEW F,
         IsKeeping(F, s, t, age, Len(s)), NEW i \in 1 .. Len(s), KeptOf(F, s, t, age, i - 1)
  PROVE  KeptOf(F, s, t, age, i)
<1>1. /\ Len(s) \in Nat /\ i \in Nat /\ i - 1 \in Nat /\ i # 0
      /\ i \in 0 .. Len(s) /\ s[i] \in Record
  OBVIOUS
<1>2. F[i] = IF t - s[i].at <= age THEN Append(F[i - 1], s[i]) ELSE F[i - 1]
  BY <1>1 DEF IsKeeping
<1> DEFINE was == F[i - 1]
           is == F[i]
<1>3. /\ was \in Seq(Record) /\ Len(was) \in Nat /\ Len(was) <= i - 1
      /\ \A k \in 1 .. Len(was) : \E j \in 1 .. i - 1 : was[k] = s[j]
      /\ \A j \in 1 .. i - 1 :
           t - s[j].at <= age =>
             \E k \in 1 .. Len(was) : was[k] = s[j] /\ Len(was) - k <= i - 1 - j
  BY DEF KeptOf
<1>4. \A j \in 1 .. i : j = i \/ j \in 1 .. i - 1
  BY <1>1
<1>5. CASE t - s[i].at <= age
  <2>1. is = Append(was, s[i])
    BY <1>2, <1>5
  <2> HIDE DEF is, was
  <2>2. /\ is \in Seq(Record) /\ Len(is) = Len(was) + 1 /\ is[Len(is)] = s[i]
        /\ \A k \in 1 .. Len(was) : k \in 1 .. Len(is) /\ is[k] = was[k]
    BY <1>1, <1>3, <2>1
  <2>3. \A k \in 1 .. Len(is) : k = Len(is) \/ k \in 1 .. Len(was)
    BY <1>3, <2>2
  <2>4. ASSUME NEW k \in 1 .. Len(is)
        PROVE  \E j \in 1 .. i : is[k] = s[j]
    <3>1. CASE k = Len(is)
      BY <1>1, <2>2, <3>1
    <3>2. CASE k \in 1 .. Len(was)
      <4>1. PICK j \in 1 .. i - 1 : was[k] = s[j]
        BY <1>3, <3>2
      <4> QED
        BY <1>1, <2>2, <3>2, <4>1
    <3> QED
      BY <2>3, <3>1, <3>2
  <2>5. ASSUME NEW j \in 1 .. i, t - s[j].at <= age
        PROVE  \E k \in 1 .. Len(is) : is[k] = s[j] /\ Len(is) - k <= i - j
    <3>1. CASE j = i
      BY <1>3, <2>2, <3>1
    <3>2. CASE j \in 1 .. i - 1
      <4>1. PICK k \in 1 .. Len(was) : was[k] = s[j] /\ Len(was) - k <= i - 1 - j
        BY <1>3, <2>5, <3>2
      <4>2. k \in 1 .. Len(is) /\ is[k] = s[j]
        BY <2>2, <4>1
      <4>3. Len(is) - k <= i - j
        BY <1>1, <1>3, <2>2, <4>1
      <4> QED
        BY <4>2, <4>3
    <3> QED
      BY <1>4, <3>1, <3>2
  <2>6. Len(is) <= i
    BY <1>1, <1>3, <2>2
  <2> QED
    BY <2>2, <2>4, <2>5, <2>6 DEF KeptOf, is
<1>6. CASE ~(t - s[i].at <= age)
  <2>1. is = was
    BY <1>2, <1>6
  <2> HIDE DEF is, was
  <2>2. ASSUME NEW k \in 1 .. Len(is)
        PROVE  \E j \in 1 .. i : is[k] = s[j]
    <3>1. PICK j \in 1 .. i - 1 : was[k] = s[j]
      BY <1>3, <2>1
    <3> QED
      BY <1>1, <2>1, <3>1
  <2>3. ASSUME NEW j \in 1 .. i, t - s[j].at <= age
        PROVE  \E k \in 1 .. Len(is) : is[k] = s[j] /\ Len(is) - k <= i - j
    <3>1. j \in 1 .. i - 1
      BY <1>4, <1>6, <2>3
    <3>2. PICK k \in 1 .. Len(was) : was[k] = s[j] /\ Len(was) - k <= i - 1 - j
      BY <1>3, <2>3, <3>1
    <3>3. Len(was) - k <= i - j
      BY <1>1, <1>3, <3>2
    <3> QED
      BY <2>1, <3>2, <3>3
  <2>4. is \in Seq(Record) /\ Len(is) <= i
    BY <1>1, <1>3, <2>1
  <2> QED
    BY <2>2, <2>3, <2>4 DEF KeptOf, is
<1> QED
  BY <1>5, <1>6

\* The purge leaves records of the record, drops none that is fresh, and lets
\* none stand behind more than before.
LEMMA KeptFacts ==
  ASSUME NEW n, NEW age, seen[n] \in Seq(Record), now \in Nat
  PROVE  /\ KeptWithin(n, age) \in Seq(Record) /\ Len(KeptWithin(n, age)) <= Len(seen[n])
         /\ \A k \in 1 .. Len(KeptWithin(n, age)) : \E j \in 1 .. Len(seen[n]) : KeptWithin(n, age)[k] = seen[n][j]
         /\ \A j \in 1 .. Len(seen[n]) :
              now - seen[n][j].at <= age =>
                \E k \in 1 .. Len(KeptWithin(n, age)) :
                  KeptWithin(n, age)[k] = seen[n][j] /\ Len(KeptWithin(n, age)) - k <= Len(seen[n]) - j
<1> DEFINE s == seen[n]
           F == CHOOSE F : IsKeeping(F, s, now, age, Len(s))
           Bad == {i \in 0 .. Len(s) : ~KeptOf(F, s, now, age, i)}
<1>1. KeptWithin(n, age) = F[Len(s)]
  BY DEF KeptWithin, IsKeeping
<1>2. s \in Seq(Record) /\ Len(s) \in Nat
  OBVIOUS
<1>3. IsKeeping(F, s, now, age, Len(s))
  <2> HIDE DEF s
  <2> QED
    BY <1>2, KeepingExists
<1> HIDE DEF F, s
<1>4. ASSUME Bad # {}
      PROVE  FALSE
  <2>1. PICK i \in Bad : \A j \in Bad : i <= j
    <3>1. Bad \in SUBSET Nat
      BY <1>2
    <3> HIDE DEF Bad
    <3> QED
      BY <1>4, <3>1, LeastNumber
  <2>2. i \in 0 .. Len(s) /\ ~KeptOf(F, s, now, age, i)
    BY <2>1
  <2>3. i # 0
    <3>1. F[0] = <<>>
      BY <1>2, <1>3 DEF IsKeeping
    <3>2. KeptOf(F, s, now, age, 0)
      BY <3>1 DEF KeptOf
    <3> QED
      BY <2>2, <3>2
  <2>4. i \in 1 .. Len(s) /\ i - 1 \in 0 .. Len(s) /\ ~(i <= i - 1)
    BY <1>2, <2>2, <2>3
  <2>5. KeptOf(F, s, now, age, i - 1)
    BY <2>1, <2>4
  <2> QED
    BY <1>2, <1>3, <2>2, <2>4, <2>5, KeptOfStep
<1>5. KeptOf(F, s, now, age, Len(s))
  BY <1>2, <1>4
<1> QED
  BY <1>1, <1>5 DEF KeptOf, s

----------------------------------------------------------------------------
(* The envelopes of a transfer, taken one after the other. *)

\* What a node has while it takes them.
Holds(acc) ==
  /\ acc = [queue |-> acc.queue, arrived |-> acc.arrived,
            settled |-> acc.settled, refused |-> acc.refused]
  /\ acc.arrived \in SUBSET Ids /\ acc.settled \in SUBSET Ids /\ acc.refused \in SUBSET Ids
  /\ Keeps(acc.queue, acc.arrived, acc.settled)

Grown(a, b) ==
  a.arrived \subseteq b.arrived /\ a.settled \subseteq b.settled /\ a.refused \subseteq b.refused

Reached(acc, e) == e.id \in acc.arrived \cup acc.refused \cup acc.settled \/ Gone(e)

\* An envelope taken has arrived, was settled or refused, or is gone, and
\* nothing else is given up for it.
LEMMA TakeFacts ==
  ASSUME NEW acc, Holds(acc), NEW e \in Envelopes, NEW from \in Senders, NEW n, NEW onward,
         now \in Nat
  PROVE  LET b == Take(acc, e, n, from, onward)
         IN  Holds(b) /\ Grown(acc, b) /\ Reached(b, e)
<1> DEFINE b == Take(acc, e, n, from, onward)
           q == Stored(acc.queue, e, from, now)
<1>1. e.id \in Ids
  BY DEF Ids
<1>2. Keeps(acc.queue, acc.arrived, acc.settled)
  BY DEF Holds
<1>3. CASE Gone(e)
  <2>1. b = acc
    BY <1>3 DEF Take, Gone
  <2> HIDE DEF b
  <2> QED
    BY <1>3, <2>1 DEF Grown, Reached, b
<1>4. CASE ~Gone(e) /\ (e.dest = n \/ e.id \in onward)
  <2>1. b = [acc EXCEPT !.settled = @ \cup {e.id}, !.arrived = @ \cup {e.id}]
    BY <1>4 DEF Take, Gone
  <2>2. b = [queue |-> acc.queue, arrived |-> acc.arrived \cup {e.id},
             settled |-> acc.settled \cup {e.id}, refused |-> acc.refused]
    <3> HIDE DEF b
    <3> QED
      BY <2>1 DEF Holds
  <2>3. Keeps(acc.queue, acc.arrived \cup {e.id}, acc.settled \cup {e.id})
    <3>1. e.timestamp <= now + Skew /\ \A f \in Envelopes : f.id = e.id => f = e
      BY <1>4, SyncConstants DEF Gone, ValidRoutingHeader
    <3> QED
      BY <1>2, <3>1 DEF Keeps
  <2> HIDE DEF b
  <2>4. /\ b.queue = acc.queue /\ b.arrived = acc.arrived \cup {e.id}
        /\ b.settled = acc.settled \cup {e.id} /\ b.refused = acc.refused
    BY <2>2
  <2>5. Holds(b)
    BY <1>1, <2>2, <2>3, <2>4 DEF Holds
  <2>6. Grown(acc, b) /\ Reached(b, e)
    BY <2>4 DEF Grown, Reached
  <2> QED
    BY <2>5, <2>6 DEF b
<1>5. CASE ~Gone(e) /\ ~(e.dest = n \/ e.id \in onward)
  <2>1. b = IF e.id \in DOMAIN q.entries
              THEN [acc EXCEPT !.queue = q, !.arrived = @ \cup {e.id}]
              ELSE [acc EXCEPT !.queue = q, !.refused = @ \cup {e.id}]
    BY <1>5 DEF Take, Gone
  <2>2. Keeps(q, IF e.id \in DOMAIN q.entries THEN acc.arrived \cup {e.id} ELSE acc.arrived,
              acc.settled)
    BY <1>2, StoreKeeps
  <2> HIDE DEF q, b
  <2>3. CASE e.id \in DOMAIN q.entries
    <3>1. b = [queue |-> q, arrived |-> acc.arrived \cup {e.id},
               settled |-> acc.settled, refused |-> acc.refused]
      BY <2>1, <2>3 DEF Holds
    <3>2. /\ b.queue = q /\ b.arrived = acc.arrived \cup {e.id}
          /\ b.settled = acc.settled /\ b.refused = acc.refused
      BY <3>1
    <3>3. Keeps(b.queue, b.arrived, b.settled)
      BY <2>2, <2>3, <3>2
    <3>4. Holds(b)
      BY <1>1, <3>1, <3>2, <3>3 DEF Holds
    <3>5. Grown(acc, b) /\ Reached(b, e)
      BY <3>2 DEF Grown, Reached
    <3> QED
      BY <3>4, <3>5 DEF b
  <2>4. CASE e.id \notin DOMAIN q.entries
    <3>1. b = [queue |-> q, arrived |-> acc.arrived,
               settled |-> acc.settled, refused |-> acc.refused \cup {e.id}]
      BY <2>1, <2>4 DEF Holds
    <3>2. /\ b.queue = q /\ b.arrived = acc.arrived
          /\ b.settled = acc.settled /\ b.refused = acc.refused \cup {e.id}
      BY <3>1
    <3>3. Keeps(b.queue, b.arrived, b.settled)
      BY <2>2, <2>4, <3>2
    <3>4. Holds(b)
      BY <1>1, <3>1, <3>2, <3>3 DEF Holds
    <3>5. Grown(acc, b) /\ Reached(b, e)
      BY <3>2 DEF Grown, Reached
    <3> QED
      BY <3>4, <3>5 DEF b
  <2> QED
    BY <2>3, <2>4
<1> QED
  BY <1>3, <1>4, <1>5

\* The recursion a transfer is handled by.
IsTaking(F, order, before, n, from, onward, k) ==
  F = [i \in 0 .. k |-> IF i = 0 THEN before ELSE Take(F[i - 1], order[i], n, from, onward)]

\* There is such a function.
LEMMA TakingExists ==
  ASSUME NEW order, NEW before, NEW n, NEW from, NEW onward, NEW k \in Nat
  PROVE  \E F : IsTaking(F, order, before, n, from, onward, k)
<1> DEFINE Is(F, j) == IsTaking(F, order, before, n, from, onward, j)
           Bad == {j \in Nat : ~\E F : Is(F, j)}
<1>1. ASSUME Bad # {}
      PROVE  FALSE
  <2>1. PICK j \in Bad : \A i \in Bad : j <= i
    <3>1. Bad \in SUBSET Nat
      OBVIOUS
    <3> HIDE DEF Bad
    <3> QED
      BY <1>1, <3>1, LeastNumber
  <2>2. j \in Nat /\ ~\E F : Is(F, j)
    BY <2>1
  <2>3. j # 0
    <3>1. Is([i \in 0 .. 0 |-> before], 0)
      BY DEF IsTaking
    <3> HIDE DEF Is
    <3> QED
      BY <2>2, <3>1
  <2>4. j - 1 \in Nat /\ ~(j <= j - 1)
    BY <2>2, <2>3
  <2>5. PICK F : Is(F, j - 1)
    BY <2>1, <2>4
  <2> DEFINE last == Take(F[j - 1], order[j], n, from, onward)
             G == [i \in 0 .. j |-> IF i = j THEN last ELSE F[i]]
  <2>6. Is(G, j)
    <3>1. \A i \in 0 .. j - 1 : i # j /\ i \in 0 .. j
      BY <2>4
    <3>2. G[j] = last /\ \A i \in 0 .. j - 1 : G[i] = F[i]
      BY <2>2, <3>1
    <3>3. \A i \in 0 .. j : i # j => i \in 0 .. j - 1 /\ (i # 0 => i - 1 \in 0 .. j - 1)
      BY <2>4
    <3>4. j - 1 \in 0 .. j - 1
      BY <2>4
    <3> HIDE DEF G, last
    <3>5. \A i \in 0 .. j :
            G[i] = IF i = 0 THEN before ELSE Take(G[i - 1], order[i], n, from, onward)
      <4> SUFFICES ASSUME NEW i \in 0 .. j
                   PROVE  G[i] = IF i = 0 THEN before
                                 ELSE Take(G[i - 1], order[i], n, from, onward)
        OBVIOUS
      <4>1. CASE i = j
        BY <2>3, <3>2, <3>4, <4>1 DEF last
      <4>2. CASE i # j
        <5>1. F[i] = IF i = 0 THEN before ELSE Take(F[i - 1], order[i], n, from, onward)
          BY <2>5, <3>3, <4>2 DEF IsTaking
        <5> QED
          BY <3>2, <3>3, <4>2, <5>1
      <4> QED
        BY <4>1, <4>2
    <3>6. G = [i \in 0 .. j |-> G[i]]
      BY DEF G
    <3> QED
      BY <3>5, <3>6 DEF IsTaking
  <2> HIDE DEF Is
  <2> QED
    BY <2>2, <2>6
<1> QED
  BY <1>1

\* After the first i envelopes each of them was taken and nothing given up.
TakenOf(F, order, before, i) ==
  Holds(F[i]) /\ Grown(before, F[i]) /\ \A j \in 1 .. i : Reached(F[i], order[j])

\* What a transfer handled as far as its k-th envelope leaves.
LEMMA TakingFacts ==
  ASSUME NEW order, NEW before, NEW n, NEW from \in Senders, NEW onward, NEW k \in Nat, NEW F,
         IsTaking(F, order, before, n, from, onward, k),
         \A j \in 1 .. k : order[j] \in Envelopes,
         Holds(before), now \in Nat
  PROVE  TakenOf(F, order, before, k)
<1> DEFINE Bad == {i \in 0 .. k : ~TakenOf(F, order, before, i)}
<1>1. ASSUME Bad # {}
      PROVE  FALSE
  <2>1. PICK i \in Bad : \A j \in Bad : i <= j
    <3>1. Bad \in SUBSET Nat
      OBVIOUS
    <3> HIDE DEF Bad
    <3> QED
      BY <1>1, <3>1, LeastNumber
  <2>2. i \in 0 .. k /\ ~TakenOf(F, order, before, i)
    BY <2>1
  <2>3. i # 0
    <3>1. F[0] = before
      BY DEF IsTaking
    <3>2. TakenOf(F, order, before, 0)
      BY <3>1 DEF TakenOf, Grown
    <3> QED
      BY <2>2, <3>2
  <2>4. i \in 1 .. k /\ i - 1 \in 0 .. k /\ ~(i <= i - 1)
    BY <2>2, <2>3
  <2>5. TakenOf(F, order, before, i - 1)
    BY <2>1, <2>4
  <2>6. F[i] = Take(F[i - 1], order[i], n, from, onward)
    BY <2>2, <2>3 DEF IsTaking
  <2>7. Holds(F[i]) /\ Grown(F[i - 1], F[i]) /\ Reached(F[i], order[i])
    BY <2>4, <2>5, <2>6, TakeFacts DEF TakenOf
  <2>8. Grown(before, F[i])
    BY <2>5, <2>7 DEF TakenOf, Grown
  <2>9. ASSUME NEW j \in 1 .. i
        PROVE  Reached(F[i], order[j])
    <3>1. CASE j = i
      BY <2>7, <3>1
    <3>2. CASE j # i
      <4>1. j \in 1 .. i - 1
        BY <2>4, <3>2
      <4> QED
        BY <2>5, <2>7, <4>1 DEF TakenOf, Grown, Reached
    <3> QED
      BY <3>1, <3>2
  <2> QED
    BY <2>2, <2>7, <2>8, <2>9 DEF TakenOf
<1> QED
  BY <1>1

----------------------------------------------------------------------------
(* What every step keeps. *)

\* Time goes on, packets stay sent, and what arrived, was refused or settled
\* stays so.
Forward ==
  /\ now' \in Nat /\ now <= now'
  /\ DOMAIN sent \subseteq DOMAIN sent' /\ \A k \in DOMAIN sent : sent'[k] = sent[k]
  /\ \A n \in Nodes : arrived[n] \subseteq arrived'[n] /\ refused[n] \subseteq refused'[n]
  /\ settled \subseteq settled'

\* What is on a record is a packet's number and a time.
LEMMA RecordsTyped ==
  ASSUME NEW s \in Seq(Record)
  PROVE  /\ Len(s) \in Nat /\ DOMAIN s = 1 .. Len(s)
         /\ \A i \in DOMAIN s : s[i] \in Record /\ s[i].no \in Nat /\ s[i].at \in Nat
<1>1. Len(s) \in Nat /\ DOMAIN s = 1 .. Len(s) /\ \A i \in DOMAIN s : s[i] \in Record
  OBVIOUS
<1> QED
  BY <1>1 DEF Record

\* A packet has the shape of one.
LEMMA PacketTyped ==
  ASSUME Shape, NEW no \in DOMAIN sent
  PROVE  /\ sent[no] \in Packet /\ no \in Nat \ {0} /\ no \in 1 .. MaxPackets
         /\ sent[no].from \in Nodes /\ sent[no].to \in Nodes /\ sent[no].cause \in Nat
         /\ sent[no].timestamp \in Int
<1>1. sent \in Seq(Packet) /\ Len(sent) \in Nat /\ Len(sent) <= MaxPackets /\ MaxPackets \in Nat
  BY SyncConstants DEF Shape
<1>2. sent[no] \in Packet /\ no \in 1 .. Len(sent)
  BY <1>1
<1> QED
  BY <1>1, <1>2 DEF Packet

\* What a request names has arrived where it is sent to.
LEMMA RequestedArrived ==
  ASSUME Inv, NEW no \in DOMAIN sent, sent[no].kind = "request"
  PROVE  /\ sent[no].cause \in DOMAIN sent /\ sent[sent[no].cause].kind = "summary"
         /\ sent[no].content \subseteq sent[sent[no].cause].content
         /\ sent[no].content \subseteq arrived[sent[no].to]
<1>1. PacketOK(no) /\ PacketOK(sent[no].cause)
  BY DEF Inv, PacketOK
<1> QED
  BY <1>1 DEF PacketOK

\* A packet is as good as it was when it was sent.
LEMMA PacketStays ==
  ASSUME Inv, Forward, NEW no \in DOMAIN sent
  PROVE  PacketOK(no)'
<1>1. PacketOK(no) /\ sent'[no] = sent[no] /\ now \in Nat
  BY DEF Inv, Forward, Shape
<1>2. /\ sent[no].from \in Nodes /\ sent[no].to \in Nodes /\ sent[no].cause \in Nat
      /\ sent[no].timestamp \in Int
  BY PacketTyped DEF Inv
<1>3. arrived[sent[no].from] \subseteq arrived'[sent[no].from]
  BY <1>2 DEF Forward
<1>4. sent[no].timestamp <= now => sent[no].timestamp <= now'
  BY <1>1, <1>2 DEF Forward
<1>5. sent[no].cause \in DOMAIN sent =>
        sent[no].cause \in DOMAIN sent' /\ sent'[sent[no].cause] = sent[sent[no].cause]
  BY DEF Forward
<1> QED
  BY <1>1, <1>3, <1>4, <1>5 DEF PacketOK

\* What arrived somewhere is not dated in the future, so it stays gone.
LEMMA ArrivedStaysGone ==
  ASSUME Inv, Forward, NEW n \in Nodes, NEW e \in Envelopes, e.id \in arrived[n], Gone(e)
  PROVE  Gone(e)'
<1>1. e.timestamp <= now + Skew
  BY DEF Inv, Keeps
<1>2. now \in Nat /\ now' \in Nat /\ now <= now'
  BY DEF Inv, Shape, Forward
<1> QED
  BY <1>1, <1>2, GoneStays

\* What a packet has brought about stays.
LEMMA DoneStays ==
  ASSUME Inv, Forward, NEW no \in DOMAIN sent, Done(no)
  PROVE  Done(no)'
<1> DEFINE p == sent[no]
           Answer(kind, id) ==
             \E k \in DOMAIN sent :
               /\ sent[k].cause = no /\ sent[k].kind = kind
               /\ IF kind = "request" THEN id \in sent[k].content
                  ELSE \E e \in sent[k].content : e.id = id
<1>1. sent'[no] = p /\ p.from \in Nodes /\ p.to \in Nodes
  BY PacketTyped DEF Inv, Forward
<1>2. ASSUME NEW kind, NEW id, Answer(kind, id)
      PROVE  Answer(kind, id)'
  <2>1. PICK k \in DOMAIN sent :
               /\ sent[k].cause = no /\ sent[k].kind = kind
               /\ IF kind = "request" THEN id \in sent[k].content
                  ELSE \E e \in sent[k].content : e.id = id
    BY <1>2
  <2>2. k \in DOMAIN sent' /\ sent'[k] = sent[k]
    BY DEF Forward
  <2> QED
    BY <2>1, <2>2
<1>3. CASE p.kind = "summary"
  <2>1. \A id \in p.content : id \in arrived[p.to] \/ Answer("request", id)
    BY <1>3 DEF Done
  <2>2. arrived[p.to] \subseteq arrived'[p.to]
    BY <1>1 DEF Forward
  <2> HIDE DEF Answer
  <2>3. \A id \in p.content : id \in arrived'[p.to] \/ Answer("request", id)'
    BY <1>2, <2>1, <2>2
  <2> QED
    BY <1>1, <1>3, <2>3 DEF Done, Answer
<1>4. CASE p.kind = "request"
  <2>1. \A e \in Envelopes :
          e.id \in p.content =>
            \/ e.id \in settled \/ Gone(e) \/ Answer("transfer", e.id)
            \/ Cardinality(p.content) > MaxTransfer
    BY <1>4 DEF Done
  <2>2. p.content \subseteq arrived[p.to]
    BY <1>4, RequestedArrived
  <2>3. \A e \in Envelopes : e.id \in p.content => (Gone(e) => Gone(e)')
    BY <1>1, <2>2, ArrivedStaysGone
  <2>4. settled \subseteq settled'
    BY DEF Forward
  <2> HIDE DEF Answer
  <2>5. \A e \in Envelopes :
          e.id \in p.content =>
            \/ e.id \in settled' \/ Gone(e)' \/ Answer("transfer", e.id)'
            \/ Cardinality(p.content) > MaxTransfer
    BY <1>2, <2>1, <2>3, <2>4
  <2> QED
    BY <1>1, <1>4, <2>5 DEF Done, Answer
<1>5. CASE p.kind = "transfer"
  <2>1. \A e \in p.content : e.id \in arrived[p.to] \cup refused[p.to] \cup settled \/ Gone(e)
    BY <1>5 DEF Done
  <2>2. PacketOK(no)
    BY DEF Inv
  <2>3. p.content \subseteq Envelopes /\ \A e \in p.content : e.id \in arrived[p.from]
    BY <1>5, <2>2 DEF PacketOK
  <2>4. \A e \in p.content : Gone(e) => Gone(e)'
    BY <1>1, <2>3, ArrivedStaysGone
  <2>5. /\ arrived[p.to] \subseteq arrived'[p.to] /\ refused[p.to] \subseteq refused'[p.to]
        /\ settled \subseteq settled'
    BY <1>1 DEF Forward
  <2>6. \A e \in p.content :
          e.id \in arrived'[p.to] \cup refused'[p.to] \cup settled' \/ Gone(e)'
    BY <2>1, <2>4, <2>5
  <2> QED
    BY <1>1, <1>5, <2>6 DEF Done
<1>6. p.kind \in {"summary", "request", "transfer"}
  BY PacketTyped DEF Inv, Packet
<1> QED
  BY <1>3, <1>4, <1>5, <1>6

\* A packet whose handling went to the end was sent.
LEMMA HandledWasSent ==
  ASSUME Inv, NEW no \in DOMAIN handled
  PROVE  /\ handled[no].whole => handled[no].times > 0
         /\ handled[no].times > 0 => no \in DOMAIN sent
         /\ handled[no] \in [times : Nat, last : Nat, since : Nat, whole : BOOLEAN]
  BY DEF Inv, Remembered, Shape

\* A step that handles no packet keeps what is said of those handled.
LEMMA UnhandledStep ==
  ASSUME Inv, Forward, Shape', UNCHANGED <<seen, handled>>,
         \A n \in Nodes : Keeps(queue[n], arrived[n], settled)',
         \A no \in DOMAIN sent' \ DOMAIN sent : PacketOK(no)'
  PROVE  Inv'
<1>1. \A no \in DOMAIN sent' : PacketOK(no)'
  BY PacketStays
<1>2. now \in Nat /\ now' \in Nat /\ now <= now'
  BY DEF Inv, Shape, Forward
<1>3. ASSUME NEW n \in Nodes
      PROVE  RecordOK(n)'
  <2>1. RecordOK(n) /\ seen[n] \in Seq(Record)
    BY DEF Inv, Shape
  <2>2. \A i \in DOMAIN seen[n] : seen[n][i].at \in Nat
    BY <2>1, RecordsTyped
  <2> QED
    BY <1>2, <2>1, <2>2 DEF RecordOK, Forward
<1>4. ASSUME NEW no \in DOMAIN handled
      PROVE  Remembered(no)'
  <2>1. Remembered(no) /\ handled[no].last \in Nat /\ handled' = handled /\ seen' = seen
    BY HandledWasSent DEF Inv
  <2>2. handled[no].times > 0 => no \in DOMAIN sent' /\ sent'[no] = sent[no]
    BY HandledWasSent DEF Forward
  <2>3. /\ handled[no].last <= now => handled[no].last <= now'
        /\ now - handled[no].last > ReplayTtl => now' - handled[no].last > ReplayTtl
    BY <1>2, <2>1, SyncConstants
  <2> QED
    BY <2>1, <2>2, <2>3 DEF Remembered
<1>5. ASSUME NEW no \in DOMAIN handled, handled[no].whole
      PROVE  Done(no)'
  BY <1>5, HandledWasSent, DoneStays DEF Inv
<1> QED
  BY <1>1, <1>3, <1>4, <1>5 DEF Inv

----------------------------------------------------------------------------
(* Steps that handle no packet. *)

\* A node that a step leaves alone keeps what it had.
LEMMA OthersKeep ==
  ASSUME Inv, Forward, NEW m \in Nodes, queue'[m] = queue[m], arrived'[m] = arrived[m]
  PROVE  Keeps(queue[m], arrived[m], settled)'
<1>1. /\ Keeps(queue[m], arrived[m], settled) /\ now \in Nat
      /\ now' \in Nat /\ now <= now' /\ settled \subseteq settled'
  BY DEF Inv, Shape, Forward
<1>2. \A e \in Envelopes :
        e.id \in arrived[m] =>
          /\ e.timestamp <= now' + Skew
          /\ e.id \in settled' \/ e.id \in DOMAIN queue[m].entries \/ Gone(e)'
  BY <1>1, KeepsOn
<1>3. Sound(queue[m]) /\ DOMAIN queue[m].entries \subseteq arrived[m]
  BY <1>1 DEF Keeps
<1> QED
  BY <1>2, <1>3 DEF Keeps, Sound, IsQueue, CountsHold, LimitsHold

\* The node a step is of keeps what the step has it keep.
LEMMA NodeKeeps ==
  ASSUME NEW n \in Nodes, NEW q, NEW had, NEW done, Keeps(q, had, done),
         queue'[n] = q, arrived'[n] = had, settled' = done, now' = now
  PROVE  Keeps(queue[n], arrived[n], settled)'
<1>1. \A e : Gone(e)' <=> Gone(e)
  BY DEF Gone, ValidRoutingHeader
<1>2. Sound(queue[n])'
  BY DEF Keeps, Sound, IsQueue, CountsHold, LimitsHold
<1> QED
  BY <1>1, <1>2 DEF Keeps

\* What may be sent.
Fit(kind, n, m, content, cause) ==
  /\ kind \in {"summary", "request", "transfer"}
  /\ n \in Nodes /\ m \in Nodes \ {n}
  /\ content \subseteq Ids \cup Envelopes
  /\ cause \in Nat

SentMore ==
  /\ sent' \in Seq(Packet) /\ Len(sent') <= MaxPackets
  /\ DOMAIN sent \subseteq DOMAIN sent' /\ \A k \in DOMAIN sent : sent'[k] = sent[k]

New(new, kind, n, m, content, cause) ==
  /\ new \in Nat \ {0}
  /\ DOMAIN sent' = DOMAIN sent \cup {new}
  /\ \A k \in DOMAIN sent : k < new
  /\ sent'[new].kind = kind /\ sent'[new].from = n /\ sent'[new].to = m
  /\ sent'[new].content = content /\ sent'[new].cause = cause
  /\ sent'[new].timestamp <= now

\* A packet sent is the last of those sent.
LEMMA SendFacts ==
  ASSUME Shape, NEW kind, NEW n, NEW m, NEW content, NEW cause,
         Fit(kind, n, m, content, cause), Send(kind, n, m, content, cause)
  PROVE  SentMore /\ \E new : New(new, kind, n, m, content, cause)
<1>0. /\ kind \in {"summary", "request", "transfer"} /\ n \in Nodes /\ m \in Nodes \ {n}
      /\ content \in SUBSET (Ids \cup Envelopes) /\ cause \in Nat
  BY DEF Fit
<1> DEFINE p == [kind |-> kind, from |-> n, to |-> m, session |-> session[n][m].no,
                 content |-> content, timestamp |-> CoarseTimestamp, cause |-> cause]
<1>1. /\ sent \in Seq(Packet) /\ Len(sent) \in Nat /\ Len(sent) < MaxPackets
      /\ MaxPackets \in Nat /\ sent' = Append(sent, p)
  BY SyncConstants DEF Shape, Send
<1>2. CoarseTimestamp \in Int /\ CoarseTimestamp <= now
  <2>1. now \in Nat /\ Skew \in Nat /\ Skew # 0
    BY SyncConstants, QueueLimits DEF Shape
  <2>2. now % Skew \in Nat
    BY <2>1
  <2> QED
    BY <2>1, <2>2 DEF CoarseTimestamp
<1>3. session[n][m].no \in Nat
  BY <1>0 DEF Shape
<1>4. p \in Packet
  BY <1>0, <1>2, <1>3 DEF Packet
<1> HIDE DEF p
<1>5. /\ sent' \in Seq(Packet) /\ Len(sent') = Len(sent) + 1 /\ sent'[Len(sent) + 1] = p
      /\ DOMAIN sent = 1 .. Len(sent) /\ DOMAIN sent' = 1 .. Len(sent) + 1
      /\ \A k \in 1 .. Len(sent) : sent'[k] = sent[k]
  BY <1>1, <1>4
<1>6. /\ p.kind = kind /\ p.from = n /\ p.to = m /\ p.content = content /\ p.cause = cause
      /\ p.timestamp <= now
  BY <1>2 DEF p
<1>7. /\ Len(sent) + 1 \in Nat \ {0}
      /\ DOMAIN sent' = DOMAIN sent \cup {Len(sent) + 1}
      /\ \A k \in DOMAIN sent : k < Len(sent) + 1
  BY <1>1, <1>5
<1>8. SentMore
  BY <1>1, <1>5 DEF SentMore
<1>9. New(Len(sent) + 1, kind, n, m, content, cause)
  BY <1>5, <1>6, <1>7 DEF New
<1> QED
  BY <1>8, <1>9

\* A session registered or gone changes no queue and no packet.
LEMMA SessionStep ==
  ASSUME Inv, NEW n \in Nodes, NEW m \in Nodes \ {n},
         (\E no \in 1 .. Sessions : RegisterSession(n, m, no)) \/ Unregister(n, m)
  PROVE  Inv'
<1>1. UNCHANGED <<queue, seen, sent, handled, arrived, settled, refused, now>>
  BY DEF RegisterSession, Unregister
<1>2. /\ DOMAIN session' = Nodes
      /\ \A k \in Nodes : session'[k] \in [Nodes \ {k} -> [no : Nat, live : BOOLEAN]]
  <2>1. /\ DOMAIN session = Nodes
        /\ \A k \in Nodes : session[k] \in [Nodes \ {k} -> [no : Nat, live : BOOLEAN]]
    BY DEF Inv, Shape
  <2>2. PICK s \in [no : Nat, live : BOOLEAN] : session' = [session EXCEPT ![n][m] = s]
    <3>1. CASE Unregister(n, m)
      <4>1. session' = [session EXCEPT ![n][m].live = FALSE]
        BY <3>1 DEF Unregister
      <4>2. session' = [session EXCEPT ![n][m] = [session[n][m] EXCEPT !.live = FALSE]]
        BY <4>1
      <4>3. session[n][m] \in [no : Nat, live : BOOLEAN]
        BY <2>1
      <4>4. [session[n][m] EXCEPT !.live = FALSE] \in [no : Nat, live : BOOLEAN]
        BY <4>3
      <4> QED
        BY <4>2, <4>4
    <3>2. CASE \E no \in 1 .. Sessions : RegisterSession(n, m, no)
      <4>1. PICK no \in 1 .. Sessions :
                session' = [session EXCEPT ![n][m] = [no |-> no, live |-> TRUE]]
        BY <3>2 DEF RegisterSession
      <4>2. [no |-> no, live |-> TRUE] \in [no : Nat, live : BOOLEAN]
        BY SyncConstants
      <4> QED
        BY <4>1, <4>2
    <3> QED
      BY <3>1, <3>2
  <2> QED
    BY <2>1, <2>2
<1>3. Shape'
  BY <1>1, <1>2 DEF Inv, Shape
<1>4. Forward
  BY <1>1 DEF Forward, Inv, Shape
<1>5. \A k \in Nodes : Keeps(queue[k], arrived[k], settled)'
  BY <1>1, <1>4, OthersKeep
<1> QED
  BY <1>1, <1>3, <1>4, <1>5, UnhandledStep

\* Time that goes on, and a step that changes nothing.
LEMMA TickStep ==
  ASSUME Inv, Tick \/ UNCHANGED vars
  PROVE  Inv'
<1>1. /\ UNCHANGED <<queue, session, seen, sent, handled, arrived, settled, refused>>
      /\ now' \in Nat /\ now <= now'
  BY DEF Tick, vars, Inv, Shape
<1>2. Shape'
  BY <1>1 DEF Inv, Shape
<1>3. Forward
  BY <1>1 DEF Forward
<1>4. \A k \in Nodes : Keeps(queue[k], arrived[k], settled)'
  BY <1>1, <1>3, OthersKeep
<1> QED
  BY <1>1, <1>2, <1>3, <1>4, UnhandledStep

\* An envelope that comes in.
LEMMA AcceptStep ==
  ASSUME Inv, NEW n \in Nodes, NEW e \in Envelopes, NEW from \in Senders, Accept(n, e, from)
  PROVE  Inv'
<1> DEFINE q == Stored(queue[n], e, from, now)
<1>1. /\ DOMAIN queue = Nodes /\ arrived \in [Nodes -> SUBSET Ids]
      /\ refused \in [Nodes -> SUBSET Ids] /\ now \in Nat
      /\ Keeps(queue[n], arrived[n], settled) /\ e.id \in Ids
  BY DEF Inv, Shape, Ids
<1>2. Keeps(q, IF e.id \in DOMAIN q.entries THEN arrived[n] \cup {e.id} ELSE arrived[n], settled)
  BY <1>1, StoreKeeps
<1>3. /\ queue' = [queue EXCEPT ![n] = q]
      /\ UNCHANGED <<session, seen, sent, handled, settled, now>>
  BY DEF Accept
<1> HIDE DEF q
<1>4. queue'[n] = q /\ DOMAIN queue' = Nodes /\ \A k \in Nodes \ {n} : queue'[k] = queue[k]
  BY <1>1, <1>3
<1>5. /\ arrived' = IF e.id \in DOMAIN q.entries
                      THEN [arrived EXCEPT ![n] = @ \cup {e.id}] ELSE arrived
      /\ refused' = IF e.id \in DOMAIN q.entries
                      THEN refused ELSE [refused EXCEPT ![n] = @ \cup {e.id}]
  BY <1>4 DEF Accept
<1>6. /\ arrived' \in [Nodes -> SUBSET Ids] /\ refused' \in [Nodes -> SUBSET Ids]
      /\ arrived'[n] = IF e.id \in DOMAIN q.entries THEN arrived[n] \cup {e.id} ELSE arrived[n]
      /\ \A k \in Nodes \ {n} : arrived'[k] = arrived[k]
      /\ \A k \in Nodes : arrived[k] \subseteq arrived'[k] /\ refused[k] \subseteq refused'[k]
  BY <1>1, <1>5
<1>7. Shape'
  BY <1>3, <1>4, <1>6 DEF Inv, Shape
<1>8. Forward
  BY <1>1, <1>3, <1>6 DEF Forward
<1>9. ASSUME NEW k \in Nodes
      PROVE  Keeps(queue[k], arrived[k], settled)'
  <2>1. CASE k = n
    BY <1>2, <1>3, <1>4, <1>6, <2>1, NodeKeeps
  <2>2. CASE k # n
    BY <1>4, <1>6, <1>8, <2>2, OthersKeep
  <2> QED
    BY <2>1, <2>2
<1> QED
  BY <1>3, <1>7, <1>8, <1>9, UnhandledStep

\* An envelope passed on.
LEMMA PassOnStep ==
  ASSUME Inv, NEW n \in Nodes, NEW id \in DOMAIN queue[n].entries, PassOn(n, id)
  PROVE  Inv'
<1> DEFINE purged == PurgeExpired(queue[n], now, MaxAge)
           q == RemoveByKey(purged, {id})
<1>1. /\ DOMAIN queue = Nodes /\ now \in Nat /\ settled \in SUBSET Ids
      /\ Keeps(queue[n], arrived[n], settled) /\ arrived[n] \in SUBSET Ids
  BY DEF Inv, Shape
<1>2. Keeps(purged, arrived[n], settled)
  BY <1>1, PurgeKeeps
<1>3. Keeps(q, arrived[n], settled \cup {id})
  <2> HIDE DEF purged
  <2> QED
    BY <1>2, RemoveKeeps
<1>4. /\ queue' = [queue EXCEPT ![n] = q] /\ settled' = settled \cup {id}
      /\ UNCHANGED <<session, seen, sent, handled, arrived, refused, now>>
  BY DEF PassOn
<1>5. id \in Ids
  BY <1>1 DEF Keeps
<1> HIDE DEF q
<1>6. queue'[n] = q /\ DOMAIN queue' = Nodes /\ \A k \in Nodes \ {n} : queue'[k] = queue[k]
  BY <1>1, <1>4
<1>7. Shape'
  BY <1>1, <1>4, <1>5, <1>6 DEF Inv, Shape
<1>8. Forward
  BY <1>1, <1>4 DEF Forward
<1>9. ASSUME NEW k \in Nodes
      PROVE  Keeps(queue[k], arrived[k], settled)'
  <2>1. CASE k = n
    BY <1>3, <1>4, <1>6, <2>1, NodeKeeps
  <2>2. CASE k # n
    BY <1>4, <1>6, <1>8, <2>2, OthersKeep
  <2> QED
    BY <2>1, <2>2
<1> QED
  BY <1>4, <1>7, <1>8, <1>9, UnhandledStep
\* A packet sent takes the state forward.
LEMMA SendingForward ==
  ASSUME Inv, SentMore, UNCHANGED <<arrived, settled, refused, now>>
  PROVE  Forward
<1>1. now \in Nat
  BY DEF Inv, Shape
<1> QED
  BY <1>1 DEF Forward, SentMore

\* A node that only purges its queue keeps what it had, and so do the others.
LEMMA QueueStep ==
  ASSUME Inv, Forward, NEW n \in Nodes, NEW q, Keeps(q, arrived[n], settled),
         queue' = [queue EXCEPT ![n] = q], UNCHANGED <<arrived, settled, now>>
  PROVE  DOMAIN queue' = Nodes /\ \A k \in Nodes : Keeps(queue[k], arrived[k], settled)'
<1>1. DOMAIN queue = Nodes
  BY DEF Inv, Shape
<1>2. queue'[n] = q /\ DOMAIN queue' = Nodes /\ \A k \in Nodes \ {n} : queue'[k] = queue[k]
  BY <1>1
<1>3. ASSUME NEW k \in Nodes
      PROVE  Keeps(queue[k], arrived[k], settled)'
  <2>1. CASE k = n
    BY <1>2, <2>1, NodeKeeps
  <2>2. CASE k # n
    BY <1>2, <2>2, OthersKeep
  <2> QED
    BY <2>1, <2>2
<1> QED
  BY <1>2, <1>3

\* The purged queue of a node: what it holds has arrived and is not gone.
LEMMA PurgedFacts ==
  ASSUME Inv, NEW n \in Nodes
  PROVE  /\ Keeps(Purged(n), arrived[n], settled)
         /\ DOMAIN Purged(n).entries \subseteq arrived[n] /\ arrived[n] \subseteq Ids
         /\ IsFiniteSet(DOMAIN Purged(n).entries)
         /\ \A id \in DOMAIN Purged(n).entries :
              /\ Purged(n).entries[id].envelope \in Envelopes
              /\ Purged(n).entries[id].envelope.id = id
<1>1. Keeps(queue[n], arrived[n], settled) /\ arrived[n] \subseteq Ids
  BY DEF Inv, Shape
<1>2. Keeps(Purged(n), arrived[n], settled)
  BY <1>1, PurgeKeeps DEF Purged
<1>3. Sound(Purged(n)) /\ DOMAIN Purged(n).entries \subseteq arrived[n]
  BY <1>2 DEF Keeps
<1> QED
  BY <1>1, <1>2, <1>3, EnvelopeOfId

\* A summary sent names what its sender holds.
LEMMA InitiateStep ==
  ASSUME Inv, NEW n \in Nodes, NEW m \in Nodes \ {n}, InitiateSync(n, m)
  PROVE  Inv'
<1>1. /\ queue' = [queue EXCEPT ![n] = Purged(n)]
      /\ UNCHANGED <<session, seen, handled, arrived, settled, refused, now>>
  BY DEF InitiateSync
<1>2. PICK ids \in UpTo(MaxEntries, DOMAIN Purged(n).entries) : Send("summary", n, m, ids, 0)
  BY DEF InitiateSync
<1>3. MaxEntries \in Nat
  BY SyncConstants
<1>4. /\ ids \subseteq arrived[n] /\ ids \subseteq Ids
      /\ IsFiniteSet(ids) /\ Cardinality(ids) <= MaxEntries
  BY <1>2, <1>3, PurgedFacts, UpToFacts
<1>5. SentMore /\ \E new : New(new, "summary", n, m, ids, 0)
  <2>1. Shape
    BY DEF Inv
  <2>2. Fit("summary", n, m, ids, 0)
    BY <1>4 DEF Fit
  <2> QED
    BY <1>2, <2>1, <2>2, SendFacts
<1>6. PICK new : New(new, "summary", n, m, ids, 0)
  BY <1>5
<1>7. Forward
  BY <1>1, <1>5, SendingForward
<1>8. DOMAIN queue' = Nodes /\ \A k \in Nodes : Keeps(queue[k], arrived[k], settled)'
  BY <1>1, <1>7, PurgedFacts, QueueStep
<1>9. Shape'
  <2>1. Shape /\ DOMAIN queue' = Nodes
    BY <1>8 DEF Inv
  <2> QED
    BY <1>1, <1>5, <2>1 DEF Shape, SentMore
<1>10. PacketOK(new)'
  <2>1. n # m /\ arrived' = arrived /\ now' = now
    BY <1>1
  <2> QED
    BY <1>4, <1>6, <2>1 DEF PacketOK, New
<1>11. \A no \in DOMAIN sent' \ DOMAIN sent : PacketOK(no)'
  <2>1. \A no \in DOMAIN sent' \ DOMAIN sent : no = new
    BY <1>6 DEF New
  <2> QED
    BY <1>10, <2>1
<1> QED
  BY <1>1, <1>7, <1>8, <1>9, <1>11, UnhandledStep

----------------------------------------------------------------------------
(* The replay record when a packet comes in. *)

\* A packet that was handled stands on the record r of its receiver.
OnRecord(r, no) ==
  \E i \in 1 .. Len(r) :
    /\ r[i].no = no /\ r[i].at = handled[no].last
    /\ Len(r) - i <= handled[no].since

\* A record of packets that node n was sent.
RecordOf(r, n) ==
  /\ r \in Seq(Record) /\ Len(r) <= MaxSeen
  /\ \A i \in 1 .. Len(r) : r[i].no \in DOMAIN sent /\ sent[r[i].no].to = n /\ r[i].at <= now

\* A purge takes no packet off the record whose time is not up.
LEMMA KeptWithinRecord ==
  ASSUME Inv, NEW n \in Nodes, NEW age \in Nat
  PROVE  /\ RecordOf(KeptWithin(n, age), n)
         /\ \A no \in DOMAIN handled :
              handled[no].times > 0 /\ sent[no].to = n =>
                \/ handled[no].since >= MaxSeen
                \/ now - handled[no].last > age
                \/ now - handled[no].last > ReplayTtl
                \/ OnRecord(KeptWithin(n, age), no)
<1>1. seen[n] \in Seq(Record) /\ now \in Nat /\ RecordOK(n)
  BY DEF Inv, Shape
<1> DEFINE s == seen[n]
           kept == KeptWithin(n, age)
<1>2. /\ kept \in Seq(Record) /\ Len(kept) <= Len(s)
      /\ \A k \in 1 .. Len(kept) : \E j \in 1 .. Len(s) : kept[k] = s[j]
      /\ \A j \in 1 .. Len(s) :
           now - s[j].at <= age =>
             \E k \in 1 .. Len(kept) : kept[k] = s[j] /\ Len(kept) - k <= Len(s) - j
  BY <1>1, KeptFacts
<1> HIDE DEF kept
<1>3. /\ Len(s) \in Nat /\ DOMAIN s = 1 .. Len(s) /\ Len(s) <= MaxSeen
      /\ \A j \in 1 .. Len(s) : s[j].no \in DOMAIN sent /\ sent[s[j].no].to = n /\ s[j].at <= now
  BY <1>1, RecordsTyped DEF RecordOK
<1>4. RecordOf(kept, n)
  <2>1. Len(kept) \in Nat /\ MaxSeen \in Nat
    BY <1>2, RecordsTyped, SyncConstants
  <2>2. Len(kept) <= MaxSeen
    BY <1>2, <1>3, <2>1
  <2> HIDE DEF s
  <2>3. \A i \in 1 .. Len(kept) :
          kept[i].no \in DOMAIN sent /\ sent[kept[i].no].to = n /\ kept[i].at <= now
    BY <1>2, <1>3
  <2> QED
    BY <1>2, <2>2, <2>3 DEF RecordOf
<1>5. ASSUME NEW no \in DOMAIN handled, handled[no].times > 0, sent[no].to = n,
             ~(handled[no].since >= MaxSeen), ~(now - handled[no].last > age),
             ~(now - handled[no].last > ReplayTtl)
      PROVE  OnRecord(kept, no)
  <2>1. Remembered(no) /\ handled[no].last \in Nat /\ handled[no].since \in Nat
    BY HandledWasSent DEF Inv
  <2>2. PICK j \in DOMAIN s :
          s[j].no = no /\ s[j].at = handled[no].last /\ Len(s) - j <= handled[no].since
    BY <1>5, <2>1 DEF Remembered
  <2> HIDE DEF s
  <2>3. now - s[j].at <= age
    BY <1>1, <1>5, <2>1, <2>2
  <2>4. PICK k \in 1 .. Len(kept) : kept[k] = s[j] /\ Len(kept) - k <= Len(s) - j
    BY <1>2, <1>3, <2>2, <2>3
  <2>5. Len(kept) \in Nat
    BY <1>2, RecordsTyped
  <2>6. Len(kept) - k <= handled[no].since
    BY <1>3, <2>1, <2>2, <2>4, <2>5
  <2> QED
    BY <2>2, <2>4, <2>6 DEF OnRecord
<1> QED
  BY <1>4, <1>5 DEF kept

\* The purge that a packet causes takes off what has lived out its time.
LEMMA KeptRecord ==
  ASSUME Inv, NEW n \in Nodes
  PROVE  /\ RecordOf(Kept(n), n)
         /\ \A no \in DOMAIN handled :
              handled[no].times > 0 /\ sent[no].to = n =>
                \/ handled[no].since >= MaxSeen
                \/ now - handled[no].last > ReplayTtl
                \/ OnRecord(Kept(n), no)
<1>1. Kept(n) = KeptWithin(n, ReplayTtl) /\ ReplayTtl \in Nat
  BY SyncConstants DEF Kept
<1> QED
  BY <1>1, KeptWithinRecord

\* A packet recorded stands last; of the others only one behind which the record
\* is full is pushed out.
LEMMA RecordedFacts ==
  ASSUME Inv, NEW no \in DOMAIN sent, NEW n \in Nodes, sent[no].to = n
  PROVE  LET r == Recorded(n, no)
         IN  /\ RecordOf(r, n)
             /\ Len(r) \in Nat /\ Len(r) \in 1 .. Len(r) /\ r[Len(r)] = [no |-> no, at |-> now]
             /\ \A i \in 1 .. Len(Kept(n)) :
                  \/ Len(Kept(n)) - i + 1 >= MaxSeen
                  \/ \E j \in 1 .. Len(r) :
                       r[j] = Kept(n)[i] /\ Len(r) - j = Len(Kept(n)) - i + 1
<1> DEFINE kept == Kept(n)
           r == Recorded(n, no)
           last == [no |-> no, at |-> now]
<1>1. RecordOf(kept, n) /\ MaxSeen \in Nat \ {0}
  BY KeptRecord, SyncConstants
<1>2. /\ kept \in Seq(Record) /\ Len(kept) \in Nat /\ Len(kept) <= MaxSeen
      /\ \A i \in 1 .. Len(kept) :
           kept[i].no \in DOMAIN sent /\ sent[kept[i].no].to = n /\ kept[i].at <= now
  BY <1>1, RecordsTyped DEF RecordOf
<1>3. last \in Record /\ last.no = no /\ last.at = now /\ now \in Nat
  <2>1. no \in Nat /\ now \in Nat
    BY PacketTyped DEF Inv, Shape
  <2> QED
    BY <2>1 DEF Record
<1>4. r = Append(IF Len(kept) >= MaxSeen THEN Tail(kept) ELSE kept, last)
  BY DEF Recorded
<1> HIDE DEF kept, r, last
<1>5. CASE Len(kept) >= MaxSeen
  <2>1. r = Append(Tail(kept), last) /\ Len(kept) = MaxSeen /\ kept # <<>>
    BY <1>1, <1>2, <1>4, <1>5
  <2>2. /\ r \in Seq(Record) /\ Len(r) = Len(kept) /\ r[Len(r)] = last
        /\ \A j \in 1 .. Len(r) : j # Len(r) => r[j] = kept[j + 1]
    BY <1>2, <1>3, <2>1
  <2>3. \A j \in 1 .. Len(r) : j # Len(r) => j + 1 \in 1 .. Len(kept)
    BY <1>2, <2>2
  <2>4. \A j \in 1 .. Len(r) : r[j].no \in DOMAIN sent /\ sent[r[j].no].to = n /\ r[j].at <= now
    <3> SUFFICES ASSUME NEW j \in 1 .. Len(r)
                 PROVE  r[j].no \in DOMAIN sent /\ sent[r[j].no].to = n /\ r[j].at <= now
      OBVIOUS
    <3>1. CASE j = Len(r)
      BY <1>3, <2>2, <3>1
    <3>2. CASE j # Len(r)
      BY <1>2, <2>2, <2>3, <3>2
    <3> QED
      BY <3>1, <3>2
  <2>5. ASSUME NEW i \in 1 .. Len(kept), ~(Len(kept) - i + 1 >= MaxSeen)
        PROVE  \E j \in 1 .. Len(r) : r[j] = kept[i] /\ Len(r) - j = Len(kept) - i + 1
    <3>1. i - 1 \in 1 .. Len(r) /\ i - 1 # Len(r) /\ (i - 1) + 1 = i
      BY <1>1, <1>2, <2>1, <2>2, <2>5
    <3>2. r[i - 1] = kept[i]
      BY <2>2, <3>1
    <3>3. Len(r) - (i - 1) = Len(kept) - i + 1
      BY <1>2, <2>2
    <3> QED
      BY <3>1, <3>2, <3>3
  <2>6. Len(r) \in Nat /\ Len(r) \in 1 .. Len(r) /\ Len(r) <= MaxSeen
    BY <1>1, <1>2, <2>1, <2>2
  <2>7. RecordOf(r, n)
    BY <2>2, <2>4, <2>6 DEF RecordOf
  <2> QED
    BY <2>2, <2>5, <2>6, <2>7 DEF r, kept, last
<1>6. CASE ~(Len(kept) >= MaxSeen)
  <2>1. r = Append(kept, last)
    BY <1>4, <1>6
  <2>2. /\ r \in Seq(Record) /\ Len(r) = Len(kept) + 1 /\ r[Len(r)] = last
        /\ \A j \in 1 .. Len(kept) : r[j] = kept[j]
    BY <1>2, <1>3, <2>1
  <2>3. \A j \in 1 .. Len(r) : j # Len(r) => j \in 1 .. Len(kept)
    BY <1>2, <2>2
  <2>4. \A j \in 1 .. Len(r) : r[j].no \in DOMAIN sent /\ sent[r[j].no].to = n /\ r[j].at <= now
    <3> SUFFICES ASSUME NEW j \in 1 .. Len(r)
                 PROVE  r[j].no \in DOMAIN sent /\ sent[r[j].no].to = n /\ r[j].at <= now
      OBVIOUS
    <3>1. CASE j = Len(r)
      BY <1>3, <2>2, <3>1
    <3>2. CASE j # Len(r)
      BY <1>2, <2>2, <2>3, <3>2
    <3> QED
      BY <3>1, <3>2
  <2>5. ASSUME NEW i \in 1 .. Len(kept)
        PROVE  \E j \in 1 .. Len(r) : r[j] = kept[i] /\ Len(r) - j = Len(kept) - i + 1
    <3>1. i \in 1 .. Len(r) /\ r[i] = kept[i]
      BY <1>2, <2>2
    <3>2. Len(r) - i = Len(kept) - i + 1
      BY <1>2, <2>2
    <3> QED
      BY <3>1, <3>2
  <2>6. Len(r) \in Nat /\ Len(r) \in 1 .. Len(r) /\ Len(r) <= MaxSeen
    BY <1>1, <1>2, <1>6, <2>2
  <2>7. RecordOf(r, n)
    BY <2>2, <2>4, <2>6 DEF RecordOf
  <2> QED
    BY <2>2, <2>5, <2>6, <2>7 DEF r, kept, last
<1> QED
  BY <1>5, <1>6

----------------------------------------------------------------------------
(* What is remembered of the packets when one comes in. *)

\* The records a step leaves are of packets sent, if what it puts on them is.
LEMMA RecordsStay ==
  ASSUME Inv, Forward, NEW n \in Nodes, NEW r, RecordOf(r, n), seen' = [seen EXCEPT ![n] = r]
  PROVE  seen' \in [Nodes -> Seq(Record)] /\ \A m \in Nodes : RecordOK(m)'
<1>1. seen \in [Nodes -> Seq(Record)] /\ r \in Seq(Record) /\ now \in Nat
  BY DEF Inv, Shape, RecordOf
<1>2. seen'[n] = r /\ \A m \in Nodes \ {n} : seen'[m] = seen[m]
  BY <1>1
<1>3. /\ now' \in Nat /\ now <= now'
      /\ \A k \in DOMAIN sent : k \in DOMAIN sent' /\ sent'[k] = sent[k]
  BY DEF Forward
<1>4. ASSUME NEW m \in Nodes
      PROVE  RecordOK(m)'
  <2>1. CASE m = n
    <3>1. /\ Len(r) <= MaxSeen /\ DOMAIN r = 1 .. Len(r)
          /\ \A i \in 1 .. Len(r) :
               r[i].no \in DOMAIN sent /\ sent[r[i].no].to = n /\ r[i].at <= now /\ r[i].at \in Nat
      BY <1>1, RecordsTyped DEF RecordOf
    <3>2. \A i \in 1 .. Len(r) : r[i].at <= now'
      BY <1>1, <1>3, <3>1
    <3> QED
      BY <1>2, <1>3, <2>1, <3>1, <3>2 DEF RecordOK
  <2>2. CASE m # n
    <3>1. RecordOK(m) /\ seen'[m] = seen[m] /\ seen[m] \in Seq(Record)
      BY <1>1, <1>2, <2>2 DEF Inv
    <3>2. \A i \in DOMAIN seen[m] : seen[m][i].at \in Nat
      BY <3>1, RecordsTyped
    <3>3. \A i \in DOMAIN seen[m] : seen[m][i].at <= now'
      BY <1>1, <1>3, <3>1, <3>2 DEF RecordOK
    <3> QED
      BY <1>3, <3>1, <3>3 DEF RecordOK
  <2> QED
    BY <2>1, <2>2
<1> QED
  BY <1>1, <1>4

\* A step that only purges a record, and counts as pushed out the packets it may
\* have taken off.
LEMMA PurgedRecordStep ==
  ASSUME Inv, NEW n \in Nodes, NEW age \in Nat,
         seen' = [seen EXCEPT ![n] = KeptWithin(n, age)],
         DOMAIN handled' = DOMAIN handled,
         handled' \in [1 .. MaxPackets -> [times : Nat, last : Nat, since : Nat, whole : BOOLEAN]],
         \A no \in DOMAIN handled :
           /\ handled'[no].times = handled[no].times /\ handled'[no].last = handled[no].last
           /\ handled'[no].whole = handled[no].whole
           /\ \/ handled'[no].since = MaxSeen
              \/ /\ handled'[no].since = handled[no].since
                 /\ \/ ~(handled[no].times > 0) \/ sent[no].to # n
                    \/ ~(now - handled[no].last > age) \/ now - handled[no].last > ReplayTtl,
         UNCHANGED <<queue, session, sent, arrived, settled, refused, now>>
  PROVE  Inv'
<1>1. Forward
  BY DEF Inv, Shape, Forward
<1>2. RecordOf(KeptWithin(n, age), n)
  BY KeptWithinRecord
<1>3. seen' \in [Nodes -> Seq(Record)] /\ \A m \in Nodes : RecordOK(m)'
  BY <1>1, <1>2, RecordsStay
<1>4. Shape'
  BY <1>3 DEF Inv, Shape
<1>5. \A k \in Nodes : Keeps(queue[k], arrived[k], settled)'
  BY <1>1, OthersKeep
<1>6. \A no \in DOMAIN sent' : PacketOK(no)'
  BY <1>1, PacketStays
<1>7. ASSUME NEW no \in DOMAIN handled
      PROVE  Remembered(no)'
  <2>1. /\ Remembered(no) /\ handled[no].last \in Nat
        /\ handled'[no].times = handled[no].times /\ handled'[no].last = handled[no].last
        /\ handled'[no].whole = handled[no].whole
        /\ sent' = sent /\ now' = now
    BY HandledWasSent DEF Inv
  <2>2. MaxSeen >= MaxSeen
    BY SyncConstants
  <2>3. CASE handled'[no].since = MaxSeen
    BY <2>1, <2>2, <2>3 DEF Remembered
  <2>4. CASE ~(handled[no].times > 0)
    BY <2>1, <2>4 DEF Remembered
  <2>5. CASE handled[no].times > 0 /\ handled'[no].since = handled[no].since /\ sent[no].to # n
    <3>1. seen'[sent[no].to] = seen[sent[no].to]
      <4>1. sent[no].to \in Nodes
        BY <2>1, <2>5, PacketTyped DEF Remembered, Inv
      <4> QED
        BY <2>5, <4>1 DEF Inv, Shape
    <3> QED
      BY <2>1, <2>5, <3>1 DEF Remembered
  <2>6. CASE /\ handled[no].times > 0 /\ handled'[no].since = handled[no].since /\ sent[no].to = n
             /\ ~(now - handled[no].last > age) \/ now - handled[no].last > ReplayTtl
    <3>1. \/ handled[no].since >= MaxSeen
          \/ now - handled[no].last > ReplayTtl
          \/ OnRecord(KeptWithin(n, age), no)
      BY <2>6, KeptWithinRecord
    <3>2. DOMAIN KeptWithin(n, age) = 1 .. Len(KeptWithin(n, age))
      BY <1>2, RecordsTyped DEF RecordOf
    <3>3. seen'[n] = KeptWithin(n, age)
      BY DEF Inv, Shape
    <3> QED
      BY <2>1, <2>6, <3>1, <3>2, <3>3 DEF Remembered, OnRecord
  <2> QED
    BY <2>3, <2>4, <2>5, <2>6
<1>8. ASSUME NEW no \in DOMAIN handled, handled[no].whole
      PROVE  Done(no)'
  BY <1>1, <1>8, HandledWasSent, DoneStays DEF Inv
<1> QED
  BY <1>3, <1>4, <1>5, <1>6, <1>7, <1>8 DEF Inv

\* A packet refused as a replay, or for its session, only has the record purged.
LEMMA ReplayedStep ==
  ASSUME Inv, NEW n \in Nodes, seen' = [seen EXCEPT ![n] = Kept(n)],
         UNCHANGED <<queue, session, sent, handled, arrived, settled, refused, now>>
  PROVE  Inv'
<1>1. Kept(n) = KeptWithin(n, ReplayTtl) /\ ReplayTtl \in Nat
  BY SyncConstants DEF Kept
<1>2. handled' \in [1 .. MaxPackets -> [times : Nat, last : Nat, since : Nat, whole : BOOLEAN]]
  BY DEF Inv, Shape
<1> QED
  BY <1>1, <1>2, PurgedRecordStep

\* A purge that a caller asks for.
LEMMA PurgeReplayStep ==
  ASSUME Inv, NEW n \in Nodes, NEW age \in Nat, PurgeReplayRecords(n, age)
  PROVE  /\ Inv'
         /\ \A no \in DOMAIN handled : handled'[no].times = handled[no].times
<1> DEFINE forgotten(no) ==
             handled[no].times > 0 /\ sent[no].to = n /\ now - handled[no].last > age
           H == [times : Nat, last : Nat, since : Nat, whole : BOOLEAN]
<1>1. /\ DOMAIN handled = 1 .. MaxPackets
      /\ \A no \in DOMAIN handled : handled[no] \in H
      /\ MaxSeen \in Nat
  BY SyncConstants DEF Inv, Shape
<1>2. handled' = [no \in DOMAIN handled |->
                   IF forgotten(no) THEN [handled[no] EXCEPT !.since = MaxSeen] ELSE handled[no]]
  BY DEF PurgeReplayRecords
<1> HIDE DEF forgotten
<1>3. ASSUME NEW no \in DOMAIN handled
      PROVE  /\ handled'[no] \in H
             /\ handled'[no].times = handled[no].times /\ handled'[no].last = handled[no].last
             /\ handled'[no].whole = handled[no].whole
             /\ handled'[no].since = IF forgotten(no) THEN MaxSeen ELSE handled[no].since
  BY <1>1, <1>2
<1>4. DOMAIN handled' = DOMAIN handled /\ handled' \in [1 .. MaxPackets -> H]
  BY <1>1, <1>2, <1>3
<1>5. \A no \in DOMAIN handled :
        \/ handled'[no].since = MaxSeen
        \/ /\ handled'[no].since = handled[no].since
           /\ \/ ~(handled[no].times > 0) \/ sent[no].to # n
              \/ ~(now - handled[no].last > age) \/ now - handled[no].last > ReplayTtl
  BY <1>3 DEF forgotten
<1>6. /\ seen' = [seen EXCEPT ![n] = KeptWithin(n, age)]
      /\ UNCHANGED <<queue, session, sent, arrived, settled, refused, now>>
  BY DEF PurgeReplayRecords
<1>7. \A no \in DOMAIN handled :
        /\ handled'[no].times = handled[no].times /\ handled'[no].last = handled[no].last
        /\ handled'[no].whole = handled[no].whole
        /\ \/ handled'[no].since = MaxSeen
           \/ /\ handled'[no].since = handled[no].since
              /\ \/ ~(handled[no].times > 0) \/ sent[no].to # n
                 \/ ~(now - handled[no].last > age) \/ now - handled[no].last > ReplayTtl
  BY <1>3, <1>5
<1>8. Inv'
  BY <1>4, <1>6, <1>7, PurgedRecordStep
<1> QED
  BY <1>3, <1>8

\* What is remembered of each packet when no is handled.
LEMMA CountHandlingFacts ==
  ASSUME Inv, NEW no \in DOMAIN sent, NEW whole \in BOOLEAN
  PROVE  LET h == CountHandling(no, whole)
         IN  /\ no \in DOMAIN handled /\ DOMAIN h = DOMAIN handled
             /\ h \in [1 .. MaxPackets -> [times : Nat, last : Nat, since : Nat, whole : BOOLEAN]]
             /\ h[no].times = handled[no].times + 1 /\ h[no].last = now /\ h[no].since = 0
             /\ h[no].whole = (whole \/ handled[no].whole)
             /\ \A k \in DOMAIN handled \ {no} :
                  /\ h[k].times = handled[k].times /\ h[k].last = handled[k].last
                  /\ h[k].whole = handled[k].whole
                  /\ h[k].since =
                       IF k \in DOMAIN sent /\ sent[k].to = sent[no].to
                          /\ handled[k].times > 0 /\ handled[k].since < MaxSeen
                         THEN handled[k].since + 1 ELSE handled[k].since
<1> DEFINE h == CountHandling(no, whole)
           H == [times : Nat, last : Nat, since : Nat, whole : BOOLEAN]
           new == [times |-> handled[no].times + 1, last |-> now, since |-> 0,
                   whole |-> whole \/ handled[no].whole]
           one(k) == k \in DOMAIN sent /\ sent[k].to = sent[no].to
                       /\ handled[k].times > 0 /\ handled[k].since < MaxSeen
<1>1. handled \in [1 .. MaxPackets -> H] /\ now \in Nat /\ no \in DOMAIN handled
  BY PacketTyped DEF Inv, Shape
<1>2. h = [k \in DOMAIN handled |->
            IF k = no THEN new
            ELSE IF one(k) THEN [handled[k] EXCEPT !.since = @ + 1] ELSE handled[k]]
  BY DEF CountHandling
<1>3. handled[no] \in H
  BY <1>1
<1>4. new \in H
  BY <1>1, <1>3
<1>5. ASSUME NEW k \in DOMAIN handled
      PROVE  handled[k] \in H /\ [handled[k] EXCEPT !.since = @ + 1] \in H
  BY <1>1
<1> HIDE DEF h, one
<1>6. ASSUME NEW k \in DOMAIN handled \ {no}
      PROVE  /\ h[k] \in H
             /\ h[k].times = handled[k].times /\ h[k].last = handled[k].last
             /\ h[k].whole = handled[k].whole
             /\ h[k].since = IF one(k) THEN handled[k].since + 1 ELSE handled[k].since
  <2>1. h[k] = IF one(k) THEN [handled[k] EXCEPT !.since = @ + 1] ELSE handled[k]
    BY <1>2, <1>6
  <2> QED
    BY <1>5, <1>6, <2>1
<1>7. h[no] = new
  BY <1>1, <1>2
<1>8. h \in [1 .. MaxPackets -> H]
  <2>1. DOMAIN h = 1 .. MaxPackets /\ h = [k \in DOMAIN h |-> h[k]]
    BY <1>1, <1>2
  <2>2. \A k \in 1 .. MaxPackets : h[k] \in H
    BY <1>1, <1>4, <1>6, <1>7
  <2> HIDE DEF H
  <2> QED
    BY <2>1, <2>2
<1> QED
  BY <1>1, <1>2, <1>6, <1>7, <1>8 DEF h, one

\* A packet handled comes onto its receiver's record, and the others stay there
\* or are pushed out by as many as the record holds.
LEMMA HandledRemembered ==
  ASSUME Inv, Forward, NEW no \in DOMAIN sent, NEW n \in Nodes, sent[no].to = n,
         NEW whole \in BOOLEAN, now' = now,
         seen' = [seen EXCEPT ![n] = Recorded(n, no)], handled' = CountHandling(no, whole)
  PROVE  \A k \in DOMAIN handled : Remembered(k)'
<1> DEFINE r == Recorded(n, no)
           kept == Kept(n)
           h == CountHandling(no, whole)
<1>1. /\ RecordOf(r, n) /\ Len(r) \in Nat
      /\ Len(r) \in 1 .. Len(r) /\ r[Len(r)] = [no |-> no, at |-> now]
      /\ \A i \in 1 .. Len(kept) :
           \/ Len(kept) - i + 1 >= MaxSeen
           \/ \E j \in 1 .. Len(r) : r[j] = kept[i] /\ Len(r) - j = Len(kept) - i + 1
  BY RecordedFacts
<1>2. r \in Seq(Record) /\ DOMAIN r = 1 .. Len(r)
  BY <1>1, RecordsTyped DEF RecordOf
<1>3. /\ no \in DOMAIN handled
      /\ h[no].times = handled[no].times + 1 /\ h[no].last = now /\ h[no].since = 0
      /\ \A k \in DOMAIN handled \ {no} :
           /\ h[k].times = handled[k].times /\ h[k].last = handled[k].last
           /\ h[k].whole = handled[k].whole
           /\ h[k].since =
                IF k \in DOMAIN sent /\ sent[k].to = n
                   /\ handled[k].times > 0 /\ handled[k].since < MaxSeen
                  THEN handled[k].since + 1 ELSE handled[k].since
  BY CountHandlingFacts
<1> HIDE DEF r, h
<1>4. handled' = h /\ seen' = [seen EXCEPT ![n] = r]
  BY DEF r, h
<1>5. seen \in [Nodes -> Seq(Record)] /\ now \in Nat
  BY DEF Inv, Shape
<1>6. seen'[n] = r /\ \A m \in Nodes \ {n} : seen'[m] = seen[m]
  BY <1>4, <1>5
<1>7. \A k \in DOMAIN sent : k \in DOMAIN sent' /\ sent'[k] = sent[k]
  BY DEF Forward
<1>8. Remembered(no)'
  <2>1. handled[no].times \in Nat
    BY <1>3, HandledWasSent
  <2>2. h[no].times > 0 /\ h[no].last <= now
    BY <1>3, <1>5, <2>1
  <2>3. \E i \in DOMAIN r : r[i].no = no /\ r[i].at = h[no].last /\ Len(r) - i <= h[no].since
    <3>1. Len(r) - Len(r) <= 0
      BY <1>1
    <3> QED
      BY <1>1, <1>2, <1>3, <3>1
  <2> QED
    BY <1>4, <1>6, <1>7, <2>2, <2>3 DEF Remembered
<1>9. ASSUME NEW k \in DOMAIN handled \ {no}
      PROVE  Remembered(k)'
  <2>1. /\ Remembered(k) /\ handled[k].since \in Nat /\ handled[k].last \in Nat
        /\ handled[k].times > 0 => k \in DOMAIN sent /\ sent[k].to \in Nodes
    BY HandledWasSent, PacketTyped DEF Inv
  <2>2. CASE ~(handled[k].times > 0)
    BY <1>3, <1>4, <2>1, <2>2 DEF Remembered
  <2>3. CASE handled[k].times > 0 /\ sent[k].to # n
    <3>1. h[k].since = handled[k].since
      BY <1>3, <2>3
    <3>2. seen'[sent[k].to] = seen[sent[k].to] /\ sent'[k] = sent[k] /\ k \in DOMAIN sent'
      BY <1>6, <1>7, <2>1, <2>3
    <3> QED
      BY <1>3, <1>4, <2>1, <2>3, <3>1, <3>2 DEF Remembered
  <2>4. CASE handled[k].times > 0 /\ sent[k].to = n
    <3>1. \/ handled[k].since >= MaxSeen
          \/ now - handled[k].last > ReplayTtl
          \/ handled[k].since < MaxSeen /\ OnRecord(kept, k)
      BY <2>1, <2>4, KeptRecord, SyncConstants
    <3>2. \/ h[k].since >= MaxSeen
          \/ now - h[k].last > ReplayTtl
          \/ \E j \in DOMAIN r : r[j].no = k /\ r[j].at = h[k].last /\ Len(r) - j <= h[k].since
      <4>1. CASE handled[k].since >= MaxSeen
        <5>1. ~(handled[k].since < MaxSeen)
          BY <2>1, <4>1, SyncConstants
        <5> QED
          BY <1>3, <4>1, <5>1
      <4>2. CASE now - handled[k].last > ReplayTtl
        BY <1>3, <4>2
      <4>3. CASE handled[k].since < MaxSeen /\ OnRecord(kept, k)
        <5>1. h[k].since = handled[k].since + 1
          BY <1>3, <2>1, <2>4, <4>3
        <5>2. PICK i \in 1 .. Len(kept) :
                 /\ kept[i].no = k /\ kept[i].at = handled[k].last
                 /\ Len(kept) - i <= handled[k].since
          BY <4>3 DEF OnRecord
        <5>3. Len(kept) \in Nat
          BY KeptRecord, RecordsTyped DEF RecordOf
        <5> HIDE DEF kept
        <5>4. Len(kept) - i + 1 <= h[k].since
          BY <2>1, <5>1, <5>2, <5>3
        <5>5. CASE Len(kept) - i + 1 >= MaxSeen
          BY <2>1, <5>1, <5>3, <5>4, <5>5, SyncConstants
        <5>6. CASE \E j \in 1 .. Len(r) : r[j] = kept[i] /\ Len(r) - j = Len(kept) - i + 1
          BY <1>2, <1>3, <5>2, <5>4, <5>6
        <5> QED
          BY <1>1, <5>5, <5>6
      <4> QED
        BY <3>1, <4>1, <4>2, <4>3
    <3>3. h[k].whole => h[k].times > 0
      BY <1>3, <2>4
    <3>4. /\ handled'[k] = h[k] /\ k \in DOMAIN sent' /\ sent'[k].to = n /\ seen'[n] = r
          /\ h[k].last <= now
      BY <1>3, <1>4, <1>6, <1>7, <2>1, <2>4 DEF Remembered
    <3> QED
      BY <3>2, <3>3, <3>4 DEF Remembered
  <2> QED
    BY <2>2, <2>3, <2>4
<1> QED
  BY <1>8, <1>9
\* What a step that handles packet no does to the record of its receiver.
Handling(no, whole) ==
  /\ seen' = [seen EXCEPT ![sent[no].to] = Recorded(sent[no].to, no)]
  /\ handled' = CountHandling(no, whole)
  /\ UNCHANGED <<session, now>>

\* A packet handled leaves what is said of the packets true, if it gives up
\* nothing, sends what it may, and has done its work when handled to the end.
LEMMA HandledStep ==
  ASSUME Inv, Forward, NEW no \in DOMAIN sent, NEW whole \in BOOLEAN, Handling(no, whole),
         DOMAIN queue' = Nodes, sent' \in Seq(Packet), Len(sent') <= MaxPackets,
         arrived' \in [Nodes -> SUBSET Ids], refused' \in [Nodes -> SUBSET Ids],
         settled' \in SUBSET Ids,
         \A k \in Nodes : Keeps(queue[k], arrived[k], settled)',
         \A k \in DOMAIN sent' \ DOMAIN sent : PacketOK(k)',
         whole => Done(no)'
  PROVE  Inv'
<1> DEFINE n == sent[no].to
<1>1. n \in Nodes /\ now' = now /\ session' = session
  BY PacketTyped DEF Inv, Handling
<1>2. RecordOf(Recorded(n, no), n)
  BY <1>1, RecordedFacts
<1>3. seen' \in [Nodes -> Seq(Record)] /\ \A m \in Nodes : RecordOK(m)'
  BY <1>1, <1>2, RecordsStay DEF Handling
<1>4. /\ handled' \in [1 .. MaxPackets -> [times : Nat, last : Nat, since : Nat, whole : BOOLEAN]]
      /\ DOMAIN handled' = DOMAIN handled
      /\ handled'[no].whole = (whole \/ handled[no].whole)
      /\ \A k \in DOMAIN handled \ {no} : handled'[k].whole = handled[k].whole
      /\ no \in DOMAIN handled
  BY CountHandlingFacts DEF Handling
<1>5. Shape'
  BY <1>1, <1>3, <1>4 DEF Inv, Shape
<1>6. \A k \in DOMAIN handled' : Remembered(k)'
  BY <1>1, <1>4, HandledRemembered DEF Handling
<1>7. \A k \in DOMAIN sent' : PacketOK(k)'
  BY PacketStays
<1>8. ASSUME NEW k \in DOMAIN handled', handled'[k].whole
      PROVE  Done(k)'
  <2>1. CASE k = no /\ whole
    BY <2>1
  <2>2. CASE ~(k = no /\ whole)
    <3>1. k \in DOMAIN handled /\ handled[k].whole
      BY <1>4, <1>8, <2>2
    <3> QED
      BY <3>1, HandledWasSent, DoneStays DEF Inv
  <2> QED
    BY <2>1, <2>2
<1> QED
  BY <1>3, <1>5, <1>6, <1>7, <1>8 DEF Inv

----------------------------------------------------------------------------
(* The three kinds of packet. *)

\* A summary is answered with a request for what is missing.
LEMMA SummaryStep ==
  ASSUME Inv, NEW no \in DOMAIN sent, sent[no].kind = "summary", Handling(no, TRUE),
         HandleSummary(no, sent[no])
  PROVE  Inv'
<1> DEFINE p == sent[no]
           n == p.to
           q == IF p.content = {} THEN queue[n] ELSE Purged(n)
           held == DOMAIN Purged(n).entries
           missing == Missing(n, p.content)
<1>1. /\ n \in Nodes /\ p.from \in Nodes /\ no \in Nat \ {0} /\ now' = now
      /\ n # p.from /\ Shape
  BY PacketTyped DEF Inv, Handling, PacketOK
<1>2. /\ IsFiniteSet(p.content) /\ Cardinality(p.content) <= MaxEntries
      /\ p.content \subseteq Ids
  <2>1. PacketOK(no) /\ arrived[p.from] \subseteq Ids
    BY <1>1 DEF Inv, Shape
  <2> QED
    BY <2>1 DEF PacketOK
<1>3. /\ queue' = [queue EXCEPT ![n] = q]
      /\ UNCHANGED <<arrived, settled, refused, now>>
  BY <1>1 DEF HandleSummary
<1>4. /\ Keeps(q, arrived[n], settled)
      /\ held \subseteq arrived[n]
      /\ missing = p.content \ held
  BY <1>1, PurgedFacts DEF Inv, Missing
<1>5. CASE missing = {}
  <2>1. sent' = sent
    BY <1>5 DEF HandleSummary
  <2>2. Forward
    BY <1>1, <1>3, <2>1 DEF Forward, Shape
  <2> HIDE DEF q
  <2>3. DOMAIN queue' = Nodes /\ \A k \in Nodes : Keeps(queue[k], arrived[k], settled)'
    BY <1>1, <1>3, <1>4, <2>2, QueueStep
  <2>4. p.content \subseteq arrived[n]
    BY <1>4, <1>5
  <2>5. Done(no)'
    BY <1>3, <2>1, <2>4 DEF Done
  <2>6. DOMAIN sent' \ DOMAIN sent = {}
    BY <2>1
  <2> QED
    BY <1>1, <1>3, <2>1, <2>2, <2>3, <2>5, <2>6, HandledStep DEF Shape
<1>6. CASE missing # {}
  <2>1. PICK ids \in UpTo(MaxEntries, missing) : Send("request", n, p.from, ids, no)
    BY <1>6 DEF HandleSummary
  <2>2. ids = missing /\ IsFiniteSet(ids)
    <3>1. /\ IsFiniteSet(missing) /\ Cardinality(missing) <= Cardinality(p.content)
      BY <1>2, <1>4, FS_Subset
    <3>2. Cardinality(missing) \in Nat /\ Cardinality(p.content) \in Nat /\ MaxEntries \in Nat
      BY <1>2, <3>1, FS_CardinalityType, SyncConstants
    <3>3. Cardinality(missing) <= MaxEntries
      BY <1>2, <3>1, <3>2
    <3> HIDE DEF missing
    <3> QED
      BY <2>1, <3>1, <3>2, <3>3, UpToFacts
  <2>3. Fit("request", n, p.from, ids, no)
    BY <1>1, <1>2, <1>4, <2>2 DEF Fit
  <2>4. SentMore /\ \E new : New(new, "request", n, p.from, ids, no)
    BY <1>1, <2>1, <2>3, SendFacts
  <2>5. PICK new : New(new, "request", n, p.from, ids, no)
    BY <2>4
  <2>6. Forward
    BY <1>3, <2>4, SendingForward
  <2> HIDE DEF q
  <2>7. DOMAIN queue' = Nodes /\ \A k \in Nodes : Keeps(queue[k], arrived[k], settled)'
    BY <1>1, <1>3, <1>4, <2>6, QueueStep
  <2>8. sent'[no] = p /\ no \in DOMAIN sent'
    BY <2>6 DEF Forward
  <2>9. PacketOK(new)'
    <3>1. ids \subseteq p.content
      BY <1>4, <2>2
    <3> QED
      BY <1>1, <2>2, <2>5, <2>8, <3>1 DEF New, PacketOK
  <2>10. Done(no)'
    <3>1. /\ new \in DOMAIN sent' /\ sent'[new].cause = no /\ sent'[new].kind = "request"
          /\ sent'[new].content = ids
      BY <2>5 DEF New
    <3>2. \A id \in p.content : id \in arrived'[n] \/ id \in sent'[new].content
      BY <1>3, <1>4, <2>2, <3>1
    <3> QED
      BY <2>8, <3>1, <3>2 DEF Done
  <2>11. \A k \in DOMAIN sent' \ DOMAIN sent : PacketOK(k)'
    <3>1. \A k \in DOMAIN sent' \ DOMAIN sent : k = new
      BY <2>5 DEF New
    <3> QED
      BY <2>9, <3>1
  <2> QED
    BY <1>1, <1>3, <2>4, <2>6, <2>7, <2>10, <2>11, HandledStep DEF Shape, SentMore
<1> QED
  BY <1>5, <1>6
\* The envelopes a queue hands over: each under its own id, finitely many.
LEMMA HandedOver ==
  ASSUME NEW q, Sound(q), NEW ids \in SUBSET DOMAIN q.entries, IsFiniteSet(ids)
  PROVE  LET S == {q.entries[id].envelope : id \in ids}
         IN  /\ S \subseteq Envelopes /\ IsFiniteSet(S)
             /\ \A e \in S : e.id \in ids
             /\ \A id \in ids : \E e \in S : e.id = id
<1> DEFINE S == {q.entries[id].envelope : id \in ids}
           f == [id \in ids |-> q.entries[id].envelope]
<1>1. \A id \in ids : q.entries[id].envelope \in Envelopes /\ q.entries[id].envelope.id = id
  BY EnvelopeOfId
<1>2. f \in Surjection(ids, S)
  BY DEF Surjection
<1>3. IsFiniteSet(S)
  <2> HIDE DEF f, S
  <2> QED
    BY <1>2, FS_Surjection
<1> QED
  BY <1>1, <1>3

\* A request is answered with a transfer of what the node still holds.
LEMMA RequestStep ==
  ASSUME Inv, NEW no \in DOMAIN sent, sent[no].kind = "request", Handling(no, TRUE),
         HandleRequest(no, sent[no])
  PROVE  Inv'
<1> DEFINE p == sent[no]
           n == p.to
           q == Purged(n)
           held == p.content \cap DOMAIN q.entries
<1>1. /\ n \in Nodes /\ p.from \in Nodes /\ no \in Nat \ {0} /\ now' = now
      /\ n # p.from /\ Shape /\ IsFiniteSet(p.content)
  BY PacketTyped DEF Inv, Handling, PacketOK
<1>2. PICK ids \in UpTo(MaxTransfer, held) :
        /\ Send("transfer", n, p.from, {q.entries[id].envelope : id \in ids}, no)
        /\ queue' = [queue EXCEPT ![n] = AfterTransfer(q, ids)]
  BY DEF HandleRequest
<1> DEFINE envelopes == {q.entries[id].envelope : id \in ids}
<1>3. queue' = [queue EXCEPT ![n] = q] /\ UNCHANGED <<arrived, settled, refused, now>>
  BY <1>1, <1>2 DEF HandleRequest, AfterTransfer
<1>4. /\ Keeps(q, arrived[n], settled) /\ DOMAIN q.entries \subseteq arrived[n]
      /\ p.content \subseteq arrived[n]
  BY <1>1, PurgedFacts, RequestedArrived
<1> HIDE DEF q
<1>5. /\ ids \subseteq held /\ IsFiniteSet(ids)
      /\ Cardinality(held) <= MaxTransfer => ids = held
      /\ Cardinality(held) \in Nat /\ Cardinality(p.content) \in Nat /\ MaxTransfer \in Nat
      /\ Cardinality(held) <= Cardinality(p.content)
  <2>1. IsFiniteSet(held) /\ Cardinality(held) <= Cardinality(p.content)
    BY <1>1, FS_Subset
  <2>2. MaxTransfer \in Nat
    BY SyncConstants
  <2> HIDE DEF held
  <2> QED
    BY <1>1, <1>2, <2>1, <2>2, FS_CardinalityType, UpToFacts
<1>6. /\ envelopes \subseteq Envelopes /\ IsFiniteSet(envelopes)
      /\ \A e \in envelopes : e.id \in ids
      /\ \A id \in ids : \E e \in envelopes : e.id = id
  BY <1>4, <1>5, HandedOver DEF Keeps
<1> HIDE DEF envelopes
<1>7. SentMore /\ \E new : New(new, "transfer", n, p.from, envelopes, no)
  <2>1. Fit("transfer", n, p.from, envelopes, no)
    BY <1>1, <1>6 DEF Fit
  <2> QED
    BY <1>1, <1>2, <2>1, SendFacts DEF envelopes
<1>8. PICK new : New(new, "transfer", n, p.from, envelopes, no)
  BY <1>7
<1>9. Forward
  BY <1>3, <1>7, SendingForward
<1>10. DOMAIN queue' = Nodes /\ \A k \in Nodes : Keeps(queue[k], arrived[k], settled)'
  BY <1>1, <1>3, <1>4, <1>9, QueueStep
<1>11. sent'[no] = p /\ no \in DOMAIN sent'
  BY <1>9 DEF Forward
<1>12. PacketOK(new)'
  <2>1. \A e \in envelopes : e.id \in arrived'[n]
    BY <1>3, <1>4, <1>5, <1>6
  <2> QED
    BY <1>1, <1>6, <1>8, <1>11, <2>1 DEF New, PacketOK
<1>13. Done(no)'
  <2>1. /\ new \in DOMAIN sent' /\ sent'[new].cause = no /\ sent'[new].kind = "transfer"
        /\ sent'[new].content = envelopes
    BY <1>8 DEF New
  <2>2. ASSUME NEW e \in Envelopes, e.id \in p.content
        PROVE  \/ e.id \in settled' \/ Gone(e)'
               \/ \E f \in sent'[new].content : f.id = e.id
               \/ Cardinality(p.content) > MaxTransfer
    <3>1. e.id \in settled \/ e.id \in DOMAIN q.entries \/ Gone(e)
      BY <1>4, <2>2 DEF Keeps
    <3>2. CASE e.id \in settled
      BY <1>3, <3>2
    <3>3. CASE Gone(e)
      BY <1>3, <3>3 DEF Gone, ValidRoutingHeader
    <3>4. CASE e.id \in DOMAIN q.entries
      <4>1. CASE Cardinality(held) <= MaxTransfer
        BY <1>5, <1>6, <2>1, <2>2, <3>4, <4>1
      <4>2. CASE ~(Cardinality(held) <= MaxTransfer)
        BY <1>5, <4>2
      <4> QED
        BY <4>1, <4>2
    <3> QED
      BY <3>1, <3>2, <3>3, <3>4
  <2> QED
    BY <1>11, <2>1, <2>2 DEF Done
<1>14. \A k \in DOMAIN sent' \ DOMAIN sent : PacketOK(k)'
  <2>1. \A k \in DOMAIN sent' \ DOMAIN sent : k = new
    BY <1>8 DEF New
  <2> QED
    BY <1>12, <2>1
<1> QED
  BY <1>1, <1>3, <1>7, <1>9, <1>10, <1>13, <1>14, HandledStep DEF Shape, SentMore
\* An order of a finite set has each of its elements, and no more.
LEMMA OrderFacts ==
  ASSUME NEW S, IsFiniteSet(S), NEW order \in SetToSeqs(S)
  PROVE  /\ Cardinality(S) \in Nat /\ Len(order) = Cardinality(S)
         /\ \A j \in 1 .. Cardinality(S) : order[j] \in S
         /\ \A e \in S : \E j \in 1 .. Cardinality(S) : order[j] = e
<1> DEFINE D == 1 .. Cardinality(S)
<1>1. Cardinality(S) \in Nat
  BY FS_CardinalityType
<1>2. IsFiniteSet(D) /\ Cardinality(D) = Cardinality(S)
  <2>1. Cardinality(D) = IF 1 > Cardinality(S) THEN 0 ELSE Cardinality(S) - 1 + 1
    BY <1>1, FS_Interval
  <2> QED
    BY <1>1, <2>1, FS_Interval
<1>3. order \in [D -> S] /\ \A i, j \in D : i # j => order[i] # order[j]
  BY DEF SetToSeqs
<1>4. order \in Seq(S) /\ Len(order) = Cardinality(S)
  BY <1>1, <1>3
<1>5. order \in Injection(D, S)
  <2> HIDE DEF D
  <2> QED
    BY <1>3 DEF Injection, IsInjective
<1>6. order \in Surjection(D, S)
  <2> HIDE DEF D
  <2> QED
    BY <1>2, <1>5, FS_Injection
<1>7. \A e \in S : \E j \in D : order[j] = e
  <2> HIDE DEF D
  <2> QED
    BY <1>6 DEF Surjection
<1> QED
  BY <1>1, <1>3, <1>4, <1>7

\* The envelopes of a transfer are taken one after the other, as far as it goes.
LEMMA TransferStep ==
  ASSUME Inv, NEW no \in DOMAIN sent, sent[no].kind = "transfer", NEW whole \in BOOLEAN,
         Handling(no, whole), HandleTransfer(sent[no], whole)
  PROVE  Inv'
<1> DEFINE p == sent[no]
           n == p.to
           before == [queue |-> queue[n], arrived |-> arrived[n],
                      settled |-> settled, refused |-> refused[n]]
<1>1. /\ n \in Nodes /\ p.from \in Nodes /\ p.from \in Senders /\ now' = now /\ now \in Nat
      /\ Shape /\ IsFiniteSet(p.content) /\ p.content \subseteq Envelopes
  BY PacketTyped, SyncConstants DEF Inv, Handling, PacketOK, Shape
<1>2. PICK order \in SetToSeqs(p.content), onward \in SUBSET {e.id : e \in p.content},
           last \in 0 .. Cardinality(p.content) :
        LET after[i \in 0 .. last] ==
              IF i = 0 THEN before ELSE Take(after[i - 1], order[i], n, p.from, onward)
        IN  /\ IF whole THEN last = Len(order) ELSE last > 0 /\ order[last].dest = n
            /\ queue' = [queue EXCEPT ![n] = after[last].queue]
            /\ arrived' = [arrived EXCEPT ![n] = after[last].arrived]
            /\ refused' = [refused EXCEPT ![n] = after[last].refused]
            /\ settled' = after[last].settled
            /\ sent' = sent
  BY DEF HandleTransfer
<1> DEFINE F == CHOOSE F : IsTaking(F, order, before, n, p.from, onward, last)
           b == F[last]
<1>3. /\ queue' = [queue EXCEPT ![n] = b.queue] /\ arrived' = [arrived EXCEPT ![n] = b.arrived]
      /\ refused' = [refused EXCEPT ![n] = b.refused] /\ settled' = b.settled /\ sent' = sent
      /\ whole => last = Len(order)
  BY <1>2 DEF IsTaking
<1>4. /\ last \in Nat /\ Len(order) = Cardinality(p.content)
      /\ \A j \in 1 .. last : order[j] \in Envelopes
      /\ \A e \in p.content : \E j \in 1 .. Len(order) : order[j] = e
  <2>1. /\ Cardinality(p.content) \in Nat /\ Len(order) = Cardinality(p.content)
        /\ \A j \in 1 .. Cardinality(p.content) : order[j] \in p.content
        /\ \A e \in p.content : \E j \in 1 .. Cardinality(p.content) : order[j] = e
    <3> HIDE DEF p, F, before
    <3> QED
      BY <1>1, OrderFacts
  <2>2. last \in Nat /\ \A j \in 1 .. last : j \in 1 .. Cardinality(p.content)
    BY <2>1
  <2> QED
    BY <1>1, <2>1, <2>2
<1>5. Holds(before)
  <2>1. /\ arrived[n] \in SUBSET Ids /\ refused[n] \in SUBSET Ids /\ settled \in SUBSET Ids
        /\ Keeps(queue[n], arrived[n], settled)
    BY <1>1 DEF Inv, Shape
  <2> QED
    BY <2>1 DEF Holds
<1> HIDE DEF before
<1>6. IsTaking(F, order, before, n, p.from, onward, last)
  BY <1>4, TakingExists
<1> HIDE DEF F
<1>7. TakenOf(F, order, before, last)
  BY <1>1, <1>4, <1>5, <1>6, TakingFacts
<1>8. Holds(b) /\ Grown(before, b) /\ \A j \in 1 .. last : Reached(b, order[j])
  BY <1>7 DEF TakenOf
<1> HIDE DEF b
<1>9. /\ b.arrived \in SUBSET Ids /\ b.settled \in SUBSET Ids /\ b.refused \in SUBSET Ids
      /\ Keeps(b.queue, b.arrived, b.settled)
  BY <1>8 DEF Holds
<1>10. /\ DOMAIN queue' = Nodes /\ queue'[n] = b.queue
       /\ arrived' \in [Nodes -> SUBSET Ids] /\ arrived'[n] = b.arrived
       /\ refused' \in [Nodes -> SUBSET Ids] /\ refused'[n] = b.refused
       /\ \A k \in Nodes \ {n} :
            queue'[k] = queue[k] /\ arrived'[k] = arrived[k] /\ refused'[k] = refused[k]
  BY <1>1, <1>3, <1>9 DEF Shape
<1>11. Forward
  <2>1. arrived[n] \subseteq b.arrived /\ refused[n] \subseteq b.refused /\ settled \subseteq b.settled
    BY <1>8 DEF Grown, before
  <2>2. \A k \in Nodes : arrived[k] \subseteq arrived'[k] /\ refused[k] \subseteq refused'[k]
    BY <1>10, <2>1
  <2> QED
    BY <1>1, <1>3, <2>1, <2>2 DEF Forward
<1>12. ASSUME NEW k \in Nodes
       PROVE  Keeps(queue[k], arrived[k], settled)'
  <2>1. CASE k = n
    BY <1>1, <1>3, <1>9, <1>10, <2>1, NodeKeeps
  <2>2. CASE k # n
    BY <1>10, <1>11, <2>2, OthersKeep
  <2> QED
    BY <2>1, <2>2
<1>13. whole => Done(no)'
  <2> SUFFICES ASSUME whole
               PROVE  Done(no)'
    OBVIOUS
  <2>1. \A e \in p.content : Reached(b, e)
    BY <1>4, <1>3, <1>8
  <2>2. \A e : Gone(e)' <=> Gone(e)
    BY <1>1 DEF Gone, ValidRoutingHeader
  <2>3. \A e \in p.content :
          e.id \in arrived'[n] \cup refused'[n] \cup settled' \/ Gone(e)'
    BY <1>3, <1>10, <2>1, <2>2 DEF Reached
  <2> QED
    BY <1>3, <2>3 DEF Done
<1>14. /\ \A k \in DOMAIN sent' \ DOMAIN sent : PacketOK(k)'
       /\ settled' \in SUBSET Ids
       /\ sent' \in Seq(Packet) /\ Len(sent') <= MaxPackets
  <2>1. DOMAIN sent' \ DOMAIN sent = {}
    BY <1>3
  <2> QED
    BY <1>1, <1>3, <1>9, <2>1 DEF Shape
<1>15. DOMAIN queue' = Nodes /\ arrived' \in [Nodes -> SUBSET Ids] /\ refused' \in [Nodes -> SUBSET Ids]
  BY <1>10
<1> QED
  BY <1>11, <1>12, <1>13, <1>14, <1>15, HandledStep
\* A packet that comes in, with its session or without, new or again.
LEMMA ReceiveStep ==
  ASSUME Inv, NEW no \in DOMAIN sent, ReceivePacket(no)
  PROVE  Inv'
<1> DEFINE p == sent[no]
<1>1. UNCHANGED <<session, now>> /\ p.to \in Nodes
  BY PacketTyped DEF Inv, ReceivePacket
<1>2. CASE /\ seen' = [seen EXCEPT ![p.to] = Kept(p.to)]
           /\ UNCHANGED <<queue, sent, handled, arrived, settled, refused>>
  BY <1>1, <1>2, ReplayedStep
<1>3. ASSUME NEW whole \in BOOLEAN,
             seen' = [seen EXCEPT ![p.to] = Recorded(p.to, no)],
             handled' = CountHandling(no, whole),
             \/ p.kind = "summary" /\ whole /\ HandleSummary(no, p)
             \/ p.kind = "request" /\ whole /\ HandleRequest(no, p)
             \/ p.kind = "transfer" /\ HandleTransfer(p, whole)
      PROVE  Inv'
  <2>1. Handling(no, whole)
    BY <1>1, <1>3 DEF Handling
  <2>2. CASE p.kind = "summary" /\ whole /\ HandleSummary(no, p)
    <3>1. Handling(no, TRUE)
      BY <1>3, <2>1, <2>2 DEF Handling, CountHandling
    <3> QED
      BY <2>2, <3>1, SummaryStep
  <2>3. CASE p.kind = "request" /\ whole /\ HandleRequest(no, p)
    <3>1. Handling(no, TRUE)
      BY <1>3, <2>1, <2>3 DEF Handling, CountHandling
    <3> QED
      BY <2>3, <3>1, RequestStep
  <2>4. CASE p.kind = "transfer" /\ HandleTransfer(p, whole)
    BY <2>1, <2>4, TransferStep
  <2> QED
    BY <1>3, <2>2, <2>3, <2>4
<1> QED
  BY <1>2, <1>3 DEF ReceivePacket

----------------------------------------------------------------------------
(* The invariant holds. *)

\* At the start nothing has been sent and nothing is held.
LEMMA InitInv == Init => Inv
<1> SUFFICES ASSUME Init
             PROVE  Inv
  OBVIOUS
<1>1. /\ now = 0 /\ sent = <<>> /\ settled = {}
      /\ seen = [n \in Nodes |-> <<>>]
      /\ queue = [n \in Nodes |-> EmptyQueue]
      /\ arrived = [n \in Nodes |-> {}] /\ refused = [n \in Nodes |-> {}]
      /\ session = [n \in Nodes |-> [m \in Nodes \ {n} |-> [no |-> 1, live |-> TRUE]]]
      /\ handled = [no \in 1 .. MaxPackets |->
                      [times |-> 0, last |-> 0, since |-> 0, whole |-> FALSE]]
  BY DEF Init
<1>2. Shape
  <2>1. /\ seen \in [Nodes -> Seq(Record)] /\ sent \in Seq(Packet) /\ Len(sent) <= MaxPackets
    BY <1>1, SyncConstants
  <2>2. \A n \in Nodes : session[n] \in [Nodes \ {n} -> [no : Nat, live : BOOLEAN]]
    BY <1>1
  <2>3. handled \in [1 .. MaxPackets -> [times : Nat, last : Nat, since : Nat, whole : BOOLEAN]]
    BY <1>1
  <2> QED
    BY <1>1, <2>1, <2>2, <2>3 DEF Shape
<1>3. \A n \in Nodes : Keeps(queue[n], arrived[n], settled) /\ RecordOK(n)
  <2>1. Sound(EmptyQueue) /\ DOMAIN EmptyQueue.entries = {}
    BY EmptyQueueFacts DEF Sound, EmptyQueue
  <2>2. Keeps(EmptyQueue, {}, {})
    BY <2>1 DEF Keeps
  <2>3. \A n \in Nodes : seen[n] = <<>> /\ queue[n] = EmptyQueue /\ arrived[n] = {}
    BY <1>1
  <2>4. Len(<<>>) <= MaxSeen /\ DOMAIN <<>> = {}
    BY SyncConstants
  <2> QED
    BY <1>1, <2>2, <2>3, <2>4 DEF RecordOK
<1>4. \A no \in DOMAIN sent : PacketOK(no)
  BY <1>1
<1>5. \A no \in DOMAIN handled : handled[no].times = 0 /\ handled[no].whole = FALSE
  BY <1>1
<1> QED
  BY <1>2, <1>3, <1>4, <1>5 DEF Inv, Remembered

\* Every step keeps the invariant.
LEMMA NextInv == Inv /\ [Next]_vars => Inv'
<1> SUFFICES ASSUME Inv, [Next]_vars
             PROVE  Inv'
  OBVIOUS
<1>1. CASE \E n \in Nodes : \E m \in Nodes \ {n} :
             \/ \E no \in 1 .. Sessions : RegisterSession(n, m, no)
             \/ Unregister(n, m)
  BY <1>1, SessionStep
<1>2. CASE \E n \in Nodes : \E m \in Nodes \ {n} : InitiateSync(n, m)
  BY <1>2, InitiateStep
<1>3. CASE \E arrival \in Arrivals : Accept(arrival[1], arrival[2], arrival[3])
  <2>1. PICK arrival \in Arrivals : Accept(arrival[1], arrival[2], arrival[3])
    BY <1>3
  <2>2. arrival[1] \in Nodes /\ arrival[2] \in Envelopes /\ arrival[3] \in Senders
    BY SyncConstants
  <2> QED
    BY <2>1, <2>2, AcceptStep
<1>4. CASE \E n \in Nodes : \E id \in DOMAIN queue[n].entries : PassOn(n, id)
  BY <1>4, PassOnStep
<1>5. CASE \E no \in DOMAIN sent : ReceivePacket(no)
  BY <1>5, ReceiveStep
<1>6. CASE Tick \/ UNCHANGED vars
  BY <1>6, TickStep
<1>7. CASE \E purge \in ReplayPurges : PurgeReplayRecords(purge[1], purge[2])
  <2>1. PICK purge \in ReplayPurges : PurgeReplayRecords(purge[1], purge[2])
    BY <1>7
  <2>2. purge[1] \in Nodes /\ purge[2] \in Nat
    BY SyncConstants
  <2> QED
    BY <2>1, <2>2, PurgeReplayStep
<1> QED
  BY <1>1, <1>2, <1>3, <1>4, <1>5, <1>6, <1>7 DEF Next

\* The invariant holds in every behaviour.
LEMMA InvHolds == Spec => []Inv
  BY InitInv, NextInv, PTL DEF Spec

----------------------------------------------------------------------------
(* What follows. *)

\* Every value is one the program can hold: queues within their limits, replay
\* records no longer than MAX_SEEN_SYNC_PACKETS and of packets the node was sent.
THEOREM SyncTypeCorrect == Spec => []TypeOK
<1>1. Inv => TypeOK
  <2> SUFFICES ASSUME Inv
               PROVE  TypeOK
    OBVIOUS
  <2>1. ASSUME NEW n \in Nodes
        PROVE  /\ IsQueue(queue[n], Envelopes) /\ CountsHold(queue[n]) /\ LimitsHold(queue[n])
               /\ DOMAIN queue[n].entries \subseteq arrived[n]
    BY DEF Inv, Keeps, Sound
  <2>2. ASSUME NEW n \in Nodes
        PROVE  /\ Len(seen[n]) <= MaxSeen
               /\ \A i \in DOMAIN seen[n] : sent[seen[n][i].no].to = n /\ seen[n][i].at <= now
    BY DEF Inv, RecordOK
  <2>3. \A no \in DOMAIN sent : sent[no].cause < no /\ sent[no].timestamp <= now
    BY DEF Inv, PacketOK
  <2>4. \A no \in DOMAIN handled :
          handled[no].times > 0 => no \in DOMAIN sent /\ handled[no].last <= now
    BY DEF Inv, Remembered
  <2> QED
    BY <2>1, <2>2, <2>3, <2>4 DEF TypeOK
<1> QED
  BY <1>1, InvHolds, PTL

\* Whatever sessions come and go, a packet handled once is handled again only when
\* its replay record outlived its time, or was pushed out by as many as the record
\* holds or by a caller's purge with an age limit it had outlived.
THEOREM SyncHandledOnce == Spec => HandledOnce
<1>1. ASSUME Inv, Next
      PROVE  HandledAgainLate
  <2>1. CASE UNCHANGED handled
    <3>1. \A no \in DOMAIN handled : handled[no].times \in Nat
      BY <1>1, HandledWasSent
    <3> QED
      BY <2>1, <3>1 DEF HandledAgainLate
  <2>2. ASSUME NEW no \in DOMAIN sent, ReceivePacket(no)
        PROVE  HandledAgainLate
    <3> DEFINE p == sent[no]
               kept == Kept(p.to)
    <3>1. CASE UNCHANGED handled
      BY <2>1, <3>1
    <3>2. CASE ~UNCHANGED handled
      <4>1. PICK whole \in BOOLEAN : handled' = CountHandling(no, whole)
        BY <2>2, <3>2 DEF ReceivePacket
      <4>2. ~\E i \in DOMAIN kept : kept[i].no = no
        BY <2>2, <3>2 DEF ReceivePacket
      <4>3. /\ p.to \in Nodes /\ no \in DOMAIN handled
            /\ \A k \in DOMAIN handled \ {no} : handled'[k].times = handled[k].times
        BY <1>1, <4>1, CountHandlingFacts, PacketTyped DEF Inv
      <4>4. /\ RecordOf(kept, p.to)
            /\ handled[no].times > 0 =>
                 \/ handled[no].since >= MaxSeen
                 \/ now - handled[no].last > ReplayTtl
                 \/ OnRecord(kept, no)
        BY <1>1, <4>3, KeptRecord
      <4>5. kept \in Seq(Record) /\ DOMAIN kept = 1 .. Len(kept)
        BY <4>4, RecordsTyped DEF RecordOf
      <4>6. ~OnRecord(kept, no)
        BY <4>2, <4>5 DEF OnRecord
      <4>7. \A k \in DOMAIN handled : handled[k].times \in Nat
        BY <1>1, HandledWasSent
      <4> HIDE DEF kept
      <4>8. ASSUME NEW k \in DOMAIN handled, handled[k].times > 0, handled'[k].times > handled[k].times
            PROVE  now - handled[k].last > ReplayTtl \/ handled[k].since >= MaxSeen
        BY <4>3, <4>4, <4>6, <4>7, <4>8
      <4> QED
        BY <4>8 DEF HandledAgainLate
    <3> QED
      BY <3>1, <3>2
  <2>3. CASE \E purge \in ReplayPurges : PurgeReplayRecords(purge[1], purge[2])
    <3>1. PICK purge \in ReplayPurges : PurgeReplayRecords(purge[1], purge[2])
      BY <2>3
    <3>2. purge[1] \in Nodes /\ purge[2] \in Nat
      BY SyncConstants
    <3>3. \A no \in DOMAIN handled : handled'[no].times = handled[no].times
      BY <1>1, <3>1, <3>2, PurgeReplayStep
    <3>4. \A no \in DOMAIN handled : handled[no].times \in Nat
      BY <1>1, HandledWasSent
    <3> QED
      BY <3>3, <3>4 DEF HandledAgainLate
  <2> QED
    BY <1>1, <2>1, <2>2, <2>3
      DEF Next, RegisterSession, Unregister, InitiateSync, Accept, PassOn, Tick
<1>2. Inv /\ [Next]_vars => [HandledAgainLate]_vars
  BY <1>1
<1> QED
  BY <1>2, InvHolds, PTL DEF Spec, HandledOnce

\* Packets lost, replayed, cut short or answered in a later session lose no
\* envelope: what a node stored is held, delivered, passed on or expired.
THEOREM SyncNeverLost == Spec => []NeverLost
<1>1. Inv => NeverLost
  <2> SUFFICES ASSUME Inv, NEW n \in Nodes, NEW e \in Envelopes, e.id \in arrived[n]
               PROVE  \/ e.id \in settled
                      \/ e.id \in DOMAIN queue[n].entries
                      \/ ~ValidRoutingHeader(e, now, MaxAge)
    BY DEF NeverLost
  <2> QED
    BY DEF Inv, Keeps, Gone
<1> QED
  BY <1>1, InvHolds, PTL

\* Once a summary and all it led to were handled to the end, what it named has
\* reached the other node, or was settled, expired, refused or one too many.
THEOREM SyncExchangeComplete == Spec => []SyncComplete
<1>1. Inv => SyncComplete
  <2> SUFFICES ASSUME Inv, NEW no \in DOMAIN sent, sent[no].kind = "summary",
                      \A k \in {no} \cup Follows(no) : handled[k].whole,
                      NEW e \in Envelopes, e.id \in sent[no].content
               PROVE  \/ e.id \in arrived[sent[no].to] \cup refused[sent[no].to] \cup settled
                      \/ Gone(e)
                      \/ Cardinality(sent[no].content) > MaxTransfer
    BY DEF SyncComplete, Gone
  <2>1. ASSUME NEW k \in DOMAIN sent, k \in {no} \cup Follows(no)
        PROVE  PacketOK(k) /\ Done(k)
    <3>1. k \in DOMAIN handled
      BY PacketTyped DEF Inv, Shape
    <3> QED
      BY <2>1, <3>1 DEF Inv
  <2>2. CASE e.id \in arrived[sent[no].to]
    BY <2>2
  <2>3. CASE e.id \notin arrived[sent[no].to]
    <3>1. Done(no)
      BY <2>1
    <3>2. PICK k \in DOMAIN sent :
            sent[k].cause = no /\ sent[k].kind = "request" /\ e.id \in sent[k].content
      BY <2>3, <3>1 DEF Done
    <3>3. k \in Follows(no)
      BY <3>2 DEF Follows
    <3>4. PacketOK(no) /\ PacketOK(k) /\ Done(k)
      BY <2>1, <3>3
    <3>5. /\ sent[no].to = sent[k].from /\ sent[k].content \subseteq sent[no].content
          /\ IsFiniteSet(sent[no].content)
      BY <3>2, <3>4 DEF PacketOK
    <3>6. \/ e.id \in settled \/ Gone(e) \/ Cardinality(sent[k].content) > MaxTransfer
          \/ \E t \in DOMAIN sent : /\ sent[t].cause = k /\ sent[t].kind = "transfer"
                                    /\ \E f \in sent[t].content : f.id = e.id
      BY <3>2, <3>4 DEF Done
    <3>7. CASE Cardinality(sent[k].content) > MaxTransfer
      <4>1. IsFiniteSet(sent[k].content) /\ Cardinality(sent[k].content) <= Cardinality(sent[no].content)
        BY <3>5, FS_Subset
      <4>2. /\ Cardinality(sent[k].content) \in Nat /\ Cardinality(sent[no].content) \in Nat
            /\ MaxTransfer \in Nat
        BY <3>5, <4>1, FS_CardinalityType, SyncConstants
      <4> QED
        BY <3>7, <4>1, <4>2
    <3>8. CASE \E t \in DOMAIN sent : /\ sent[t].cause = k /\ sent[t].kind = "transfer"
                                      /\ \E f \in sent[t].content : f.id = e.id
      <4>1. PICK t \in DOMAIN sent : /\ sent[t].cause = k /\ sent[t].kind = "transfer"
                                     /\ \E f \in sent[t].content : f.id = e.id
        BY <3>8
      <4>2. t \in Follows(no)
        BY <3>2, <4>1 DEF Follows
      <4>3. PacketOK(t) /\ Done(t)
        BY <2>1, <4>2
      <4>4. sent[t].to = sent[no].to /\ sent[t].content \subseteq Envelopes
        BY <3>5, <4>1, <4>3 DEF PacketOK
      <4>5. e \in sent[t].content
        BY <4>1, <4>4, SyncConstants
      <4>6. e.id \in arrived[sent[t].to] \cup refused[sent[t].to] \cup settled \/ Gone(e)
        BY <4>1, <4>3, <4>5 DEF Done
      <4> QED
        BY <4>4, <4>6
    <3> QED
      BY <3>6, <3>7, <3>8
  <2> QED
    BY <2>2, <2>3
<1> QED
  BY <1>1, InvHolds, PTL
=============================================================================
