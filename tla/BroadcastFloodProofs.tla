------------------------ MODULE BroadcastFloodProofs ------------------------
(***************************************************************************)
(* What holds of the flood in every behaviour, for every set of nodes,     *)
(* links and calls and every value of the limits: the windows count what   *)
(* they stand for and keep the budget, a broadcast is told again only when *)
(* a purge may have forgotten it, its ttl bounds how far it goes, and one  *)
(* that nothing spoils reaches every node.                                 *)
(***************************************************************************)
EXTENDS BroadcastFlood, FiniteSetTheorems, TLAPS

Windows == [since : 0 .. now, count : 0 .. Budget]

SeenTyped ==
  /\ DOMAIN seen = Nodes
  /\ \A n \in Nodes : DOMAIN seen[n] \subseteq Ids /\ seen[n] \in [DOMAIN seen[n] -> 0 .. now]

WindowsTyped == creation \in [Nodes -> Windows] /\ receive \in [Nodes -> [Nodes -> Windows]]

CopyOK(f) ==
  f.from \in Nodes /\ f.to \in Links[f.from] /\ f.id \in made /\ f.ttl \in 0 .. f.id.ttl

ToldTyped ==
  /\ told \in [Nodes -> [Ids -> Seq(Nat)]]
  /\ \A n \in Nodes, id \in Ids : \A i \in DOMAIN told[n][id] : told[n][id][i] <= now

\* The shape of the state: the inductive form of TypeOK.
FloodTyped ==
  /\ now \in Nat /\ made \subseteq Calls /\ spoilt \subseteq made
  /\ SeenTyped /\ WindowsTyped /\ ToldTyped
  /\ \A f \in air : CopyOK(f)

----------------------------------------------------------------------------
(* Windows. *)

\* A window that is looked at or charged keeps its shape.
LEMMA WindowShape ==
  ASSUME now \in Nat, NEW w \in Windows
  PROVE  /\ Current(w) \in Windows
         /\ WithinBudget(w) => Charged(w) \in Windows
<1>1. Budget \in Nat \ {0} /\ Window \in Nat \ {0}
  BY FloodConstants
<1>2. NoWindow \in Windows
  BY <1>1 DEF NoWindow, Windows
<1>3. Current(w) \in Windows
  BY <1>2 DEF Current
<1>4. ASSUME WithinBudget(w), Current(w) = NoWindow
      PROVE  Charged(w) \in Windows
  BY <1>1, <1>4 DEF Charged, Windows
<1>5. ASSUME WithinBudget(w), Current(w) # NoWindow
      PROVE  Charged(w) \in Windows
  <2>1. Current(w) = w
    BY <1>5 DEF Current
  <2>2. w.count < Budget
    BY <1>5, <2>1 DEF WithinBudget
  <2>3. Charged(w) = [w EXCEPT !.count = w.count + 1]
    BY <1>5 DEF Charged
  <2>4. QED
    BY <1>1, <2>2, <2>3 DEF Windows
<1>6. QED
  BY <1>3, <1>4, <1>5

\* What a verified broadcast does to the windows.
LEMMA VerifiedTyped ==
  ASSUME FloodTyped, NEW f \in air, Verified(f)
  PROVE  creation' \in [Nodes -> Windows] /\ receive' \in [Nodes -> [Nodes -> Windows]]
<1>1. f.to \in Nodes /\ f.id.at \in Nodes /\ now \in Nat
  BY FloodConstants DEF FloodTyped, CopyOK
<1>2. creation[f.to] \in Windows /\ \A o \in Nodes : receive[f.to][o] \in Windows
  BY <1>1 DEF FloodTyped, WindowsTyped
<1>3. creation' \in [Nodes -> Windows]
  BY <1>1, <1>2, WindowShape DEF Verified, FloodTyped, WindowsTyped
<1>4. PurgedWindows(receive[f.to]) \in [Nodes -> Windows]
  BY <1>1, <1>2, WindowShape DEF PurgedWindows
<1>5. WithinBudget(receive[f.to][f.id.at]) => Charged(receive[f.to][f.id.at]) \in Windows
  BY <1>1, <1>2, WindowShape
<1> DEFINE mine == IF WithinBudget(receive[f.to][f.id.at])
                   THEN [PurgedWindows(receive[f.to]) EXCEPT ![f.id.at] = Charged(receive[f.to][f.id.at])]
                   ELSE PurgedWindows(receive[f.to])
<1>6. mine \in [Nodes -> Windows]
  BY <1>4, <1>5
<1>7. receive' = [receive EXCEPT ![f.to] = mine]
  BY DEF Verified
<1> HIDE DEF mine
<1>8. QED
  BY <1>3, <1>6, <1>7 DEF FloodTyped, WindowsTyped

----------------------------------------------------------------------------
(* What the receipt of a copy does. *)

\* A copy is dropped, or only marked as seen, or delivered.
LEMMA ArriveDoes ==
  ASSUME NEW f, Arrive(f)
  PROVE  /\ air' \subseteq air \cup Copies(f.to, f.id, OneHopOn(f.ttl), f.timestamp, {f.from})
         /\ UNCHANGED <<made, now>>
         /\ spoilt' \subseteq spoilt \cup {f.id}
         /\ \/ UNCHANGED <<seen, creation, receive, told>> /\ air' \subseteq air
            \/ /\ seen' = Marked(f.to, f.id) /\ UNCHANGED told /\ air' \subseteq air
               /\ \/ UNCHANGED <<creation, receive>>
                  \/ Verified(f) /\ ~WithinBudget(receive[f.to][f.id.at])
            \/ /\ seen' = Marked(f.to, f.id) /\ Verified(f)
               /\ WithinBudget(receive[f.to][f.id.at]) /\ ~Seen(f.to, f.id) /\ f.ttl > 0
               /\ told' = [told EXCEPT ![f.to][f.id] = Append(@, now)]
<1>1. PICK intact \in BOOLEAN, rest \in {air, air \ {f}} : ReceiveBroadcast(f, intact, rest)
  BY DEF Arrive
<1>2. rest \subseteq air
  OBVIOUS
<1>3. UNCHANGED made /\ UNCHANGED now
  BY DEF Arrive
<1>4. CASE Drop(f) /\ air' = rest /\ UNCHANGED creation
  BY <1>2, <1>3, <1>4 DEF Drop
<1>5. CASE ~intact /\ MarkOnly(f) /\ air' = rest /\ UNCHANGED <<creation, receive>>
  BY <1>2, <1>3, <1>5 DEF MarkOnly
<1>6. CASE ~WithinBudget(receive[f.to][f.id.at]) /\ Verified(f) /\ MarkOnly(f) /\ air' = rest
  BY <1>2, <1>3, <1>6 DEF MarkOnly
<1>7. CASE /\ ValidHeader(f) /\ ~Seen(f.to, f.id) /\ WithinBudget(receive[f.to][f.id.at])
           /\ Verified(f) /\ Deliver(f, rest)
  <2>1. f.ttl > 0
    BY <1>7 DEF ValidHeader
  <2>2. seen' = Marked(f.to, f.id) /\ told' = [told EXCEPT ![f.to][f.id] = Append(@, now)]
    BY <1>7 DEF Deliver
  <2>3. /\ air' \subseteq air \cup Copies(f.to, f.id, OneHopOn(f.ttl), f.timestamp, {f.from})
        /\ spoilt' \subseteq spoilt \cup {f.id}
    BY <1>2, <1>7 DEF Deliver
  <2>4. QED
    BY <1>3, <1>7, <2>1, <2>2, <2>3
<1>8. QED
  BY <1>1, <1>4, <1>5, <1>6, <1>7 DEF ReceiveBroadcast

\* A record of a broadcast.
LEMMA MarkedTyped ==
  ASSUME FloodTyped, NEW n \in Nodes, NEW id \in Ids, seen' = Marked(n, id), now' = now
  PROVE  /\ SeenTyped'
         /\ seen'[n][id] = now /\ DOMAIN seen'[n] = DOMAIN seen[n] \cup {id}
         /\ \A i \in DOMAIN seen[n] \ {id} : seen'[n][i] = seen[n][i]
         /\ \A m \in Nodes \ {n} : seen'[m] = seen[m]
<1> DEFINE s == [i \in DOMAIN seen[n] \cup {id} |-> IF i = id THEN now ELSE seen[n][i]]
<1>1. seen' = [seen EXCEPT ![n] = s]
  BY DEF Marked
<1>2. now \in Nat /\ s \in [DOMAIN s -> 0 .. now] /\ DOMAIN s \subseteq Ids
  BY DEF FloodTyped, SeenTyped
<1>3. DOMAIN s = DOMAIN seen[n] \cup {id} /\ s[id] = now
      /\ \A i \in DOMAIN seen[n] \ {id} : s[i] = seen[n][i]
  OBVIOUS
<1> HIDE DEF s
<1>4. seen'[n] = s /\ \A m \in Nodes \ {n} : seen'[m] = seen[m]
  BY <1>1 DEF FloodTyped, SeenTyped
<1>5. SeenTyped'
  BY <1>1, <1>2, <1>4 DEF FloodTyped, SeenTyped
<1>6. QED
  BY <1>3, <1>4, <1>5

\* A telling is added to those there were.
LEMMA ToldMore ==
  ASSUME FloodTyped, NEW n \in Nodes, NEW id \in Ids, now' = now,
         told' = [told EXCEPT ![n][id] = Append(@, now)]
  PROVE  /\ ToldTyped'
         /\ told'[n][id] = Append(told[n][id], now)
         /\ Len(told'[n][id]) = Len(told[n][id]) + 1
         /\ DOMAIN told'[n][id] = DOMAIN told[n][id] \cup {Len(told[n][id]) + 1}
         /\ told'[n][id][Len(told[n][id]) + 1] = now
         /\ \A i \in DOMAIN told[n][id] : told'[n][id][i] = told[n][id][i]
         /\ \A m \in Nodes, k \in Ids : m # n \/ k # id => told'[m][k] = told[m][k]
<1>1. now \in Nat /\ told[n][id] \in Seq(Nat)
  BY DEF FloodTyped, ToldTyped
<1>2. told'[n][id] = Append(told[n][id], now)
  BY DEF FloodTyped, ToldTyped
<1>3. \A m \in Nodes, k \in Ids : m # n \/ k # id => told'[m][k] = told[m][k]
  BY DEF FloodTyped, ToldTyped
<1>4. Append(told[n][id], now) \in Seq(Nat)
  BY <1>1
<1>5. told' \in [Nodes -> [Ids -> Seq(Nat)]]
  BY <1>4 DEF FloodTyped, ToldTyped
<1>6. /\ DOMAIN told'[n][id] = DOMAIN told[n][id] \cup {Len(told[n][id]) + 1}
      /\ told'[n][id][Len(told[n][id]) + 1] = now
      /\ \A i \in DOMAIN told[n][id] : told'[n][id][i] = told[n][id][i]
      /\ Len(told'[n][id]) = Len(told[n][id]) + 1
  BY <1>1, <1>2
<1>7. \A m \in Nodes, k \in Ids : \A i \in DOMAIN told'[m][k] : told'[m][k][i] <= now'
  <2> SUFFICES ASSUME NEW m \in Nodes, NEW k \in Ids, NEW i \in DOMAIN told'[m][k]
               PROVE  told'[m][k][i] <= now
    OBVIOUS
  <2>1. CASE m = n /\ k = id
    BY <1>1, <1>6, <2>1 DEF FloodTyped, ToldTyped
  <2>2. CASE m # n \/ k # id
    BY <1>3, <2>2 DEF FloodTyped, ToldTyped
  <2>3. QED
    BY <2>1, <2>2
<1>8. QED
  BY <1>2, <1>3, <1>5, <1>6, <1>7 DEF ToldTyped

----------------------------------------------------------------------------
(* The shape of the state. *)

\* At first the state has its shape.
LEMMA FloodTypedInit == Init => FloodTyped
<1> SUFFICES ASSUME Init PROVE FloodTyped
  OBVIOUS
<1> USE DEF Init
<1>1. SeenTyped
  BY DEF SeenTyped
<1>2. WindowsTyped
  BY FloodConstants DEF WindowsTyped, Windows, NoWindow
<1>3. ToldTyped
  BY DEF ToldTyped
<1>4. QED
  BY <1>1, <1>2, <1>3 DEF FloodTyped

\* The copies a call makes.
LEMMA BroadcastTyped ==
  ASSUME FloodTyped, NEW id \in Calls, Broadcast(id)
  PROVE  FloodTyped'
<1>1. id.at \in Nodes /\ id.ttl \in Nat /\ Links[id.at] \subseteq Nodes /\ now \in Nat
  BY FloodConstants DEF FloodTyped
<1>2. UNCHANGED <<seen, told, spoilt, now>>
  BY DEF Broadcast
<1>3. SeenTyped' /\ ToldTyped'
  BY <1>2 DEF FloodTyped, SeenTyped, ToldTyped
<1>4. creation[id.at] \in Windows /\ \A o \in Nodes : receive[id.at][o] \in Windows
  BY <1>1 DEF FloodTyped, WindowsTyped
<1>5. PurgedWindows(receive[id.at]) \in [Nodes -> Windows]
  BY <1>1, <1>4, WindowShape DEF PurgedWindows
<1>6. receive' \in [Nodes -> [Nodes -> Windows]]
  BY <1>5 DEF Broadcast, FloodTyped, WindowsTyped
<1>7. creation' \in [Nodes -> Windows]
  BY <1>1, <1>4, WindowShape DEF Broadcast, FloodTyped, WindowsTyped
<1>8. Windows' = Windows
  BY <1>2 DEF Windows
<1>9. made' \subseteq Calls /\ made \subseteq made'
  BY DEF Broadcast, FloodTyped
<1>10. ASSUME NEW f \in air' PROVE CopyOK(f)'
  <2>1. CASE f \in air
    BY <1>9, <2>1 DEF FloodTyped, CopyOK
  <2>2. CASE f \notin air
    <3>1. f \in Copies(id.at, id, id.ttl, CoarseTimestamp, {}) /\ id \in made'
      BY <1>10, <2>2 DEF Broadcast
    <3>2. f.from = id.at /\ f.to \in Links[id.at] /\ f.id = id /\ f.ttl = id.ttl
      BY <3>1 DEF Copies
    <3>3. QED
      BY <1>1, <3>1, <3>2 DEF CopyOK
  <2>3. QED
    BY <2>1, <2>2
<1>11. QED
  BY <1>1, <1>2, <1>3, <1>6, <1>7, <1>8, <1>9, <1>10 DEF FloodTyped, WindowsTyped

\* The receipt of a copy.
LEMMA ArriveTyped ==
  ASSUME FloodTyped, NEW f \in air, Arrive(f)
  PROVE  FloodTyped'
<1>1. /\ f.to \in Nodes /\ f.id \in Ids /\ f.id \in made /\ f.ttl \in 0 .. f.id.ttl
      /\ f.id.ttl \in Nat /\ Links[f.to] \subseteq Nodes /\ now \in Nat
  BY FloodConstants DEF FloodTyped, CopyOK, Ids
<1>2. UNCHANGED <<made, now>> /\ spoilt' \subseteq spoilt \cup {f.id}
  BY ArriveDoes
<1>3. made' \subseteq Calls /\ spoilt' \subseteq made'
  BY <1>1, <1>2 DEF FloodTyped
<1>4. Windows' = Windows
  BY <1>2 DEF Windows
<1>5. seen' = seen \/ seen' = Marked(f.to, f.id)
  BY ArriveDoes
<1>6. SeenTyped'
  BY <1>1, <1>2, <1>5, MarkedTyped DEF FloodTyped, SeenTyped
<1>7. UNCHANGED <<creation, receive>> \/ Verified(f)
  BY ArriveDoes
<1>8. WindowsTyped'
  BY <1>4, <1>7, VerifiedTyped DEF FloodTyped, WindowsTyped
<1>9. told' = told \/ told' = [told EXCEPT ![f.to][f.id] = Append(@, now)]
  BY ArriveDoes
<1>10. ToldTyped'
  BY <1>1, <1>2, <1>9, ToldMore DEF FloodTyped, ToldTyped
<1>11. ASSUME NEW g \in air' PROVE CopyOK(g)'
  <2>1. CASE g \in air
    BY <1>2, <2>1 DEF FloodTyped, CopyOK
  <2>2. CASE g \notin air
    <3>1. g \in Copies(f.to, f.id, OneHopOn(f.ttl), f.timestamp, {f.from}) /\ f.ttl > 0
      BY <1>11, <2>2, ArriveDoes
    <3>2. g.from = f.to /\ g.to \in Links[f.to] /\ g.id = f.id /\ g.ttl = f.ttl - 1
      BY <3>1 DEF Copies, OneHopOn
    <3>3. QED
      BY <1>1, <1>2, <3>1, <3>2 DEF CopyOK
  <2>3. QED
    BY <2>1, <2>2
<1>12. QED
  BY <1>1, <1>2, <1>3, <1>6, <1>8, <1>10, <1>11 DEF FloodTyped

\* Records that a purge leaves.
LEMMA PurgeTyped ==
  ASSUME FloodTyped, NEW n \in Nodes, NEW maxAge \in PurgeAges, PurgeStaleBroadcastRecords(n, maxAge)
  PROVE  /\ FloodTyped'
         /\ \A m \in Nodes \ {n} : seen'[m] = seen[m]
         /\ \A id \in DOMAIN seen[n] :
              \/ id \in DOMAIN seen'[n] /\ seen'[n][id] = seen[n][id]
              \/ now - seen[n][id] > maxAge
<1>1. /\ now \in Nat /\ maxAge \in Nat /\ UNCHANGED <<creation, receive, air, made, told, spoilt, now>>
      /\ \A id \in DOMAIN seen[n] : seen[n][id] \in 0 .. now
  BY FloodConstants DEF PurgeStaleBroadcastRecords, FloodTyped, SeenTyped
<1> DEFINE kept == {id \in DOMAIN seen[n] : now - seen[n][id] <= maxAge}
<1>2. seen' = [seen EXCEPT ![n] = [id \in kept |-> seen[n][id]]]
  BY DEF PurgeStaleBroadcastRecords, Restrict
<1>3. kept \subseteq DOMAIN seen[n] /\ \A id \in DOMAIN seen[n] \ kept : now - seen[n][id] > maxAge
  BY <1>1
<1> HIDE DEF kept
<1>4. seen'[n] = [id \in kept |-> seen[n][id]] /\ \A m \in Nodes \ {n} : seen'[m] = seen[m]
  BY <1>2 DEF FloodTyped, SeenTyped
<1>5. SeenTyped'
  BY <1>1, <1>2, <1>3, <1>4 DEF FloodTyped, SeenTyped
<1>6. WindowsTyped' /\ ToldTyped' /\ \A f \in air' : CopyOK(f)'
  BY <1>1 DEF FloodTyped, WindowsTyped, Windows, ToldTyped, CopyOK
<1>7. FloodTyped'
  BY <1>1, <1>5, <1>6 DEF FloodTyped
<1>8. QED
  BY <1>3, <1>4, <1>7

\* Time only loosens what the state says of it.
LEMMA TickTyped ==
  ASSUME FloodTyped, Tick
  PROVE  FloodTyped'
<1>1. now \in Nat /\ now' = now + 1 /\ UNCHANGED <<seen, creation, receive, air, made, told, spoilt>>
  BY DEF Tick, FloodTyped
<1>2. SeenTyped'
  BY <1>1 DEF FloodTyped, SeenTyped
<1>3. Windows \subseteq Windows'
  BY <1>1 DEF Windows
<1>4. WindowsTyped'
  BY <1>1, <1>3 DEF FloodTyped, WindowsTyped
<1>5. \A n \in Nodes, id \in Ids : \A i \in DOMAIN told[n][id] : told[n][id][i] \in Nat
  BY DEF FloodTyped, ToldTyped
<1>6. ToldTyped'
  BY <1>1, <1>5 DEF FloodTyped, ToldTyped
<1>7. \A f \in air' : CopyOK(f)'
  BY <1>1 DEF FloodTyped, CopyOK
<1>8. QED
  BY <1>1, <1>2, <1>4, <1>6, <1>7 DEF FloodTyped

\* Every step keeps it.
LEMMA FloodTypedStep == FloodTyped /\ [Next]_vars => FloodTyped'
<1> SUFFICES ASSUME FloodTyped, [Next]_vars PROVE FloodTyped'
  OBVIOUS
<1>1. CASE UNCHANGED vars
  BY <1>1 DEF vars, FloodTyped, SeenTyped, WindowsTyped, Windows, ToldTyped, CopyOK
<1>2. QED
  BY <1>1, BroadcastTyped, ArriveTyped, PurgeTyped, TickTyped DEF Next

----------------------------------------------------------------------------
(* A broadcast is told again only when a purge may have forgotten it. *)

\* A telling that a purge of some age reaches.
Outlived(time) == \E age \in PurgeAges : now - time > age

\* The record of a broadcast is as recent as the tellings of it, unless a purge
\* may have taken it.
Remembered ==
  \A n \in Nodes, id \in Ids : \A i \in DOMAIN told[n][id] :
    \/ id \in DOMAIN seen[n] /\ seen[n][id] >= told[n][id][i]
    \/ Outlived(told[n][id][i])

\* The receipt of a copy: only one that is not on record is told.
LEMMA ArriveRemembered ==
  ASSUME FloodTyped, Remembered, ToldOnce, NEW f \in air, Arrive(f)
  PROVE  (Remembered /\ ToldOnce)'
<1>1. f.to \in Nodes /\ f.id \in Ids /\ now \in Nat /\ UNCHANGED now
  BY FloodConstants, ArriveDoes DEF FloodTyped, CopyOK, Ids
<1>2. CASE UNCHANGED <<seen, told>>
  BY <1>1, <1>2 DEF Remembered, Outlived, ToldOnce
<1>3. CASE seen' = Marked(f.to, f.id) /\ UNCHANGED told
  <2>1. \A n \in Nodes, id \in Ids : \A i \in DOMAIN told[n][id] :
          id \in DOMAIN seen[n] /\ seen[n][id] >= told[n][id][i]
          => id \in DOMAIN seen'[n] /\ seen'[n][id] >= told[n][id][i]
    <3> SUFFICES ASSUME NEW n \in Nodes, NEW id \in Ids, NEW i \in DOMAIN told[n][id],
                        id \in DOMAIN seen[n], seen[n][id] >= told[n][id][i]
                 PROVE  id \in DOMAIN seen'[n] /\ seen'[n][id] >= told[n][id][i]
      OBVIOUS
    <3>1. told[n][id][i] <= now
      BY DEF FloodTyped, ToldTyped
    <3>2. CASE n = f.to /\ id = f.id
      <4>1. id \in DOMAIN seen'[n] /\ seen'[n][id] = now
        BY <1>1, <1>3, <3>2, MarkedTyped
      <4>2. told[n][id][i] \in Nat
        BY DEF FloodTyped, ToldTyped
      <4>3. QED
        BY <1>1, <3>1, <4>1, <4>2
    <3>3. CASE n # f.to \/ id # f.id
      <4>1. id \in DOMAIN seen'[n] /\ seen'[n][id] = seen[n][id]
        BY <1>1, <1>3, <3>3, MarkedTyped
      <4>2. QED
        BY <4>1
    <3>4. QED
      BY <3>2, <3>3
  <2>2. QED
    BY <1>1, <1>3, <2>1 DEF Remembered, Outlived, ToldOnce
<1>4. CASE /\ seen' = Marked(f.to, f.id) /\ ~Seen(f.to, f.id)
           /\ told' = [told EXCEPT ![f.to][f.id] = Append(@, now)]
  <2> DEFINE last == Len(told[f.to][f.id]) + 1
  <2>1. /\ DOMAIN told'[f.to][f.id] = DOMAIN told[f.to][f.id] \cup {last}
        /\ told'[f.to][f.id][last] = now
        /\ \A i \in DOMAIN told[f.to][f.id] : told'[f.to][f.id][i] = told[f.to][f.id][i]
        /\ \A m \in Nodes, k \in Ids : m # f.to \/ k # f.id => told'[m][k] = told[m][k]
    BY <1>1, <1>4, ToldMore
  <2>2. last \in Nat /\ last \notin DOMAIN told[f.to][f.id] /\ \A i \in DOMAIN told[f.to][f.id] : i < last
    BY <1>1 DEF FloodTyped, ToldTyped
  <2> HIDE DEF last
  <2>3. \A i \in DOMAIN told[f.to][f.id] : Outlived(told[f.to][f.id][i])
    BY <1>1, <1>4 DEF Remembered, Seen
  <2>4. ASSUME NEW n \in Nodes, NEW id \in Ids, NEW i \in DOMAIN told'[n][id]
        PROVE  \/ id \in DOMAIN seen'[n] /\ seen'[n][id] >= told'[n][id][i]
               \/ Outlived(told[n][id][i])'
    <3>1. CASE n = f.to /\ id = f.id
      <4>1. id \in DOMAIN seen'[n] /\ seen'[n][id] = now
        BY <1>1, <1>4, <3>1, MarkedTyped
      <4>2. told'[n][id][i] <= now
        BY <1>1, <1>4, <3>1, ToldMore DEF ToldTyped
      <4>3. QED
        BY <1>1, <4>1, <4>2, <1>4, <3>1, ToldMore DEF ToldTyped
    <3>2. CASE n # f.to \/ id # f.id
      <4>1. told'[n][id] = told[n][id]
        BY <2>1, <3>2
      <4>2. id \in DOMAIN seen[n] => id \in DOMAIN seen'[n] /\ seen'[n][id] = seen[n][id]
        BY <1>1, <1>4, <3>2, MarkedTyped
      <4>3. QED
        BY <1>1, <4>1, <4>2 DEF Remembered, Outlived
    <3>3. QED
      BY <3>1, <3>2
  <2>5. ASSUME NEW n \in Nodes, NEW id \in Ids,
               NEW i \in DOMAIN told'[n][id], NEW j \in DOMAIN told'[n][id], i < j
        PROVE  \E age \in PurgeAges : told'[n][id][j] - told'[n][id][i] > age
    <3>1. CASE n = f.to /\ id = f.id /\ j = last
      <4>1. i \in DOMAIN told[n][id]
        BY <2>1, <2>2, <2>5, <3>1
      <4>2. QED
        BY <2>1, <2>3, <3>1, <4>1 DEF Outlived
    <3>2. CASE n = f.to /\ id = f.id /\ j # last
      <4>1. j \in DOMAIN told[n][id] /\ i \in DOMAIN told[n][id]
        <5>1. j \in DOMAIN told[n][id]
          BY <2>1, <3>2
        <5>2. i # last
          <6>1. told[n][id] \in Seq(Nat)
            BY DEF FloodTyped, ToldTyped
          <6>2. QED
            BY <2>2, <2>5, <3>2, <5>1, <6>1 DEF last
        <5>3. QED
          BY <2>1, <3>2, <5>1, <5>2
      <4>2. QED
        BY <2>1, <2>5, <3>2, <4>1 DEF ToldOnce
    <3>3. CASE n # f.to \/ id # f.id
      <4>1. told'[n][id] = told[n][id]
        BY <2>1, <3>3
      <4>2. QED
        BY <2>5, <4>1 DEF ToldOnce
    <3>4. QED
      BY <3>1, <3>2, <3>3
  <2>6. QED
    BY <2>4, <2>5 DEF Remembered, ToldOnce, Outlived
<1>5. QED
  BY <1>2, <1>3, <1>4, ArriveDoes

\* Every step keeps the record as recent as the tellings.
LEMMA RememberedStep ==
  FloodTyped /\ Remembered /\ ToldOnce /\ [Next]_vars => (Remembered /\ ToldOnce)'
<1> SUFFICES ASSUME FloodTyped, Remembered, ToldOnce, [Next]_vars
             PROVE  (Remembered /\ ToldOnce)'
  OBVIOUS
<1>1. /\ now \in Nat
      /\ \A n \in Nodes, id \in Ids : \A i \in DOMAIN told[n][id] :
           told[n][id][i] \in Nat /\ told[n][id][i] <= now
      /\ \A n \in Nodes : \A id \in DOMAIN seen[n] : seen[n][id] \in Nat
  BY DEF FloodTyped, ToldTyped, SeenTyped
<1>2. CASE UNCHANGED <<seen, told, now>>
  BY <1>2 DEF Remembered, Outlived, ToldOnce
<1>3. CASE Tick
  <2>1. UNCHANGED <<seen, told>> /\ now' = now + 1
    BY <1>3 DEF Tick
  <2>2. \A time \in Nat : Outlived(time) => \E age \in PurgeAges : now' - time > age
    BY <1>1, <2>1, FloodConstants DEF Outlived
  <2>3. QED
    BY <1>1, <2>1, <2>2 DEF Remembered, Outlived, ToldOnce
<1>4. ASSUME NEW n \in Nodes, NEW maxAge \in PurgeAges, PurgeStaleBroadcastRecords(n, maxAge)
      PROVE  (Remembered /\ ToldOnce)'
  <2>1. UNCHANGED <<told, now>> /\ maxAge \in Nat
    BY <1>4, FloodConstants DEF PurgeStaleBroadcastRecords
  <2>2. ASSUME NEW m \in Nodes, NEW id \in Ids, NEW i \in DOMAIN told[m][id]
        PROVE  \/ id \in DOMAIN seen'[m] /\ seen'[m][id] >= told[m][id][i]
               \/ Outlived(told[m][id][i])
    <3>1. CASE m = n /\ id \in DOMAIN seen[n] /\ seen[n][id] >= told[n][id][i]
      <4>1. \/ id \in DOMAIN seen'[n] /\ seen'[n][id] = seen[n][id]
            \/ now - seen[n][id] > maxAge
        BY <1>4, <3>1, PurgeTyped
      <4>2. QED
        BY <1>1, <2>1, <3>1, <4>1 DEF Outlived
    <3>2. CASE m # n
      BY <1>4, <3>2, PurgeTyped DEF Remembered
    <3>3. QED
      BY <3>1, <3>2 DEF Remembered
  <2>3. QED
    BY <2>1, <2>2 DEF Remembered, Outlived, ToldOnce
<1>5. QED
  BY <1>2, <1>3, <1>4, ArriveRemembered DEF Next, Broadcast, vars

----------------------------------------------------------------------------
(* The windows count the tellings. *)

\* What a node's window of an origin says of the tellings: no window, and all
\* of them are past; a window, and they are older than its end, and it counts
\* those since its beginning.
WindowFits(n, o) ==
  LET w == receive[n][o] IN
  /\ w = NoWindow =>
       \A id \in Ids : id.at = o => \A i \in DOMAIN told[n][id] : told[n][id][i] < now
  /\ w # NoWindow =>
       /\ \A id \in Ids : id.at = o => \A i \in DOMAIN told[n][id] : told[n][id][i] - w.since < Window
       /\ IsFiniteSet(Tellings(n, o, w.since))
       /\ Cardinality(Tellings(n, o, w.since)) = w.count

WindowsFit == \A n \in Nodes, o \in Nodes : WindowFits(n, o)

\* What Tellings holds.
LEMMA TellingsMembers ==
  ASSUME NEW n, NEW o, NEW since, NEW x
  PROVE  x \in Tellings(n, o, since) <=>
           \E id \in Ids : \E i \in DOMAIN told[n][id] :
             id.at = o /\ told[n][id][i] >= since /\ x = <<id, i>>
BY DEF Tellings

\* Where nobody is told anything of the origin, looking at its window or
\* leaving it alone keeps it fitting.
LEMMA QuietFits ==
  ASSUME FloodTyped, NEW n \in Nodes, NEW o \in Nodes, WindowFits(n, o),
         \A id \in Ids : id.at = o => told'[n][id] = told[n][id],
         now' \in Nat, now' >= now,
         receive'[n][o] = receive[n][o] \/ receive'[n][o] = Current(receive[n][o])
  PROVE  WindowFits(n, o)'
<1> DEFINE w == receive[n][o]
<1>1. now \in Nat /\ Window \in Nat \ {0} /\ w \in Windows
  BY FloodConstants DEF FloodTyped, WindowsTyped
<1>2. w.since \in Nat
  BY <1>1 DEF Windows
<1>3. \A id \in Ids : \A i \in DOMAIN told[n][id] : told[n][id][i] \in Nat
  BY DEF FloodTyped, ToldTyped
<1>4. \A id \in Ids : id.at = o => DOMAIN told'[n][id] = DOMAIN told[n][id]
                       /\ \A i \in DOMAIN told[n][id] : told'[n][id][i] = told[n][id][i]
  OBVIOUS
<1>5. \A since : Tellings(n, o, since)' = Tellings(n, o, since)
  BY <1>4 DEF Tellings
<1>6. CASE receive'[n][o] = w
  <2>1. Tellings(n, o, w.since)' = Tellings(n, o, w.since)
    <3>1. w' = w
      BY <1>6
    <3>2. QED
      BY <1>4, <3>1 DEF Tellings
  <2>2. QED
    BY <1>1, <1>3, <1>4, <1>6, <2>1 DEF WindowFits
<1>7. CASE receive'[n][o] # w
  <2>1. receive'[n][o] = NoWindow /\ w # NoWindow /\ now - w.since >= Window
    BY <1>7 DEF Current
  <2>2. \A id \in Ids : id.at = o => \A i \in DOMAIN told[n][id] : told[n][id][i] < now
    BY <1>1, <1>2, <1>3, <2>1 DEF WindowFits
  <2>3. QED
    BY <1>1, <1>3, <1>4, <2>1, <2>2 DEF WindowFits
<1>8. QED
  BY <1>6, <1>7

\* A telling is charged to the window of its origin.
LEMMA ChargedFits ==
  ASSUME FloodTyped, NEW n \in Nodes, NEW id \in Ids, id.at \in Nodes, WindowFits(n, id.at),
         now' = now, told' = [told EXCEPT ![n][id] = Append(@, now)],
         receive'[n][id.at] = Charged(receive[n][id.at])
  PROVE  WindowFits(n, id.at)'
<1> DEFINE w == receive[n][id.at]
           o == id.at
           last == Len(told[n][id]) + 1
<1>1. now \in Nat /\ Window \in Nat \ {0} /\ w \in Windows
  BY FloodConstants DEF FloodTyped, WindowsTyped
<1>2. w.since \in Nat /\ w.since <= now /\ w.count \in Nat
  BY <1>1, FloodConstants DEF Windows
<1>3. \A k \in Ids : \A i \in DOMAIN told[n][k] : told[n][k][i] \in Nat
  BY DEF FloodTyped, ToldTyped
<1>4. /\ DOMAIN told'[n][id] = DOMAIN told[n][id] \cup {last} /\ told'[n][id][last] = now
      /\ \A i \in DOMAIN told[n][id] : told'[n][id][i] = told[n][id][i]
      /\ \A k \in Ids \ {id} : told'[n][k] = told[n][k]
  <2>1. \A m \in Nodes, k \in Ids : m # n \/ k # id => told'[m][k] = told[m][k]
    BY ToldMore
  <2>2. /\ DOMAIN told'[n][id] = DOMAIN told[n][id] \cup {last} /\ told'[n][id][last] = now
        /\ \A i \in DOMAIN told[n][id] : told'[n][id][i] = told[n][id][i]
    BY ToldMore
  <2>3. QED
    BY <2>1, <2>2
<1>5. last \notin DOMAIN told[n][id]
  BY DEF FloodTyped, ToldTyped
<1> HIDE DEF last
<1>6. ASSUME NEW since \in Nat, since <= now, receive'[n][o].since = since
      PROVE  Tellings(n, o, receive[n][o].since)' = Tellings(n, o, since) \cup {<<id, last>>}
  <2>1. ASSUME NEW x
        PROVE  (\E k \in Ids : \E i \in DOMAIN told'[n][k] :
                  k.at = o /\ told'[n][k][i] >= since /\ x = <<k, i>>)
               <=> x \in Tellings(n, o, since) \/ x = <<id, last>>
    <3>1. ASSUME NEW k \in Ids, NEW i \in DOMAIN told'[n][k],
                 k.at = o, told'[n][k][i] >= since, x = <<k, i>>
          PROVE  x \in Tellings(n, o, since) \/ x = <<id, last>>
      BY <1>4, <3>1, TellingsMembers
    <3>2. ASSUME NEW k \in Ids, NEW i \in DOMAIN told[n][k],
                 k.at = o, told[n][k][i] >= since, x = <<k, i>>
          PROVE  i \in DOMAIN told'[n][k] /\ told'[n][k][i] >= since
      BY <1>4, <3>2
    <3>3. QED
      BY <1>1, <1>4, <1>6, <3>1, <3>2, TellingsMembers
  <2>2. ASSUME NEW x
        PROVE  x \in Tellings(n, o, receive[n][o].since)' <=>
                 \E k \in Ids : \E i \in DOMAIN told'[n][k] :
                   k.at = o /\ told'[n][k][i] >= since /\ x = <<k, i>>
    BY <1>6 DEF Tellings, Ids
  <2>3. QED
    BY <2>1, <2>2
<1>7. CASE Current(w) = NoWindow
  <2>1. receive'[n][o] = [since |-> now, count |-> 1]
    BY <1>7 DEF Charged
  <2>2. \A k \in Ids : k.at = o => \A i \in DOMAIN told[n][k] : told[n][k][i] < now
    BY <1>1, <1>2, <1>3, <1>7 DEF Current, WindowFits
  <2>3. Tellings(n, o, now) = {}
    BY <1>1, <1>3, <2>2, TellingsMembers
  <2>4. Tellings(n, o, receive[n][o].since)' = {<<id, last>>}
    BY <1>1, <1>6, <2>1, <2>3
  <2>5. receive'[n][o] # NoWindow /\ receive'[n][o].since = now /\ receive'[n][o].count = 1
    BY <2>1 DEF NoWindow
  <2>6. \A k \in Ids : k.at = o => \A i \in DOMAIN told'[n][k] : told'[n][k][i] - now < Window
    BY <1>1, <1>3, <1>4, <2>2
  <2>7. IsFiniteSet({<<id, last>>}) /\ Cardinality({<<id, last>>}) = 1
    BY FS_Singleton
  <2>8. QED
    BY <2>4, <2>5, <2>6, <2>7 DEF WindowFits
<1>8. CASE Current(w) # NoWindow
  <2>1. w # NoWindow /\ now - w.since < Window
    BY <1>1, <1>2, <1>8 DEF Current
  <2>2. receive'[n][o] = [w EXCEPT !.count = w.count + 1]
    BY <1>8 DEF Charged
  <2>3. receive'[n][o].since = w.since /\ receive'[n][o].count = w.count + 1
    BY <1>1, <2>2 DEF Windows
  <2>4. receive'[n][o] # NoWindow
    BY <1>2, <2>3 DEF NoWindow
  <2>5. Tellings(n, o, receive[n][o].since)' = Tellings(n, o, w.since) \cup {<<id, last>>}
    BY <1>2, <1>6, <2>3
  <2>6. <<id, last>> \notin Tellings(n, o, w.since)
    BY <1>5, TellingsMembers
  <2>7. IsFiniteSet(Tellings(n, o, w.since)) /\ Cardinality(Tellings(n, o, w.since)) = w.count
    BY <2>1 DEF WindowFits
  <2>8. /\ IsFiniteSet(Tellings(n, o, w.since) \cup {<<id, last>>})
        /\ Cardinality(Tellings(n, o, w.since) \cup {<<id, last>>}) = w.count + 1
    BY <2>6, <2>7, FS_AddElement
  <2>9. \A k \in Ids : k.at = o => \A i \in DOMAIN told'[n][k] : told'[n][k][i] - w.since < Window
    BY <1>1, <1>2, <1>3, <1>4, <2>1 DEF WindowFits
  <2>10. QED
    BY <2>3, <2>4, <2>5, <2>8, <2>9 DEF WindowFits
<1>9. QED
  BY <1>7, <1>8

\* The receipt of a copy.
LEMMA ArriveFits ==
  ASSUME FloodTyped, WindowsFit, NEW f \in air, Arrive(f)
  PROVE  WindowsFit'
<1>1. /\ f.to \in Nodes /\ f.id \in Ids /\ f.id.at \in Nodes
      /\ now \in Nat /\ UNCHANGED now
  BY FloodConstants, ArriveDoes DEF FloodTyped, CopyOK, Ids
<1> SUFFICES ASSUME NEW n \in Nodes, NEW o \in Nodes
             PROVE  WindowFits(n, o)'
  BY DEF WindowsFit
<1>2. WindowFits(n, o)
  BY DEF WindowsFit
<1>3. DOMAIN receive = Nodes /\ DOMAIN receive[f.to] = Nodes
  BY <1>1 DEF FloodTyped, WindowsTyped
<1>4. CASE told' = told /\ receive' = receive
  BY <1>1, <1>2, <1>4, QuietFits
<1>5. CASE told' = told /\ Verified(f) /\ ~WithinBudget(receive[f.to][f.id.at])
  <2>1. receive' = [receive EXCEPT ![f.to] = PurgedWindows(@)]
    BY <1>5 DEF Verified
  <2>2. receive'[n][o] = receive[n][o] \/ receive'[n][o] = Current(receive[n][o])
    BY <1>3, <2>1 DEF PurgedWindows
  <2>3. QED
    BY <1>1, <1>2, <1>5, <2>2, QuietFits
<1>6. CASE /\ Verified(f) /\ WithinBudget(receive[f.to][f.id.at])
           /\ told' = [told EXCEPT ![f.to][f.id] = Append(@, now)]
  <2> DEFINE charged == [PurgedWindows(receive[f.to]) EXCEPT
                           ![f.id.at] = Charged(receive[f.to][f.id.at])]
  <2>1. receive' = [receive EXCEPT ![f.to] = charged]
    BY <1>6 DEF Verified
  <2>2. charged[f.id.at] = Charged(receive[f.to][f.id.at])
        /\ \A k \in Nodes \ {f.id.at} : charged[k] = Current(receive[f.to][k])
    BY <1>1 DEF PurgedWindows
  <2> HIDE DEF charged
  <2>3. receive'[f.to] = charged /\ \A k \in Nodes \ {f.to} : receive'[k] = receive[k]
    BY <1>1, <1>3, <2>1
  <2>4. CASE n = f.to /\ o = f.id.at
    BY <1>1, <1>2, <1>6, <2>2, <2>3, <2>4, ChargedFits
  <2>5. CASE n # f.to \/ o # f.id.at
    <3>1. receive'[n][o] = receive[n][o] \/ receive'[n][o] = Current(receive[n][o])
      BY <2>2, <2>3, <2>5
    <3>2. \A id \in Ids : id.at = o => told'[n][id] = told[n][id]
      <4>1. \A m \in Nodes, k \in Ids : m # f.to \/ k # f.id => told'[m][k] = told[m][k]
        BY <1>1, <1>6, ToldMore
      <4>2. QED
        BY <2>5, <4>1
    <3>3. QED
      BY <1>1, <1>2, <3>1, <3>2, QuietFits
  <2>6. QED
    BY <2>4, <2>5
<1>7. QED
  BY <1>4, <1>5, <1>6, ArriveDoes

\* Every step leaves the windows fitting.
LEMMA WindowsFitStep == FloodTyped /\ WindowsFit /\ [Next]_vars => WindowsFit'
<1> SUFFICES ASSUME FloodTyped, WindowsFit, [Next]_vars PROVE WindowsFit'
  OBVIOUS
<1>1. now \in Nat /\ receive \in [Nodes -> [Nodes -> Windows]]
  BY DEF FloodTyped, WindowsTyped
<1>2. ASSUME UNCHANGED told, now' \in {now, now + 1},
             \A n \in Nodes, o \in Nodes :
               receive'[n][o] = receive[n][o] \/ receive'[n][o] = Current(receive[n][o])
      PROVE  WindowsFit'
  BY <1>1, <1>2, QuietFits DEF WindowsFit
<1>3. CASE UNCHANGED <<receive, told>> /\ now' \in {now, now + 1}
  BY <1>2, <1>3
<1>4. ASSUME NEW id \in Calls, Broadcast(id) PROVE WindowsFit'
  <2>1. receive' = [receive EXCEPT ![id.at] = PurgedWindows(@)] /\ UNCHANGED <<told, now>>
    BY <1>4 DEF Broadcast
  <2>2. QED
    BY <1>1, <1>2, <2>1 DEF PurgedWindows
<1>5. QED
  BY <1>3, <1>4, ArriveFits DEF Next, PurgeStaleBroadcastRecords, Tick, vars

----------------------------------------------------------------------------
(* The ttl bounds how far a copy goes. *)

\* Every copy on its way is as far from its origin as its ttl has run down, and
\* whoever was told is within the broadcast's reach.
CopiesInReach ==
  \A f \in air : \E h \in Nat : h <= f.id.ttl - f.ttl + 1 /\ Walk(f.id.at, f.to, h)

\* One link more.
LEMMA WalkOn ==
  ASSUME NEW n, NEW m, NEW h \in Nat, Walk(n, m, h), NEW k \in Links[m], k \in Nodes
  PROVE  Walk(n, k, h + 1)
<1>1. PICK walk \in [0 .. h -> Nodes] :
        /\ walk[0] = n /\ walk[h] = m
        /\ \A i \in 1 .. h : walk[i] \in Links[walk[i - 1]]
  BY DEF Walk
<1> DEFINE longer == [i \in 0 .. h + 1 |-> IF i = h + 1 THEN k ELSE walk[i]]
<1>2. longer \in [0 .. h + 1 -> Nodes]
  BY <1>1
<1>3. longer[0] = n /\ longer[h + 1] = k
  BY <1>1
<1>4. ASSUME NEW i \in 1 .. h + 1 PROVE longer[i] \in Links[longer[i - 1]]
  <2>1. CASE i = h + 1
    <3>1. longer[i] = k /\ longer[i - 1] = m
      BY <1>1, <2>1
    <3>2. QED
      BY <3>1
  <2>2. CASE i # h + 1
    <3>1. i \in 1 .. h /\ longer[i] = walk[i] /\ longer[i - 1] = walk[i - 1]
      BY <2>2
    <3>2. QED
      BY <1>1, <3>1
  <2>3. QED
    BY <2>1, <2>2
<1> HIDE DEF longer
<1>5. QED
  BY <1>2, <1>3, <1>4 DEF Walk

\* No link at all.
LEMMA WalkNowhere == ASSUME NEW n \in Nodes PROVE Walk(n, n, 0)
<1>1. [i \in 0 .. 0 |-> n] \in [0 .. 0 -> Nodes] /\ [i \in 0 .. 0 |-> n][0] = n
  OBVIOUS
<1>2. 1 .. 0 = {}
  OBVIOUS
<1>3. QED
  BY <1>1, <1>2 DEF Walk

\* Every step keeps the copies, and those told, in reach.
LEMMA ReachStep ==
  FloodTyped /\ CopiesInReach /\ TtlBoundsReach /\ [Next]_vars
    => (CopiesInReach /\ TtlBoundsReach)'
<1> SUFFICES ASSUME FloodTyped, CopiesInReach, TtlBoundsReach, [Next]_vars
             PROVE  (CopiesInReach /\ TtlBoundsReach)'
  OBVIOUS
<1>1. CASE UNCHANGED <<air, told>>
  BY <1>1 DEF CopiesInReach, TtlBoundsReach
<1>2. ASSUME NEW id \in Calls, Broadcast(id)
      PROVE  (CopiesInReach /\ TtlBoundsReach)'
  <2>1. UNCHANGED told /\ air' \subseteq air \cup Copies(id.at, id, id.ttl, CoarseTimestamp, {})
    BY <1>2 DEF Broadcast
  <2>2. id.at \in Nodes /\ id.ttl \in Nat /\ Links[id.at] \subseteq Nodes
    BY FloodConstants
  <2>3. ASSUME NEW f \in Copies(id.at, id, id.ttl, CoarseTimestamp, {})
        PROVE  f.id = id /\ f.ttl = id.ttl /\ Walk(id.at, f.to, 0 + 1)
    <3>1. f.id = id /\ f.ttl = id.ttl /\ f.to \in Links[id.at]
      BY DEF Copies
    <3>2. QED
      BY <2>2, <3>1, WalkNowhere, WalkOn
  <2>4. CopiesInReach'
    BY <2>1, <2>2, <2>3 DEF CopiesInReach
  <2>5. QED
    BY <2>1, <2>4 DEF TtlBoundsReach
<1>3. ASSUME NEW f \in air, Arrive(f)
      PROVE  (CopiesInReach /\ TtlBoundsReach)'
  <2>1. /\ f.to \in Nodes /\ f.id \in Ids /\ f.ttl \in Nat /\ f.id.ttl \in Nat
        /\ f.ttl <= f.id.ttl /\ Links[f.to] \subseteq Nodes
    BY FloodConstants DEF FloodTyped, CopyOK, Ids
  <2>2. PICK h \in Nat : h <= f.id.ttl - f.ttl + 1 /\ Walk(f.id.at, f.to, h)
    BY DEF CopiesInReach
  <2>3. ASSUME NEW g \in Copies(f.to, f.id, OneHopOn(f.ttl), f.timestamp, {f.from})
        PROVE  /\ h + 1 \in Nat /\ h + 1 <= g.id.ttl - g.ttl + 1
               /\ Walk(g.id.at, g.to, h + 1)
    <3>1. g.id = f.id /\ g.ttl = f.ttl - 1 /\ g.to \in Links[f.to]
      BY DEF Copies, OneHopOn
    <3>2. QED
      BY <2>1, <2>2, <3>1, WalkOn
  <2>4. CopiesInReach'
    <3>1. air' \subseteq air \cup Copies(f.to, f.id, OneHopOn(f.ttl), f.timestamp, {f.from})
      BY <1>3, ArriveDoes
    <3>2. QED
      BY <2>3, <3>1 DEF CopiesInReach
  <2>5. CASE told' = told
    BY <2>4, <2>5 DEF TtlBoundsReach
  <2>6. CASE f.ttl > 0 /\ told' = [told EXCEPT ![f.to][f.id] = Append(@, now)]
    <3>1. f.to \in WithinHops(f.id.at, f.id.ttl)
      BY <2>1, <2>2, <2>6 DEF WithinHops
    <3>2. \A m \in Nodes, k \in Ids : m # f.to \/ k # f.id => told'[m][k] = told[m][k]
      BY <2>1, <2>6 DEF FloodTyped, ToldTyped
    <3>3. QED
      BY <2>4, <3>1, <3>2 DEF TtlBoundsReach
  <2>7. QED
    BY <1>3, <2>5, <2>6, ArriveDoes
<1>4. QED
  BY <1>1, <1>2, <1>3 DEF Next, PurgeStaleBroadcastRecords, Tick, vars

----------------------------------------------------------------------------
(* How far a flood has come. *)

\* The nodes whose listeners were told of a broadcast.
Told(id) == {n \in Nodes : told[n][id] # <<>>}

Has(n, id) == n = id.at \/ n \in Told(id)

Once(id) == \A n \in Nodes : Len(told[n][id]) <= 1

\* A copy comes from a node that has the broadcast, and as long as nobody is told
\* twice each hop it has come told another node.
CopyKept(f) ==
  /\ Has(f.from, f.id)
  /\ f.timestamp \in Int /\ f.timestamp <= now
  /\ Once(f.id) => f.id.ttl - f.ttl <= Cardinality(Told(f.id))

\* From a node that has the broadcast every neighbour has it or will get a copy.
Spread(id) ==
  \A n \in Nodes : Has(n, id) =>
    \A m \in Links[n] : Has(m, id) \/ \E f \in air : f.id = id /\ f.to = m

Flowing ==
  /\ \A f \in air : CopyKept(f)
  /\ \A n \in Nodes, id \in Ids : id \in DOMAIN seen[n] \/ n \in Told(id) => id \in made
  /\ \A id \in made \ spoilt :
       /\ \A n \in Nodes : id \in DOMAIN seen[n] => n \in Told(id)
       /\ id.ttl >= Cardinality(Nodes) /\ Once(id) => Spread(id)

\* From where broadcasts are made links lead everywhere: no smaller set of nodes
\* that holds such a node is closed.
LinksReachAll ==
  \A c \in Calls, S \in SUBSET Nodes :
    c.at \in S /\ (\A n \in S : Links[n] \subseteq S) => S = Nodes

\* A copy that nobody keeps and whose receiver was not told has hops left.
LEMMA HopsLeft ==
  ASSUME FloodTyped, Flowing, IsFiniteSet(Nodes), NEW f \in air,
         f.id.ttl >= Cardinality(Nodes), Once(f.id), f.to \notin Told(f.id)
  PROVE  f.ttl > 0
<1>1. /\ f.to \in Nodes /\ f.id.ttl \in Nat /\ f.ttl \in 0 .. f.id.ttl
      /\ f.id.ttl - f.ttl <= Cardinality(Told(f.id))
  BY FloodConstants DEF FloodTyped, CopyOK, Flowing, CopyKept
<1>2. Told(f.id) \subseteq Nodes
  BY DEF Told
<1>3. IsFiniteSet(Told(f.id)) /\ Cardinality(Told(f.id)) < Cardinality(Nodes)
  <2>1. /\ IsFiniteSet(Told(f.id)) /\ Cardinality(Told(f.id)) <= Cardinality(Nodes)
        /\ Cardinality(Nodes) = Cardinality(Told(f.id)) => Nodes = Told(f.id)
    BY <1>2, FS_Subset
  <2>2. Cardinality(Told(f.id)) # Cardinality(Nodes)
    BY <1>1, <2>1
  <2> QED
    BY <2>1, <2>2, FS_CardinalityType
<1> QED
  BY <1>1, <1>3, FS_CardinalityType

\* A broadcast just made is new to every node and has a copy for each neighbour
\* of its origin.
LEMMA BroadcastFlows ==
  ASSUME FloodTyped, Flowing, NEW id \in Calls, Broadcast(id)
  PROVE  Flowing'
<1>1. /\ id \notin made /\ id.at \in Nodes /\ id.ttl \in Nat /\ now \in Nat /\ id \in Ids
      /\ UNCHANGED <<seen, told, spoilt, now>>
  BY FloodConstants DEF Broadcast, FloodTyped, Ids
<1> DEFINE new == Copies(id.at, id, id.ttl, CoarseTimestamp, {})
<1>2. \/ air' = air /\ made' = made
      \/ air' = air \cup new /\ made' = made \cup {id}
  BY DEF Broadcast
<1>3. \A k : Told(k)' = Told(k) /\ (\A n : Has(n, k)' <=> Has(n, k)) /\ (Once(k)' <=> Once(k))
  BY <1>1 DEF Told, Has, Once
<1>4. \A f : CopyKept(f)' <=> CopyKept(f)
  BY <1>1, <1>3 DEF CopyKept, TooOld
<1>5. \A f \in air : f.id \in made /\ f.id # id
  BY <1>1 DEF FloodTyped, CopyOK
<1>6. CASE air' = air /\ made' = made
  BY <1>1, <1>3, <1>4, <1>6 DEF Flowing, Spread
<1>7. CASE air' = air \cup new /\ made' = made \cup {id}
  <2>1. \A n \in Nodes : id \notin DOMAIN seen[n] /\ n \notin Told(id)
    BY <1>1 DEF Flowing
  <2>2. ASSUME NEW f \in new
        PROVE  CopyKept(f)
    <3>1. /\ f.from = id.at /\ f.id = id /\ f.ttl = id.ttl /\ f.timestamp = CoarseTimestamp
      BY <2>2 DEF Copies
    <3>2. CoarseTimestamp \in Int /\ CoarseTimestamp <= now
      <4>1. Skew \in Nat \ {0}
        BY FloodConstants
      <4>2. now % Skew \in Nat
        BY <1>1, <4>1
      <4> QED
        BY <1>1, <4>2 DEF CoarseTimestamp
    <3>3. Told(id) = {}
      BY <2>1 DEF Told
    <3>4. f.id.ttl - f.ttl <= Cardinality(Told(id))
      BY <1>1, <3>1, <3>3, FS_EmptySet
    <3> QED
      BY <2>1, <3>1, <3>2, <3>4 DEF CopyKept, Has, Told
  <2>3. \A f \in air' : CopyKept(f)'
    BY <1>4, <1>7, <2>2 DEF Flowing
  <2>4. Spread(id)'
    <3>1. \A n \in Nodes : Has(n, id) => n = id.at
      BY <2>1 DEF Has
    <3>2. ASSUME NEW m \in Links[id.at]
          PROVE  \E f \in air' : f.id = id /\ f.to = m
      <4> DEFINE f == [from |-> id.at, to |-> m, id |-> id, ttl |-> id.ttl,
                       timestamp |-> CoarseTimestamp]
      <4>1. f \in new /\ f.id = id /\ f.to = m
        BY <3>2 DEF Copies
      <4> HIDE DEF f, new
      <4> QED
        BY <1>7, <4>1
    <3> HIDE DEF new
    <3> QED
      BY <1>3, <3>1, <3>2 DEF Spread
  <2>5. ASSUME NEW k \in made' \ spoilt'
        PROVE  /\ \A n \in Nodes : k \in DOMAIN seen'[n] => n \in Told(k)'
               /\ k.ttl >= Cardinality(Nodes) /\ Once(k)' => Spread(k)'
    <3>1. CASE k = id
      BY <1>1, <2>1, <2>4, <3>1
    <3>2. CASE k # id
      <4>1. k \in made \ spoilt
        BY <1>1, <1>7, <2>5, <3>2
      <4>2. /\ \A n \in Nodes : k \in DOMAIN seen[n] => n \in Told(k)
            /\ k.ttl >= Cardinality(Nodes) /\ Once(k) => Spread(k)
        BY <4>1 DEF Flowing
      <4>3. Spread(k) => Spread(k)'
        <5> HIDE DEF new
        <5> QED
          BY <1>3, <1>7 DEF Spread
      <4> QED
        BY <1>1, <1>3, <4>2, <4>3
    <3> QED
      BY <3>1, <3>2
  <2>6. \A n \in Nodes, k \in Ids : k \in DOMAIN seen'[n] \/ n \in Told(k)' => k \in made'
    BY <1>1, <1>3, <1>7 DEF Flowing
  <2> QED
    BY <2>3, <2>5, <2>6 DEF Flowing
<1> QED
  BY <1>2, <1>6, <1>7

\* A copy dropped was one its receiver does not need.
LEMMA DropFlows ==
  ASSUME FloodTyped, Flowing, IsFiniteSet(Nodes), NEW f \in air, NEW rest \in {air, air \ {f}},
         Drop(f), ~ValidHeader(f) \/ Seen(f.to, f.id), air' = rest, UNCHANGED <<made, now>>
  PROVE  Flowing'
<1>1. UNCHANGED <<seen, told>> /\ spoilt' = IF TooOld(f) THEN spoilt \cup {f.id} ELSE spoilt
  BY DEF Drop
<1>2. \A k : Told(k)' = Told(k) /\ (\A n : Has(n, k)' <=> Has(n, k)) /\ (Once(k)' <=> Once(k))
  BY <1>1 DEF Told, Has, Once
<1>3. \A g \in air' : CopyKept(g)'
  BY <1>1, <1>2 DEF Flowing, CopyKept, TooOld
<1>4. ASSUME NEW k \in made \ spoilt', k.ttl >= Cardinality(Nodes), Once(k)'
      PROVE  Spread(k)'
  <2>1. k \in made \ spoilt /\ Once(k) /\ Spread(k)
    BY <1>1, <1>2, <1>4 DEF Flowing
  <2>2. ASSUME k = f.id
        PROVE  f.to \in Told(k)
    <3>1. ~TooOld(f) /\ f.to \in Nodes /\ f.id \in Ids
      BY <1>1, <1>4, <2>2, FloodConstants DEF FloodTyped, CopyOK, Ids
    <3>2. CASE Seen(f.to, f.id)
      BY <2>1, <2>2, <3>1, <3>2 DEF Flowing, Seen
    <3>3. CASE ~(f.ttl > 0)
      BY <1>4, <2>1, <2>2, <3>3, HopsLeft
    <3>4. CASE ~(f.timestamp <= now + Skew)
      <4>1. f.timestamp \in Int /\ f.timestamp <= now /\ now \in Nat /\ Skew \in Nat
        BY FloodConstants DEF Flowing, CopyKept, FloodTyped
      <4> QED
        BY <3>4, <4>1
    <3> QED
      BY <3>1, <3>2, <3>3, <3>4 DEF ValidHeader
  <2>3. ASSUME NEW n \in Nodes, Has(n, k), NEW m \in Links[n], ~Has(m, k)
        PROVE  \E g \in air' : g.id = k /\ g.to = m
    <3>1. PICK g \in air : g.id = k /\ g.to = m
      BY <2>1, <2>3 DEF Spread
    <3>2. g # f
      BY <2>2, <2>3, <3>1 DEF Has
    <3> QED
      BY <3>1, <3>2
  <2> QED
    BY <1>2, <2>3 DEF Spread
<1>5. ASSUME NEW k \in made' \ spoilt'
      PROVE  \A n \in Nodes : k \in DOMAIN seen'[n] => n \in Told(k)'
  <2>1. k \in made \ spoilt
    BY <1>1, <1>5
  <2> QED
    BY <1>1, <1>2, <2>1 DEF Flowing
<1> QED
  BY <1>1, <1>2, <1>3, <1>4, <1>5 DEF Flowing

\* A broadcast that a step leaves alone flows as before.
LEMMA OthersFlow ==
  ASSUME Flowing, NEW k \in made \ spoilt, \A n \in Nodes : told'[n][k] = told[n][k],
         \A n \in Nodes : k \in DOMAIN seen'[n] => k \in DOMAIN seen[n],
         \A g \in air : g.id = k => g \in air'
  PROVE  /\ \A n \in Nodes : k \in DOMAIN seen'[n] => n \in Told(k)'
         /\ k.ttl >= Cardinality(Nodes) /\ Once(k)' => Spread(k)'
<1>1. /\ \A n \in Nodes : k \in DOMAIN seen[n] => n \in Told(k)
      /\ k.ttl >= Cardinality(Nodes) /\ Once(k) => Spread(k)
  BY DEF Flowing
<1>2. Told(k)' = Told(k) /\ (\A n : Has(n, k)' <=> Has(n, k)) /\ (Once(k)' <=> Once(k))
  BY DEF Told, Has, Once
<1>3. Spread(k) => Spread(k)'
  BY <1>2 DEF Spread
<1> QED
  BY <1>1, <1>2, <1>3

\* A telling, or none, leaves every copy as it was.
LEMMA CopiesKept ==
  ASSUME FloodTyped, Flowing, IsFiniteSet(Nodes), now' = now,
         \A m \in Nodes, k \in Ids : told'[m][k] \in {told[m][k], Append(told[m][k], now)},
         NEW f \in air
  PROVE  CopyKept(f)'
<1>1. CopyKept(f) /\ f.id \in Ids /\ f.id.ttl \in Nat /\ f.ttl \in Int /\ now \in Nat
  BY FloodConstants DEF Flowing, FloodTyped, CopyOK, Ids
<1>2. \A m \in Nodes : told[m][f.id] \in Seq(Nat)
  BY <1>1 DEF FloodTyped, ToldTyped
<1>3. \A m \in Nodes : Len(told[m][f.id]) <= Len(told'[m][f.id])
                       /\ (told[m][f.id] # <<>> => told'[m][f.id] # <<>>)
  BY <1>1, <1>2
<1>4. Told(f.id) \subseteq Told(f.id)' /\ Told(f.id)' \subseteq Nodes
      /\ (Once(f.id)' => Once(f.id))
  <2>1. \A m \in Nodes : Len(told[m][f.id]) \in Nat /\ Len(told'[m][f.id]) \in Nat
    BY <1>1, <1>2
  <2> QED
    BY <1>3, <2>1 DEF Told, Once
<1>5. Has(f.from, f.id)'
  BY <1>1, <1>4 DEF CopyKept, Has
<1>6. Once(f.id)' => f.id.ttl - f.ttl <= Cardinality(Told(f.id)')
  <2>1. IsFiniteSet(Told(f.id)') /\ IsFiniteSet(Told(f.id))
        /\ Cardinality(Told(f.id)) <= Cardinality(Told(f.id)')
    BY <1>4, FS_Subset
  <2>2. Cardinality(Told(f.id)) \in Nat /\ Cardinality(Told(f.id)') \in Nat
    BY <2>1, FS_CardinalityType
  <2> QED
    BY <1>1, <1>4, <2>1, <2>2 DEF CopyKept
<1> QED
  BY <1>1, <1>5, <1>6 DEF CopyKept

\* A copy that is only put on record spoils its own broadcast and no other.
LEMMA MarkFlows ==
  ASSUME FloodTyped, Flowing, IsFiniteSet(Nodes), NEW f \in air, NEW rest \in {air, air \ {f}},
         MarkOnly(f), air' = rest, UNCHANGED <<made, now>>
  PROVE  Flowing'
<1>1. /\ f.to \in Nodes /\ f.id \in Ids /\ f.id \in made
      /\ seen' = Marked(f.to, f.id) /\ spoilt' = spoilt \cup {f.id} /\ told' = told
  BY FloodConstants DEF FloodTyped, CopyOK, Ids, MarkOnly
<1>2. /\ DOMAIN seen'[f.to] = DOMAIN seen[f.to] \cup {f.id}
      /\ \A m \in Nodes \ {f.to} : seen'[m] = seen[m]
  BY <1>1, MarkedTyped
<1>3. \A k : Told(k)' = Told(k)
  BY <1>1 DEF Told
<1>4. ASSUME NEW g \in air' PROVE CopyKept(g)'
  <2>1. g \in air
    OBVIOUS
  <2> QED
    BY <1>1, <2>1, CopiesKept
<1>5. \A n \in Nodes, k \in Ids : k \in DOMAIN seen'[n] \/ n \in Told(k)' => k \in made'
  BY <1>1, <1>2, <1>3 DEF Flowing
<1>6. ASSUME NEW k \in made' \ spoilt'
      PROVE  /\ \A n \in Nodes : k \in DOMAIN seen'[n] => n \in Told(k)'
             /\ k.ttl >= Cardinality(Nodes) /\ Once(k)' => Spread(k)'
  <2>1. k \in made \ spoilt /\ k # f.id
    BY <1>1, <1>6
  <2>2. \A n \in Nodes : k \in DOMAIN seen'[n] => k \in DOMAIN seen[n]
    BY <1>2, <2>1
  <2> QED
    BY <1>1, <2>1, <2>2, OthersFlow
<1> QED
  BY <1>4, <1>5, <1>6 DEF Flowing

\* A copy delivered: its receiver has the broadcast now, and unless it keeps it
\* to itself every other neighbour of it gets a copy.
LEMMA DeliverFlows ==
  ASSUME FloodTyped, Flowing, IsFiniteSet(Nodes), NEW f \in air, NEW rest \in {air, air \ {f}},
         ValidHeader(f), ~Seen(f.to, f.id), Deliver(f, rest), UNCHANGED <<made, now>>
  PROVE  Flowing'
<1> DEFINE n == f.to
           id == f.id
           new == Copies(n, id, OneHopOn(f.ttl), f.timestamp, {f.from})
<1>1. /\ n = f.to /\ id = f.id
      /\ n \in Nodes /\ f.from \in Nodes /\ id \in Ids /\ id \in made /\ id.ttl \in Nat
      /\ f.ttl \in Nat /\ now \in Nat /\ Links[n] \subseteq Nodes /\ CopyKept(f)
  BY FloodConstants DEF FloodTyped, CopyOK, Ids, Flowing
<1>2. /\ seen' = Marked(n, id) /\ told' = [told EXCEPT ![n][id] = Append(@, now)]
      /\ \/ air' = rest \cup new /\ spoilt' = spoilt
         \/ air' = rest /\ spoilt' = spoilt \cup {id}
  BY DEF Deliver
<1>3. /\ seen'[n][id] = now /\ DOMAIN seen'[n] = DOMAIN seen[n] \cup {id}
      /\ \A m \in Nodes \ {n} : seen'[m] = seen[m]
  BY <1>1, <1>2, MarkedTyped
<1> HIDE DEF n, id, new
<1>4. /\ \A m \in Nodes, k \in Ids : m # n \/ k # id => told'[m][k] = told[m][k]
      /\ told'[n][id] = Append(told[n][id], now)
      /\ Len(told'[n][id]) = Len(told[n][id]) + 1
      /\ told[n][id] \in Seq(Nat) /\ told'[n][id] # <<>>
  <2>1. /\ Len(told'[n][id]) = Len(told[n][id]) + 1
        /\ told'[n][id] = Append(told[n][id], now)
        /\ \A m \in Nodes, k \in Ids : m # n \/ k # id => told'[m][k] = told[m][k]
    <3>1. n \in Nodes /\ id \in Ids /\ now' = now
      BY <1>1
    <3>2. told' = [told EXCEPT ![n][id] = Append(@, now)]
      BY <1>2
    <3> QED
      BY <3>1, <3>2, ToldMore
  <2>2. told[n][id] \in Seq(Nat) /\ Len(told[n][id]) \in Nat
    BY <1>1 DEF FloodTyped, ToldTyped
  <2>3. told'[n][id] # <<>>
    BY <2>1, <2>2
  <2> QED
    BY <2>1, <2>2, <2>3
<1>5. Told(id)' = Told(id) \cup {n} /\ \A k \in Ids \ {id} : Told(k)' = Told(k)
  <2>1. /\ n \in Nodes /\ id \in Ids /\ told'[n][id] # <<>>
        /\ \A m \in Nodes, k \in Ids : m # n \/ k # id => told'[m][k] = told[m][k]
    BY <1>1, <1>4
  <2> QED
    BY <2>1 DEF Told
<1>6. /\ Once(id)' => n \notin Told(id) /\ Once(id)
      /\ Once(id)' => \A m \in Nodes : Len(told[m][id]) <= 1
  <2>1. told[n][id] # <<>> => Len(told[n][id]) > 0
    BY <1>4
  <2>2. ASSUME Once(id)'
        PROVE  Len(told[n][id]) = 0 /\ \A m \in Nodes : Len(told[m][id]) <= 1
    <3>1. \A m \in Nodes : Len(told'[m][id]) <= 1
      BY <2>2 DEF Once
    <3>2. Len(told[n][id]) \in Nat /\ Len(told[n][id]) + 1 <= 1
      <4>1. n \in Nodes /\ Len(told'[n][id]) = Len(told[n][id]) + 1
        BY <1>1, <1>4
      <4>2. Len(told[n][id]) \in Nat
        BY <1>4
      <4> QED
        BY <3>1, <4>1, <4>2
    <3>3. \A m \in Nodes \ {n} : told'[m][id] = told[m][id]
      BY <1>1, <1>4
    <3> QED
      BY <3>1, <3>2, <3>3
  <2> QED
    BY <2>1, <2>2 DEF Told, Once
<1>7. Once(id)' => Cardinality(Told(id)') = Cardinality(Told(id)) + 1
      /\ Cardinality(Told(id)) \in Nat
  <2>1. Told(id) \subseteq Nodes
    BY DEF Told
  <2>2. IsFiniteSet(Told(id))
    BY <2>1, FS_Subset
  <2>3. Once(id)' => Cardinality(Told(id) \cup {n}) = Cardinality(Told(id)) + 1
    BY <1>6, <2>2, FS_AddElement
  <2>4. Cardinality(Told(id)) \in Nat
    BY <2>2, FS_CardinalityType
  <2> QED
    BY <1>5, <2>3, <2>4
<1>8. ASSUME NEW g \in air PROVE CopyKept(g)'
  <2>1. \A m \in Nodes, k \in Ids : told'[m][k] \in {told[m][k], Append(told[m][k], now)}
    BY <1>4
  <2> QED
    BY <2>1, CopiesKept
<1>9. ASSUME NEW g \in new PROVE CopyKept(g)'
  <2>1. g.from = n /\ g.id = id /\ g.ttl = f.ttl - 1 /\ g.timestamp = f.timestamp
    BY DEF new, Copies, OneHopOn
  <2>2. CopyKept(f)'
    BY <1>8
  <2>3. Has(n, id)'
    BY <1>5 DEF Has
  <2>4. Once(id)' => id.ttl - g.ttl <= Cardinality(Told(id)')
    BY <1>1, <1>6, <1>7, <2>1 DEF CopyKept
  <2> QED
    BY <2>1, <2>2, <2>3, <2>4 DEF CopyKept
<1>10. \A m \in Nodes, k \in Ids : k \in DOMAIN seen'[m] \/ m \in Told(k)' => k \in made'
  BY <1>1, <1>3, <1>5 DEF Flowing
<1>11. \A m \in Nodes, k \in Ids \ {id} : k \in DOMAIN seen'[m] => k \in DOMAIN seen[m]
  BY <1>3
<1>12. ASSUME NEW k \in made' \ spoilt', k # id
       PROVE  /\ \A m \in Nodes : k \in DOMAIN seen'[m] => m \in Told(k)'
              /\ k.ttl >= Cardinality(Nodes) /\ Once(k)' => Spread(k)'
  <2>1. k \in made \ spoilt /\ k \in Ids
    BY <1>2, <1>12 DEF FloodTyped, Ids
  <2>2. \A g \in air : g.id = k => g \in air'
    BY <1>1, <1>2, <1>12
  <2> QED
    BY <1>4, <1>11, <1>12, <2>1, <2>2, OthersFlow
<1>13. ASSUME id \notin spoilt'
       PROVE  /\ \A m \in Nodes : id \in DOMAIN seen'[m] => m \in Told(id)'
              /\ id.ttl >= Cardinality(Nodes) /\ Once(id)' => Spread(id)'
  <2>1. id \in made \ spoilt /\ air' = rest \cup new
    BY <1>1, <1>2, <1>13
  <2>2. \A m \in Nodes : id \in DOMAIN seen[m] => m \in Told(id)
    BY <2>1 DEF Flowing
  <2>3. \A m \in Nodes : id \in DOMAIN seen'[m] => m \in Told(id)'
    BY <1>3, <1>5, <2>2
  <2>4. ASSUME id.ttl >= Cardinality(Nodes), Once(id)', NEW m \in Nodes, Has(m, id)',
               NEW to \in Links[m], ~Has(to, id)'
        PROVE  \E g \in air' : g.id = id /\ g.to = to
    <3>1. ~Has(to, id) /\ to # n
      BY <1>5, <2>4 DEF Has
    <3>2. CASE Has(m, id)
      <4>1. PICK g \in air : g.id = id /\ g.to = to
        BY <1>6, <2>1, <2>4, <3>1, <3>2 DEF Flowing, Spread
      <4>2. g # f
        BY <1>1, <3>1, <4>1
      <4> QED
        BY <2>1, <4>1, <4>2
    <3>3. CASE ~Has(m, id)
      <4>1. m = n
        BY <1>5, <2>4, <3>3 DEF Has
      <4>2. to # f.from
        BY <1>1, <3>1 DEF CopyKept
      <4> DEFINE g == [from |-> n, to |-> to, id |-> id, ttl |-> OneHopOn(f.ttl),
                       timestamp |-> f.timestamp]
      <4>3. g \in new /\ g.id = id /\ g.to = to
        BY <2>4, <4>1, <4>2 DEF new, Copies
      <4> HIDE DEF g
      <4> QED
        BY <2>1, <4>3
    <3> QED
      BY <3>2, <3>3
  <2>5. id.ttl >= Cardinality(Nodes) /\ Once(id)' => Spread(id)'
    BY <2>4 DEF Spread
  <2> QED
    BY <2>3, <2>5
<1>14. \A g \in air' : CopyKept(g)'
  BY <1>2, <1>8, <1>9
<1>15. ASSUME NEW k \in made' \ spoilt'
       PROVE  /\ \A m \in Nodes : k \in DOMAIN seen'[m] => m \in Told(k)'
              /\ k.ttl >= Cardinality(Nodes) /\ Once(k)' => Spread(k)'
  BY <1>12, <1>13, <1>15
<1> QED
  BY <1>10, <1>14, <1>15 DEF Flowing

\* A purge leaves copies and tellings alone.
LEMMA PurgeFlows ==
  ASSUME FloodTyped, Flowing, NEW n \in Nodes, NEW maxAge \in PurgeAges,
         PurgeStaleBroadcastRecords(n, maxAge)
  PROVE  Flowing'
<1>1. UNCHANGED <<air, made, told, spoilt, now>>
  BY DEF PurgeStaleBroadcastRecords
<1>2. \A m \in Nodes : DOMAIN seen'[m] \subseteq DOMAIN seen[m]
  <2> DEFINE kept == {id \in DOMAIN seen[n] : now - seen[n][id] <= maxAge}
  <2>1. seen' = [seen EXCEPT ![n] = [id \in kept |-> seen[n][id]]]
    BY DEF PurgeStaleBroadcastRecords, Restrict
  <2>2. kept \subseteq DOMAIN seen[n]
    OBVIOUS
  <2> HIDE DEF kept
  <2> QED
    BY <2>1, <2>2 DEF FloodTyped, SeenTyped
<1>3. \A k : Told(k)' = Told(k) /\ (\A m : Has(m, k)' <=> Has(m, k)) /\ (Once(k)' <=> Once(k))
  BY <1>1 DEF Told, Has, Once
<1>4. \A f \in air : CopyKept(f)'
  BY <1>1, <1>3 DEF Flowing, CopyKept
<1>5. ASSUME NEW k \in made' \ spoilt'
      PROVE  /\ \A m \in Nodes : k \in DOMAIN seen'[m] => m \in Told(k)'
             /\ k.ttl >= Cardinality(Nodes) /\ Once(k)' => Spread(k)'
  BY <1>1, <1>2, OthersFlow
<1>6. \A m \in Nodes, k \in Ids : k \in DOMAIN seen'[m] \/ m \in Told(k)' => k \in made'
  BY <1>1, <1>2, <1>3 DEF Flowing
<1> QED
  BY <1>1, <1>4, <1>5, <1>6 DEF Flowing

\* Time changes nothing of it.
LEMMA TickFlows ==
  ASSUME FloodTyped, Flowing, Tick
  PROVE  Flowing'
<1>1. /\ UNCHANGED <<seen, air, made, told, spoilt>>
      /\ now \in Nat /\ now' = now + 1 /\ MaxAge \in Nat
  BY FloodConstants DEF Tick, FloodTyped
<1>2. \A k : Told(k)' = Told(k) /\ (\A m : Has(m, k)' <=> Has(m, k)) /\ (Once(k)' <=> Once(k))
  BY <1>1 DEF Told, Has, Once
<1>3. ASSUME NEW f \in air PROVE CopyKept(f)'
  <2>1. CopyKept(f) /\ f.timestamp \in Int
    BY DEF Flowing, CopyKept
  <2>2. f.timestamp <= now'
    BY <1>1, <2>1 DEF CopyKept
  <2> QED
    BY <1>1, <1>2, <2>1, <2>2 DEF CopyKept
<1>4. ASSUME NEW k \in made' \ spoilt'
      PROVE  /\ \A m \in Nodes : k \in DOMAIN seen'[m] => m \in Told(k)'
             /\ k.ttl >= Cardinality(Nodes) /\ Once(k)' => Spread(k)'
  BY <1>1, OthersFlow
<1>5. \A m \in Nodes, k \in Ids : k \in DOMAIN seen'[m] \/ m \in Told(k)' => k \in made'
  BY <1>1, <1>2 DEF Flowing
<1> QED
  BY <1>1, <1>3, <1>4, <1>5 DEF Flowing

\* The receipt of a copy.
LEMMA ArriveFlows ==
  ASSUME FloodTyped, Flowing, IsFiniteSet(Nodes), NEW f \in air, Arrive(f)
  PROVE  Flowing'
<1>1. PICK intact \in BOOLEAN, rest \in {air, air \ {f}} : ReceiveBroadcast(f, intact, rest)
  BY DEF Arrive
<1>2. UNCHANGED <<made, now>>
  BY DEF Arrive
<1>3. CASE (~ValidHeader(f) \/ Seen(f.to, f.id)) /\ Drop(f) /\ air' = rest
  BY <1>2, <1>3, DropFlows
<1>4. CASE MarkOnly(f) /\ air' = rest
  BY <1>2, <1>4, MarkFlows
<1>5. CASE ValidHeader(f) /\ ~Seen(f.to, f.id) /\ Deliver(f, rest)
  BY <1>2, <1>5, DeliverFlows
<1> QED
  BY <1>1, <1>3, <1>4, <1>5 DEF ReceiveBroadcast

\* Every step keeps the flood flowing.
LEMMA FlowingStep ==
  ASSUME IsFiniteSet(Nodes)
  PROVE  FloodTyped /\ Flowing /\ [Next]_vars => Flowing'
<1> SUFFICES ASSUME FloodTyped, Flowing, [Next]_vars PROVE Flowing'
  OBVIOUS
<1>1. CASE UNCHANGED vars
  <2>1. UNCHANGED <<seen, air, made, told, spoilt, now>>
    BY <1>1 DEF vars
  <2>2. \A k : Told(k)' = Told(k) /\ (\A m : Has(m, k)' <=> Has(m, k)) /\ (Once(k)' <=> Once(k))
    BY <2>1 DEF Told, Has, Once
  <2>3. \A f : CopyKept(f)' <=> CopyKept(f)
    BY <2>1, <2>2 DEF CopyKept
  <2>4. \A k : Spread(k)' <=> Spread(k)
    BY <2>1, <2>2 DEF Spread
  <2> QED
    BY <2>1, <2>2, <2>3, <2>4 DEF Flowing
<1>2. CASE \E id \in Calls : Broadcast(id)
  BY <1>2, BroadcastFlows
<1>3. CASE \E f \in air : Arrive(f)
  BY <1>3, ArriveFlows
<1>4. CASE \E n \in Nodes, maxAge \in PurgeAges : PurgeStaleBroadcastRecords(n, maxAge)
  BY <1>4, PurgeFlows
<1>5. CASE Tick
  BY <1>5, TickFlows
<1> QED
  BY <1>1, <1>2, <1>3, <1>4, <1>5 DEF Next

\* What it comes to when no copy is left: those who have the broadcast are a
\* closed set of nodes.
LEMMA FlowedOut ==
  ASSUME FloodTyped, Flowing, LinksReachAll
  PROVE  FloodComplete
<1> SUFFICES ASSUME NEW id \in made, id.ttl >= Cardinality(Nodes), id \notin spoilt,
                    Once(id), ~\E f \in air : f.id = id,
                    NEW n \in Nodes \ {id.at}
             PROVE  told[n][id] # <<>>
  BY DEF FloodComplete, Once
<1>1. id \in Calls /\ id.at \in Nodes
  BY FloodConstants DEF FloodTyped
<1>2. Spread(id)
  BY DEF Flowing
<1> DEFINE S == {m \in Nodes : Has(m, id)}
<1>3. id.at \in S
  BY <1>1 DEF Has
<1>4. \A m \in S : Links[m] \subseteq S
  <2>1. \A m \in Nodes : Links[m] \subseteq Nodes
    BY FloodConstants
  <2> QED
    BY <1>2, <2>1 DEF Spread
<1>5. S \in SUBSET Nodes
  OBVIOUS
<1> HIDE DEF S
<1>6. S = Nodes
  BY <1>1, <1>3, <1>4, <1>5 DEF LinksReachAll
<1> USE DEF S
<1>7. Has(n, id)
  BY <1>6
<1> QED
  BY <1>7 DEF Has, Told

----------------------------------------------------------------------------
\* The state has its shape in every behaviour.
LEMMA FloodTypedHolds == Spec => []FloodTyped
BY FloodTypedInit, FloodTypedStep, PTL DEF Spec

\* The windows have their shape, and every window counts the broadcasts of its
\* origin that the node's listeners were told of since it began, at most Budget.
THEOREM FloodWindowsSound == Spec => []WindowsSound
<1>1. Init => WindowsFit
  BY FloodConstants DEF Init, WindowsFit, WindowFits
<1>2. FloodTyped /\ WindowsFit => WindowsSound
  <2> SUFFICES ASSUME FloodTyped, WindowsFit PROVE WindowsSound
    OBVIOUS
  <2>1. \A w \in Windows : w.since \in 0 .. now /\ w.count \in 0 .. Budget /\ w.count <= Budget
    BY FloodConstants DEF Windows, FloodTyped
  <2>2. \A n \in Nodes, o \in Nodes : creation[n] \in Windows /\ receive[n][o] \in Windows
    BY DEF FloodTyped, WindowsTyped
  <2>3. \A f \in air : f.to \in Links[f.from] /\ f.id \in made /\ f.ttl <= f.id.ttl
    BY DEF FloodTyped, CopyOK
  <2>4. TypeOK
    BY <2>1, <2>2, <2>3 DEF TypeOK, FloodTyped, SeenTyped
  <2>5. BudgetHolds
    BY <2>1, <2>2 DEF BudgetHolds, WindowsFit, WindowFits
  <2>6. QED
    BY <2>4, <2>5 DEF WindowsSound
<1>3. QED
  BY <1>1, <1>2, FloodTypedHolds, WindowsFitStep, PTL DEF Spec

\* A second telling comes only after a purge that may have forgotten the first.
THEOREM FloodToldOnce == Spec => []ToldOnce
<1>1. Init => Remembered /\ ToldOnce
  BY DEF Init, Remembered, ToldOnce
<1>2. QED
  BY <1>1, FloodTypedHolds, RememberedStep, PTL DEF Spec

\* Nobody is told further from the origin than the ttl allows.
THEOREM FloodTtlBoundsReach == Spec => []TtlBoundsReach
<1>1. Init => CopiesInReach /\ TtlBoundsReach
  BY DEF Init, CopiesInReach, TtlBoundsReach
<1>2. QED
  BY <1>1, FloodTypedHolds, ReachStep, PTL DEF Spec

\* A flood that nothing spoils, of which nobody is told twice, reaches every node
\* when links lead everywhere from its origin and it has as many hops as nodes.
THEOREM FloodReachesAll ==
  ASSUME IsFiniteSet(Nodes), LinksReachAll
  PROVE  Spec => []FloodComplete
<1>1. Init => Flowing
  BY DEF Init, Flowing, Told
<1>2. FloodTyped /\ Flowing /\ [Next]_vars => Flowing'
  BY FlowingStep
<1>3. FloodTyped /\ Flowing => FloodComplete
  BY FlowedOut
<1> QED
  BY <1>1, <1>2, <1>3, FloodTypedHolds, PTL DEF Spec
=============================================================================
