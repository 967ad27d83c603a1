--------------------- MODULE FragmentReassemblerProofs ---------------------
(***************************************************************************)
(* For any number of peers, messages and fragments, and any limits: what   *)
(* the reassembly store puts together is whole, from one peer, and arrived *)
(* within the lifetime of a set; what it has received it keeps; and its    *)
(* counters are what it holds, never above a limit.                        *)
(***************************************************************************)
EXTENDS FragmentReassembler, FiniteSetTheorems, WellFoundedInduction, TLAPS

\* Among finite sets there is one that contains no other.
LEMMA SmallestSet ==
  ASSUME NEW Bad, Bad # {}, \A s \in Bad : IsFiniteSet(s)
  PROVE  \E s \in Bad : \A r \in Bad : r \subseteq s => r = s
<1> DEFINE all == UNION Bad
<1>1. Bad \subseteq FiniteSubsetsOf(all)
  BY DEF FiniteSubsetsOf
<1>2. PICK s \in Bad : \A r \in Bad : ~(<<r, s>> \in StrictSubsetOrdering(all))
  <2> HIDE DEF all
  <2> QED
    BY <1>1, FS_StrictSubsetOrderingWellFounded, WFMin
<1>3. ASSUME NEW r \in Bad, r \subseteq s
      PROVE  r = s
  <2>1. r \in SUBSET all /\ s \in SUBSET all
    OBVIOUS
  <2> QED
    BY <1>2, <1>3, <2>1 DEF StrictSubsetOrdering
<1> QED
  BY <1>3

\* The recursion that a sum over the subsets of S is defined by.
Pick(s) == CHOOSE x \in s : TRUE
IsPartialSum(F, f, S) ==
  F = [s \in SUBSET S |-> IF s = {} THEN 0 ELSE f[Pick(s)] + F[s \ {Pick(s)}]]
PartialSum(f, S) == CHOOSE F : IsPartialSum(F, f, S)

\* The recursion decides its function on finite sets.
LEMMA PartialSumUnique ==
  ASSUME NEW f, NEW S, NEW T, NEW F, NEW G, IsPartialSum(F, f, S), IsPartialSum(G, f, T)
  PROVE  \A s \in SUBSET S : s \in SUBSET T /\ IsFiniteSet(s) => F[s] = G[s]
<1> DEFINE Bad == {s \in SUBSET S : s \in SUBSET T /\ IsFiniteSet(s) /\ F[s] # G[s]}
<1>1. ASSUME Bad # {}
      PROVE  FALSE
  <2>1. PICK s \in Bad : \A r \in Bad : r \subseteq s => r = s
    <3>1. \A s \in Bad : IsFiniteSet(s)
      OBVIOUS
    <3> HIDE DEF Bad
    <3> QED
      BY <1>1, <3>1, SmallestSet
  <2>2. s # {}
    BY DEF IsPartialSum
  <2> DEFINE r == s \ {Pick(s)}
  <2>3. Pick(s) \in s /\ r # s
    BY <2>2 DEF Pick
  <2>4. r \in SUBSET S /\ r \in SUBSET T /\ IsFiniteSet(r)
    BY FS_RemoveElement
  <2>5. F[r] = G[r]
    BY <2>1, <2>3, <2>4
  <2>6. F[s] = f[Pick(s)] + F[r] /\ G[s] = f[Pick(s)] + G[r]
    <3> HIDE DEF r
    <3>1. s \in SUBSET S /\ s \in SUBSET T
      OBVIOUS
    <3> QED
      BY <2>2, <3>1 DEF IsPartialSum, r
  <2> QED
    BY <2>5, <2>6
<1> QED
  BY <1>1

\* On finite sets there is such a function.
LEMMA PartialSumExists ==
  ASSUME NEW f, NEW S, IsFiniteSet(S)
  PROVE  IsPartialSum(PartialSum(f, S), f, S)
<1> DEFINE Bad == {s \in SUBSET S : ~IsPartialSum(PartialSum(f, s), f, s)}
<1>1. ASSUME Bad # {}
      PROVE  FALSE
  <2>1. PICK t \in Bad : \A r \in Bad : r \subseteq t => r = t
    <3>1. \A s \in Bad : IsFiniteSet(s)
      BY FS_Subset
    <3> HIDE DEF Bad
    <3> QED
      BY <1>1, <3>1, SmallestSet
  <2> DEFINE rest(s) == s \ {Pick(s)}
             value(s) == PartialSum(f, s)[s]
             F == [s \in SUBSET t |-> IF s = {} THEN 0 ELSE f[Pick(s)] + value(rest(s))]
  <2>2. ASSUME NEW r \in SUBSET t, r # t
        PROVE  value(r) = IF r = {} THEN 0 ELSE f[Pick(r)] + value(rest(r))
    <3>1. IsPartialSum(PartialSum(f, r), f, r) /\ r \in SUBSET r
      BY <2>1, <2>2
    <3>2. value(r) = IF r = {} THEN 0 ELSE f[Pick(r)] + PartialSum(f, r)[rest(r)]
      BY <3>1 DEF IsPartialSum
    <3>3. rest(r) \in SUBSET t /\ (r # {} => Pick(r) \in r /\ rest(r) # t)
      BY <2>2 DEF Pick
    <3>4. r # {} => IsPartialSum(PartialSum(f, rest(r)), f, rest(r))
      BY <2>1, <3>3
    <3>5. IsFiniteSet(rest(r)) /\ rest(r) \in SUBSET r /\ rest(r) \in SUBSET rest(r)
      BY FS_Subset
    <3>6. r # {} => PartialSum(f, r)[rest(r)] = value(rest(r))
      <4> HIDE DEF rest
      <4> QED
        BY <3>1, <3>4, <3>5, PartialSumUnique
    <3> QED
      BY <3>2, <3>6
  <2>3. ASSUME NEW s \in SUBSET t, s # {}
        PROVE  F[rest(s)] = value(rest(s))
    <3>1. rest(s) \in SUBSET t /\ rest(s) # t
      BY <2>3 DEF Pick
    <3> HIDE DEF rest, value
    <3> QED
      BY <2>2, <3>1
  <2>4. IsPartialSum(F, f, t)
    <3>1. F = [s \in SUBSET t |-> IF s = {} THEN 0 ELSE f[Pick(s)] + F[rest(s)]]
      <4> HIDE DEF rest, value
      <4> QED
        BY <2>3
    <3> HIDE DEF F
    <3> QED
      BY <3>1 DEF IsPartialSum
  <2>5. IsPartialSum(PartialSum(f, t), f, t)
    <3> HIDE DEF F
    <3> QED
      BY <2>4 DEF PartialSum
  <2> QED
    BY <2>5
<1> QED
  BY <1>1

\* The sum over a finite set, taken one element off.
LEMMA SumStep ==
  ASSUME NEW f, NEW S, IsFiniteSet(S)
  PROVE  SumFunctionOnSet(f, S) =
           IF S = {} THEN 0 ELSE f[Pick(S)] + SumFunctionOnSet(f, S \ {Pick(S)})
<1>1. \A T : SumFunctionOnSet(f, T) = PartialSum(f, T)[T]
  BY DEF SumFunctionOnSet, FoldFunctionOnSet, MapThenFoldSet, PartialSum, IsPartialSum, Pick
<1> DEFINE r == S \ {Pick(S)}
<1>2. IsFiniteSet(r) /\ r \in SUBSET S /\ r \in SUBSET r /\ S \in SUBSET S
  BY FS_Subset
<1>3. IsPartialSum(PartialSum(f, S), f, S) /\ IsPartialSum(PartialSum(f, r), f, r)
  BY <1>2, PartialSumExists
<1>4. PartialSum(f, S)[r] = PartialSum(f, r)[r]
  <2> HIDE DEF r
  <2> QED
    BY <1>2, <1>3, PartialSumUnique
<1>5. PartialSum(f, S)[S] = IF S = {} THEN 0 ELSE f[Pick(S)] + PartialSum(f, S)[r]
  BY <1>2, <1>3 DEF IsPartialSum
<1> QED
  BY <1>1, <1>4, <1>5

\* A sum takes nothing but what its function gives for the set.
LEMMA SumOfSame ==
  ASSUME NEW f, NEW g, NEW S, IsFiniteSet(S), \A x \in S : f[x] = g[x]
  PROVE  SumFunctionOnSet(f, S) = SumFunctionOnSet(g, S)
<1> DEFINE Bad == {s \in SUBSET S : SumFunctionOnSet(f, s) # SumFunctionOnSet(g, s)}
<1>1. ASSUME Bad # {}
      PROVE  FALSE
  <2>1. PICK s \in Bad : \A r \in Bad : r \subseteq s => r = s
    <3>1. \A s \in Bad : IsFiniteSet(s)
      BY FS_Subset
    <3> HIDE DEF Bad
    <3> QED
      BY <1>1, <3>1, SmallestSet
  <2> DEFINE r == s \ {Pick(s)}
  <2>2. IsFiniteSet(s) /\ s \in SUBSET S
    BY FS_Subset
  <2>3. /\ SumFunctionOnSet(f, s) =
             IF s = {} THEN 0 ELSE f[Pick(s)] + SumFunctionOnSet(f, r)
        /\ SumFunctionOnSet(g, s) =
             IF s = {} THEN 0 ELSE g[Pick(s)] + SumFunctionOnSet(g, r)
    BY <2>2, SumStep
  <2>4. s # {} /\ Pick(s) \in s
    BY <2>3 DEF Pick
  <2>5. r \in SUBSET S /\ r # s /\ r \subseteq s
    BY <2>4
  <2>6. SumFunctionOnSet(f, r) = SumFunctionOnSet(g, r)
    BY <2>1, <2>5
  <2>7. f[Pick(s)] = g[Pick(s)]
    BY <2>2, <2>4
  <2> QED
    BY <2>3, <2>6, <2>7
<1> QED
  BY <1>1

\* A sum of naturals is a natural.
LEMMA SumIsNat ==
  ASSUME NEW f, NEW S, IsFiniteSet(S), \A x \in S : f[x] \in Nat
  PROVE  SumFunctionOnSet(f, S) \in Nat
<1> DEFINE Bad == {s \in SUBSET S : SumFunctionOnSet(f, s) \notin Nat}
<1>1. ASSUME Bad # {}
      PROVE  FALSE
  <2>1. PICK s \in Bad : \A r \in Bad : r \subseteq s => r = s
    <3>1. \A s \in Bad : IsFiniteSet(s)
      BY FS_Subset
    <3> HIDE DEF Bad
    <3> QED
      BY <1>1, <3>1, SmallestSet
  <2> DEFINE r == s \ {Pick(s)}
  <2>2. IsFiniteSet(s) /\ s \in SUBSET S
    BY FS_Subset
  <2>3. SumFunctionOnSet(f, s) = IF s = {} THEN 0 ELSE f[Pick(s)] + SumFunctionOnSet(f, r)
    BY <2>2, SumStep
  <2>4. s # {} /\ Pick(s) \in s
    BY <2>3 DEF Pick
  <2>5. SumFunctionOnSet(f, r) \in Nat
    BY <2>1, <2>4
  <2> QED
    BY <2>2, <2>3, <2>4, <2>5
<1> QED
  BY <1>1

\* An element more adds its value, whichever one the sum takes off first.
LEMMA SumInsert ==
  ASSUME NEW f, NEW S, IsFiniteSet(S), NEW x, x \notin S,
         \A y \in S \cup {x} : f[y] \in Nat
  PROVE  SumFunctionOnSet(f, S \cup {x}) = f[x] + SumFunctionOnSet(f, S)
<1> DEFINE U == S \cup {x}
           Good(s) == \A y \in U \ s :
                        SumFunctionOnSet(f, s \cup {y}) = f[y] + SumFunctionOnSet(f, s)
           Bad == {s \in SUBSET U : ~Good(s)}
<1>0. IsFiniteSet(U)
  BY FS_AddElement
<1>1. ASSUME Bad # {}
      PROVE  FALSE
  <2>1. PICK s \in Bad : \A r \in Bad : r \subseteq s => r = s
    <3>1. \A s \in Bad : IsFiniteSet(s)
      BY <1>0, FS_Subset
    <3> HIDE DEF Bad
    <3> QED
      BY <1>1, <3>1, SmallestSet
  <2>2. s \in SUBSET U /\ ~Good(s)
    OBVIOUS
  <2>3. PICK y \in U \ s : SumFunctionOnSet(f, s \cup {y}) # f[y] + SumFunctionOnSet(f, s)
    BY <2>2
  <2> DEFINE t == s \cup {y}
             z == Pick(t)
  <2>4. IsFiniteSet(s) /\ IsFiniteSet(t) /\ IsFiniteSet(s \ {z})
    BY <1>0, <2>2, FS_Subset
  <2>5. z \in t
    BY DEF Pick
  <2>6. SumFunctionOnSet(f, t) = f[z] + SumFunctionOnSet(f, t \ {z})
    <3>1. t # {}
      OBVIOUS
    <3> HIDE DEF t
    <3> QED
      BY <2>4, <3>1, SumStep
  <2>7. z # y
    <3>1. z = y => t \ {z} = s
      BY <2>3
    <3> QED
      BY <2>3, <2>6, <3>1
  <2> DEFINE r == s \ {z}
  <2>8. z \in s /\ r \in SUBSET U /\ r \subseteq s /\ r # s /\ t \ {z} = r \cup {y} /\ r \cup {z} = s
        /\ y \in U \ r /\ z \in U \ r
    BY <2>2, <2>3, <2>5, <2>7
  <2>9. Good(r)
    <3> HIDE DEF Good
    <3> QED
      BY <2>1, <2>8
  <2>10. /\ SumFunctionOnSet(f, r \cup {y}) = f[y] + SumFunctionOnSet(f, r)
         /\ SumFunctionOnSet(f, r \cup {z}) = f[z] + SumFunctionOnSet(f, r)
    BY <2>8, <2>9
  <2>11. SumFunctionOnSet(f, r) \in Nat /\ f[y] \in Nat /\ f[z] \in Nat
    <3>1. \A u \in r : f[u] \in Nat
      BY <2>8
    <3> HIDE DEF r
    <3> QED
      BY <2>4, <2>8, <3>1, SumIsNat DEF r
  <2> HIDE DEF r, t, z
  <2>12. /\ SumFunctionOnSet(f, t) = f[z] + (f[y] + SumFunctionOnSet(f, r))
         /\ SumFunctionOnSet(f, s) = f[z] + SumFunctionOnSet(f, r)
    BY <2>6, <2>8, <2>10
  <2>13. SumFunctionOnSet(f, t) = f[y] + SumFunctionOnSet(f, s)
    BY <2>11, <2>12
  <2> QED
    BY <2>3, <2>13 DEF t
<1>2. S \in SUBSET U /\ x \in U \ S
  OBVIOUS
<1> QED
  BY <1>1, <1>2

\* A set's sum is what two parts of it sum up to.
LEMMA SumOfParts ==
  ASSUME NEW f, NEW S, IsFiniteSet(S), NEW T \in SUBSET S, \A x \in S : f[x] \in Nat
  PROVE  SumFunctionOnSet(f, S) = SumFunctionOnSet(f, T) + SumFunctionOnSet(f, S \ T)
<1> DEFINE Bad == {s \in SUBSET (S \ T) : SumFunctionOnSet(f, T \cup s)
                      # SumFunctionOnSet(f, T) + SumFunctionOnSet(f, s)}
<1>0. IsFiniteSet(T) /\ SumFunctionOnSet(f, T) \in Nat
  BY FS_Subset, SumIsNat
<1>1. ASSUME Bad # {}
      PROVE  FALSE
  <2>1. PICK s \in Bad : \A r \in Bad : r \subseteq s => r = s
    <3>1. \A s \in Bad : IsFiniteSet(s)
      BY FS_Subset
    <3> HIDE DEF Bad
    <3> QED
      BY <1>1, <3>1, SmallestSet
  <2>2. s \in SUBSET (S \ T) /\ IsFiniteSet(s) /\ IsFiniteSet(T \cup s)
    BY FS_Subset
  <2>3. s # {}
    <3>1. SumFunctionOnSet(f, {}) = 0
      BY FS_EmptySet, SumStep
    <3>2. T \cup {} = T
      OBVIOUS
    <3> QED
      BY <1>0, <3>1, <3>2
  <2>4. PICK y \in s : TRUE
    BY <2>3
  <2> DEFINE r == s \ {y}
  <2>5. r \in SUBSET (S \ T) /\ r \subseteq s /\ r # s /\ IsFiniteSet(r) /\ IsFiniteSet(T \cup r)
        /\ y \notin r /\ y \notin T \cup r /\ r \cup {y} = s /\ (T \cup r) \cup {y} = T \cup s
    BY <2>2, FS_Subset
  <2>6. SumFunctionOnSet(f, T \cup r) = SumFunctionOnSet(f, T) + SumFunctionOnSet(f, r)
    BY <2>1, <2>5
  <2>7. \A x \in T \cup s : f[x] \in Nat
    BY <2>2
  <2>8. SumFunctionOnSet(f, s) = f[y] + SumFunctionOnSet(f, r)
    <3>1. \A x \in r \cup {y} : f[x] \in Nat
      BY <2>5, <2>7
    <3> HIDE DEF r
    <3> QED
      BY <2>5, <3>1, SumInsert
  <2>9. SumFunctionOnSet(f, T \cup s) = f[y] + SumFunctionOnSet(f, T \cup r)
    <3>1. \A x \in (T \cup r) \cup {y} : f[x] \in Nat
      BY <2>5, <2>7
    <3> DEFINE u == T \cup r
    <3>2. SumFunctionOnSet(f, u \cup {y}) = f[y] + SumFunctionOnSet(f, u)
      <4>1. IsFiniteSet(u) /\ y \notin u /\ \A x \in u \cup {y} : f[x] \in Nat
        BY <2>5, <3>1
      <4> HIDE DEF u
      <4> QED
        BY <4>1, SumInsert
    <3> QED
      BY <2>5, <3>2
  <2>10. SumFunctionOnSet(f, r) \in Nat /\ f[y] \in Nat
    <3>1. \A x \in r : f[x] \in Nat
      BY <2>5, <2>7
    <3> HIDE DEF r
    <3> QED
      BY <2>4, <2>5, <2>7, <3>1, SumIsNat
  <2>11. SumFunctionOnSet(f, T \cup s) = SumFunctionOnSet(f, T) + SumFunctionOnSet(f, s)
    <3> HIDE DEF r
    <3> QED
      BY <1>0, <2>6, <2>8, <2>9, <2>10
  <2> QED
    BY <2>11
<1>2. S \ T \in SUBSET (S \ T) /\ T \cup (S \ T) = S
  OBVIOUS
<1> QED
  BY <1>1, <1>2

----------------------------------------------------------------------------
\* A set as the store keeps it at time t: every fragment in it is announced by
\* its count, was sent by its peer, and came after the set was begun.
SoundSet(entry, t) ==
  /\ {"received", "bytes"} \subseteq DOMAIN entry
  /\ entry.fragmentCount \in Nat
  /\ entry.firstSeenAt \in Nat /\ entry.firstSeenAt <= t
  /\ DOMAIN entry.received \subseteq 0 .. entry.fragmentCount - 1
  /\ \A i \in DOMAIN entry.received :
       /\ entry.received[i].from = entry.peerId
       /\ entry.received[i].at \in Nat
       /\ entry.firstSeenAt <= entry.received[i].at
       /\ entry.received[i].at <= t

SetsSound(sets, t) == \A id \in DOMAIN sets : SoundSet(sets[id], t)

ReassemblyInvariant ==
  /\ now \in Nat
  /\ SetsSound(pending, now)
  /\ AssembledWhole

\* A store from which sets are taken away keeps the others as they were.
LEMMA RemovedSets ==
  ASSUME NEW s, NEW ids
  PROVE  /\ DOMAIN Removed(s, ids).pending = DOMAIN s.pending \ ids
         /\ \A id \in DOMAIN s.pending \ ids : Removed(s, ids).pending[id] = s.pending[id]
  BY DEF Removed, Restrict

\* A purge leaves exactly the sets that are not too old.
LEMMA PurgedSets ==
  ASSUME NEW maxAge
  PROVE  /\ DOMAIN Purged(Store, maxAge).pending \subseteq DOMAIN pending
         /\ \A id \in DOMAIN Purged(Store, maxAge).pending :
              /\ Purged(Store, maxAge).pending[id] = pending[id]
              /\ ~(now - pending[id].firstSeenAt > maxAge)
         /\ \A id \in DOMAIN pending :
              ~(now - pending[id].firstSeenAt > maxAge)
                => id \in DOMAIN Purged(Store, maxAge).pending
<1> DEFINE s == Store
<1>1. s.pending = pending
  BY DEF Store
<1>2. DOMAIN Purged(s, maxAge).pending = DOMAIN pending \ Older(s, maxAge)
  BY <1>1, RemovedSets DEF Purged
<1>3. \A id \in DOMAIN pending \ Older(s, maxAge) : Purged(s, maxAge).pending[id] = pending[id]
  BY <1>1, RemovedSets DEF Purged
<1>4. \A id \in DOMAIN pending :
        id \in Older(s, maxAge) <=> now - pending[id].firstSeenAt > maxAge
  BY <1>1 DEF Older
<1> QED
  BY <1>2, <1>3, <1>4

\* A set with as many fragments as it announces has every one of them.
LEMMA CompleteIsWhole ==
  ASSUME NEW entry, NEW t, SoundSet(entry, t), Complete(entry)
  PROVE  DOMAIN entry.received = 0 .. entry.fragmentCount - 1
<1> DEFINE all == 0 .. entry.fragmentCount - 1
<1>1. entry.fragmentCount \in Nat /\ DOMAIN entry.received \subseteq all
  BY DEF SoundSet
<1>2. IsFiniteSet(all) /\ Cardinality(all) = entry.fragmentCount
  <2>1. 0 \in Int /\ entry.fragmentCount - 1 \in Int
    BY <1>1
  <2>2. IsFiniteSet(all) /\ Cardinality(all) = IF 0 > entry.fragmentCount - 1 THEN 0
                                               ELSE entry.fragmentCount - 1 - 0 + 1
    BY <2>1, FS_Interval
  <2> QED
    BY <1>1, <2>2
<1>3. IsFiniteSet(DOMAIN entry.received) /\ Cardinality(DOMAIN entry.received) \in Nat
  BY <1>1, <1>2, FS_Subset, FS_CardinalityType
<1>4. /\ Cardinality(DOMAIN entry.received) <= Cardinality(all)
      /\ Cardinality(all) = Cardinality(DOMAIN entry.received) => all = DOMAIN entry.received
  <2>1. DOMAIN entry.received \in SUBSET all
    BY <1>1
  <2> QED
    BY <1>2, <2>1, FS_Subset
<1>5. Cardinality(DOMAIN entry.received) >= entry.fragmentCount
  BY DEF Complete
<1> HIDE DEF all
<1>6. Cardinality(all) = Cardinality(DOMAIN entry.received)
  BY <1>1, <1>2, <1>3, <1>4, <1>5
<1> QED
  BY <1>4, <1>6 DEF all

\* Beginning a set adds an empty one and changes no other.
LEMMA BegunSets ==
  ASSUME NEW s, NEW f, NEW p, "pending" \in DOMAIN s
  PROVE  /\ DOMAIN Begun(s, f, p).pending = DOMAIN s.pending \cup {f.id}
         /\ \A id \in DOMAIN s.pending \ {f.id} : Begun(s, f, p).pending[id] = s.pending[id]
         /\ Begun(s, f, p).pending[f.id] =
              [fragmentCount |-> f.count, received |-> [i \in {} |-> i],
               firstSeenAt |-> now, bytes |-> 0, peerId |-> p]
  BY DEF Begun

\* Entering a fragment adds it to its set and changes no other.
LEMMA EnteredSets ==
  ASSUME NEW s, NEW f, NEW p, "pending" \in DOMAIN s, f.id \in DOMAIN s.pending,
         {"received", "bytes"} \subseteq DOMAIN s.pending[f.id]
  PROVE  LET old == s.pending[f.id]
             new == Entered(s, f, p).pending[f.id]
         IN  /\ DOMAIN Entered(s, f, p).pending = DOMAIN s.pending
             /\ \A id \in DOMAIN s.pending \ {f.id} :
                  Entered(s, f, p).pending[id] = s.pending[id]
             /\ new.fragmentCount = old.fragmentCount
             /\ new.firstSeenAt = old.firstSeenAt
             /\ new.peerId = old.peerId
             /\ DOMAIN new.received = DOMAIN old.received \cup {f.index}
             /\ new.received[f.index] = [size |-> f.size, from |-> p, at |-> now]
             /\ \A i \in DOMAIN old.received \ {f.index} : new.received[i] = old.received[i]
<1>1. /\ DOMAIN Entered(s, f, p).pending = DOMAIN s.pending
      /\ \A id \in DOMAIN s.pending \ {f.id} :
           Entered(s, f, p).pending[id] = s.pending[id]
      /\ Entered(s, f, p).pending[f.id] = Received(s.pending[f.id], f, p)
  BY DEF Entered
<1> QED
  BY <1>1 DEF Received

\* Of a store whose sets are sound and in their lifetime, a set stays sound
\* when a fragment of its own peer and count enters it.
LEMMA EnteredSound ==
  ASSUME NEW s, NEW f \in Fragments, NEW p, now \in Nat, "pending" \in DOMAIN s,
         SetsSound(s.pending, now), f.id \in DOMAIN s.pending,
         ~Foreign(s.pending[f.id], f, p)
  PROVE  /\ SetsSound(Entered(s, f, p).pending, now)
         /\ Entered(s, f, p).pending[f.id].firstSeenAt = s.pending[f.id].firstSeenAt
<1> DEFINE old == s.pending[f.id]
           new == Entered(s, f, p).pending[f.id]
<1>1. SoundSet(old, now)
  BY DEF SetsSound
<1>2. f.index \in 0 .. f.count - 1
  BY DEF Fragments
<1>3. old.fragmentCount = f.count /\ old.peerId = p
  BY DEF Foreign
<1>4. {"received", "bytes"} \subseteq DOMAIN old
  BY <1>1 DEF SoundSet
<1>5. /\ DOMAIN Entered(s, f, p).pending = DOMAIN s.pending
      /\ \A id \in DOMAIN s.pending \ {f.id} : Entered(s, f, p).pending[id] = s.pending[id]
      /\ new.fragmentCount = old.fragmentCount
      /\ new.firstSeenAt = old.firstSeenAt
      /\ new.peerId = old.peerId
      /\ DOMAIN new.received = DOMAIN old.received \cup {f.index}
      /\ new.received[f.index] = [size |-> f.size, from |-> p, at |-> now]
      /\ \A i \in DOMAIN old.received \ {f.index} : new.received[i] = old.received[i]
  BY <1>4, EnteredSets
<1>6. {"received", "bytes"} \subseteq DOMAIN new
  BY <1>4 DEF Entered, Received
<1>7. SoundSet(new, now)
  <2> HIDE DEF old, new
  <2>1. /\ new.fragmentCount \in Nat
        /\ new.firstSeenAt \in Nat /\ new.firstSeenAt <= now
        /\ DOMAIN new.received \subseteq 0 .. new.fragmentCount - 1
    BY <1>1, <1>2, <1>3, <1>5 DEF SoundSet
  <2>2. ASSUME NEW i \in DOMAIN new.received
        PROVE  /\ new.received[i].from = new.peerId
               /\ new.received[i].at \in Nat
               /\ new.firstSeenAt <= new.received[i].at
               /\ new.received[i].at <= now
    <3>1. CASE i = f.index
      BY <1>1, <1>3, <1>5, <3>1 DEF SoundSet
    <3>2. CASE i \in DOMAIN old.received \ {f.index}
      BY <1>1, <1>5, <3>2 DEF SoundSet
    <3> QED
      BY <1>5, <3>1, <3>2
  <2> QED
    BY <1>6, <2>1, <2>2 DEF SoundSet
<1>8. ASSUME NEW id \in DOMAIN s.pending
      PROVE  SoundSet(Entered(s, f, p).pending[id], now)
  <2>1. CASE id = f.id
    BY <1>7, <2>1
  <2>2. CASE id # f.id
    BY <1>5, <2>2 DEF SetsSound
  <2> QED
    BY <2>1, <2>2
<1>9. SetsSound(Entered(s, f, p).pending, now)
  <2> HIDE DEF old, new
  <2> QED
    BY <1>5, <1>8 DEF SetsSound
<1> QED
  BY <1>5, <1>9

\* addFragment, once f has its set, keeps the sets sound, and assembles only a
\* whole set in its lifetime.
LEMMA AddToSetSound ==
  ASSUME NEW s, NEW f \in Fragments, NEW p, now \in Nat, MaxAge \in Nat,
         "pending" \in DOMAIN s, SetsSound(s.pending, now), f.id \in DOMAIN s.pending,
         ~(now - s.pending[f.id].firstSeenAt > MaxAge),
         ~Foreign(s.pending[f.id], f, p), AddToSet(s, f, p), now' = now
  PROVE  SetsSound(pending', now) /\ AssembledWhole'
<1> DEFINE entered == Entered(s, f, p)
           full == Complete(entered.pending[f.id])
<1>1. SetsSound(entered.pending, now)
  BY EnteredSound
<1>2. CASE pending' = s.pending /\ assembled' = {}
  BY <1>2 DEF AssembledWhole
<1>3. CASE pending' = entered.pending /\ assembled' = {}
  BY <1>1, <1>3 DEF AssembledWhole
<1>4. CASE /\ full
           /\ pending' = Removed(entered, {f.id}).pending
           /\ assembled' = {[id |-> f.id, set |-> entered.pending[f.id]]}
  <2>1. SetsSound(pending', now)
    <3> DEFINE removed == Removed(entered, {f.id})
    <3> HIDE DEF entered
    <3>1. /\ DOMAIN removed.pending = DOMAIN entered.pending \ {f.id}
          /\ \A id \in DOMAIN entered.pending \ {f.id} :
               removed.pending[id] = entered.pending[id]
      BY RemovedSets
    <3>2. pending' = removed.pending
      BY <1>4
    <3> HIDE DEF removed
    <3>3. SetsSound(removed.pending, now)
      BY <1>1, <3>1 DEF SetsSound
    <3> QED
      BY <3>2, <3>3
  <2>2. /\ SoundSet(entered.pending[f.id], now)
        /\ entered.pending[f.id].firstSeenAt = s.pending[f.id].firstSeenAt
    <3>1. f.id \in DOMAIN entered.pending
      BY DEF Entered
    <3> QED
      BY <1>1, <3>1, EnteredSound DEF SetsSound
  <2> DEFINE set == entered.pending[f.id]
  <2>3. \A made \in assembled' : made.set = set
    BY <1>4
  <2>4. DOMAIN set.received = 0 .. set.fragmentCount - 1
    BY <1>4, <2>2, CompleteIsWhole
  <2>5. \A i \in DOMAIN set.received :
          set.received[i].from = set.peerId /\ now - set.received[i].at <= MaxAge
    <3>1. SoundSet(set, now) /\ ~(now - set.firstSeenAt > MaxAge)
      BY <2>2
    <3> HIDE DEF set
    <3> QED
      BY <3>1 DEF SoundSet
  <2> QED
    BY <2>1, <2>3, <2>4, <2>5 DEF AssembledWhole
<1> QED
  BY <1>2, <1>3, <1>4 DEF AddToSet, Becomes

\* Every step keeps the invariant.
LEMMA ReassemblyStep ==
  ASSUME ReassemblyInvariant, [Next]_vars
  PROVE  ReassemblyInvariant'
<1> USE DEF ReassemblyInvariant
<1>1. ASSUME NEW f \in Fragments, NEW p \in Senders, AddFragment(f, p)
      PROVE  ReassemblyInvariant'
  <2> DEFINE s == Purged(Store, MaxAge)
  <2>1. now' = now /\ now \in Nat /\ MaxAge \in Nat
    BY <1>1, ReassemblerConstants DEF AddFragment
  <2>2. "pending" \in DOMAIN s
    BY DEF Purged, Removed
  <2>3. /\ SetsSound(s.pending, now)
        /\ \A id \in DOMAIN s.pending : ~(now - s.pending[id].firstSeenAt > MaxAge)
    BY PurgedSets DEF SetsSound
  <2>4. CASE Becomes(s) /\ assembled' = {}
    BY <2>1, <2>3, <2>4 DEF Becomes, AssembledWhole
  <2>5. CASE /\ f.id \notin DOMAIN s.pending
             /\ AddToSet(Begun(s, f, p), f, p)
    <3> DEFINE b == Begun(s, f, p)
    <3>1. /\ DOMAIN b.pending = DOMAIN s.pending \cup {f.id}
          /\ \A id \in DOMAIN s.pending \ {f.id} : b.pending[id] = s.pending[id]
          /\ b.pending[f.id] =
               [fragmentCount |-> f.count, received |-> [i \in {} |-> i],
                firstSeenAt |-> now, bytes |-> 0, peerId |-> p]
      BY <2>2, BegunSets
    <3>2. "pending" \in DOMAIN b
      BY <2>2 DEF Begun
    <3>3. f.count \in Nat
      BY ReassemblerConstants DEF Fragments
    <3>4. SoundSet(b.pending[f.id], now)
      BY <2>1, <3>1, <3>3 DEF SoundSet
    <3>5. SetsSound(b.pending, now)
      BY <2>3, <3>1, <3>4 DEF SetsSound
    <3>6. ~(now - b.pending[f.id].firstSeenAt > MaxAge)
      BY <2>1, <3>1
    <3>7. ~Foreign(b.pending[f.id], f, p)
      BY <3>1 DEF Foreign
    <3>8. f.id \in DOMAIN b.pending
      BY <3>1
    <3> HIDE DEF b
    <3>9. SetsSound(pending', now) /\ AssembledWhole'
      BY <1>1, <2>1, <2>5, <3>2, <3>5, <3>6, <3>7, <3>8, AddToSetSound DEF b
    <3> QED
      BY <2>1, <3>9
  <2>6. CASE /\ f.id \in DOMAIN s.pending
             /\ ~Foreign(s.pending[f.id], f, p)
             /\ AddToSet(s, f, p)
    <3> HIDE DEF s
    <3>1. SetsSound(pending', now) /\ AssembledWhole'
      BY <1>1, <2>1, <2>2, <2>3, <2>6, AddToSetSound
    <3> QED
      BY <2>1, <3>1
  <2> QED
    BY <1>1, <2>4, <2>5, <2>6 DEF AddFragment
<1>2. ASSUME NEW maxAge, PurgeStale(maxAge)
      PROVE  ReassemblyInvariant'
  BY <1>2, PurgedSets DEF PurgeStale, Becomes, SetsSound, AssembledWhole
<1>3. CASE Tick
  BY <1>3 DEF Tick, store, SetsSound, SoundSet, AssembledWhole
<1>4. CASE UNCHANGED vars
  BY <1>4 DEF vars, store, SetsSound, AssembledWhole
<1> QED
  BY <1>1, <1>2, <1>3, <1>4 DEF Next

----------------------------------------------------------------------------
\* Once f has its set, addFragment keeps every fragment received, in its set or
\* in the one it assembles; and where a set of the store is empty afterwards it
\* was so before, f's own only if f was not let in.
LEMMA AddToSetKeeps ==
  ASSUME NEW s, NEW f, NEW p, "pending" \in DOMAIN s, f.id \in DOMAIN s.pending,
         {"received", "bytes"} \subseteq DOMAIN s.pending[f.id], AddToSet(s, f, p)
  PROVE  /\ \A id \in DOMAIN s.pending : \A i \in DOMAIN s.pending[id].received :
              \/ /\ id \in DOMAIN pending' /\ i \in DOMAIN pending'[id].received
                 /\ pending'[id].received[i] = s.pending[id].received[i]
              \/ \E made \in assembled' :
                   /\ made.id = id /\ i \in DOMAIN made.set.received
                   /\ made.set.received[i] = s.pending[id].received[i]
         /\ \A id \in DOMAIN pending' :
              DOMAIN pending'[id].received = {} =>
                /\ id \in DOMAIN s.pending /\ pending'[id] = s.pending[id]
                /\ id = f.id => pendingBytes' = s.bytes /\ NoRoomForData(s, f, p)
<1> DEFINE entered == Entered(s, f, p)
           old == s.pending[f.id]
           new == entered.pending[f.id]
<1>1. CASE /\ f.index \in DOMAIN old.received \/ NoRoomForData(s, f, p)
           /\ Becomes(s)
  BY <1>1 DEF Becomes
<1>2. ASSUME f.index \notin DOMAIN old.received,
             \/ pending' = entered.pending
             \/ /\ pending' = Removed(entered, {f.id}).pending
                /\ assembled' = {[id |-> f.id, set |-> new]}
      PROVE  /\ \A id \in DOMAIN s.pending : \A i \in DOMAIN s.pending[id].received :
                  \/ /\ id \in DOMAIN pending' /\ i \in DOMAIN pending'[id].received
                     /\ pending'[id].received[i] = s.pending[id].received[i]
                  \/ \E made \in assembled' :
                       /\ made.id = id /\ i \in DOMAIN made.set.received
                       /\ made.set.received[i] = s.pending[id].received[i]
             /\ \A id \in DOMAIN pending' :
                  DOMAIN pending'[id].received = {} =>
                    /\ id \in DOMAIN s.pending /\ pending'[id] = s.pending[id]
                    /\ id # f.id
  <2>1. /\ DOMAIN entered.pending = DOMAIN s.pending
        /\ \A id \in DOMAIN s.pending \ {f.id} : entered.pending[id] = s.pending[id]
        /\ new.fragmentCount = old.fragmentCount
        /\ new.firstSeenAt = old.firstSeenAt
        /\ new.peerId = old.peerId
        /\ DOMAIN new.received = DOMAIN old.received \cup {f.index}
        /\ new.received[f.index] = [size |-> f.size, from |-> p, at |-> now]
        /\ \A i \in DOMAIN old.received \ {f.index} : new.received[i] = old.received[i]
    BY EnteredSets
  <2>2. /\ DOMAIN Removed(entered, {f.id}).pending = DOMAIN entered.pending \ {f.id}
        /\ \A id \in DOMAIN entered.pending \ {f.id} :
             Removed(entered, {f.id}).pending[id] = entered.pending[id]
    BY RemovedSets
  <2> HIDE DEF entered
  <2>3. CASE pending' = entered.pending
    BY <1>2, <2>1, <2>3
  <2>4. CASE /\ pending' = Removed(entered, {f.id}).pending
             /\ assembled' = {[id |-> f.id, set |-> new]}
    <3>1. \A id \in DOMAIN s.pending \ {f.id} :
            id \in DOMAIN pending' /\ pending'[id] = s.pending[id]
      BY <2>1, <2>2, <2>4
    <3>2. DOMAIN pending' = DOMAIN s.pending \ {f.id}
      BY <2>1, <2>2, <2>4
    <3>3. PICK made \in assembled' : made.id = f.id /\ made.set = new
      BY <2>4
    <3>4. \A i \in DOMAIN old.received :
            i \in DOMAIN made.set.received /\ made.set.received[i] = old.received[i]
      BY <1>2, <2>1, <3>3
    <3> QED
      BY <3>1, <3>2, <3>3, <3>4
  <2> QED
    BY <1>2, <2>3, <2>4
<1> QED
  BY <1>1, <1>2 DEF AddToSet, Becomes

\* A step keeps what was received, and begins an empty set only when the data
\* held leaves too little room.
LEMMA KeepingStep ==
  ASSUME ReassemblyInvariant, [Next]_vars
  PROVE  [ReceivedIsKept]_vars /\ [EmptySetMeansFull]_vars
<1> USE DEF ReassemblyInvariant
<1>1. ASSUME NEW f \in Fragments, NEW p \in Senders, AddFragment(f, p)
      PROVE  ReceivedIsKept /\ EmptySetMeansFull
  <2> DEFINE s == Purged(Store, MaxAge)
             Kept(sets) == \A id \in DOMAIN sets : \A i \in DOMAIN sets[id].received :
                \/ /\ id \in DOMAIN pending' /\ i \in DOMAIN pending'[id].received
                   /\ pending'[id].received[i] = sets[id].received[i]
                \/ \E made \in assembled' :
                     /\ made.id = id /\ i \in DOMAIN made.set.received
                     /\ made.set.received[i] = sets[id].received[i]
             Emptied(t) == \A id \in DOMAIN pending' :
                DOMAIN pending'[id].received = {} =>
                  /\ id \in DOMAIN t.pending /\ pending'[id] = t.pending[id]
                  /\ id = f.id => pendingBytes' = t.bytes /\ NoRoomForData(t, f, p)
  <2>1. "pending" \in DOMAIN s
    BY DEF Purged, Removed
  <2>2. /\ DOMAIN s.pending \subseteq DOMAIN pending
        /\ \A id \in DOMAIN s.pending :
              s.pending[id] = pending[id] /\ ~(now - pending[id].firstSeenAt > MaxAge)
        /\ \A id \in DOMAIN pending :
              ~(now - pending[id].firstSeenAt > MaxAge) => id \in DOMAIN s.pending
    BY PurgedSets
  <2>3. Kept(s.pending) => ReceivedIsKept
    <3> HIDE DEF s
    <3> QED
      BY <2>2 DEF ReceivedIsKept
  <2>4. ASSUME Becomes(s)
        PROVE  Kept(s.pending) /\ EmptySetMeansFull
    <3>1. pending' = s.pending
      BY <2>4 DEF Becomes
    <3> HIDE DEF s
    <3> QED
      BY <2>2, <3>1 DEF EmptySetMeansFull
  <2>5. ASSUME f.id \notin DOMAIN s.pending, ~NoRoomForSet(s, f, p),
               AddToSet(Begun(s, f, p), f, p)
        PROVE  Kept(s.pending) /\ EmptySetMeansFull
    <3> DEFINE b == Begun(s, f, p)
    <3>1. /\ DOMAIN b.pending = DOMAIN s.pending \cup {f.id}
          /\ \A id \in DOMAIN s.pending \ {f.id} : b.pending[id] = s.pending[id]
          /\ b.pending[f.id] =
               [fragmentCount |-> f.count, received |-> [i \in {} |-> i],
                firstSeenAt |-> now, bytes |-> 0, peerId |-> p]
      BY <2>1, BegunSets
    <3>2. "pending" \in DOMAIN b /\ b.bytes = s.bytes /\ b.peerBytes = s.peerBytes
      BY <2>1 DEF Begun, Purged, Removed
    <3>3. {"received", "bytes"} \subseteq DOMAIN b.pending[f.id] /\ f.id \in DOMAIN b.pending
      BY <3>1
    <3> HIDE DEF b
    <3>4. Kept(b.pending) /\ Emptied(b)
      BY <2>5, <3>2, <3>3, AddToSetKeeps DEF b
    <3>5. Kept(s.pending)
      <4>1. \A id \in DOMAIN s.pending : id \in DOMAIN b.pending /\ b.pending[id] = s.pending[id]
        BY <2>5, <3>1
      <4> HIDE DEF s
      <4> QED
        BY <3>4, <4>1
    <3>6. f.size \in Sizes
      BY DEF Fragments
    <3>7. NoRoomForData(b, f, p) => b.bytes + f.size > MaxBytes
      BY <2>5, <3>2 DEF NoRoomForData, NoRoomForSet
    <3>8. EmptySetMeansFull
      <4>1. ASSUME NEW id \in DOMAIN pending', DOMAIN pending'[id].received = {}
            PROVE  \/ id \in DOMAIN pending /\ pending'[id] = pending[id]
                   \/ \E size \in Sizes : pendingBytes' + size > MaxBytes
        <5>1. CASE id = f.id
          <6>1. pendingBytes' + f.size > MaxBytes
            BY <3>4, <3>7, <4>1, <5>1
          <6> QED
            BY <3>6, <6>1
        <5>2. CASE id # f.id
          <6>1. id \in DOMAIN s.pending /\ pending'[id] = s.pending[id]
            BY <3>1, <3>4, <4>1, <5>2
          <6> HIDE DEF s
          <6> QED
            BY <2>2, <6>1
        <5> QED
          BY <5>1, <5>2
      <4> QED
        BY <4>1 DEF EmptySetMeansFull
    <3> QED
      BY <3>5, <3>8
  <2>6. ASSUME f.id \in DOMAIN s.pending, AddToSet(s, f, p)
        PROVE  Kept(s.pending) /\ EmptySetMeansFull
    <3>1. {"received", "bytes"} \subseteq DOMAIN s.pending[f.id]
      BY <2>2, <2>6 DEF SetsSound, SoundSet
    <3> HIDE DEF s
    <3>2. Kept(s.pending) /\ Emptied(s)
      BY <2>1, <2>6, <3>1, AddToSetKeeps
    <3> QED
      BY <2>2, <3>2 DEF EmptySetMeansFull
  <2>7. Kept(s.pending) /\ EmptySetMeansFull
    <3> HIDE DEF Kept
    <3> QED
      BY <1>1, <2>4, <2>5, <2>6 DEF AddFragment
  <2> QED
    BY <2>3, <2>7
<1>2. ASSUME NEW maxAge \in PurgeAges \cup {MaxAge}, PurgeStale(maxAge)
      PROVE  ReceivedIsKept /\ EmptySetMeansFull
  <2>1. pending' = Purged(Store, maxAge).pending
    BY <1>2 DEF PurgeStale, Becomes
  <2> QED
    BY <2>1, PurgedSets DEF ReceivedIsKept, EmptySetMeansFull
<1>3. CASE Tick
  BY <1>3 DEF Tick, store, ReceivedIsKept, EmptySetMeansFull
<1> QED
  BY <1>1, <1>2, <1>3 DEF Next

----------------------------------------------------------------------------
\* The sizes of the fragments in a set, and the bytes of each set.
SizesIn(entry) == [i \in DOMAIN entry.received |-> entry.received[i].size]
BytesIn(sets) == [id \in DOMAIN sets |-> sets[id].bytes]

\* A store of the right shape.
StoreTyped(s) ==
  /\ {"pending", "bytes", "peerSets", "peerBytes"} \subseteq DOMAIN s
  /\ IsFiniteSet(DOMAIN s.pending)
  /\ DOMAIN s.pending \subseteq MessageIds
  /\ \A id \in DOMAIN s.pending : IsSet(s.pending[id])
  /\ s.bytes \in Nat
  /\ s.peerSets \in [Senders -> Nat]
  /\ s.peerBytes \in [Senders -> Nat]

\* Its counters count what it holds.
StoreExact(s) ==
  /\ \A id \in DOMAIN s.pending :
       s.pending[id].bytes
         = SumFunctionOnSet(SizesIn(s.pending[id]), DOMAIN s.pending[id].received)
  /\ s.bytes = SumFunctionOnSet(BytesIn(s.pending), DOMAIN s.pending)
  /\ \A p \in Peers :
       /\ s.peerSets[p] = Cardinality(OfPeer(s, DOMAIN s.pending, p))
       /\ s.peerBytes[p]
            = SumFunctionOnSet(BytesIn(s.pending), OfPeer(s, DOMAIN s.pending, p))
  /\ s.peerSets[Unknown] = 0 /\ s.peerBytes[Unknown] = 0

\* They are within the limits.
StoreLimited(s) ==
  /\ Cardinality(DOMAIN s.pending) <= MaxSets
  /\ s.bytes <= MaxBytes
  /\ \A p \in Peers : s.peerSets[p] <= MaxSetsPerPeer /\ s.peerBytes[p] <= MaxBytesPerPeer

AccountsHold(s) == StoreTyped(s) /\ StoreExact(s) /\ StoreLimited(s)

\* Bytes of some of the sets.
LEMMA BytesOfIsSum ==
  ASSUME NEW s, NEW ids \in SUBSET DOMAIN s.pending, IsFiniteSet(ids)
  PROVE  BytesOf(s, ids) = SumFunctionOnSet(BytesIn(s.pending), ids)
<1> DEFINE g == [id \in ids |-> s.pending[id].bytes]
<1>1. BytesOf(s, ids) = SumFunctionOnSet(g, ids)
  BY DEF BytesOf, SumFunction
<1>2. \A id \in ids : g[id] = BytesIn(s.pending)[id]
  BY DEF BytesIn
<1> HIDE DEF g
<1> QED
  BY <1>1, <1>2, SumOfSame

\* The sets of a peer among some sets of a typed store: finitely many, and their
\* bytes are naturals.
LEMMA OfPeerFinite ==
  ASSUME NEW s, StoreTyped(s), NEW ids \in SUBSET DOMAIN s.pending, NEW p
  PROVE  /\ IsFiniteSet(ids) /\ IsFiniteSet(OfPeer(s, ids, p))
         /\ OfPeer(s, ids, p) \in SUBSET ids
         /\ Cardinality(ids) \in Nat /\ Cardinality(OfPeer(s, ids, p)) \in Nat
         /\ \A id \in ids : BytesIn(s.pending)[id] \in Nat
         /\ SumFunctionOnSet(BytesIn(s.pending), ids) \in Nat
         /\ SumFunctionOnSet(BytesIn(s.pending), OfPeer(s, ids, p)) \in Nat
<1>1. IsFiniteSet(ids)
  BY FS_Subset DEF StoreTyped
<1>2. OfPeer(s, ids, p) \in SUBSET ids
  BY DEF OfPeer
<1>3. IsFiniteSet(OfPeer(s, ids, p))
  BY <1>1, <1>2, FS_Subset
<1>4. \A id \in ids : BytesIn(s.pending)[id] \in Nat
  BY DEF StoreTyped, IsSet, BytesIn
<1>5. \A id \in OfPeer(s, ids, p) : BytesIn(s.pending)[id] \in Nat
  BY <1>2, <1>4
<1>6. /\ SumFunctionOnSet(BytesIn(s.pending), ids) \in Nat
      /\ SumFunctionOnSet(BytesIn(s.pending), OfPeer(s, ids, p)) \in Nat
  BY <1>1, <1>3, <1>4, <1>5, SumIsNat
<1> QED
  BY <1>1, <1>2, <1>3, <1>4, <1>6, FS_CardinalityType

\* A value more in one place adds to the sum.
LEMMA SumRaised ==
  ASSUME NEW f, NEW g, NEW S, IsFiniteSet(S), NEW x \in S, NEW k \in Nat,
         \A y \in S : f[y] \in Nat, \A y \in S \ {x} : g[y] = f[y], g[x] = f[x] + k
  PROVE  SumFunctionOnSet(g, S) = SumFunctionOnSet(f, S) + k
<1> DEFINE r == S \ {x}
<1>1. IsFiniteSet(r) /\ x \notin r /\ r \cup {x} = S
  BY FS_RemoveElement
<1>2. /\ \A y \in r : f[y] \in Nat /\ g[y] = f[y]
      /\ \A y \in r \cup {x} : f[y] \in Nat /\ g[y] \in Nat
  OBVIOUS
<1> HIDE DEF r
<1>3. SumFunctionOnSet(f, r \cup {x}) = f[x] + SumFunctionOnSet(f, r)
  BY <1>1, <1>2, SumInsert
<1>4. SumFunctionOnSet(g, r \cup {x}) = g[x] + SumFunctionOnSet(g, r)
  BY <1>1, <1>2, SumInsert
<1>5. SumFunctionOnSet(f, r) = SumFunctionOnSet(g, r)
  BY <1>1, <1>2, SumOfSame
<1>6. SumFunctionOnSet(f, r) \in Nat
  BY <1>1, <1>2, SumIsNat
<1>7. f[x] \in Nat
  OBVIOUS
<1>8. /\ SumFunctionOnSet(f, S) = f[x] + SumFunctionOnSet(f, r)
      /\ SumFunctionOnSet(g, S) = f[x] + k + SumFunctionOnSet(f, r)
  BY <1>1, <1>3, <1>4, <1>5
<1> QED
  BY <1>6, <1>7, <1>8

\* Removing sets keeps the accounts.
LEMMA RemovedAccounts ==
  ASSUME NEW s, AccountsHold(s), NEW ids \in SUBSET DOMAIN s.pending
  PROVE  AccountsHold(Removed(s, ids))
<1> DEFINE r == Removed(s, ids)
           D == DOMAIN s.pending
           E == D \ ids
           f == BytesIn(s.pending)
           g == BytesIn(r.pending)
           total(S) == SumFunctionOnSet(f, S)
           of(S, p) == OfPeer(s, S, p)
<1>1. StoreTyped(s) /\ StoreExact(s) /\ StoreLimited(s)
  BY DEF AccountsHold
<1>2. /\ DOMAIN r.pending = E
      /\ \A id \in E : r.pending[id] = s.pending[id]
  BY RemovedSets
<1>3. /\ {"pending", "bytes", "peerSets", "peerBytes"} \subseteq DOMAIN r
      /\ r.bytes = s.bytes - BytesOf(s, ids)
      /\ DOMAIN r.peerSets = Senders /\ DOMAIN r.peerBytes = Senders
      /\ r.peerSets[Unknown] = s.peerSets[Unknown]
      /\ r.peerBytes[Unknown] = s.peerBytes[Unknown]
      /\ \A p \in Peers :
           /\ r.peerSets[p] = FromZero(s.peerSets[p] - Cardinality(of(ids, p)))
           /\ r.peerBytes[p] = FromZero(s.peerBytes[p] - BytesOf(s, of(ids, p)))
  BY ReassemblerConstants DEF Removed, Senders
<1>4. /\ E \in SUBSET D /\ ids \in SUBSET D /\ D \in SUBSET D
      /\ \A p : of(E, p) \in SUBSET D /\ of(ids, p) \in SUBSET D /\ of(D, p) \in SUBSET D
      /\ \A p : of(ids, p) \in SUBSET of(D, p) /\ of(E, p) = of(D, p) \ of(ids, p)
      /\ E = D \ ids
  BY DEF OfPeer
<1>5. /\ IsFiniteSet(D) /\ IsFiniteSet(E) /\ IsFiniteSet(ids)
      /\ \A p : IsFiniteSet(of(D, p)) /\ IsFiniteSet(of(E, p)) /\ IsFiniteSet(of(ids, p))
      /\ \A id \in D : f[id] \in Nat
  <2> HIDE DEF D, E, f, of
  <2>1. \A p : IsFiniteSet(OfPeer(s, D, p)) /\ IsFiniteSet(OfPeer(s, E, p))
                 /\ IsFiniteSet(OfPeer(s, ids, p))
    BY <1>1, <1>4, OfPeerFinite DEF D
  <2> QED
    BY <1>1, <1>4, <2>1, OfPeerFinite DEF D, of, f
<1>6. BytesOf(s, ids) = total(ids) /\ \A p : BytesOf(s, of(ids, p)) = total(of(ids, p))
  <2> HIDE DEF D, E, of
  <2> QED
    BY <1>4, <1>5, BytesOfIsSum DEF D
<1>7. /\ total(D) = total(ids) + total(E)
      /\ \A p : total(of(D, p)) = total(of(ids, p)) + total(of(E, p))
  <2>1. \A p : \A id \in of(D, p) : f[id] \in Nat
    BY <1>4, <1>5
  <2> HIDE DEF D, E, of, f
  <2>2. total(D) = total(ids) + total(D \ ids)
    BY <1>4, <1>5, SumOfParts
  <2>3. ASSUME NEW p
        PROVE  total(of(D, p)) = total(of(ids, p)) + total(of(D, p) \ of(ids, p))
    BY <1>4, <1>5, <2>1, SumOfParts
  <2> QED
    BY <1>4, <2>2, <2>3
<1>8. /\ total(E) \in Nat /\ total(ids) \in Nat
      /\ \A p : total(of(E, p)) \in Nat /\ total(of(ids, p)) \in Nat
  <2>1. /\ \A id \in E : f[id] \in Nat
        /\ \A id \in ids : f[id] \in Nat
        /\ \A p : \A id \in of(E, p) : f[id] \in Nat
        /\ \A p : \A id \in of(ids, p) : f[id] \in Nat
    BY <1>4, <1>5
  <2> HIDE DEF D, E, of, f
  <2> QED
    BY <1>5, <2>1, SumIsNat
<1>9. SumFunctionOnSet(g, E) = total(E) /\ \A p : SumFunctionOnSet(g, of(E, p)) = total(of(E, p))
  <2>1. \A id \in E : g[id] = f[id]
    BY <1>2 DEF BytesIn
  <2>2. \A p : \A id \in of(E, p) : g[id] = f[id]
    BY <2>1 DEF OfPeer
  <2> HIDE DEF D, E, of, f, g
  <2> QED
    BY <1>5, <2>1, <2>2, SumOfSame
<1>10. \A p : OfPeer(r, E, p) = of(E, p)
  BY <1>2 DEF OfPeer
<1>11. /\ Cardinality(E) \in Nat /\ Cardinality(D) \in Nat /\ Cardinality(E) <= Cardinality(D)
       /\ \A p : /\ Cardinality(of(ids, p)) \in Nat /\ Cardinality(of(E, p)) \in Nat
                 /\ Cardinality(of(D, p)) = Cardinality(of(ids, p)) + Cardinality(of(E, p))
  <2>1. Cardinality(E) \in Nat /\ Cardinality(D) \in Nat /\ Cardinality(E) <= Cardinality(D)
    <3> HIDE DEF D, E
    <3> QED
      BY <1>4, <1>5, FS_Subset, FS_CardinalityType
  <2>2. ASSUME NEW p
        PROVE  /\ Cardinality(of(ids, p)) \in Nat /\ Cardinality(of(E, p)) \in Nat
               /\ Cardinality(of(D, p)) = Cardinality(of(ids, p)) + Cardinality(of(E, p))
    <3>1. of(D, p) = of(ids, p) \cup of(E, p) /\ of(ids, p) \cap of(E, p) = {}
      BY <1>4
    <3> HIDE DEF D, E, of
    <3>2. Cardinality(of(D, p))
            = Cardinality(of(ids, p)) + Cardinality(of(E, p)) - Cardinality(of(ids, p) \cap of(E, p))
      BY <1>5, <3>1, FS_Union
    <3>3. Cardinality(of(ids, p)) \in Nat /\ Cardinality(of(E, p)) \in Nat
      BY <1>5, FS_CardinalityType
    <3>4. Cardinality(of(ids, p) \cap of(E, p)) = 0
      BY <3>1, FS_EmptySet
    <3> QED
      BY <3>2, <3>3, <3>4
  <2> QED
    BY <2>1, <2>2
<1> HIDE DEF D, E, f, g, total, of, r
<1>12. /\ s.bytes = total(D)
       /\ \A p \in Peers : s.peerSets[p] = Cardinality(of(D, p)) /\ s.peerBytes[p] = total(of(D, p))
       /\ s.peerSets[Unknown] = 0 /\ s.peerBytes[Unknown] = 0
  BY <1>1 DEF StoreExact, D, f, total, of
<1>13. r.bytes = total(E)
  BY <1>3, <1>6, <1>7, <1>8, <1>12
<1>14. ASSUME NEW p \in Peers
       PROVE  r.peerSets[p] = Cardinality(of(E, p)) /\ r.peerBytes[p] = total(of(E, p))
  BY <1>3, <1>6, <1>7, <1>8, <1>11, <1>12 DEF FromZero
<1>15. StoreTyped(r)
  <2>1. DOMAIN r.pending \subseteq MessageIds /\ \A id \in DOMAIN r.pending : IsSet(r.pending[id])
    BY <1>1, <1>2 DEF StoreTyped, E, D
  <2>2. \A p \in Senders : r.peerSets[p] \in Nat /\ r.peerBytes[p] \in Nat
    BY <1>3, <1>8, <1>11, <1>12, <1>14 DEF Senders
  <2>3. r.peerSets = [p \in Senders |-> r.peerSets[p]]
        /\ r.peerBytes = [p \in Senders |-> r.peerBytes[p]]
    BY DEF r, Removed
  <2> QED
    BY <1>2, <1>3, <1>5, <1>8, <1>13, <2>1, <2>2, <2>3 DEF StoreTyped
<1>16. StoreExact(r)
  <2>1. \A id \in DOMAIN r.pending :
          r.pending[id].bytes
            = SumFunctionOnSet(SizesIn(r.pending[id]), DOMAIN r.pending[id].received)
    BY <1>1, <1>2 DEF StoreExact, E, D
  <2> QED
    BY <1>2, <1>3, <1>9, <1>10, <1>12, <1>13, <1>14, <2>1 DEF StoreExact, g
<1>17. StoreLimited(r)
  <2>1. \A p \in Peers :
          r.peerSets[p] <= s.peerSets[p] /\ r.peerBytes[p] <= s.peerBytes[p]
    BY <1>7, <1>8, <1>11, <1>12, <1>14
  <2>2. r.bytes <= s.bytes
    BY <1>7, <1>8, <1>12, <1>13
  <2>3. \A p \in Peers : /\ s.peerSets[p] \in Nat /\ s.peerBytes[p] \in Nat
                         /\ r.peerSets[p] \in Nat /\ r.peerBytes[p] \in Nat
    BY <1>1, <1>15 DEF StoreTyped, Senders
  <2>4. r.bytes \in Nat /\ s.bytes \in Nat
    BY <1>1, <1>15 DEF StoreTyped
  <2>5. /\ Cardinality(D) <= MaxSets /\ s.bytes <= MaxBytes
        /\ \A p \in Peers : s.peerSets[p] <= MaxSetsPerPeer /\ s.peerBytes[p] <= MaxBytesPerPeer
    BY <1>1 DEF StoreLimited, D
  <2>6. MaxSets \in Nat /\ MaxBytes \in Nat /\ MaxSetsPerPeer \in Nat /\ MaxBytesPerPeer \in Nat
    BY ReassemblerConstants
  <2>7. Cardinality(E) <= MaxSets
    BY <1>11, <2>5, <2>6
  <2>8. r.bytes <= MaxBytes
    BY <2>2, <2>4, <2>5, <2>6
  <2>9. \A p \in Peers : r.peerSets[p] <= MaxSetsPerPeer /\ r.peerBytes[p] <= MaxBytesPerPeer
    BY <2>1, <2>3, <2>5, <2>6
  <2> QED
    BY <1>2, <2>7, <2>8, <2>9 DEF StoreLimited
<1> QED
  BY <1>15, <1>16, <1>17 DEF AccountsHold, r

\* Beginning a set keeps the accounts where there is room for one.
LEMMA BegunAccounts ==
  ASSUME NEW s, AccountsHold(s), NEW f \in Fragments, NEW p \in Senders, now \in Nat,
         f.id \notin DOMAIN s.pending, ~NoRoomForSet(s, f, p)
  PROVE  /\ AccountsHold(Begun(s, f, p))
         /\ ~Complete(Begun(s, f, p).pending[f.id])
<1> DEFINE b == Begun(s, f, p)
           D == DOMAIN s.pending
           E == D \cup {f.id}
           g == BytesIn(s.pending)
           h == BytesIn(b.pending)
           empty == [fragmentCount |-> f.count, received |-> [i \in {} |-> i],
                     firstSeenAt |-> now, bytes |-> 0, peerId |-> p]
           of(q) == OfPeer(s, D, q)
           ofNew(q) == OfPeer(b, E, q)
<1>1. StoreTyped(s) /\ StoreExact(s) /\ StoreLimited(s)
  BY DEF AccountsHold
<1>2. f.id \in MessageIds /\ f.count \in Counts /\ f.count \in Nat \ {0}
  BY ReassemblerConstants DEF Fragments
<1>3. "pending" \in DOMAIN s /\ "peerSets" \in DOMAIN s
  BY <1>1 DEF StoreTyped
<1>4. /\ DOMAIN b.pending = E /\ b.pending[f.id] = empty
      /\ \A id \in D : b.pending[id] = s.pending[id]
  BY <1>3, BegunSets
<1>5. b.bytes = s.bytes /\ b.peerBytes = s.peerBytes /\ b.peerSets = Counted(p, s.peerSets, 1)
      /\ {"pending", "bytes", "peerSets", "peerBytes"} \subseteq DOMAIN b
  BY <1>1 DEF Begun, StoreTyped
<1>6. IsSet(empty) /\ DOMAIN empty.received = {}
  BY <1>2 DEF IsSet
<1>7. ~Complete(empty)
  BY <1>2, <1>6, FS_EmptySet DEF Complete
<1>8. IsFiniteSet(D) /\ IsFiniteSet(E) /\ Cardinality(D) \in Nat /\ Cardinality(E) = Cardinality(D) + 1
  BY <1>1, FS_AddElement, FS_CardinalityType DEF StoreTyped
<1>9. /\ \A id \in D : h[id] = g[id] /\ g[id] \in Nat
      /\ \A id \in E : h[id] \in Nat
      /\ h[f.id] = 0
  BY <1>1, <1>4 DEF BytesIn, StoreTyped, IsSet
<1>10. ASSUME NEW S \in SUBSET D
       PROVE  /\ IsFiniteSet(S) /\ SumFunctionOnSet(g, S) \in Nat
              /\ SumFunctionOnSet(h, S) = SumFunctionOnSet(g, S)
              /\ SumFunctionOnSet(h, S \cup {f.id}) = SumFunctionOnSet(g, S)
  <2>1. IsFiniteSet(S) /\ f.id \notin S
    BY <1>8, FS_Subset
  <2>2. /\ \A id \in S : h[id] = g[id] /\ g[id] \in Nat
        /\ \A id \in S \cup {f.id} : h[id] \in Nat
    BY <1>9
  <2> HIDE DEF g, h
  <2>3. SumFunctionOnSet(g, S) \in Nat /\ SumFunctionOnSet(h, S) = SumFunctionOnSet(g, S)
    BY <2>1, <2>2, SumIsNat, SumOfSame
  <2>4. SumFunctionOnSet(h, S \cup {f.id}) = h[f.id] + SumFunctionOnSet(h, S)
    BY <2>1, <2>2, SumInsert
  <2> QED
    BY <1>9, <2>1, <2>3, <2>4
<1>11. \A q : of(q) \in SUBSET D /\ (q # p => ofNew(q) = of(q))
  BY <1>4 DEF OfPeer
<1>12. ofNew(p) = of(p) \cup {f.id} /\ f.id \notin of(p)
  BY <1>4 DEF OfPeer
<1> HIDE DEF b, D, E, g, h, empty, of, ofNew
<1>13. /\ s.bytes = SumFunctionOnSet(g, D)
       /\ \A q \in Peers : s.peerSets[q] = Cardinality(of(q))
                           /\ s.peerBytes[q] = SumFunctionOnSet(g, of(q))
       /\ s.peerSets[Unknown] = 0 /\ s.peerBytes[Unknown] = 0
  BY <1>1 DEF StoreExact, D, g, of
<1>14. /\ s.bytes \in Nat /\ s.peerSets \in [Senders -> Nat] /\ s.peerBytes \in [Senders -> Nat]
  BY <1>1 DEF StoreTyped
<1>15. /\ b.peerSets \in [Senders -> Nat]
       /\ \A q \in Senders : b.peerSets[q] = IF q = p /\ p # Unknown THEN s.peerSets[q] + 1
                                             ELSE s.peerSets[q]
  BY <1>5, <1>14 DEF Counted
<1>16. StoreTyped(b)
  <2>1. E \subseteq MessageIds /\ \A id \in E : IsSet(b.pending[id])
    BY <1>1, <1>2, <1>4, <1>6 DEF StoreTyped, D, E
  <2> QED
    BY <1>4, <1>5, <1>8, <1>14, <1>15, <2>1 DEF StoreTyped
<1>17. b.bytes = SumFunctionOnSet(h, E)
  <2>1. D \in SUBSET D
    OBVIOUS
  <2> QED
    BY <1>5, <1>10, <1>13, <2>1 DEF E
<1>18. ASSUME NEW q \in Peers
       PROVE  b.peerSets[q] = Cardinality(ofNew(q)) /\ b.peerBytes[q] = SumFunctionOnSet(h, ofNew(q))
  <2>1. q \in Senders /\ q # Unknown
    BY ReassemblerConstants DEF Senders
  <2>2. IsFiniteSet(of(q)) /\ Cardinality(of(q)) \in Nat
    BY <1>10, <1>11, FS_CardinalityType
  <2>3. CASE q = p
    <3>1. Cardinality(ofNew(q)) = Cardinality(of(q)) + 1
      BY <1>12, <2>2, <2>3, FS_AddElement
    <3>2. SumFunctionOnSet(h, ofNew(q)) = SumFunctionOnSet(g, of(q))
      BY <1>10, <1>11, <1>12, <2>3
    <3> QED
      BY <1>5, <1>13, <1>15, <2>1, <2>3, <3>1, <3>2
  <2>4. CASE q # p
    BY <1>5, <1>10, <1>11, <1>13, <1>15, <2>1, <2>4
  <2> QED
    BY <2>3, <2>4
<1>19. StoreExact(b)
  <2>1. ASSUME NEW id \in E
        PROVE  b.pending[id].bytes
                 = SumFunctionOnSet(SizesIn(b.pending[id]), DOMAIN b.pending[id].received)
    <3>1. CASE id = f.id
      <4>1. SumFunctionOnSet(SizesIn(empty), {}) = 0
        BY FS_EmptySet, SumStep
      <4>2. empty.bytes = 0
        BY DEF empty
      <4> QED
        BY <1>4, <1>6, <3>1, <4>1, <4>2
    <3>2. CASE id # f.id
      <4>1. id \in D
        BY <3>2 DEF E
      <4> QED
        BY <1>1, <1>4, <4>1 DEF StoreExact, D
    <3> QED
      BY <3>1, <3>2
  <2>2. b.peerSets[Unknown] = 0 /\ b.peerBytes[Unknown] = 0
    BY <1>5, <1>13, <1>15 DEF Senders
  <2> QED
    BY <1>4, <1>17, <1>18, <2>1, <2>2 DEF StoreExact, h, ofNew
<1>20. StoreLimited(b)
  <2>1. /\ MaxSets \in Nat /\ MaxBytes \in Nat /\ MaxSetsPerPeer \in Nat
    BY ReassemblerConstants
  <2>2. /\ ~(Cardinality(D) >= MaxSets)
        /\ p # Unknown => ~(s.peerSets[p] >= MaxSetsPerPeer)
    BY DEF NoRoomForSet, D
  <2>3. /\ s.bytes <= MaxBytes
        /\ \A q \in Peers : s.peerSets[q] <= MaxSetsPerPeer /\ s.peerBytes[q] <= MaxBytesPerPeer
    BY <1>1 DEF StoreLimited
  <2>4. Cardinality(E) <= MaxSets
    BY <1>8, <2>1, <2>2
  <2>5. \A q \in Peers : b.peerSets[q] <= MaxSetsPerPeer
    <3>1. ASSUME NEW q \in Peers
          PROVE  b.peerSets[q] <= MaxSetsPerPeer
      <4>1. q \in Senders /\ s.peerSets[q] \in Nat
        BY <1>14 DEF Senders
      <4> QED
        BY <1>15, <2>1, <2>2, <2>3, <4>1
    <3> QED
      BY <3>1
  <2> QED
    BY <1>4, <1>5, <2>3, <2>4, <2>5 DEF StoreLimited
<1> QED
  BY <1>4, <1>7, <1>16, <1>19, <1>20 DEF AccountsHold, b

\* Entering a fragment keeps the accounts where its data fits.
LEMMA EnteredAccounts ==
  ASSUME NEW s, AccountsHold(s), NEW f \in Fragments, NEW p \in Senders, now \in Nat,
         f.id \in DOMAIN s.pending, ~Foreign(s.pending[f.id], f, p),
         f.index \notin DOMAIN s.pending[f.id].received, ~NoRoomForData(s, f, p)
  PROVE  AccountsHold(Entered(s, f, p))
<1> DEFINE e == Entered(s, f, p)
           D == DOMAIN s.pending
           g == BytesIn(s.pending)
           h == BytesIn(e.pending)
           old == s.pending[f.id]
           new == e.pending[f.id]
           of(q) == OfPeer(s, D, q)
<1>1. StoreTyped(s) /\ StoreExact(s) /\ StoreLimited(s)
  BY DEF AccountsHold
<1>2. f.size \in Nat /\ f.size \in Sizes /\ f.index \in 0 .. f.count - 1
  <2>1. f.size \in Sizes /\ f.index \in 0 .. f.count - 1
    BY DEF Fragments
  <2> QED
    BY <2>1, ReassemblerConstants
<1>3. IsSet(old)
  BY <1>1 DEF StoreTyped
<1>4. old.fragmentCount = f.count /\ old.peerId = p
  BY DEF Foreign
<1>5. "pending" \in DOMAIN s /\ {"received", "bytes"} \subseteq DOMAIN old
  BY <1>1, <1>3 DEF StoreTyped, IsSet
<1>6. /\ DOMAIN e.pending = DOMAIN s.pending
      /\ \A id \in DOMAIN s.pending \ {f.id} : e.pending[id] = s.pending[id]
      /\ new.fragmentCount = old.fragmentCount
      /\ new.firstSeenAt = old.firstSeenAt
      /\ new.peerId = old.peerId
      /\ DOMAIN new.received = DOMAIN old.received \cup {f.index}
      /\ new.received[f.index] = [size |-> f.size, from |-> p, at |-> now]
      /\ \A i \in DOMAIN old.received \ {f.index} : new.received[i] = old.received[i]
  BY <1>5, EnteredSets
<1>7. /\ new.bytes = old.bytes + f.size
      /\ DOMAIN new = DOMAIN old
      /\ new.received = [i \in DOMAIN new.received |-> new.received[i]]
  BY <1>5 DEF Entered, Received
<1>8. /\ {"pending", "bytes", "peerSets", "peerBytes"} \subseteq DOMAIN e
      /\ e.bytes = s.bytes + f.size
      /\ e.peerSets = s.peerSets
      /\ e.peerBytes = Counted(p, s.peerBytes, f.size)
  BY <1>1 DEF Entered, StoreTyped
<1>9. IsSet(new)
  <2> HIDE DEF e, old, new
  <2>1. \A i \in DOMAIN new.received : new.received[i] \in [size : Sizes, from : Senders, at : Nat]
    <3>1. new.received[f.index] \in [size : Sizes, from : Senders, at : Nat]
      BY <1>2, <1>6
    <3>2. \A i \in DOMAIN old.received : old.received[i] \in [size : Sizes, from : Senders, at : Nat]
      BY <1>3 DEF IsSet
    <3> QED
      BY <1>6, <3>1, <3>2
  <2>2. DOMAIN new.received \subseteq 0 .. new.fragmentCount - 1
    BY <1>2, <1>3, <1>4, <1>6 DEF IsSet
  <2>3. new.bytes \in Nat
    BY <1>2, <1>3, <1>7 DEF IsSet
  <2> QED
    BY <1>3, <1>6, <1>7, <2>1, <2>2, <2>3 DEF IsSet
<1>10. new.bytes = SumFunctionOnSet(SizesIn(new), DOMAIN new.received)
  <2> DEFINE I == DOMAIN old.received
             so == SizesIn(old)
             sn == SizesIn(new)
  <2>1. IsFiniteSet(I)
    <3>1. I \in SUBSET (0 .. old.fragmentCount - 1) /\ old.fragmentCount \in Nat
      <4>1. I \in SUBSET (0 .. old.fragmentCount - 1) /\ old.fragmentCount \in Counts
        BY <1>3 DEF IsSet
      <4> QED
        BY <4>1, ReassemblerConstants
    <3>2. IsFiniteSet(0 .. old.fragmentCount - 1)
      <4>1. 0 \in Int /\ old.fragmentCount - 1 \in Int
        BY <3>1
      <4> QED
        BY <4>1, FS_Interval
    <3> HIDE DEF I
    <3> QED
      BY <3>1, <3>2, FS_Subset
  <2>2. /\ \A i \in I : sn[i] = so[i] /\ so[i] \in Nat
        /\ sn[f.index] = f.size
    <3>1. \A i \in I : so[i] \in Nat
      <4>1. \A i \in I : old.received[i] \in [size : Sizes, from : Senders, at : Nat]
        <5> HIDE DEF old
        <5> QED
          BY <1>3 DEF IsSet
      <4>2. \A i \in I : so[i] = old.received[i].size
        BY DEF SizesIn
      <4>3. \A i \in I : so[i] \in Sizes
        <5> HIDE DEF old, I, so
        <5> QED
          BY <4>1, <4>2
      <4> QED
        BY <4>3, ReassemblerConstants
    <3>2. f.index \notin I
      OBVIOUS
    <3>3. /\ DOMAIN new.received = I \cup {f.index}
          /\ new.received[f.index].size = f.size
          /\ \A i \in I : new.received[i] = old.received[i]
      <4> HIDE DEF new, old
      <4> QED
        BY <1>6, <3>2
    <3>4. /\ \A i \in I : so[i] = old.received[i].size
          /\ \A i \in DOMAIN new.received : sn[i] = new.received[i].size
      BY DEF SizesIn
    <3> HIDE DEF old, new, I, so, sn
    <3> QED
      BY <3>1, <3>2, <3>3, <3>4
  <2>3. \A i \in I \cup {f.index} : sn[i] \in Nat
    BY <1>2, <2>2
  <2>4. f.index \notin I
    OBVIOUS
  <2>5. old.bytes = SumFunctionOnSet(so, I)
    BY <1>1 DEF StoreExact
  <2> HIDE DEF I, so, sn
  <2>6. SumFunctionOnSet(sn, I \cup {f.index}) = sn[f.index] + SumFunctionOnSet(sn, I)
    BY <2>1, <2>3, <2>4, SumInsert
  <2>7. SumFunctionOnSet(sn, I) = SumFunctionOnSet(so, I) /\ SumFunctionOnSet(so, I) \in Nat
    BY <2>1, <2>2, SumOfSame, SumIsNat
  <2>8. SumFunctionOnSet(sn, I \cup {f.index}) = f.size + SumFunctionOnSet(so, I)
    BY <2>2, <2>6, <2>7
  <2>9. DOMAIN new.received = I \cup {f.index}
    BY <1>6 DEF I
  <2>10. new.bytes = SumFunctionOnSet(so, I) + f.size
    BY <1>7, <2>5
  <2>11. SumFunctionOnSet(sn, DOMAIN new.received) = f.size + SumFunctionOnSet(so, I)
    BY <2>8, <2>9
  <2> HIDE DEF new
  <2>12. new.bytes = SumFunctionOnSet(sn, DOMAIN new.received)
    BY <1>2, <2>7, <2>10, <2>11
  <2> QED
    BY <2>12 DEF sn
<1>11. /\ IsFiniteSet(D) /\ \A id \in D : g[id] \in Nat
       /\ \A id \in D \ {f.id} : h[id] = g[id]
       /\ h[f.id] = g[f.id] + f.size
  <2>1. IsFiniteSet(D) /\ \A id \in D : g[id] \in Nat
    BY <1>1 DEF StoreTyped, IsSet, BytesIn
  <2> HIDE DEF e
  <2> QED
    BY <1>6, <1>7, <2>1 DEF BytesIn
<1>12. ASSUME NEW S \in SUBSET D
       PROVE  /\ SumFunctionOnSet(g, S) \in Nat
              /\ f.id \in S => SumFunctionOnSet(h, S) = SumFunctionOnSet(g, S) + f.size
              /\ f.id \notin S => SumFunctionOnSet(h, S) = SumFunctionOnSet(g, S)
  <2>1. IsFiniteSet(S)
    BY <1>11, FS_Subset
  <2>2. /\ \A id \in S : g[id] \in Nat
        /\ \A id \in S \ {f.id} : h[id] = g[id]
    BY <1>11
  <2>3. h[f.id] = g[f.id] + f.size
    BY <1>11
  <2> HIDE DEF g, h
  <2>4. SumFunctionOnSet(g, S) \in Nat
    BY <2>1, <2>2, SumIsNat
  <2>5. ASSUME f.id \in S
        PROVE  SumFunctionOnSet(h, S) = SumFunctionOnSet(g, S) + f.size
    <3> DEFINE x == f.id
               k == f.size
    <3>1. x \in S /\ k \in Nat /\ h[x] = g[x] + k /\ \A y \in S \ {x} : h[y] = g[y]
      BY <1>2, <2>2, <2>3, <2>5
    <3> HIDE DEF x, k
    <3>2. SumFunctionOnSet(h, S) = SumFunctionOnSet(g, S) + k
      BY <2>1, <2>2, <3>1, SumRaised
    <3> QED
      BY <3>2 DEF k
  <2>6. ASSUME f.id \notin S
        PROVE  SumFunctionOnSet(h, S) = SumFunctionOnSet(g, S)
    <3>1. \A id \in S : h[id] = g[id]
      BY <2>2, <2>6
    <3> QED
      BY <2>1, <3>1, SumOfSame
  <2> QED
    BY <2>4, <2>5, <2>6
<1>13. \A q : of(q) \in SUBSET D /\ OfPeer(e, D, q) = of(q) /\ (f.id \in of(q) <=> q = p)
  <2>1. \A id \in D : e.pending[id].peerId = s.pending[id].peerId
    BY <1>6
  <2> HIDE DEF e
  <2>2. \A q : of(q) \in SUBSET D /\ OfPeer(e, D, q) = of(q)
    BY <2>1 DEF OfPeer
  <2>3. \A q : f.id \in of(q) <=> q = p
    BY <1>4 DEF OfPeer
  <2> QED
    BY <2>2, <2>3
<1> HIDE DEF e, D, g, h, old, new, of
<1>14. /\ s.bytes = SumFunctionOnSet(g, D)
       /\ \A q \in Peers : s.peerSets[q] = Cardinality(of(q))
                           /\ s.peerBytes[q] = SumFunctionOnSet(g, of(q))
       /\ s.peerSets[Unknown] = 0 /\ s.peerBytes[Unknown] = 0
  BY <1>1 DEF StoreExact, D, g, of
<1>15. /\ s.bytes \in Nat /\ s.peerSets \in [Senders -> Nat] /\ s.peerBytes \in [Senders -> Nat]
  BY <1>1 DEF StoreTyped
<1>16. /\ e.peerBytes \in [Senders -> Nat]
       /\ \A q \in Senders : e.peerBytes[q] = IF q = p /\ p # Unknown THEN s.peerBytes[q] + f.size
                                              ELSE s.peerBytes[q]
  BY <1>2, <1>8, <1>15 DEF Counted
<1>17. StoreTyped(e)
  <2>1. \A id \in D : IsSet(e.pending[id])
    BY <1>1, <1>6, <1>9 DEF StoreTyped, D, new
  <2> QED
    BY <1>1, <1>2, <1>6, <1>8, <1>15, <1>16, <2>1 DEF StoreTyped, D
<1>18. StoreExact(e)
  <2>1. ASSUME NEW id \in D
        PROVE  e.pending[id].bytes
                 = SumFunctionOnSet(SizesIn(e.pending[id]), DOMAIN e.pending[id].received)
    <3>1. CASE id = f.id
      BY <1>10, <3>1 DEF new
    <3>2. CASE id # f.id
      BY <1>1, <1>6, <3>2 DEF StoreExact, D
    <3> QED
      BY <3>1, <3>2
  <2>2. e.bytes = SumFunctionOnSet(h, D)
    <3>1. D \in SUBSET D /\ f.id \in D
      BY DEF D
    <3> QED
      BY <1>8, <1>12, <1>14, <3>1
  <2>3. ASSUME NEW q \in Peers
        PROVE  e.peerSets[q] = Cardinality(of(q)) /\ e.peerBytes[q] = SumFunctionOnSet(h, of(q))
    <3>1. q \in Senders /\ q # Unknown
      BY ReassemblerConstants DEF Senders
    <3> QED
      BY <1>8, <1>12, <1>13, <1>14, <1>16, <3>1
  <2>4. e.peerSets[Unknown] = 0 /\ e.peerBytes[Unknown] = 0
    BY <1>8, <1>14, <1>16 DEF Senders
  <2>5. DOMAIN e.pending = D
    BY <1>6 DEF D
  <2> QED
    BY <1>13, <2>1, <2>2, <2>3, <2>4, <2>5 DEF StoreExact, h
<1>19. StoreLimited(e)
  <2>1. MaxBytes \in Nat /\ MaxBytesPerPeer \in Nat
    BY ReassemblerConstants
  <2>2. /\ ~(s.bytes + f.size > MaxBytes)
        /\ p # Unknown => ~(s.peerBytes[p] + f.size > MaxBytesPerPeer)
    BY DEF NoRoomForData
  <2>3. /\ Cardinality(D) <= MaxSets
        /\ \A q \in Peers : s.peerSets[q] <= MaxSetsPerPeer /\ s.peerBytes[q] <= MaxBytesPerPeer
    BY <1>1 DEF StoreLimited, D
  <2>4. e.bytes <= MaxBytes
    BY <1>2, <1>8, <1>15, <2>1, <2>2
  <2>5. ASSUME NEW q \in Peers
        PROVE  e.peerBytes[q] <= MaxBytesPerPeer
    <3>1. q \in Senders /\ s.peerBytes[q] \in Nat
      BY <1>15 DEF Senders
    <3> QED
      BY <1>2, <1>16, <2>1, <2>2, <2>3, <3>1
  <2> QED
    BY <1>6, <1>8, <2>3, <2>4, <2>5 DEF StoreLimited, D
<1> QED
  BY <1>17, <1>18, <1>19 DEF AccountsHold, e

\* The store has sound accounts and no set that could be assembled; what was
\* assembled last is a set.
AccountsInvariant ==
  /\ AccountsHold(Store)
  /\ \A id \in DOMAIN pending : ~Complete(pending[id])
  /\ now \in Nat
  /\ \A made \in assembled : IsSet(made.set)

\* Accounts that hold of a value hold of the store that becomes it.
LEMMA BecomesAccounts ==
  ASSUME NEW s, AccountsHold(s), Becomes(s)
  PROVE  AccountsHold(Store)'
<1> DEFINE t == [pending |-> s.pending, bytes |-> s.bytes,
                 peerSets |-> s.peerSets, peerBytes |-> s.peerBytes]
<1>1. /\ t.pending = s.pending /\ t.bytes = s.bytes
      /\ t.peerSets = s.peerSets /\ t.peerBytes = s.peerBytes
      /\ {"pending", "bytes", "peerSets", "peerBytes"} \subseteq DOMAIN t
  OBVIOUS
<1>2. Store' = t
  BY DEF Store, Becomes
<1> HIDE DEF t
<1>3. \A ids, p : OfPeer(t, ids, p) = OfPeer(s, ids, p)
  BY <1>1 DEF OfPeer
<1>4. StoreTyped(t)
  BY <1>1 DEF AccountsHold, StoreTyped
<1>5. StoreExact(t)
  BY <1>1, <1>3 DEF AccountsHold, StoreExact
<1>6. StoreLimited(t)
  BY <1>1 DEF AccountsHold, StoreLimited
<1>7. AccountsHold(t)
  BY <1>4, <1>5, <1>6 DEF AccountsHold
<1> QED
  BY <1>2, <1>7

\* addFragment, once f has its set, keeps the accounts and leaves no complete set.
LEMMA AddToSetAccounts ==
  ASSUME NEW s, AccountsHold(s), NEW f \in Fragments, NEW p \in Senders, now \in Nat, now' = now,
         f.id \in DOMAIN s.pending, ~Foreign(s.pending[f.id], f, p),
         \A id \in DOMAIN s.pending : ~Complete(s.pending[id]), AddToSet(s, f, p)
  PROVE  AccountsInvariant'
<1> DEFINE entered == Entered(s, f, p)
           full == Complete(entered.pending[f.id])
<1>1. {"pending", "bytes", "peerSets", "peerBytes"} \subseteq DOMAIN s
  BY DEF AccountsHold, StoreTyped
<1>2. ASSUME Becomes(s), assembled' = {}
      PROVE  AccountsInvariant'
  <2>1. AccountsHold(Store)'
    BY <1>2, BecomesAccounts
  <2> QED
    BY <1>2, <2>1 DEF Becomes, AccountsInvariant, Complete
<1>3. ASSUME f.index \notin DOMAIN s.pending[f.id].received, ~NoRoomForData(s, f, p)
      PROVE  /\ AccountsHold(entered)
             /\ DOMAIN entered.pending = DOMAIN s.pending
             /\ \A id \in DOMAIN s.pending \ {f.id} : entered.pending[id] = s.pending[id]
             /\ IsSet(entered.pending[f.id])
  <2>1. AccountsHold(entered)
    BY <1>3, EnteredAccounts
  <2>2. /\ DOMAIN entered.pending = DOMAIN s.pending
        /\ \A id \in DOMAIN s.pending \ {f.id} : entered.pending[id] = s.pending[id]
    BY DEF Entered
  <2> HIDE DEF entered
  <2> QED
    BY <2>1, <2>2 DEF AccountsHold, StoreTyped
<1> HIDE DEF entered
<1>4. ASSUME AccountsHold(entered), DOMAIN entered.pending = DOMAIN s.pending,
             \A id \in DOMAIN s.pending \ {f.id} : entered.pending[id] = s.pending[id],
             ~full, Becomes(entered), assembled' = {}
      PROVE  AccountsInvariant'
  <2>1. AccountsHold(Store)'
    BY <1>4, BecomesAccounts
  <2>2. \A id \in DOMAIN entered.pending : ~Complete(entered.pending[id])
    BY <1>4
  <2> QED
    BY <1>4, <2>1, <2>2 DEF Becomes, AccountsInvariant, Complete
<1>5. ASSUME AccountsHold(entered), DOMAIN entered.pending = DOMAIN s.pending,
             \A id \in DOMAIN s.pending \ {f.id} : entered.pending[id] = s.pending[id],
             IsSet(entered.pending[f.id]), Becomes(Removed(entered, {f.id})),
             assembled' = {[id |-> f.id, set |-> entered.pending[f.id]]}
      PROVE  AccountsInvariant'
  <2> DEFINE r == Removed(entered, {f.id})
  <2>1. AccountsHold(r)
    BY <1>5, RemovedAccounts
  <2>2. \A id \in DOMAIN r.pending : ~Complete(r.pending[id])
    <3>1. /\ DOMAIN r.pending = DOMAIN entered.pending \ {f.id}
          /\ \A id \in DOMAIN entered.pending \ {f.id} : r.pending[id] = entered.pending[id]
      BY RemovedSets
    <3> HIDE DEF r
    <3> QED
      BY <1>5, <3>1
  <2>3. Becomes(r)
    BY <1>5
  <2> HIDE DEF r
  <2>4. AccountsHold(Store)'
    BY <2>1, <2>3, BecomesAccounts
  <2> QED
    BY <1>5, <2>2, <2>3, <2>4 DEF Becomes, AccountsInvariant, Complete
<1> QED
  BY <1>2, <1>3, <1>4, <1>5 DEF AddToSet, entered

\* Purging keeps the accounts.
LEMMA PurgedAccounts ==
  ASSUME AccountsInvariant, NEW maxAge
  PROVE  /\ AccountsHold(Purged(Store, maxAge))
         /\ \A id \in DOMAIN Purged(Store, maxAge).pending :
              ~Complete(Purged(Store, maxAge).pending[id])
<1>1. Older(Store, maxAge) \in SUBSET DOMAIN Store.pending
  BY DEF Older
<1>2. AccountsHold(Purged(Store, maxAge))
  BY <1>1, RemovedAccounts DEF Purged, AccountsInvariant
<1>3. \A id \in DOMAIN Purged(Store, maxAge).pending :
        id \in DOMAIN pending /\ Purged(Store, maxAge).pending[id] = pending[id]
  BY PurgedSets
<1> QED
  BY <1>2, <1>3 DEF AccountsInvariant

\* Every step keeps the accounts.
LEMMA AccountsStep ==
  ASSUME AccountsInvariant, [Next]_vars
  PROVE  AccountsInvariant'
<1>0. /\ now \in Nat /\ AccountsHold(Store)
      /\ \A id \in DOMAIN pending : ~Complete(pending[id])
      /\ \A made \in assembled : IsSet(made.set)
  BY DEF AccountsInvariant
<1>1. ASSUME NEW f \in Fragments, NEW p \in Senders, AddFragment(f, p)
      PROVE  AccountsInvariant'
  <2> DEFINE s == Purged(Store, MaxAge)
  <2>1. /\ AccountsHold(s) /\ \A id \in DOMAIN s.pending : ~Complete(s.pending[id])
        /\ now' = now
    BY <1>1, PurgedAccounts DEF AddFragment
  <2>2. \/ Becomes(s) /\ assembled' = {}
        \/ /\ f.id \notin DOMAIN s.pending /\ ~NoRoomForSet(s, f, p)
           /\ AddToSet(Begun(s, f, p), f, p)
        \/ /\ f.id \in DOMAIN s.pending /\ ~Foreign(s.pending[f.id], f, p)
           /\ AddToSet(s, f, p)
    BY <1>1 DEF AddFragment
  <2> HIDE DEF s
  <2>3. ASSUME Becomes(s), assembled' = {}
        PROVE  AccountsInvariant'
    <3>1. AccountsHold(Store)'
      BY <2>1, <2>3, BecomesAccounts
    <3> QED
      BY <1>0, <2>1, <2>3, <3>1 DEF Becomes, AccountsInvariant, Complete
  <2>4. ASSUME f.id \notin DOMAIN s.pending, ~NoRoomForSet(s, f, p),
               AddToSet(Begun(s, f, p), f, p)
        PROVE  AccountsInvariant'
    <3> DEFINE b == Begun(s, f, p)
    <3>1. AccountsHold(b) /\ ~Complete(b.pending[f.id])
      BY <1>0, <2>1, <2>4, BegunAccounts
    <3>2. "pending" \in DOMAIN s
      BY <2>1 DEF AccountsHold, StoreTyped
    <3>3. /\ DOMAIN b.pending = DOMAIN s.pending \cup {f.id}
          /\ \A id \in DOMAIN s.pending \ {f.id} : b.pending[id] = s.pending[id]
          /\ b.pending[f.id] =
               [fragmentCount |-> f.count, received |-> [i \in {} |-> i],
                firstSeenAt |-> now, bytes |-> 0, peerId |-> p]
      BY <3>2, BegunSets
    <3>4. ~Foreign(b.pending[f.id], f, p) /\ f.id \in DOMAIN b.pending
      BY <3>3 DEF Foreign
    <3>5. \A id \in DOMAIN b.pending : ~Complete(b.pending[id])
      <4> HIDE DEF b
      <4> QED
        BY <2>1, <2>4, <3>1, <3>3
    <3> HIDE DEF b
    <3> QED
      BY <1>0, <2>1, <2>4, <3>1, <3>4, <3>5, AddToSetAccounts DEF b
  <2>5. ASSUME f.id \in DOMAIN s.pending, ~Foreign(s.pending[f.id], f, p), AddToSet(s, f, p)
        PROVE  AccountsInvariant'
    BY <1>0, <2>1, <2>5, AddToSetAccounts
  <2> QED
    BY <2>2, <2>3, <2>4, <2>5
<1>2. ASSUME NEW maxAge, PurgeStale(maxAge)
      PROVE  AccountsInvariant'
  <2> DEFINE s == Purged(Store, maxAge)
  <2>1. /\ AccountsHold(s) /\ \A id \in DOMAIN s.pending : ~Complete(s.pending[id])
        /\ Becomes(s) /\ assembled' = {} /\ now' = now
    BY <1>2, PurgedAccounts DEF PurgeStale
  <2> HIDE DEF s
  <2>2. AccountsHold(Store)'
    BY <2>1, BecomesAccounts
  <2> QED
    BY <1>0, <2>1, <2>2 DEF Becomes, AccountsInvariant, Complete
<1>3. CASE Tick
  <2>1. AccountsHold(Store)'
    BY <1>0, <1>3 DEF Tick, store, Store
  <2> QED
    BY <1>0, <1>3, <2>1 DEF Tick, store, AccountsInvariant
<1>4. CASE UNCHANGED vars
  <2>1. AccountsHold(Store)'
    BY <1>0, <1>4 DEF vars, store, Store
  <2> QED
    BY <1>0, <1>4, <2>1 DEF vars, store, AccountsInvariant
<1> QED
  BY <1>1, <1>2, <1>3, <1>4 DEF Next

\* The accounts are sound to begin with.
LEMMA AccountsInit == Init => AccountsInvariant
<1> SUFFICES ASSUME Init
             PROVE  AccountsInvariant
  OBVIOUS
<1>1. /\ DOMAIN Store.pending = {} /\ Store.bytes = 0 /\ pending = Store.pending
      /\ Store.peerSets = [p \in Senders |-> 0] /\ Store.peerBytes = [p \in Senders |-> 0]
      /\ {"pending", "bytes", "peerSets", "peerBytes"} \subseteq DOMAIN Store
  BY DEF Init, Store
<1>2. \A f : SumFunctionOnSet(f, {}) = 0
  BY FS_EmptySet, SumStep
<1>3. \A p : OfPeer(Store, {}, p) = {}
  BY DEF OfPeer
<1>4. IsFiniteSet({}) /\ Cardinality({}) = 0
  BY FS_EmptySet
<1>5. {MaxSets, MaxBytes, MaxSetsPerPeer, MaxBytesPerPeer} \subseteq Nat
  BY ReassemblerConstants
<1>6. StoreTyped(Store)
  BY <1>1, <1>4 DEF StoreTyped
<1>7. StoreExact(Store)
  BY <1>1, <1>2, <1>3, <1>4 DEF StoreExact, Senders
<1>8. StoreLimited(Store)
  BY <1>1, <1>4, <1>5 DEF StoreLimited, Senders
<1> QED
  BY <1>1, <1>6, <1>7, <1>8 DEF AccountsInvariant, AccountsHold, Init

\* What the invariant says is what the store's accounts are.
LEMMA AccountsAreSound == AccountsInvariant => AccountsSound
<1> SUFFICES ASSUME AccountsInvariant
             PROVE  AccountsSound
  OBVIOUS
<1> DEFINE s == Store
           D == DOMAIN pending
<1>1. /\ StoreTyped(s) /\ StoreExact(s) /\ StoreLimited(s)
      /\ \A id \in D : ~Complete(pending[id])
      /\ now \in Nat
      /\ \A made \in assembled : IsSet(made.set)
  BY DEF AccountsInvariant, AccountsHold
<1>2. /\ s.pending = pending /\ s.bytes = pendingBytes
      /\ s.peerSets = peerPendingSets /\ s.peerBytes = peerPendingBytes
  BY DEF Store
<1>3. \A p : SetsOf(p) = OfPeer(s, D, p)
  BY <1>2 DEF SetsOf, OfPeer
<1>4. ASSUME NEW ids \in SUBSET D
      PROVE  HeldBytes(ids) = SumFunctionOnSet(BytesIn(pending), ids)
  <2> DEFINE g == [id \in ids |-> pending[id].bytes]
  <2>1. HeldBytes(ids) = SumFunctionOnSet(g, ids)
    BY DEF HeldBytes, SumFunction
  <2>2. \A id \in ids : g[id] = BytesIn(pending)[id]
    BY DEF BytesIn
  <2>3. IsFiniteSet(ids)
    BY <1>1, <1>2, FS_Subset DEF StoreTyped
  <2> HIDE DEF g
  <2> QED
    BY <2>1, <2>2, <2>3, SumOfSame
<1>5. D \in SUBSET D /\ \A p : OfPeer(s, D, p) \in SUBSET D
  BY <1>2 DEF OfPeer
<1>6. TypeOK
  BY <1>1, <1>2 DEF TypeOK, StoreTyped
<1>7. AccountsExact
  <2>1. ASSUME NEW id \in D
        PROVE  LET received == pending[id].received
               IN  pending[id].bytes = SumFunction([i \in DOMAIN received |-> received[i].size])
    <3>1. pending[id].bytes
            = SumFunctionOnSet(SizesIn(pending[id]), DOMAIN pending[id].received)
      BY <1>1, <1>2 DEF StoreExact
    <3>2. DOMAIN SizesIn(pending[id]) = DOMAIN pending[id].received
      BY DEF SizesIn
    <3> QED
      BY <3>1, <3>2 DEF SumFunction, SizesIn
  <2>2. pendingBytes = HeldBytes(D)
    BY <1>1, <1>2, <1>4, <1>5 DEF StoreExact
  <2>3. ASSUME NEW p \in Senders
        PROVE  /\ peerPendingSets[p] = IF p = Unknown THEN 0 ELSE Cardinality(SetsOf(p))
               /\ peerPendingBytes[p] = IF p = Unknown THEN 0 ELSE HeldBytes(SetsOf(p))
    <3>1. CASE p = Unknown
      BY <1>1, <1>2, <3>1 DEF StoreExact
    <3>2. CASE p # Unknown
      <4>1. p \in Peers
        BY <3>2 DEF Senders
      <4>2. HeldBytes(SetsOf(p)) = SumFunctionOnSet(BytesIn(pending), OfPeer(s, D, p))
        BY <1>3, <1>4, <1>5
      <4> HIDE DEF s
      <4> QED
        BY <1>1, <1>2, <1>3, <3>2, <4>1, <4>2 DEF StoreExact
    <3> QED
      BY <3>1, <3>2
  <2> QED
    BY <2>1, <2>2, <2>3 DEF AccountsExact
<1>8. WithinLimits
  <2>1. \A p \in Peers : p \in Senders /\ p # Unknown
    BY ReassemblerConstants DEF Senders
  <2>2. /\ pendingBytes = HeldBytes(D)
        /\ \A p \in Peers : /\ peerPendingSets[p] = Cardinality(SetsOf(p))
                            /\ peerPendingBytes[p] = HeldBytes(SetsOf(p))
    BY <1>7, <2>1 DEF AccountsExact
  <2> HIDE DEF s
  <2> QED
    BY <1>1, <1>2, <2>2 DEF StoreLimited, WithinLimits
<1> QED
  BY <1>6, <1>7, <1>8 DEF AccountsSound

----------------------------------------------------------------------------
\* What is assembled is whole, from one peer, and in time, for any peers,
\* messages, fragments and limits.
THEOREM FragmentsAssembledWhole == Spec => []AssembledWhole
<1>1. Init => ReassemblyInvariant
  BY DEF Init, ReassemblyInvariant, SetsSound, AssembledWhole
<1>2. ReassemblyInvariant /\ [Next]_vars => ReassemblyInvariant'
  BY ReassemblyStep
<1>3. ReassemblyInvariant => AssembledWhole
  BY DEF ReassemblyInvariant
<1> QED
  BY <1>1, <1>2, <1>3, PTL DEF Spec

\* A fragment received stays until its set is assembled or given up, for any
\* peers, messages, fragments and limits.
THEOREM FragmentsKeptUntilWhole == Spec => KeptUntilWhole
<1>1. Init => ReassemblyInvariant
  BY DEF Init, ReassemblyInvariant, SetsSound, AssembledWhole
<1>2. ReassemblyInvariant /\ [Next]_vars => ReassemblyInvariant' /\ [ReceivedIsKept]_vars
  BY ReassemblyStep, KeepingStep
<1> QED
  BY <1>1, <1>2, PTL DEF Spec, KeptUntilWhole

\* An empty set is left behind only where the bytes held leave too little room
\* for some fragment.
THEOREM FragmentSetsEmptyWhenFull == Spec => EmptySetOnlyWhenFull
<1>1. Init => ReassemblyInvariant
  BY DEF Init, ReassemblyInvariant, SetsSound, AssembledWhole
<1>2. ReassemblyInvariant /\ [Next]_vars => ReassemblyInvariant' /\ [EmptySetMeansFull]_vars
  BY ReassemblyStep, KeepingStep
<1> QED
  BY <1>1, <1>2, PTL DEF Spec, EmptySetOnlyWhenFull

\* The shape, the counters and the limits of the store hold throughout.
THEOREM FragmentAccountsSound == Spec => []AccountsSound
<1>1. Init => AccountsInvariant
  BY AccountsInit
<1>2. AccountsInvariant /\ [Next]_vars => AccountsInvariant'
  BY AccountsStep
<1>3. AccountsInvariant => AccountsSound
  BY AccountsAreSound
<1> QED
  BY <1>1, <1>2, <1>3, PTL DEF Spec
=============================================================================
