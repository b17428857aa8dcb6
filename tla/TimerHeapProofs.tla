--------------------------- MODULE TimerHeapProofs ---------------------------
(***************************************************************************)
(* Proofs that the timer heap loses no chain and fires the earliest        *)
(* deadline first, for any number of chains and any clock.                 *)
(*                                                                         *)
(* HeapInv says that the vector is a heap, that a chain has at most one    *)
(* entry, with the deadline it was pushed with, and that a chain that was  *)
(* pushed has an entry until it is emplaced.                               *)
(***************************************************************************)
EXTENDS TimerHeap, FiniteSetTheorems, Lemmas, TLAPS

\* The chains that have an entry.
Queued == {entries[i].chain : i \in DOMAIN entries}

HeapInv ==
  /\ IsHeap(entries)
  /\ \A i, j \in DOMAIN entries : entries[i].chain = entries[j].chain => i = j
  /\ \A i \in DOMAIN entries : deadline[entries[i].chain] = entries[i].expiration
  /\ \A c \in Chains : emplaced[c] = IF deadline[c] = None \/ c \in Queued THEN 0 ELSE 1

TimerInv == TypeOK /\ HeapInv

-----------------------------------------------------------------------------
(* Heaps *)

\* The first entry of a heap has the earliest deadline.
LEMMA HeapMinimum ==
  ASSUME NEW s \in Seq(Entry), IsHeap(s), NEW i \in 1..Len(s)
  PROVE  s[1].expiration <= s[i].expiration
<1> DEFINE T == {k \in 1..Len(s) : ~(s[1].expiration <= s[k].expiration)}
<1>t. ASSUME NEW k \in 1..Len(s) PROVE s[k].expiration \in Nat
  <2>1. s[k] \in Entry
    OBVIOUS
  <2>2. s[k].expiration \in 0..MaxTime
    BY <2>1 DEF Entry, Time
  <2>3. QED BY <2>2, TimeAssumption
<1>1. SUFFICES ASSUME T # {} PROVE FALSE
  OBVIOUS
<1>2. T \in SUBSET Nat
  OBVIOUS
<1> HIDE DEF T
<1>3. PICK k \in T : \A m \in T : k <= m
  BY <1>1, <1>2, Least
<1>4. k \in 1..Len(s) /\ ~(s[1].expiration <= s[k].expiration)
  BY <1>3 DEF T
<1>5. k # 1
  BY <1>4, <1>t
<1>6. k \in 2..Len(s) /\ k \div 2 \in 1..Len(s) /\ k \div 2 < k
  BY <1>4, <1>5
<1>7. s[k \div 2].expiration <= s[k].expiration
  BY <1>6 DEF IsHeap
<1>8. k \div 2 \notin T
  BY <1>2, <1>3, <1>6
<1>9. s[1].expiration <= s[k \div 2].expiration
  BY <1>6, <1>8 DEF T
<1>10. s[1].expiration \in Nat /\ s[k \div 2].expiration \in Nat /\ s[k].expiration \in Nat
  BY <1>t, <1>4, <1>6
<1>11. QED BY <1>4, <1>7, <1>9, <1>10

\* The entries of a sequence of entries.
LEMMA EntryType ==
  ASSUME NEW s \in Seq(Entry), NEW i \in DOMAIN s
  PROVE  s[i] \in Entry /\ s[i].chain \in Chains /\ s[i].expiration \in Time
<1>1. s[i] \in Entry
  <2>1. i \in 1..Len(s)
    OBVIOUS
  <2>2. QED BY <2>1
<1>2. QED BY <1>1 DEF Entry

\* A rearrangement of a finite set of entries with different chains.
LEMMA Rearranged ==
  ASSUME NEW S, IsFiniteSet(S), S \subseteq Entry,
         \A x, y \in S : x.chain = y.chain => x = y,
         NEW s \in Heaps(S)
  PROVE  /\ s \in Seq(Entry) /\ IsHeap(s)
         /\ \A i \in DOMAIN s : s[i] \in S
         /\ \A x \in S : \E i \in DOMAIN s : s[i] = x
         /\ \A i, j \in DOMAIN s : s[i].chain = s[j].chain => i = j
<1> DEFINE n == Cardinality(S)
           D == 1..n
<1>1. n \in Nat
  BY FS_CardinalityType
<1>2. /\ s \in [D -> S] /\ IsHeap(s)
      /\ \A i, j \in D : i # j => s[i] # s[j]
  BY DEF Heaps, SetToSeqs
<1>3. IsFiniteSet(D) /\ Cardinality(D) = n
  BY <1>1, FS_Interval
<1> HIDE DEF n, D
<1>4. s \in Injection(D, S)
  BY <1>2 DEF Injection, IsInjective
<1>5. s \in Surjection(D, S)
  BY <1>3, <1>4, FS_Injection DEF n
<1>6. \A x \in S : \E i \in D : s[i] = x
  BY <1>5 DEF Surjection
<1>7. s \in [1..n -> Entry] /\ DOMAIN s = D
  BY <1>2 DEF D
<1>8. s \in Seq(Entry)
  BY <1>1, <1>7
<1>9. QED BY <1>2, <1>6, <1>7, <1>8

\* The entries of a sequence are finitely many.
LEMMA RangeFinite ==
  ASSUME NEW s \in Seq(Entry) PROVE IsFiniteSet(Range(s)) /\ Range(s) \subseteq Entry
<1>1. IsFiniteSet(1..Len(s)) /\ DOMAIN s = 1..Len(s)
  BY FS_Interval
<1>2. s \in Surjection(DOMAIN s, Range(s))
  BY DEF Surjection, Range
<1>3. IsFiniteSet(Range(s))
  BY <1>1, <1>2, FS_Surjection
<1>4. QED BY <1>1, <1>3 DEF Range

\* SwapOut removes entry i and no other.
LEMMA SwapOutEntries ==
  ASSUME NEW s \in Seq(Entry), NEW i \in DOMAIN s
  PROVE  /\ SwapOut(s, i) \in Seq(Entry)
         /\ Len(SwapOut(s, i)) = Len(s) - 1
         /\ \A j \in 1..(Len(s) - 1) : SwapOut(s, i)[j] = IF j = i THEN s[Len(s)] ELSE s[j]
<1> DEFINE t == [s EXCEPT ![i] = s[Len(s)]]
<1>1. Len(s) \in Nat /\ Len(s) >= 1 /\ DOMAIN s = 1..Len(s) /\ i \in 1..Len(s)
  OBVIOUS
<1>2. t \in Seq(Entry) /\ Len(t) = Len(s)
      /\ \A j \in 1..Len(s) : t[j] = IF j = i THEN s[Len(s)] ELSE s[j]
  BY <1>1
<1> HIDE DEF t
<1>3. SubSeq(t, 1, Len(t) - 1) \in Seq(Entry) /\ Len(SubSeq(t, 1, Len(t) - 1)) = Len(s) - 1
      /\ \A j \in 1..(Len(s) - 1) : SubSeq(t, 1, Len(t) - 1)[j] = t[j]
  BY <1>1, <1>2
<1>4. SwapOut(s, i) = SubSeq(t, 1, Len(t) - 1)
  BY DEF SwapOut, Front, Last, t
<1>5. QED BY <1>1, <1>2, <1>3, <1>4

-----------------------------------------------------------------------------
(* The steps *)

\* Emplacing the chain of entry k and dropping that entry keeps the invariant.
LEMMA RemoveEntry ==
  ASSUME TimerInv, NEW k \in DOMAIN entries, Emplace(entries[k].chain), deadline' = deadline,
         entries' \in Seq(Entry), IsHeap(entries'),
         \A i, j \in DOMAIN entries' : entries'[i].chain = entries'[j].chain => i = j,
         \A i \in DOMAIN entries' : \E j \in DOMAIN entries : j # k /\ entries'[i] = entries[j],
         \A j \in DOMAIN entries : j # k => \E i \in DOMAIN entries' : entries'[i] = entries[j]
  PROVE  HeapInv' /\ emplaced' \in [Chains -> Nat]
<1> DEFINE c == entries[k].chain
<1>t. /\ entries \in Seq(Entry) /\ entries[k] \in Entry /\ c \in Chains
      /\ emplaced \in [Chains -> Nat] /\ deadline \in [Chains -> Time \cup {None}]
  <2>1. entries \in Seq(Entry) /\ emplaced \in [Chains -> Nat]
        /\ deadline \in [Chains -> Time \cup {None}]
    BY DEF TimerInv, TypeOK
  <2>2. QED BY <2>1, EntryType
<1>h. HeapInv
  BY DEF TimerInv
<1>1. Queued' = Queued \ {c}
  <2>1. ASSUME NEW x \in Queued' PROVE x \in Queued /\ x # c
    <3>1. PICK i \in DOMAIN entries' : x = entries'[i].chain
      BY <2>1 DEF Queued
    <3>2. PICK j \in DOMAIN entries : j # k /\ entries'[i] = entries[j]
      BY <3>1
    <3>3. QED BY <1>h, <3>1, <3>2 DEF Queued, HeapInv
  <2>2. ASSUME NEW x \in Queued, x # c PROVE x \in Queued'
    <3>1. PICK j \in DOMAIN entries : x = entries[j].chain
      BY <2>2 DEF Queued
    <3>2. PICK i \in DOMAIN entries' : entries'[i] = entries[j]
      BY <2>2, <3>1
    <3>3. QED BY <3>1, <3>2 DEF Queued
  <2>3. QED BY <2>1, <2>2
<1>2. c \in Queued /\ deadline[c] # None
  <2>1. entries[k].expiration \in Time
    BY <1>t DEF Entry
  <2>2. QED BY <1>h, <2>1, TimeAssumption DEF Queued, HeapInv, Time
<1>3. emplaced' = [emplaced EXCEPT ![c] = 1]
  <2>1. emplaced[c] = 0
    BY <1>h, <1>t, <1>2 DEF HeapInv
  <2>2. emplaced' = [emplaced EXCEPT ![c] = emplaced[c] + 1]
    BY DEF Emplace
  <2>3. emplaced[c] + 1 = 1
    BY <2>1
  <2>4. QED BY <2>2, <2>3
<1>4. \A i \in DOMAIN entries' : deadline'[entries'[i].chain] = entries'[i].expiration
  BY <1>h DEF HeapInv
<1>5. \A x \in Chains : emplaced'[x] = IF deadline'[x] = None \/ x \in Queued' THEN 0 ELSE 1
  BY <1>h, <1>t, <1>1, <1>2, <1>3 DEF HeapInv
<1>6. QED BY <1>3, <1>4, <1>5, <1>t DEF HeapInv

\* cancel: the entry is swapped out and the heap restored, unless it was the
\* last.
LEMMA CancelInv == ASSUME TimerInv, NEW c \in Chains, Cancel(c) PROVE TimerInv'
<1>1. PICK k \in DOMAIN entries :
        /\ entries[k].chain = c /\ Emplace(c)
        /\ entries' \in IF k < Len(entries) THEN Heaps(Range(SwapOut(entries, k)))
                                            ELSE {SwapOut(entries, k)}
  BY DEF Cancel
<1> DEFINE n == Len(entries)
           s == SwapOut(entries, k)
<1>t. entries \in Seq(Entry) /\ n \in Nat /\ DOMAIN entries = 1..n /\ k \in 1..n
  BY DEF TimerInv, TypeOK
<1>h. HeapInv
  BY DEF TimerInv
<1>2. /\ s \in Seq(Entry) /\ Len(s) = n - 1 /\ DOMAIN s = 1..(n - 1)
      /\ \A j \in 1..(n - 1) : s[j] = IF j = k THEN entries[n] ELSE entries[j]
  <2>1. /\ s \in Seq(Entry) /\ Len(s) = n - 1
        /\ \A j \in 1..(n - 1) : s[j] = IF j = k THEN entries[n] ELSE entries[j]
    BY <1>t, SwapOutEntries
  <2> HIDE DEF s
  <2>2. QED BY <2>1
<1> HIDE DEF s
<1>3. \A i \in 1..(n - 1) : \E j \in 1..n : j # k /\ s[i] = entries[j]
  BY <1>t, <1>2
<1>4. \A j \in 1..n : j # k => \E i \in 1..(n - 1) : s[i] = entries[j]
  <2>1. SUFFICES ASSUME NEW j \in 1..n, j # k PROVE \E i \in 1..(n - 1) : s[i] = entries[j]
    OBVIOUS
  <2>2. CASE j = n
    <3>1. k \in 1..(n - 1) /\ s[k] = entries[j]
      BY <1>t, <1>2, <2>1, <2>2
    <3>2. QED BY <3>1
  <2>3. CASE j # n
    <3> HIDE DEF n
    <3>0. j \in 1..(n - 1)
      BY <1>t, <2>1, <2>3
    <3>1. j \in 1..(n - 1) /\ s[j] = entries[j]
      BY <1>2, <2>1, <3>0
    <3>2. QED BY <3>1
  <2>4. QED BY <2>2, <2>3
<1>5. \A i, j \in 1..(n - 1) : s[i].chain = s[j].chain => i = j
  <2> DEFINE at(i) == IF i = k THEN n ELSE i
  <2>1. \A i \in 1..(n - 1) : at(i) \in 1..n /\ s[i] = entries[at(i)]
    BY <1>t, <1>2
  <2>2. \A i, j \in 1..(n - 1) : at(i) = at(j) => i = j
    BY <1>t
  <2> HIDE DEF at
  <2>3. \A i, j \in 1..n : entries[i].chain = entries[j].chain => i = j
    BY <1>h, <1>t DEF HeapInv
  <2>4. QED BY <2>1, <2>2, <2>3
<1>6. /\ entries' \in Seq(Entry) /\ IsHeap(entries')
      /\ \A i, j \in DOMAIN entries' : entries'[i].chain = entries'[j].chain => i = j
      /\ \A i \in DOMAIN entries' : \E j \in 1..(n - 1) : entries'[i] = s[j]
      /\ \A j \in 1..(n - 1) : \E i \in DOMAIN entries' : entries'[i] = s[j]
  <2>1. CASE k < n
    <3>1. IsFiniteSet(Range(s)) /\ Range(s) \subseteq Entry
      BY <1>2, RangeFinite
    <3>2. \A x, y \in Range(s) : x.chain = y.chain => x = y
      BY <1>2, <1>5 DEF Range
    <3>3. entries' \in Heaps(Range(s))
      BY <1>1, <2>1 DEF s
    <3>4. /\ entries' \in Seq(Entry) /\ IsHeap(entries')
          /\ \A i \in DOMAIN entries' : entries'[i] \in Range(s)
          /\ \A x \in Range(s) : \E i \in DOMAIN entries' : entries'[i] = x
          /\ \A i, j \in DOMAIN entries' : entries'[i].chain = entries'[j].chain => i = j
      BY <3>1, <3>2, <3>3, Rearranged
    <3>5. \A j \in 1..(n - 1) : s[j] \in Range(s)
      BY <1>2 DEF Range
    <3>6. \A x \in Range(s) : \E j \in 1..(n - 1) : x = s[j]
      BY <1>2 DEF Range
    <3>7. QED BY <3>4, <3>5, <3>6
  <2>2. CASE ~(k < n)
    <3>1. entries' = s /\ k = n
      BY <1>1, <1>t, <2>2 DEF s
    <3>2. IsHeap(s)
      <4>1. \A j \in 1..(n - 1) : s[j] = entries[j]
        BY <1>t, <1>2, <3>1
      <4>2. SUFFICES ASSUME NEW i \in 2..(n - 1) PROVE s[i \div 2].expiration <= s[i].expiration
        BY <1>2 DEF IsHeap
      <4>3. i \in 2..n /\ i \in 1..(n - 1) /\ i \div 2 \in 1..(n - 1)
        BY <1>t
      <4>4. QED BY <1>h, <4>1, <4>3 DEF HeapInv, IsHeap
    <3>3. QED BY <1>2, <1>5, <3>1, <3>2
  <2>3. QED BY <2>1, <2>2
<1>7. /\ \A i \in DOMAIN entries' : \E j \in DOMAIN entries : j # k /\ entries'[i] = entries[j]
      /\ \A j \in DOMAIN entries : j # k => \E i \in DOMAIN entries' : entries'[i] = entries[j]
  <2> HIDE DEF n
  <2>1. DOMAIN entries = 1..n
    BY <1>t
  <2>2. ASSUME NEW i \in DOMAIN entries'
        PROVE  \E j \in DOMAIN entries : j # k /\ entries'[i] = entries[j]
    <3>1. PICK m \in 1..(n - 1) : entries'[i] = s[m]
      BY <1>6
    <3>2. QED BY <1>3, <2>1, <3>1
  <2>3. ASSUME NEW j \in DOMAIN entries, j # k
        PROVE  \E i \in DOMAIN entries' : entries'[i] = entries[j]
    <3>1. PICK m \in 1..(n - 1) : s[m] = entries[j]
      BY <1>4, <2>1, <2>3
    <3>2. QED BY <1>6, <3>1
  <2>4. QED BY <2>2, <2>3
<1>f. deadline' = deadline
  BY DEF Cancel
<1>8. HeapInv' /\ emplaced' \in [Chains -> Nat]
  BY <1>1, <1>6, <1>7, <1>f, RemoveEntry
<1>9. TypeOK'
  BY <1>6, <1>8 DEF Cancel, TimerInv, TypeOK
<1>10. QED BY <1>8, <1>9 DEF TimerInv

\* The timer thread pops the first entry.
LEMMA FireInv == ASSUME TimerInv, Fire PROVE TimerInv'
<1> DEFINE n == Len(entries)
           s == Tail(entries)
<1>t. entries \in Seq(Entry) /\ entries # <<>> /\ n \in Nat /\ n >= 1 /\ DOMAIN entries = 1..n
  BY DEF TimerInv, TypeOK, Fire
<1>h. HeapInv
  BY DEF TimerInv
<1>2. /\ s \in Seq(Entry) /\ Len(s) = n - 1 /\ DOMAIN s = 1..(n - 1)
      /\ \A j \in 1..(n - 1) : s[j] = entries[j + 1]
  BY <1>t
<1>e. entries' \in Heaps(Range(s)) /\ Emplace(entries[1].chain) /\ deadline' = deadline
  BY DEF Fire
<1> HIDE DEF s
<1>3. \A i \in 1..(n - 1) : i + 1 \in 1..n /\ i + 1 # 1 /\ s[i] = entries[i + 1]
  BY <1>t, <1>2
<1>4. \A j \in 1..n : j # 1 => j - 1 \in 1..(n - 1) /\ s[j - 1] = entries[j]
  <2>1. SUFFICES ASSUME NEW j \in 1..n, j # 1 PROVE j - 1 \in 1..(n - 1) /\ s[j - 1] = entries[j]
    OBVIOUS
  <2>2. j - 1 \in 1..(n - 1) /\ (j - 1) + 1 = j
    BY <1>t, <2>1
  <2>3. QED BY <1>2, <2>2
<1>5. \A i, j \in 1..(n - 1) : s[i].chain = s[j].chain => i = j
  <2>1. SUFFICES ASSUME NEW i \in 1..(n - 1), NEW j \in 1..(n - 1), s[i].chain = s[j].chain
                 PROVE  i = j
    OBVIOUS
  <2>2. i + 1 = j + 1
    BY <1>h, <1>t, <1>3, <2>1 DEF HeapInv
  <2>3. QED BY <2>2
<1>6. /\ entries' \in Seq(Entry) /\ IsHeap(entries')
      /\ \A i \in DOMAIN entries' : entries'[i] \in Range(s)
      /\ \A x \in Range(s) : \E i \in DOMAIN entries' : entries'[i] = x
      /\ \A i, j \in DOMAIN entries' : entries'[i].chain = entries'[j].chain => i = j
  <2>1. IsFiniteSet(Range(s)) /\ Range(s) \subseteq Entry
    BY <1>2, RangeFinite
  <2>2. \A x, y \in Range(s) : x.chain = y.chain => x = y
    BY <1>2, <1>5 DEF Range
  <2>3. QED BY <1>e, <2>1, <2>2, Rearranged
<1>r. /\ \A j \in 1..(n - 1) : s[j] \in Range(s)
      /\ \A x \in Range(s) : \E j \in 1..(n - 1) : x = s[j]
  BY <1>2 DEF Range
<1>7. /\ \A i \in DOMAIN entries' : \E j \in DOMAIN entries : j # 1 /\ entries'[i] = entries[j]
      /\ \A j \in DOMAIN entries : j # 1 => \E i \in DOMAIN entries' : entries'[i] = entries[j]
  <2> HIDE DEF n
  <2>1. DOMAIN entries = 1..n
    BY <1>t
  <2>2. ASSUME NEW i \in DOMAIN entries'
        PROVE  \E j \in DOMAIN entries : j # 1 /\ entries'[i] = entries[j]
    <3>1. PICK m \in 1..(n - 1) : entries'[i] = s[m]
      BY <1>6, <1>r
    <3>2. QED BY <1>3, <2>1, <3>1
  <2>3. ASSUME NEW j \in DOMAIN entries, j # 1
        PROVE  \E i \in DOMAIN entries' : entries'[i] = entries[j]
    <3>1. PICK m \in 1..(n - 1) : s[m] = entries[j]
      BY <1>4, <2>1, <2>3
    <3>2. QED BY <1>6, <1>r, <3>1
  <2>4. QED BY <2>2, <2>3
<1>8. HeapInv' /\ emplaced' \in [Chains -> Nat]
  BY <1>t, <1>e, <1>6, <1>7, RemoveEntry
<1>9. TypeOK'
  <2>1. entries[1] \in Entry
    BY <1>t
  <2>2. fired' \in [Chains -> Time \cup {None}]
    BY <2>1 DEF Fire, TimerInv, TypeOK, Entry
  <2>3. QED BY <1>6, <1>8, <2>2 DEF Fire, TimerInv, TypeOK
<1>10. QED BY <1>8, <1>9 DEF TimerInv

\* push: the chain had no entry and was never emplaced.
LEMMA PushInv == ASSUME TimerInv, NEW c \in Chains, NEW d \in Time, Push(c, d) PROVE TimerInv'
<1> DEFINE e == [chain |-> c, expiration |-> d]
           S == Range(entries) \cup {e}
<1>t. /\ entries \in Seq(Entry) /\ emplaced \in [Chains -> Nat] /\ e \in Entry
      /\ e.chain = c /\ e.expiration = d
      /\ deadline \in [Chains -> Time \cup {None}]
  BY DEF TimerInv, TypeOK, Entry
<1>h. HeapInv
  BY DEF TimerInv
<1>f. /\ deadline[c] = None /\ deadline' = [deadline EXCEPT ![c] = d] /\ entries' \in Heaps(S)
      /\ emplaced' = emplaced
  BY DEF Push
<1> HIDE DEF e
<1>1. d # None
  BY TimeAssumption DEF Time
<1>2. c \notin Queued
  <2>1. ASSUME NEW i \in DOMAIN entries, entries[i].chain = c PROVE FALSE
    <3>1. deadline[c] = entries[i].expiration /\ entries[i].expiration \in Time
      BY <1>h, <1>t, <2>1, EntryType DEF HeapInv
    <3>2. QED BY <1>f, <3>1, TimeAssumption DEF Time
  <2>2. QED BY <2>1 DEF Queued
<1>3. IsFiniteSet(S) /\ S \subseteq Entry
  <2>1. IsFiniteSet(Range(entries)) /\ Range(entries) \subseteq Entry
    BY <1>t, RangeFinite
  <2>2. QED BY <1>t, <2>1, FS_AddElement
<1>4. \A x \in Range(entries) : x.chain \in Queued /\ x.chain # c
  BY <1>2 DEF Range, Queued
<1>5. \A x, y \in S : x.chain = y.chain => x = y
  <2>1. \A x, y \in Range(entries) : x.chain = y.chain => x = y
    BY <1>h DEF HeapInv, Range
  <2>2. QED BY <1>t, <1>4, <2>1
<1> HIDE DEF S
<1>6. /\ entries' \in Seq(Entry) /\ IsHeap(entries')
      /\ \A i \in DOMAIN entries' : entries'[i] \in S
      /\ \A x \in S : \E i \in DOMAIN entries' : entries'[i] = x
      /\ \A i, j \in DOMAIN entries' : entries'[i].chain = entries'[j].chain => i = j
  BY <1>3, <1>5, <1>f, Rearranged
<1>7. Queued' = Queued \cup {c}
  <2>1. ASSUME NEW x \in Queued' PROVE x \in Queued \cup {c}
    <3>1. PICK i \in DOMAIN entries' : x = entries'[i].chain
      BY <2>1 DEF Queued
    <3>2. QED BY <1>4, <1>6, <1>t, <3>1 DEF S
  <2>2. ASSUME NEW x \in Queued PROVE x \in Queued'
    <3>1. PICK j \in DOMAIN entries : x = entries[j].chain
      BY <2>2 DEF Queued
    <3>2. entries[j] \in S
      BY DEF S, Range
    <3>3. QED BY <1>6, <3>1, <3>2 DEF Queued
  <2>3. c \in Queued'
    <3>1. PICK i \in DOMAIN entries' : entries'[i] = e
      BY <1>6 DEF S
    <3>2. QED BY <1>t, <3>1 DEF Queued
  <2>4. QED BY <2>1, <2>2, <2>3
<1>8. \A i \in DOMAIN entries' : deadline'[entries'[i].chain] = entries'[i].expiration
  <2>1. \A x \in Range(entries) : x.chain \in Chains /\ deadline[x.chain] = x.expiration
    BY <1>h, <1>t, EntryType DEF HeapInv, Range
  <2>2. \A x \in S : deadline'[x.chain] = x.expiration
    BY <1>t, <1>f, <1>4, <2>1 DEF S
  <2>3. QED BY <1>6, <2>2
<1>9. \A x \in Chains : emplaced'[x] = IF deadline'[x] = None \/ x \in Queued' THEN 0 ELSE 1
  BY <1>f, <1>h, <1>t, <1>1, <1>7 DEF HeapInv
<1>10. HeapInv'
  BY <1>6, <1>8, <1>9 DEF HeapInv
<1>11. TypeOK'
  <2>1. deadline' \in [Chains -> Time \cup {None}] /\ notified' \in BOOLEAN
    BY <1>f, <1>t DEF Push, Notify, TimerInv, TypeOK
  <2>2. QED BY <1>6, <2>1 DEF Push, TimerInv, TypeOK
<1>12. QED BY <1>10, <1>11 DEF TimerInv

\* The other steps leave the vector and the chains alone.
LEMMA HeapUntouched ==
  ASSUME TimerInv, UNCHANGED <<entries, deadline, emplaced>> PROVE HeapInv'
BY DEF TimerInv, HeapInv, Queued

\* No step of the clients or of the timer thread breaks the invariant.
LEMMA TimerStep == TimerInv /\ [Next]_vars => TimerInv'
<1> SUFFICES ASSUME TimerInv, [Next]_vars PROVE TimerInv'
  OBVIOUS
<1>t. TypeOK
  BY DEF TimerInv
<1>1. CASE \E c \in Chains : (\E d \in Time : Push(c, d)) \/ Cancel(c)
  BY <1>1, PushInv, CancelInv
<1>2. CASE Fire
  BY <1>2, FireInv
<1>3. CASE Stop \/ Join \/ Start \/ Exit \/ WaitEmpty \/ WaitFor \/ Wake \/ Timeout \/ Tick
           \/ UNCHANGED vars
  <2>1. UNCHANGED <<entries, deadline, emplaced>>
    BY <1>3 DEF Stop, Join, Start, Exit, WaitEmpty, WaitFor, Wake, Timeout, Tick, Lock, vars
  <2>2. TypeOK'
    <3>1. entries' \in Seq(Entry) /\ deadline' \in [Chains -> Time \cup {None}]
          /\ emplaced' \in [Chains -> Nat]
      BY <1>t, <2>1 DEF TypeOK
    <3>2. wakeAt' \in Time
      <4>1. CASE WaitFor
        <5>1. entries[1] \in Entry
          BY <1>t, <4>1 DEF WaitFor, TypeOK
        <5>2. QED BY <4>1, <5>1 DEF WaitFor, Entry
      <4>2. CASE ~WaitFor
        BY <1>3, <1>t, <4>2 DEF Stop, Join, Start, Exit, WaitEmpty, Wake, Timeout, Tick, Lock,
                                vars, TypeOK
      <4>3. QED BY <4>1, <4>2
    <3>3. now' \in Time /\ fired' \in [Chains -> Time \cup {None}]
      BY <1>3, <1>t, TimeAssumption
         DEF Stop, Join, Start, Exit, WaitEmpty, WaitFor, Wake, Timeout, Tick, Lock, vars,
             TypeOK, Time
    <3>4. running' \in BOOLEAN /\ notified' \in BOOLEAN
      BY <1>3, <1>t
         DEF Stop, Join, Start, Exit, WaitEmpty, WaitFor, Wake, Timeout, Tick, Lock, vars,
             TypeOK, Notify
    <3>5. pc' \in {"start", "locked", "exited"} \cup Waits
          /\ owner' \in {"open", "joining", "destroyed"}
      BY <1>3, <1>t
         DEF Stop, Join, Start, Exit, WaitEmpty, WaitFor, Wake, Timeout, Tick, Lock, vars,
             TypeOK, Waits
    <3>6. QED BY <3>1, <3>2, <3>3, <3>4, <3>5 DEF TypeOK
  <2>3. QED BY <2>1, <2>2, HeapUntouched DEF TimerInv
<1>4. QED BY <1>1, <1>2, <1>3 DEF Next, Run

\* The inductive invariant of the timer heap.
THEOREM TimerInvariant == Spec => []TimerInv
<1>1. Init => TimerInv
  <2>1. ASSUME Init PROVE TypeOK
    <3>1. 0 \in Time
      BY TimeAssumption DEF Time
    <3>2. deadline \in [Chains -> Time \cup {None}] /\ fired \in [Chains -> Time \cup {None}]
          /\ emplaced \in [Chains -> Nat]
      BY <2>1 DEF Init
    <3>3. now \in Time /\ wakeAt \in Time /\ entries \in Seq(Entry)
      BY <2>1, <3>1 DEF Init
    <3>4. running \in BOOLEAN /\ notified \in BOOLEAN /\ owner \in {"open", "joining", "destroyed"}
          /\ pc \in {"start", "locked", "exited"} \cup Waits
      BY <2>1 DEF Init
    <3>5. QED BY <3>2, <3>3, <3>4 DEF TypeOK
  <2>2. ASSUME Init PROVE HeapInv
    <3>1. entries = <<>> /\ Len(entries) = 0 /\ DOMAIN entries = {}
      BY <2>2 DEF Init
    <3>2. IsHeap(entries)
      BY <3>1 DEF IsHeap
    <3>3. QED BY <2>2, <3>1, <3>2 DEF Init, HeapInv
  <2>3. QED BY <2>1, <2>2 DEF TimerInv
<1>2. QED BY <1>1, TimerStep, PTL DEF Spec

\* A chain that was pushed is waiting in exactly one entry or has been emplaced
\* exactly once, whatever pushes, cancels and deadlines race (push, cancel,
\* timerThread).
THEOREM ChainsConserved == Spec => []ChainConserved
<1>1. ASSUME TimerInv PROVE ChainConserved
  <2>1. SUFFICES ASSUME NEW c \in Chains, deadline[c] # None
                 PROVE  Cardinality({i \in DOMAIN entries : entries[i].chain = c}) + emplaced[c] = 1
    BY <1>1 DEF ChainConserved, TimerInv
  <2> DEFINE I == {i \in DOMAIN entries : entries[i].chain = c}
  <2>h. HeapInv
    BY <1>1 DEF TimerInv
  <2>2. CASE c \in Queued
    <3>1. PICK i \in DOMAIN entries : entries[i].chain = c
      BY <2>2 DEF Queued
    <3>2. I = {i}
      BY <2>h, <3>1 DEF HeapInv
    <3>3. emplaced[c] = 0
      BY <2>h, <2>2 DEF HeapInv
    <3> HIDE DEF I
    <3>4. Cardinality(I) = 1
      BY <3>2, FS_Singleton
    <3>5. QED BY <3>3, <3>4 DEF I
  <2>3. CASE c \notin Queued
    <3>1. I = {}
      BY <2>3 DEF Queued
    <3>2. emplaced[c] = 1
      BY <2>h, <2>1, <2>3 DEF HeapInv
    <3> HIDE DEF I
    <3>3. Cardinality(I) = 0
      BY <3>1, FS_EmptySet
    <3>4. QED BY <3>2, <3>3 DEF I
  <2>4. QED BY <2>2, <2>3
<1>2. QED BY <1>1, TimerInvariant, PTL

\* The timer thread fires a chain only at or after its deadline, and only when no
\* waiting entry has an earlier one.
THEOREM EarliestFirst == Spec => FiresEarliest
<1> DEFINE A == \A c \in Chains : fired'[c] # fired[c] =>
                  /\ deadline[c] <= now
                  /\ \A i \in DOMAIN entries : deadline[c] <= entries[i].expiration
<1>1. ASSUME TimerInv, Next PROVE A
  <2>1. SUFFICES ASSUME NEW c \in Chains, fired'[c] # fired[c]
                 PROVE  /\ deadline[c] <= now
                        /\ \A i \in DOMAIN entries : deadline[c] <= entries[i].expiration
    OBVIOUS
  <2>2. Fire
    BY <1>1, <2>1
       DEF Next, Run, Push, Cancel, Stop, Join, Start, Exit, WaitEmpty, WaitFor, Wake, Timeout,
           Tick, Lock
  <2>3. HeapInv /\ TypeOK /\ entries \in Seq(Entry) /\ fired \in [Chains -> Time \cup {None}]
    BY <1>1 DEF TimerInv, TypeOK
  <2>4. c = entries[1].chain /\ entries # <<>> /\ now >= entries[1].expiration
    BY <2>1, <2>2, <2>3 DEF Fire
  <2>5. 1 \in DOMAIN entries /\ DOMAIN entries = 1..Len(entries)
    BY <2>3, <2>4
  <2>6. deadline[c] = entries[1].expiration
    BY <2>3, <2>4, <2>5 DEF HeapInv
  <2>7. \A i \in DOMAIN entries : entries[1].expiration <= entries[i].expiration
    BY <2>3, <2>5, HeapMinimum DEF HeapInv
  <2>8. now \in Nat /\ entries[1].expiration \in Nat
    <3>1. entries[1] \in Entry
      BY <2>3, <2>5
    <3>2. entries[1].expiration \in Time
      BY <3>1 DEF Entry
    <3>3. QED BY <2>3, <3>2, TimeAssumption DEF TypeOK, Time
  <2>9. QED BY <2>4, <2>6, <2>7, <2>8
<1>2. TimerInv /\ [Next]_vars => [A]_vars
  BY <1>1
<1>3. QED BY <1>2, TimerInvariant, PTL DEF Spec, FiresEarliest
=============================================================================
