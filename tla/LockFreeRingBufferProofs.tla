---------------------- MODULE LockFreeRingBufferProofs ----------------------
(***************************************************************************)
(* Proofs that the ring keeps its promises for any number of producers and *)
(* consumers, any size and any number of calls.                            *)
(*                                                                         *)
(* The invariants of the ring are not inductive by themselves.  Bounds     *)
(* says what a thread between two accesses may rely on, Owners that an     *)
(* index has one owner, Contents which slots hold an item.  CallInv adds   *)
(* what a dequeue knows when it is about to return empty-handed or with an *)
(* item.                                                                   *)
(***************************************************************************)
EXTENDS LockFreeRingBuffer, Sequences, SequenceTheorems, TLAPS

Writing == {"write", "publish"}
Reading == {"take", "consume"}

\* What the call of t knows: its loaded counters were true once, and an index
\* it may claim, or owns, is inside the window.
Bounds(t) ==
  /\ pc[t] = "loadWrite" => seen[t] <= consumed
  /\ pc[t] = "casWrite" => cur[t] < consumed + Size
  /\ pc[t] \in Writing => published <= cur[t] /\ cur[t] < writeIndex
  /\ pc[t] = "loadRead" => seen[t] <= published
  /\ pc[t] = "casRead" => cur[t] < published
  /\ pc[t] \in Reading => consumed <= cur[t] /\ cur[t] < readIndex
  /\ pc[t] \in {"loadWrite", "casWrite", "recheckWrite", "write"} =>
       item[t] # Null

\* No two threads own the same index.
Owners ==
  \A t, u \in Threads : t # u =>
    /\ pc[t] \in Writing /\ pc[u] \in Writing => cur[t] # cur[u]
    /\ pc[t] \in Reading /\ pc[u] \in Reading => cur[t] # cur[u]

\* A slot is empty until its owner writes it, holds an item until its owner
\* takes it, and is empty again before it is freed.
Contents ==
  /\ \A i \in writeIndex..(consumed + Size - 1) : buffer[Slot(i)] = Null
  /\ \A i \in readIndex..(published - 1) : buffer[Slot(i)] # Null
  /\ \A t \in Threads :
       /\ pc[t] \in {"write", "consume"} => buffer[Slot(cur[t])] = Null
       /\ pc[t] \in {"publish", "take"} => buffer[Slot(cur[t])] # Null

RingInv == TypeOK /\ IndexOrder /\ (\A t \in Threads : Bounds(t))
           /\ Owners /\ Contents

-----------------------------------------------------------------------------
(* Arithmetic of the slots *)

\* An index has a slot in the buffer (i & mask, line 82 and line 120).
LEMMA SlotType == ASSUME NEW i \in Nat PROVE Slot(i) \in 0..Size-1
BY SizeAssumption DEF Slot

\* Two indices less than a ring apart have different slots.
LEMMA SlotDistinct ==
  ASSUME NEW i \in Nat, NEW j \in Nat, i < j, j < i + Size
  PROVE  Slot(i) # Slot(j)
<1>1. SUFFICES ASSUME i % Size = j % Size PROVE FALSE
  BY DEF Slot
<1> DEFINE p == i \div Size
           q == j \div Size
<1>2. p \in Int /\ q \in Int /\ Size \in Nat /\ Size > 0
  BY SizeAssumption
<1>3. i = Size * p + (i % Size) /\ j = Size * q + (j % Size)
  BY SizeAssumption
<1> HIDE DEF p, q
<1>4. i % Size \in Int /\ j % Size \in Int
  BY <1>2
<1>5. j - i = Size * q - Size * p
  BY <1>1, <1>3, <1>4, <1>2
<1>6. Size * q - Size * p = Size * (q - p)
  BY <1>2
<1>7. CASE q - p <= 0
  BY <1>2, <1>5, <1>6, <1>7
<1>8. CASE q - p >= 1
  BY <1>2, <1>5, <1>6, <1>8
<1>9. QED BY <1>2, <1>7, <1>8

\* An index and the one a ring later share their slot.
LEMMA SlotWraps == ASSUME NEW i \in Nat PROVE Slot(i + Size) = Slot(i)
<1> DEFINE j == i + Size
           p == i \div Size
           q == j \div Size
           r == i % Size
           s == j % Size
<1>1. p \in Int /\ q \in Int /\ Size \in Nat /\ Size > 0 /\ j = i + Size
  BY SizeAssumption
<1>2. i = Size * p + r /\ r \in 0..Size-1
  BY SizeAssumption
<1>3. j \in Nat
  BY SizeAssumption
<1> HIDE DEF j
<1>4. j = Size * q + s /\ s \in 0..Size-1
  BY <1>3, SizeAssumption
<1>5. SUFFICES r = s
  BY DEF Slot, j
<1> HIDE DEF p, q, r, s
<1> DEFINE d == q - p
<1>6. d \in Int /\ Size * d = Size * q - Size * p
  BY <1>1
<1> HIDE DEF d
<1>7. Size * d = Size + r - s /\ -Size < r - s /\ r - s < Size
  BY <1>1, <1>2, <1>4, <1>6
<1>8. CASE d <= 0
  BY <1>1, <1>2, <1>4, <1>6, <1>7, <1>8
<1>9. CASE d >= 2
  <2>1. Size * d >= Size * 2
    BY <1>1, <1>6, <1>9
  <2>2. QED BY <2>1, <1>1, <1>2, <1>4, <1>7
<1>10. CASE d = 1
  BY <1>1, <1>2, <1>4, <1>7, <1>10
<1>11. QED BY <1>6, <1>8, <1>9, <1>10

-----------------------------------------------------------------------------
(* Types *)

\* The ghost variable keeps its type whatever the step does.
LEMMA WitnessType ==
  ASSUME TypeOK, Observe PROVE witness' \in [Threads -> BOOLEAN]
BY DEF TypeOK, Observe

\* Every access of the ring keeps the types.
LEMMA TypeStep == TypeOK /\ [Next]_vars => TypeOK'
<1> SUFFICES ASSUME TypeOK, [Next]_vars PROVE TypeOK'
  OBVIOUS
<1>1. CASE UNCHANGED vars
  BY <1>1 DEF vars, indices, TypeOK
<1>2. ASSUME NEW t \in Threads, Step(t) PROVE TypeOK'
  <2>w. witness' \in [Threads -> BOOLEAN]
    BY <1>2, WitnessType DEF Step
  <2> USE <2>w, SizeAssumption, EnqueuesAssumption
      DEF TypeOK, indices, Goto, Return, EnqueuePcs, DequeuePcs, Item, Null
  <2>1. CASE EnqueueLoadConsumed(t)
    BY <2>1 DEF EnqueueLoadConsumed
  <2>2. CASE EnqueueLoadWrite(t)
    <3>1. CASE DiffAtLeast(writeIndex, seen[t], Size)
      <4>1. Return(t, "full")
        BY <2>2, <3>1 DEF EnqueueLoadWrite
      <4>2. QED BY <2>2, <4>1 DEF EnqueueLoadWrite
    <3>2. CASE ~(DiffAtLeast(writeIndex, seen[t], Size))
      BY <2>2, <3>2 DEF EnqueueLoadWrite
    <3>3. QED BY <3>1, <3>2
  <2>3. CASE EnqueueClaim(t)
    BY <2>3 DEF EnqueueClaim
  <2>4. CASE EnqueueClaimFails(t)
    BY <2>4 DEF EnqueueClaimFails
  <2>5. CASE EnqueueRecheck(t)
    <3>1. CASE DiffAtLeast(cur[t], consumed, Size)
      <4>1. Return(t, "full")
        BY <2>5, <3>1 DEF EnqueueRecheck
      <4>2. QED BY <2>5, <4>1 DEF EnqueueRecheck
    <3>2. CASE ~(DiffAtLeast(cur[t], consumed, Size))
      BY <2>5, <3>2 DEF EnqueueRecheck
    <3>3. QED BY <3>1, <3>2
  <2>6. CASE EnqueueWrite(t)
    BY <2>6 DEF EnqueueWrite
  <2>7. CASE EnqueuePublish(t)
    BY <2>7 DEF EnqueuePublish
  <2>8. CASE DequeueLoadPublished(t)
    BY <2>8 DEF DequeueLoadPublished
  <2>9. CASE DequeueLoadRead(t)
    <3>1. CASE seen[t] <= readIndex
      <4>1. Return(t, "empty")
        BY <2>9, <3>1 DEF DequeueLoadRead
      <4>2. QED BY <2>9, <4>1 DEF DequeueLoadRead
    <3>2. CASE ~(seen[t] <= readIndex)
      BY <2>9, <3>2 DEF DequeueLoadRead
    <3>3. QED BY <3>1, <3>2
  <2>10. CASE DequeueClaim(t)
    BY <2>10 DEF DequeueClaim
  <2>11. CASE DequeueClaimFails(t)
    BY <2>11 DEF DequeueClaimFails
  <2>12. CASE DequeueRecheck(t)
    <3>1. CASE published <= cur[t]
      <4>1. Return(t, "empty")
        BY <2>12, <3>1 DEF DequeueRecheck
      <4>2. QED BY <2>12, <4>1 DEF DequeueRecheck
    <3>2. CASE ~(published <= cur[t])
      BY <2>12, <3>2 DEF DequeueRecheck
    <3>3. QED BY <3>1, <3>2
  <2>13. CASE DequeueTake(t)
    BY <2>13, SlotType DEF DequeueTake
  <2>14. CASE DequeueConsume(t)
    BY <2>14 DEF DequeueConsume
  <2>15. QED
    BY <1>2, <2>1, <2>2, <2>3, <2>4, <2>5, <2>6, <2>7, <2>8, <2>9, <2>10,
       <2>11, <2>12, <2>13, <2>14
       DEF Step, Enqueue, Dequeue
<1>3. QED
  BY <1>1, <1>2 DEF Next

\* The variables of the ring keep their types for every number of threads,
\* every size and every number of calls.
THEOREM TypeCorrect == Spec => []TypeOK
<1>1. Init => TypeOK
  BY SizeAssumption, EnqueuesAssumption
     DEF Init, TypeOK, Item, Null
<1>2. QED
  BY <1>1, TypeStep, PTL DEF Spec

-----------------------------------------------------------------------------
(* The inductive invariant *)

\* Two indices in the window of Size indices from c on have different slots.
LEMMA WindowDistinct ==
  ASSUME NEW c \in Nat, NEW i \in c..(c + Size - 1), NEW j \in c..(c + Size - 1),
         i # j
  PROVE  Slot(i) # Slot(j)
<1>1. i \in Nat /\ j \in Nat /\ Size \in Nat
  BY SizeAssumption
<1>2. CASE i < j
  BY <1>1, <1>2, SlotDistinct
<1>3. CASE j < i
  BY <1>1, <1>3, SlotDistinct
<1>4. QED BY <1>1, <1>2, <1>3

\* The owner of an index owns a slot of the window, and no other owner's index
\* has the same slot.
LEMMA OwnersApart ==
  ASSUME RingInv, NEW t \in Threads, pc[t] \in Writing \cup Reading
  PROVE  /\ cur[t] \in consumed..(consumed + Size - 1)
         /\ \A u \in Threads : u # t /\ pc[u] \in Writing \cup Reading =>
              Slot(cur[u]) # Slot(cur[t])
<1> USE SizeAssumption DEF RingInv, TypeOK, Bounds, IndexOrder, Writing, Reading
<1>1. ASSUME NEW u \in Threads, pc[u] \in Writing \cup Reading
      PROVE  cur[u] \in consumed..(consumed + Size - 1)
  BY <1>1
<1>2. ASSUME NEW u \in Threads, u # t, pc[u] \in Writing \cup Reading
      PROVE  cur[u] # cur[t]
  BY <1>2 DEF Owners
<1>3. consumed \in Nat
  OBVIOUS
<1>4. QED BY ONLY <1>1, <1>2, <1>3, WindowDistinct, t \in Threads,
             pc[t] \in Writing \cup Reading

\* A thread that stores x into the slot of its index changes no slot of another
\* index of the window.
LEMMA StoreLocal ==
  ASSUME RingInv, NEW t \in Threads, pc[t] \in Writing \cup Reading, NEW x,
         buffer' = [buffer EXCEPT ![Slot(cur[t])] = x]
  PROVE  /\ buffer'[Slot(cur[t])] = x
         /\ \A i \in consumed..(consumed + Size - 1) :
              i # cur[t] => buffer'[Slot(i)] = buffer[Slot(i)]
         /\ \A u \in Threads : u # t /\ pc[u] \in Writing \cup Reading =>
              buffer'[Slot(cur[u])] = buffer[Slot(cur[u])]
<1>1. consumed \in Nat /\ cur \in [Threads -> Nat] /\ DOMAIN buffer = 0..Size-1
  BY DEF RingInv, TypeOK
<1>2. cur[t] \in consumed..(consumed + Size - 1)
  BY OwnersApart
<1>3. Slot(cur[t]) \in DOMAIN buffer
  BY <1>1, SlotType
<1>4. ASSUME NEW i \in consumed..(consumed + Size - 1), i # cur[t]
      PROVE  buffer'[Slot(i)] = buffer[Slot(i)]
  <2>1. Slot(i) # Slot(cur[t])
    BY <1>1, <1>2, <1>4, WindowDistinct
  <2>2. i \in Nat
    BY <1>1, SizeAssumption
  <2>3. Slot(i) \in DOMAIN buffer
    BY <1>1, <2>2, SlotType
  <2>4. QED BY <2>1, <2>3
<1>5. ASSUME NEW u \in Threads, u # t, pc[u] \in Writing \cup Reading
      PROVE  buffer'[Slot(cur[u])] = buffer[Slot(cur[u])]
  <2>1. Slot(cur[u]) # Slot(cur[t])
    BY <1>5, OwnersApart
  <2>2. Slot(cur[u]) \in DOMAIN buffer
    BY <1>1, SlotType
  <2>3. QED BY <2>1, <2>2
<1>6. QED BY <1>3, <1>4, <1>5

\* Every access of the ring preserves the invariant.
LEMMA RingInvStep == RingInv /\ [Next]_vars => RingInv'
<1> SUFFICES ASSUME RingInv, [Next]_vars PROVE RingInv'
  OBVIOUS
<1>t. TypeOK'
  BY TypeStep DEF RingInv
<1>1. CASE UNCHANGED vars
  BY <1>1, <1>t DEF RingInv, vars, indices, IndexOrder, Bounds, Owners, Contents
<1>2. ASSUME NEW t \in Threads, Step(t) PROVE RingInv'
  <2> USE <1>t, SizeAssumption
      DEF RingInv, TypeOK, indices, Goto, Return, EnqueuePcs, DequeuePcs, Null,
          Writing, Reading, DiffAtLeast
  <2>1. CASE EnqueueLoadConsumed(t)
    <3> USE <2>1 DEF EnqueueLoadConsumed
    <3>1. IndexOrder'
      BY DEF IndexOrder, Bounds
    <3>2. ASSUME NEW u \in Threads PROVE Bounds(u)'
      BY DEF IndexOrder, Bounds, Owners
    <3>3. Owners'
      BY DEF Owners, Bounds
    <3>4. Contents'
      BY DEF Contents, Bounds, IndexOrder
    <3>5. QED BY <3>1, <3>2, <3>3, <3>4
  <2>2. CASE EnqueueLoadWrite(t)
    <3> USE <2>2 DEF EnqueueLoadWrite
    <3>1. IndexOrder'
      BY DEF IndexOrder, Bounds
    <3>2. ASSUME NEW u \in Threads PROVE Bounds(u)'
      BY DEF IndexOrder, Bounds, Owners
    <3>3. Owners' /\ Contents'
      <4>1. CASE DiffAtLeast(writeIndex, seen[t], Size)
        <5>1. Return(t, "full")
          BY <4>1
        <5>2. QED BY <5>1 DEF Owners, Contents
      <4>2. CASE ~(DiffAtLeast(writeIndex, seen[t], Size))
        <5>1. Owners'
          <6>1. /\ pc' = [pc EXCEPT ![t] = "casWrite"]
                /\ cur' = [cur EXCEPT ![t] = writeIndex]
            BY <4>2
          <6>2. ASSUME NEW v \in Threads, pc'[v] \in Writing \cup Reading
                PROVE  pc[v] = pc'[v] /\ cur[v] = cur'[v]
            BY <6>1, <6>2
          <6>3. QED BY <6>2 DEF Owners
        <5>2. Contents'
          BY <4>2 DEF Contents
        <5>3. QED BY <5>1, <5>2
      <4>3. QED BY <4>1, <4>2
    <3>4. QED BY <3>1, <3>2, <3>3
  <2>3. CASE EnqueueClaim(t)
    <3> USE <2>3 DEF EnqueueClaim
    <3>1. IndexOrder'
      BY DEF IndexOrder, Bounds
    <3>2. ASSUME NEW u \in Threads PROVE Bounds(u)'
      BY DEF IndexOrder, Bounds, Owners
    <3>3. Owners'
      BY DEF Owners, Bounds
    <3>4. Contents'
      BY DEF Contents, Bounds, IndexOrder
    <3>5. QED BY <3>1, <3>2, <3>3, <3>4
  <2>4. CASE EnqueueClaimFails(t)
    <3> USE <2>4 DEF EnqueueClaimFails
    <3>1. IndexOrder'
      BY DEF IndexOrder, Bounds
    <3>2. ASSUME NEW u \in Threads PROVE Bounds(u)'
      BY DEF IndexOrder, Bounds, Owners
    <3>3. Owners'
      BY DEF Owners, Bounds
    <3>4. Contents'
      BY DEF Contents, Bounds, IndexOrder
    <3>5. QED BY <3>1, <3>2, <3>3, <3>4
  <2>5. CASE EnqueueRecheck(t)
    <3> USE <2>5 DEF EnqueueRecheck
    <3>1. IndexOrder'
      BY DEF IndexOrder, Bounds
    <3>2. ASSUME NEW u \in Threads PROVE Bounds(u)'
      BY DEF IndexOrder, Bounds, Owners
    <3>3. Owners' /\ Contents'
      <4>1. CASE DiffAtLeast(cur[t], consumed, Size)
        <5>1. Return(t, "full")
          BY <4>1
        <5>2. QED BY <5>1 DEF Owners, Contents
      <4>2. CASE ~(DiffAtLeast(cur[t], consumed, Size))
        <5>1. Owners'
          BY <4>2 DEF Owners
        <5>2. Contents'
          BY <4>2 DEF Contents
        <5>3. QED BY <5>1, <5>2
      <4>3. QED BY <4>1, <4>2
    <3>4. QED BY <3>1, <3>2, <3>3
  <2>6. CASE EnqueueWrite(t)
    <3> USE <2>6 DEF EnqueueWrite
    <3>1. IndexOrder'
      BY DEF IndexOrder, Bounds
    <3>2. ASSUME NEW u \in Threads PROVE Bounds(u)'
      BY DEF IndexOrder, Bounds, Owners
    <3>3. Owners'
      BY DEF Owners, Bounds
    <3>4. Contents'
      <4>1. /\ buffer'[Slot(cur[t])] = item[t]
            /\ \A i \in consumed..(consumed + Size - 1) :
                 i # cur[t] => buffer'[Slot(i)] = buffer[Slot(i)]
            /\ \A u \in Threads : u # t /\ pc[u] \in Writing \cup Reading =>
                 buffer'[Slot(cur[u])] = buffer[Slot(cur[u])]
        BY StoreLocal
      <4>2. ASSUME NEW i \in writeIndex..(consumed + Size - 1)
            PROVE  buffer'[Slot(i)] = Null
        <5>1. i \in consumed..(consumed + Size - 1) /\ i # cur[t]
          BY DEF Bounds, IndexOrder
        <5>2. QED BY <4>1, <5>1 DEF Contents
      <4>3. ASSUME NEW i \in readIndex..(published - 1)
            PROVE  buffer'[Slot(i)] # Null
        <5>1. i \in consumed..(consumed + Size - 1) /\ i # cur[t]
          BY DEF Bounds, IndexOrder
        <5>2. QED BY <4>1, <5>1 DEF Contents
      <4>4. ASSUME NEW u \in Threads
            PROVE  /\ pc'[u] \in {"write", "consume"} => buffer'[Slot(cur[u])] = Null
                   /\ pc'[u] \in {"publish", "take"} => buffer'[Slot(cur[u])] # Null
        BY <4>1 DEF Contents, Bounds
      <4>5. QED BY <4>2, <4>3, <4>4 DEF Contents
    <3>5. QED BY <3>1, <3>2, <3>3, <3>4
  <2>7. CASE EnqueuePublish(t)
    <3> USE <2>7 DEF EnqueuePublish
    <3>1. IndexOrder'
      BY DEF IndexOrder, Bounds
    <3>2. ASSUME NEW u \in Threads PROVE Bounds(u)'
      BY DEF IndexOrder, Bounds, Owners
    <3>3. Owners'
      BY DEF Owners, Bounds
    <3>4. Contents'
      BY DEF Contents, Bounds, IndexOrder
    <3>5. QED BY <3>1, <3>2, <3>3, <3>4
  <2>8. CASE DequeueLoadPublished(t)
    <3> USE <2>8 DEF DequeueLoadPublished
    <3>1. IndexOrder'
      BY DEF IndexOrder, Bounds
    <3>2. ASSUME NEW u \in Threads PROVE Bounds(u)'
      BY DEF IndexOrder, Bounds, Owners
    <3>3. Owners'
      BY DEF Owners, Bounds
    <3>4. Contents'
      BY DEF Contents, Bounds, IndexOrder
    <3>5. QED BY <3>1, <3>2, <3>3, <3>4
  <2>9. CASE DequeueLoadRead(t)
    <3> USE <2>9 DEF DequeueLoadRead
    <3>1. IndexOrder'
      BY DEF IndexOrder, Bounds
    <3>2. ASSUME NEW u \in Threads PROVE Bounds(u)'
      BY DEF IndexOrder, Bounds, Owners
    <3>3. Owners' /\ Contents'
      <4>1. CASE seen[t] <= readIndex
        <5>1. Return(t, "empty")
          BY <4>1
        <5>2. QED BY <5>1 DEF Owners, Contents
      <4>2. CASE ~(seen[t] <= readIndex)
        <5>1. Owners'
          <6>1. /\ pc' = [pc EXCEPT ![t] = "casRead"]
                /\ cur' = [cur EXCEPT ![t] = readIndex]
            BY <4>2
          <6>2. ASSUME NEW v \in Threads, pc'[v] \in Writing \cup Reading
                PROVE  pc[v] = pc'[v] /\ cur[v] = cur'[v]
            BY <6>1, <6>2
          <6>3. QED BY <6>2 DEF Owners
        <5>2. Contents'
          BY <4>2 DEF Contents
        <5>3. QED BY <5>1, <5>2
      <4>3. QED BY <4>1, <4>2
    <3>4. QED BY <3>1, <3>2, <3>3
  <2>10. CASE DequeueClaim(t)
    <3> USE <2>10 DEF DequeueClaim
    <3>1. IndexOrder'
      BY DEF IndexOrder, Bounds
    <3>2. ASSUME NEW u \in Threads PROVE Bounds(u)'
      BY DEF IndexOrder, Bounds, Owners
    <3>3. Owners'
      BY DEF Owners, Bounds
    <3>4. Contents'
      BY DEF Contents, Bounds, IndexOrder
    <3>5. QED BY <3>1, <3>2, <3>3, <3>4
  <2>11. CASE DequeueClaimFails(t)
    <3> USE <2>11 DEF DequeueClaimFails
    <3>1. IndexOrder'
      BY DEF IndexOrder, Bounds
    <3>2. ASSUME NEW u \in Threads PROVE Bounds(u)'
      BY DEF IndexOrder, Bounds, Owners
    <3>3. Owners'
      BY DEF Owners, Bounds
    <3>4. Contents'
      BY DEF Contents, Bounds, IndexOrder
    <3>5. QED BY <3>1, <3>2, <3>3, <3>4
  <2>12. CASE DequeueRecheck(t)
    <3> USE <2>12 DEF DequeueRecheck
    <3>1. IndexOrder'
      BY DEF IndexOrder, Bounds
    <3>2. ASSUME NEW u \in Threads PROVE Bounds(u)'
      BY DEF IndexOrder, Bounds, Owners
    <3>3. Owners' /\ Contents'
      <4>1. CASE published <= cur[t]
        <5>1. Return(t, "empty")
          BY <4>1
        <5>2. QED BY <5>1 DEF Owners, Contents
      <4>2. CASE ~(published <= cur[t])
        <5>1. Owners'
          BY <4>2 DEF Owners
        <5>2. Contents'
          BY <4>2 DEF Contents
        <5>3. QED BY <5>1, <5>2
      <4>3. QED BY <4>1, <4>2
    <3>4. QED BY <3>1, <3>2, <3>3
  <2>13. CASE DequeueTake(t)
    <3> USE <2>13 DEF DequeueTake
    <3>1. IndexOrder'
      BY DEF IndexOrder, Bounds
    <3>2. ASSUME NEW u \in Threads PROVE Bounds(u)'
      BY DEF IndexOrder, Bounds, Owners
    <3>3. Owners'
      BY DEF Owners, Bounds
    <3>4. Contents'
      <4>1. /\ buffer'[Slot(cur[t])] = Null
            /\ \A i \in consumed..(consumed + Size - 1) :
                 i # cur[t] => buffer'[Slot(i)] = buffer[Slot(i)]
            /\ \A u \in Threads : u # t /\ pc[u] \in Writing \cup Reading =>
                 buffer'[Slot(cur[u])] = buffer[Slot(cur[u])]
        BY StoreLocal
      <4>2. ASSUME NEW i \in writeIndex..(consumed + Size - 1)
            PROVE  buffer'[Slot(i)] = Null
        <5>1. i \in consumed..(consumed + Size - 1) /\ i # cur[t]
          BY DEF Bounds, IndexOrder
        <5>2. QED BY <4>1, <5>1 DEF Contents
      <4>3. ASSUME NEW i \in readIndex..(published - 1)
            PROVE  buffer'[Slot(i)] # Null
        <5>1. i \in consumed..(consumed + Size - 1) /\ i # cur[t]
          BY DEF Bounds, IndexOrder
        <5>2. QED BY <4>1, <5>1 DEF Contents
      <4>4. ASSUME NEW u \in Threads
            PROVE  /\ pc'[u] \in {"write", "consume"} => buffer'[Slot(cur[u])] = Null
                   /\ pc'[u] \in {"publish", "take"} => buffer'[Slot(cur[u])] # Null
        BY <4>1 DEF Contents, Bounds
      <4>5. QED BY <4>2, <4>3, <4>4 DEF Contents
    <3>5. QED BY <3>1, <3>2, <3>3, <3>4
  <2>14. CASE DequeueConsume(t)
    <3> USE <2>14 DEF DequeueConsume
    <3>1. IndexOrder'
      BY DEF IndexOrder, Bounds
    <3>2. ASSUME NEW u \in Threads PROVE Bounds(u)'
      BY DEF IndexOrder, Bounds, Owners
    <3>3. Owners'
      BY DEF Owners, Bounds
    <3>4. Contents'
      <4>1. consumed \in Nat /\ Slot(consumed + Size) = Slot(consumed)
        BY SlotWraps
      <4>2. consumed = cur[t] /\ buffer[Slot(consumed)] = Null
        BY DEF Contents
      <4>3. ASSUME NEW i \in writeIndex..(consumed + 1 + Size - 1)
            PROVE  buffer[Slot(i)] = Null
        <5>1. CASE i = consumed + Size
          BY <4>1, <4>2, <5>1
        <5>2. CASE i # consumed + Size
          BY <5>2 DEF Contents
        <5>3. QED BY <5>1, <5>2
      <4>4. ASSUME NEW i \in readIndex..(published - 1)
            PROVE  buffer[Slot(i)] # Null
        BY DEF Contents
      <4>5. ASSUME NEW u \in Threads
            PROVE  /\ pc'[u] \in {"write", "consume"} => buffer[Slot(cur'[u])] = Null
                   /\ pc'[u] \in {"publish", "take"} => buffer[Slot(cur'[u])] # Null
        BY DEF Contents
      <4>6. QED BY <4>3, <4>4, <4>5 DEF Contents
    <3>5. QED BY <3>1, <3>2, <3>3, <3>4
  <2>15. QED
    BY <1>2, <2>1, <2>2, <2>3, <2>4, <2>5, <2>6, <2>7, <2>8, <2>9, <2>10,
       <2>11, <2>12, <2>13, <2>14
       DEF Step, Enqueue, Dequeue
<1>3. QED
  BY <1>1, <1>2 DEF Next

\* The invariant holds in every reachable state.
LEMMA RingInvariant == Spec => []RingInv
<1>1. Init => RingInv
  <2> SUFFICES ASSUME Init PROVE RingInv
    OBVIOUS
  <2>1. TypeOK
    BY SizeAssumption, EnqueuesAssumption DEF Init, TypeOK, Item, Null
  <2>2. IndexOrder /\ (\A t \in Threads : Bounds(t)) /\ Owners
    BY SizeAssumption DEF Init, IndexOrder, Bounds, Owners, Writing, Reading
  <2>3. Contents
    <3>1. ASSUME NEW i \in 0..Size-1 PROVE buffer[Slot(i)] = Null
      <4>1. Slot(i) \in 0..Size-1
        BY SlotType, SizeAssumption
      <4>2. QED BY <4>1 DEF Init
    <3>2. QED BY <3>1, SizeAssumption DEF Init, Contents
  <2>4. QED BY <2>1, <2>2, <2>3 DEF RingInv
<1>2. QED
  BY <1>1, RingInvStep, PTL DEF Spec

\* The four counters never cross and never run more than a ring apart, for any
\* number of threads and any ring size: what the comments at lines 65-68 and
\* 103-106 rely on.
THEOREM CountersOrdered == Spec => []IndexOrder
<1>1. RingInv => IndexOrder
  BY DEF RingInv
<1>2. QED BY <1>1, RingInvariant, PTL

\* No two threads ever touch the same slot at once (line 67, line 105).
THEOREM SlotsExclusive == Spec => []NoSlotRace
<1>1. RingInv => NoSlotRace
  <2> SUFFICES ASSUME RingInv, NEW t \in Touching, NEW u \in Touching, t # u
               PROVE  Slot(cur[t]) # Slot(cur[u])
    BY DEF NoSlotRace
  <2>1. t \in Threads /\ pc[t] \in Writing \cup Reading
    BY DEF Touching, Writing, Reading
  <2>2. u \in Threads /\ pc[u] \in Writing \cup Reading
    BY DEF Touching, Writing, Reading
  <2>3. QED BY <2>1, <2>2, OwnersApart
<1>2. QED BY <1>1, RingInvariant, PTL

\* No enqueue overwrites an item and no dequeue takes an empty slot (lines 66
\* and 104).
THEOREM SlotsReady == Spec => []SlotReady
<1>1. RingInv => SlotReady
  <2> SUFFICES ASSUME RingInv, NEW t \in Threads, pc[t] \in {"write", "take"}
               PROVE  (buffer[Slot(cur[t])] = Null) <=> (pc[t] = "write")
    BY DEF SlotReady, Touching
  <2>1. /\ pc[t] \in {"write", "consume"} => buffer[Slot(cur[t])] = Null
        /\ pc[t] \in {"publish", "take"} => buffer[Slot(cur[t])] # Null
    BY DEF RingInv, Contents
  <2>2. CASE pc[t] = "write"
    BY ONLY <2>1, <2>2
  <2>3. CASE pc[t] = "take"
    BY ONLY <2>1, <2>3
  <2>4. QED BY <2>2, <2>3
<1>2. QED BY <1>1, RingInvariant, PTL

-----------------------------------------------------------------------------
(* Empty-handed dequeues *)

\* The threads whose dequeue may return nothing.
Excused == {t \in Threads : witness[t]}

\* A dequeue that is not excused has loaded a published counter ahead of
\* readIndex, and one that goes to look again has loaded the current readIndex;
\* an item in the hands of a dequeue is one.
CallInv(t) ==
  /\ result[t] = "empty" => pc[t] = "idle" /\ t \in Excused
  /\ pc[t] = "loadRead" => t \in Excused \/ readIndex < seen[t]
  /\ pc[t] = "recheckRead" => t \in Excused \/ cur[t] = readIndex
  /\ pc[t] \in DequeuePcs => t \in Consumers
  /\ pc[t] = "consume" => item[t] # Null

\* What Observe records.
LEMMA Excuse ==
  ASSUME TypeOK, Observe, NEW u \in Threads
  PROVE  /\ u \in Excused /\ (pc[u] # "idle" \/ pc'[u] = "idle") => u \in Excused'
         /\ (pc[u] \in DequeuePcs \/ pc'[u] \in DequeuePcs) /\ Empty' => u \in Excused'
         /\ pc[u] \in DequeuePcs /\ readIndex' # readIndex => u \in Excused'
<1>1. witness' = [t \in Threads |->
        IF pc'[t] = "idle" /\ pc[t] = "idle" THEN witness[t]
        ELSE \/ pc[t] # "idle" /\ witness[t]
             \/ (pc[t] \in DequeuePcs \/ pc'[t] \in DequeuePcs) /\ Empty'
             \/ pc[t] \in DequeuePcs /\ readIndex' # readIndex]
  BY DEF Observe
<1>2. witness'[u] = (IF pc'[u] = "idle" /\ pc[u] = "idle" THEN witness[u]
                    ELSE \/ pc[u] # "idle" /\ witness[u]
                         \/ (pc[u] \in DequeuePcs \/ pc'[u] \in DequeuePcs) /\ Empty'
                         \/ pc[u] \in DequeuePcs /\ readIndex' # readIndex)
  BY <1>1
<1>3. (u \in Excused <=> witness[u]) /\ (u \in Excused' <=> witness'[u])
  BY DEF Excused
<1>4. pc[u] \in DequeuePcs => pc[u] # "idle"
  BY DEF DequeuePcs
<1>5. pc'[u] \in DequeuePcs => pc'[u] # "idle"
  BY DEF DequeuePcs
<1> HIDE DEF Empty, Excused, DequeuePcs
<1>6. QED BY <1>2, <1>3, <1>4, <1>5

\* A step of t does not disturb the call of another thread.
LEMMA OtherCall ==
  ASSUME TypeOK, Observe, NEW u \in Threads, CallInv(u), readIndex' \in Nat,
         pc'[u] = pc[u], cur'[u] = cur[u], seen'[u] = seen[u], item'[u] = item[u],
         result'[u] = result[u]
  PROVE  CallInv(u)'
<1>1. /\ u \in Excused => u \in Excused'
      /\ pc[u] \in DequeuePcs /\ readIndex' # readIndex => u \in Excused'
  BY Excuse
<1>2. readIndex \in Nat /\ seen[u] \in Nat
  BY DEF TypeOK
<1>3. CASE readIndex' = readIndex
  BY <1>1, <1>3 DEF CallInv
<1>4. CASE readIndex' # readIndex
  BY <1>1, <1>4 DEF CallInv, DequeuePcs
<1>5. QED BY <1>3, <1>4

\* Every access keeps what the calls know.
LEMMA CallStep ==
  ASSUME RingInv, \A u \in Threads : CallInv(u), [Next]_vars
  PROVE  \A u \in Threads : CallInv(u)'
<1>1. CASE UNCHANGED vars
  BY <1>1 DEF vars, indices, CallInv, Excused
<1>2. ASSUME NEW t \in Threads, Step(t) PROVE \A u \in Threads : CallInv(u)'
  <2>t. TypeOK /\ TypeOK' /\ Observe /\ IndexOrder /\ Bounds(t) /\ CallInv(t) /\ Contents
    BY <1>2, TypeStep DEF RingInv, Step
  <2>e. /\ t \in Excused /\ (pc[t] # "idle" \/ pc'[t] = "idle") => t \in Excused'
        /\ (pc[t] \in DequeuePcs \/ pc'[t] \in DequeuePcs) /\ Empty' => t \in Excused'
        /\ pc[t] \in DequeuePcs /\ readIndex' # readIndex => t \in Excused'
    BY <2>t, Excuse
  <2>o. ASSUME NEW u \in Threads, u # t PROVE CallInv(u)'
    <3>1. /\ pc'[u] = pc[u] /\ cur'[u] = cur[u] /\ seen'[u] = seen[u] /\ item'[u] = item[u]
          /\ result'[u] = result[u]
      BY <1>2, <2>o, <2>t
         DEF Step, Enqueue, Dequeue, TypeOK, Goto, Return, EnqueueLoadConsumed,
             EnqueueLoadWrite, EnqueueClaim, EnqueueClaimFails, EnqueueRecheck,
             EnqueueWrite, EnqueuePublish, DequeueLoadPublished, DequeueLoadRead,
             DequeueClaim, DequeueClaimFails, DequeueRecheck, DequeueTake, DequeueConsume
    <3>2. readIndex' \in Nat
      BY <2>t DEF TypeOK
    <3>3. QED BY <2>t, <3>1, <3>2, OtherCall
  <2>s. CallInv(t)'
    <3> USE DEF TypeOK, Goto, Return, CallInv, DequeuePcs
    <3>1. CASE EnqueueLoadConsumed(t)
      BY <2>t, <3>1 DEF EnqueueLoadConsumed
    <3>2. CASE EnqueueLoadWrite(t)
      BY <2>t, <3>2 DEF EnqueueLoadWrite
    <3>3. CASE EnqueueClaim(t) \/ EnqueueClaimFails(t) \/ EnqueueWrite(t)
      BY <2>t, <3>3 DEF EnqueueClaim, EnqueueClaimFails, EnqueueWrite
    <3>4. CASE EnqueueRecheck(t)
      BY <2>t, <3>4 DEF EnqueueRecheck
    <3>5. CASE EnqueuePublish(t)
      BY <2>t, <3>5 DEF EnqueuePublish
    <3>6. CASE DequeueLoadPublished(t)
      BY <2>t, <2>e, <3>6 DEF DequeueLoadPublished, Empty, indices
    <3>7. CASE DequeueLoadRead(t)
      BY <2>t, <2>e, <3>7 DEF DequeueLoadRead
    <3>8. CASE DequeueClaim(t)
      BY <2>t, <2>e, <3>8 DEF DequeueClaim
    <3>9. CASE DequeueClaimFails(t)
      BY <2>t, <2>e, <3>9 DEF DequeueClaimFails, indices
    <3>10. CASE DequeueRecheck(t)
      BY <2>t, <2>e, <3>10 DEF DequeueRecheck, indices, Empty
    <3>11. CASE DequeueTake(t)
      BY <2>t, <2>e, <3>11 DEF DequeueTake, Contents
    <3>12. CASE DequeueConsume(t)
      BY <2>t, <2>e, <3>12 DEF DequeueConsume
    <3>13. QED
      BY <1>2, <3>1, <3>2, <3>3, <3>4, <3>5, <3>6, <3>7, <3>8, <3>9, <3>10, <3>11, <3>12
         DEF Step, Enqueue, Dequeue
  <2>1. QED BY <2>o, <2>s
<1>3. QED BY <1>1, <1>2 DEF Next

\* What every thread knows of its own call.
CallsInv == \A u \in Threads : CallInv(u)

\* It holds in every reachable state.
LEMMA CallInvariant == Spec => []CallsInv
<1>1. Init => CallsInv
  BY DEF Init, CallsInv, CallInv, DequeuePcs
<1>2. RingInv /\ CallsInv /\ [Next]_vars => CallsInv'
  BY CallStep DEF CallsInv
<1>3. QED BY <1>1, <1>2, RingInvariant, PTL DEF Spec

\* A dequeue that returns nothing is right: at some moment of the call no item
\* was waiting, or another consumer claimed one during it (line 95).
THEOREM RefusalsExcused == Spec => []EmptyWhenRefused
<1>1. CallsInv => EmptyWhenRefused
  BY DEF CallsInv, CallInv, EmptyWhenRefused, Excused
<1>2. QED BY <1>1, CallInvariant, PTL

-----------------------------------------------------------------------------
(* The ring implements a FIFO *)

\* A function from 1..n is a sequence; one more element appends it.
LEMMA SeqAppend ==
  ASSUME NEW S, NEW n \in Nat, NEW f \in [1..n -> S], NEW g \in [1..(n + 1) -> S],
         \A i \in 1..n : g[i] = f[i]
  PROVE  Len(f) = n /\ g = Append(f, g[n + 1])
<1>1. f \in Seq(S) /\ g \in Seq(S) /\ Len(f) = n /\ Len(g) = n + 1
  OBVIOUS
<1>2. Append(f, g[n + 1]) \in Seq(S) /\ Len(Append(f, g[n + 1])) = n + 1
  BY <1>1
<1>3. \A i \in 1..n + 1 : Append(f, g[n + 1])[i] = g[i]
  BY <1>1
<1>4. QED BY <1>1, <1>2, <1>3, SeqEqual

\* One element less at the front is the tail.
LEMMA SeqTail ==
  ASSUME NEW S, NEW n \in Nat, NEW f \in [1..(n + 1) -> S], NEW g \in [1..n -> S],
         \A i \in 1..n : g[i] = f[i + 1]
  PROVE  f # << >> /\ Head(f) = f[1] /\ g = Tail(f)
<1>1. f \in Seq(S) /\ g \in Seq(S) /\ Len(f) = n + 1 /\ Len(g) = n
  OBVIOUS
<1>2. f # << >> /\ Head(f) = f[1] /\ Tail(f) \in Seq(S) /\ Len(Tail(f)) = n
  BY <1>1
<1>3. \A i \in 1..n : Tail(f)[i] = g[i]
  BY <1>1
<1>4. QED BY <1>1, <1>2, <1>3, SeqEqual

\* What the FIFO sees of a state.
Queue == [i \in 1..(published - readIndex) |-> buffer[Slot(readIndex + i - 1)]]

HeldBy(t) == CASE pc[t] = "take" -> buffer[Slot(cur[t])]
               [] pc[t] = "consume" -> item[t]
               [] OTHER -> Null

Held == [t \in Consumers |-> HeldBy(t)]

\* An empty ring with no call in progress is an empty FIFO.
LEMMA FifoInit == ASSUME Queue = << >>, Held = [t \in Consumers |-> Null] PROVE Fifo!Init
BY DEF Fifo!Init, Queue, Held, HeldBy

\* A step that changes neither is not seen by the FIFO.
LEMMA FifoSame == ASSUME Queue' = Queue, Held' = Held PROVE UNCHANGED Fifo!vars
BY DEF Fifo!vars, Queue, Held, HeldBy

\* An item joins the queue.
LEMMA FifoPut ==
  ASSUME NEW v \in Item, Len(Queue) < Size, Queue' = Append(Queue, v), Held' = Held
  PROVE  Fifo!Next
BY DEF Fifo!Next, Fifo!Put, Queue, Held, HeldBy

\* A consumer takes the head of the queue.
LEMMA FifoTake ==
  ASSUME NEW t \in Consumers, Queue # << >>, Held[t] = Null,
         Held' = [Held EXCEPT ![t] = Head(Queue)], Queue' = Tail(Queue)
  PROVE  Fifo!Next
BY DEF Fifo!Next, Fifo!Take, Queue, Held, HeldBy

\* A consumer returns with the item it took.
LEMMA FifoReturn ==
  ASSUME NEW t \in Consumers, Held[t] # Null, Held' = [Held EXCEPT ![t] = Null],
         Queue' = Queue
  PROVE  Fifo!Next
BY DEF Fifo!Next, Fifo!Return, Queue, Held, HeldBy

\* The queue is a sequence of items.
LEMMA QueueType ==
  ASSUME RingInv
  PROVE  /\ published - readIndex \in Nat
         /\ Queue \in [1..(published - readIndex) -> Item]
<1>1. published \in Nat /\ readIndex \in Nat /\ readIndex <= published
      /\ buffer \in [0..Size-1 -> Item \cup {Null}]
  BY DEF RingInv, TypeOK, IndexOrder
<1>2. ASSUME NEW i \in 1..(published - readIndex) PROVE buffer[Slot(readIndex + i - 1)] \in Item
  <2>1. readIndex + i - 1 \in Nat /\ readIndex + i - 1 \in readIndex..(published - 1)
    BY <1>1
  <2>2. buffer[Slot(readIndex + i - 1)] # Null
    BY <2>1 DEF RingInv, Contents
  <2>3. QED BY <1>1, <2>1, <2>2, SlotType
<1>3. published - readIndex \in Nat
  BY <1>1
<1>4. Queue \in [1..(published - readIndex) -> Item]
  BY <1>2 DEF Queue
<1>5. QED BY <1>3, <1>4

\* A call that is not at the point of handing over an item is not seen by the
\* FIFO when it leaves the counters of the readers and the slots alone.
LEMMA FifoSilent ==
  ASSUME TypeOK, NEW t \in Threads, pc[t] \notin Reading, pc'[t] \notin Reading,
         \A u \in Threads \ {t} : pc'[u] = pc[u] /\ cur'[u] = cur[u] /\ item'[u] = item[u],
         readIndex' = readIndex, published' = published, buffer' = buffer
  PROVE  Queue' = Queue /\ Held' = Held
<1>1. ASSUME NEW u \in Consumers PROVE HeldBy(u)' = HeldBy(u)
  BY DEF HeldBy, Reading, Threads
<1>2. QED BY <1>1 DEF Queue, Held

\* A store into the slot of an index outside the queue does not change it.
LEMMA QueueStore ==
  ASSUME RingInv, NEW t \in Threads, pc[t] \in Writing \cup Reading, NEW x,
         buffer' = [buffer EXCEPT ![Slot(cur[t])] = x],
         readIndex' = readIndex, published' = published
  PROVE  Queue' = Queue
<1>1. /\ published \in Nat /\ readIndex \in Nat /\ consumed \in Nat /\ writeIndex \in Nat
      /\ IndexOrder /\ Bounds(t) /\ cur[t] \in Nat
  BY DEF RingInv, TypeOK
<1>2. cur[t] \notin readIndex..(published - 1)
  BY <1>1 DEF Bounds, Writing, Reading
<1>3. ASSUME NEW i \in 1..(published - readIndex)
      PROVE  buffer'[Slot(readIndex + i - 1)] = buffer[Slot(readIndex + i - 1)]
  <2>1. readIndex + i - 1 \in consumed..(consumed + Size - 1) /\ readIndex + i - 1 # cur[t]
    BY <1>1, <1>2, SizeAssumption DEF IndexOrder
  <2>2. QED BY <2>1, StoreLocal
<1>4. QED BY <1>3 DEF Queue

\* Every access is a step of the FIFO or is not seen by it.
LEMMA FifoStep == ASSUME RingInv, CallsInv, [Next]_vars PROVE [Fifo!Next]_(Fifo!vars)
<1>a. /\ TypeOK /\ IndexOrder /\ Contents /\ Owners
      /\ \A u \in Threads : Bounds(u) /\ CallInv(u)
  BY DEF RingInv, CallsInv
<1>t. /\ published \in Nat /\ readIndex \in Nat /\ consumed \in Nat /\ writeIndex \in Nat
      /\ cur \in [Threads -> Nat] /\ pc \in [Threads -> {"idle"} \cup EnqueuePcs \cup DequeuePcs]
      /\ item \in [Threads -> Item \cup {Null}]
      /\ buffer \in [0..Size-1 -> Item \cup {Null}] /\ Size \in Nat
  BY <1>a, SizeAssumption DEF TypeOK
<1>s. ASSUME Queue' = Queue, Held' = Held PROVE [Fifo!Next]_(Fifo!vars)
  BY <1>s, FifoSame
<1>1. CASE UNCHANGED vars
  BY <1>1, <1>s DEF vars, indices, Queue, Held, HeldBy
<1>2. ASSUME NEW t \in Threads, Step(t) PROVE [Fifo!Next]_(Fifo!vars)
  <2>o. \A u \in Threads \ {t} : pc'[u] = pc[u] /\ cur'[u] = cur[u] /\ item'[u] = item[u]
    BY <1>2, <1>a
       DEF Step, Enqueue, Dequeue, TypeOK, Goto, Return, EnqueueLoadConsumed,
           EnqueueLoadWrite, EnqueueClaim, EnqueueClaimFails, EnqueueRecheck,
           EnqueueWrite, EnqueuePublish, DequeueLoadPublished, DequeueLoadRead,
           DequeueClaim, DequeueClaimFails, DequeueRecheck, DequeueTake, DequeueConsume
  <2>1. CASE \/ EnqueueLoadConsumed(t) \/ EnqueueLoadWrite(t) \/ EnqueueClaim(t)
             \/ EnqueueClaimFails(t) \/ EnqueueRecheck(t)
             \/ DequeueLoadPublished(t) \/ DequeueLoadRead(t)
             \/ DequeueClaimFails(t) \/ DequeueRecheck(t)
    <3>1. /\ readIndex' = readIndex /\ published' = published /\ buffer' = buffer
          /\ pc[t] \notin Reading
      BY <2>1 DEF EnqueueLoadConsumed, EnqueueLoadWrite, EnqueueClaim, EnqueueClaimFails,
                  EnqueueRecheck, DequeueLoadPublished, DequeueLoadRead, DequeueClaimFails,
                  DequeueRecheck, indices, Reading
    <3>2. pc'[t] \notin Reading
      BY <2>1, <1>t DEF EnqueueLoadConsumed, EnqueueLoadWrite, EnqueueClaim, EnqueueClaimFails,
                  EnqueueRecheck, DequeueLoadPublished, DequeueLoadRead, DequeueClaimFails,
                  DequeueRecheck, Goto, Return, Reading
    <3>3. QED BY <1>a, <1>s, <2>o, <3>1, <3>2, FifoSilent
  <2>2. CASE EnqueueWrite(t)
    <3>1. /\ pc[t] = "write" /\ pc'[t] = "publish" /\ readIndex' = readIndex
          /\ published' = published
          /\ buffer' = [buffer EXCEPT ![Slot(cur[t])] = item[t]]
      BY <2>2, <1>t DEF EnqueueWrite, Goto, indices
    <3>2. Queue' = Queue
      BY <3>1, QueueStore DEF Writing
    <3>3. ASSUME NEW u \in Consumers PROVE HeldBy(u)' = HeldBy(u)
      <4>1. CASE u = t
        BY <3>1, <4>1 DEF HeldBy
      <4>2. CASE u # t /\ pc[u] = "take"
        <5>1. u \in Threads /\ buffer'[Slot(cur[u])] = buffer[Slot(cur[u])]
          BY <3>1, <4>2, StoreLocal DEF Threads, Writing, Reading
        <5>2. QED BY <2>o, <4>2, <5>1 DEF HeldBy
      <4>3. CASE u # t /\ pc[u] # "take"
        BY <2>o, <4>3 DEF HeldBy, Threads
      <4>4. QED BY <4>1, <4>2, <4>3
    <3>4. QED BY <1>s, <3>2, <3>3 DEF Held
  <2>3. CASE EnqueuePublish(t)
    <3>1. /\ pc[t] = "publish" /\ pc'[t] = "idle" /\ readIndex' = readIndex
          /\ published = cur[t] /\ published' = published + 1 /\ buffer' = buffer
      BY <2>3, <1>t DEF EnqueuePublish, Goto, Return
    <3>2. Held' = Held
      <4>1. ASSUME NEW u \in Consumers PROVE HeldBy(u)' = HeldBy(u)
        BY <2>o, <3>1 DEF HeldBy, Threads
      <4>2. QED BY <4>1 DEF Held
    <3> DEFINE n == published - readIndex
               v == buffer[Slot(cur[t])]
    <3>3. n \in Nat /\ Queue \in [1..n -> Item]
      BY QueueType
    <3>4. v \in Item
      <4>1. Slot(cur[t]) \in 0..Size-1 /\ v # Null
        BY <1>a, <1>t, <3>1, SlotType DEF Contents
      <4>2. QED BY <1>t, <4>1
    <3>5. n < Size
      BY <1>a, <1>t, <3>1 DEF Bounds, IndexOrder, Writing
    <3>6. published' - readIndex' = n + 1
      BY <1>t, <3>1
    <3>7. /\ Queue' \in [1..(n + 1) -> Item] /\ Queue'[n + 1] = v
          /\ \A i \in 1..n : Queue'[i] = Queue[i]
      <4>1. Queue' = [i \in 1..(n + 1) |-> buffer[Slot(readIndex + i - 1)]]
        BY <3>1, <3>6 DEF Queue
      <4>2. Queue'[n + 1] = v
        <5>1. readIndex + (n + 1) - 1 = cur[t] /\ n + 1 \in 1..(n + 1)
          <6>1. cur[t] \in Nat /\ cur[t] = published
            BY <1>t, <3>1
          <6>2. QED BY <1>t, <3>3, <6>1
        <5>2. Queue'[n + 1] = buffer[Slot(readIndex + (n + 1) - 1)]
          BY <4>1, <5>1
        <5>3. QED BY <5>1, <5>2
      <4>3. \A i \in 1..n : Queue'[i] = Queue[i]
        <5>1. \A i \in 1..n : Queue[i] = buffer[Slot(readIndex + i - 1)]
          BY DEF Queue
        <5>2. \A i \in 1..n : i \in 1..(n + 1)
          BY <3>3
        <5>3. \A i \in 1..n : Queue'[i] = buffer[Slot(readIndex + i - 1)]
          BY <4>1, <5>2
        <5>4. QED BY <5>1, <5>3
      <4>4. ASSUME NEW i \in 1..(n + 1) PROVE Queue'[i] \in Item
        BY <3>3, <3>4, <4>2, <4>3
      <4>5. QED BY <4>1, <4>2, <4>3, <4>4
    <3> HIDE DEF n, v
    <3>8. Len(Queue) = n /\ Queue' = Append(Queue, v)
      BY <3>3, <3>7, SeqAppend
    <3>9. QED BY <3>2, <3>4, <3>5, <3>8, FifoPut
  <2>4. CASE DequeueClaim(t)
    <3>1. /\ pc[t] = "casRead" /\ pc'[t] = "take" /\ readIndex = cur[t]
          /\ readIndex' = readIndex + 1 /\ published' = published /\ buffer' = buffer
          /\ cur' = cur
      BY <2>4, <1>t DEF DequeueClaim, Goto
    <3>2. t \in Consumers
      BY <1>a, <3>1 DEF CallInv, DequeuePcs
    <3> DEFINE n == published - readIndex - 1
    <3>3. n \in Nat /\ Queue \in [1..(n + 1) -> Item]
      <4>1. readIndex < published
        BY <1>a, <3>1 DEF Bounds
      <4>2. QED BY <1>t, <4>1, QueueType
    <3>4. /\ Queue' \in [1..n -> Item]
          /\ \A i \in 1..n : Queue'[i] = Queue[i + 1]
      <4>1. Queue' = [i \in 1..n |-> buffer[Slot(readIndex + 1 + i - 1)]]
        <5>1. published' - readIndex' = n
          BY <1>t, <3>1
        <5>2. QED BY <3>1, <5>1 DEF Queue
      <4>2. ASSUME NEW i \in 1..n PROVE Queue'[i] = Queue[i + 1]
        <5>1. i + 1 \in 1..(published - readIndex)
              /\ readIndex + 1 + i - 1 = readIndex + (i + 1) - 1
          BY <1>t
        <5>2. Queue[i + 1] = buffer[Slot(readIndex + (i + 1) - 1)]
          BY <5>1 DEF Queue
        <5>3. Queue'[i] = buffer[Slot(readIndex + 1 + i - 1)]
          BY <4>1
        <5>4. QED BY <5>1, <5>2, <5>3
      <4>3. ASSUME NEW i \in 1..n PROVE Queue'[i] \in Item
        <5>1. i + 1 \in 1..(n + 1)
          BY <3>3
        <5>2. QED BY <3>3, <4>2, <5>1
      <4>4. QED BY <4>1, <4>2, <4>3
    <3>5. Queue[1] = buffer[Slot(cur[t])]
      <4>1. 1 \in 1..(published - readIndex) /\ readIndex + 1 - 1 = cur[t]
        BY <1>t, <3>1, <3>3
      <4>2. Queue[1] = buffer[Slot(readIndex + 1 - 1)]
        BY <4>1 DEF Queue
      <4>3. QED BY <4>1, <4>2
    <3> HIDE DEF n
    <3>6. Queue # << >> /\ Head(Queue) = Queue[1] /\ Queue' = Tail(Queue)
      BY <3>3, <3>4, SeqTail
    <3>7. Held[t] = Null
      BY <3>1, <3>2 DEF Held, HeldBy
    <3>8. Held' = [Held EXCEPT ![t] = Head(Queue)]
      <4>1. HeldBy(t)' = Head(Queue)
        BY <3>1, <3>5, <3>6 DEF HeldBy
      <4>2. \A u \in Consumers \ {t} : HeldBy(u)' = HeldBy(u)
        BY <2>o, <3>1 DEF HeldBy, Threads
      <4>3. Held' = [u \in Consumers |-> HeldBy(u)']
        BY DEF Held
      <4>4. QED BY <3>2, <4>1, <4>2, <4>3 DEF Held
    <3>9. QED BY <3>2, <3>6, <3>7, <3>8, FifoTake
  <2>5. CASE DequeueTake(t)
    <3>1. /\ pc[t] = "take" /\ pc'[t] = "consume" /\ readIndex' = readIndex
          /\ published' = published /\ item'[t] = buffer[Slot(cur[t])]
          /\ buffer' = [buffer EXCEPT ![Slot(cur[t])] = Null]
      BY <2>5, <1>t DEF DequeueTake, Goto, indices
    <3>2. Queue' = Queue
      BY <3>1, QueueStore DEF Reading
    <3>3. ASSUME NEW u \in Consumers PROVE HeldBy(u)' = HeldBy(u)
      <4>1. CASE u = t
        BY <3>1, <4>1 DEF HeldBy
      <4>2. CASE u # t /\ pc[u] = "take"
        <5>1. u \in Threads /\ buffer'[Slot(cur[u])] = buffer[Slot(cur[u])]
          BY <3>1, <4>2, StoreLocal DEF Threads, Writing, Reading
        <5>2. QED BY <2>o, <4>2, <5>1 DEF HeldBy
      <4>3. CASE u # t /\ pc[u] # "take"
        BY <2>o, <4>3 DEF HeldBy, Threads
      <4>4. QED BY <4>1, <4>2, <4>3
    <3>4. QED BY <1>s, <3>2, <3>3 DEF Held
  <2>6. CASE DequeueConsume(t)
    <3>1. /\ pc[t] = "consume" /\ pc'[t] = "idle" /\ readIndex' = readIndex
          /\ published' = published /\ buffer' = buffer
      BY <2>6, <1>t DEF DequeueConsume, Return, Goto
    <3>2. t \in Consumers /\ item[t] # Null
      BY <1>a, <3>1 DEF CallInv, DequeuePcs
    <3>3. Queue' = Queue
      BY <3>1 DEF Queue
    <3>4. Held[t] # Null
      BY <3>1, <3>2 DEF Held, HeldBy
    <3>5. Held' = [Held EXCEPT ![t] = Null]
      <4>1. HeldBy(t)' = Null
        BY <3>1 DEF HeldBy
      <4>2. \A u \in Consumers \ {t} : HeldBy(u)' = HeldBy(u)
        BY <2>o, <3>1 DEF HeldBy, Threads
      <4>3. Held' = [u \in Consumers |-> HeldBy(u)']
        BY DEF Held
      <4>4. QED BY <3>2, <4>1, <4>2, <4>3 DEF Held
    <3>6. QED BY <3>2, <3>3, <3>4, <3>5, FifoReturn
  <2>7. QED BY <1>2, <2>1, <2>2, <2>3, <2>4, <2>5, <2>6 DEF Step, Enqueue, Dequeue
<1>3. QED BY <1>1, <1>2 DEF Next

\* The ring is a FIFO for any number of producers and consumers and any size:
\* publishing puts, claiming readIndex takes, and the item claimed is the item
\* the call returns.
THEOREM ImplementsFifo == Spec => RefinesFifo
<1>1. Init => Fifo!Init
  <2>1. ASSUME Init PROVE Queue = << >> /\ Held = [t \in Consumers |-> Null]
    <3>1. published - readIndex = 0
      BY <2>1 DEF Init
    <3>2. Queue = << >>
      BY <3>1 DEF Queue
    <3>3. \A t \in Consumers : HeldBy(t) = Null
      BY <2>1 DEF Init, HeldBy, Threads
    <3>4. QED BY <3>2, <3>3 DEF Held
  <2>2. QED BY <2>1, FifoInit
<1>2. RingInv /\ CallsInv /\ [Next]_vars => [Fifo!Next]_(Fifo!vars)
  BY FifoStep
<1>3. QED BY <1>1, <1>2, RingInvariant, CallInvariant, PTL DEF Spec, RefinesFifo, Fifo!Spec
=============================================================================
