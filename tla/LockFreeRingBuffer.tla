------------------------- MODULE LockFreeRingBuffer -------------------------
(***************************************************************************)
(* AsyncRT/include/AsyncRT/Support/LockFreeRingBuffer.h: the bounded       *)
(* multi-producer multi-consumer ring that every pool worker keeps for the *)
(* tasks with affinity to it.                                              *)
(*                                                                         *)
(* Each thread executes one call at a time, one atomic access per step.    *)
(* pc[t] names the access t makes next.  A load followed by a test of the  *)
(* value loaded is one step, and so are the spin of lines 88-90 and 127-129*)
(* (only the thread that owns an index ever stores its successor, so the   *)
(* value cannot change between the load that ends the spin and the store). *)
(* compare_exchange_weak may fail even when the value matches.             *)
(***************************************************************************)
EXTENDS Integers, FiniteSets

CONSTANTS Producers,    \* threads that call enqueue
          Consumers,    \* threads that call dequeue
          Size,         \* slots in the ring (after rounding by the constructor)
          MaxEnqueues   \* bound: number of enqueue calls explored

ASSUME SizeAssumption == Size \in Nat /\ Size > 0
ASSUME EnqueuesAssumption == MaxEnqueues \in Nat

\* The constructor rounds the size, so that i & (size - 1) is i % size.
ASSUME PowerOfTwo == \E k \in 0..Size : Size = 2^k

Threads == Producers \cup Consumers

\* The moved-from content of a slot, and "no item" in a thread's hands.
Null == 0
Item == 1..MaxEnqueues

EnqueuePcs == {"loadWrite", "casWrite", "recheckWrite", "write", "publish"}
DequeuePcs == {"loadRead", "casRead", "recheckRead", "take", "consume"}

VARIABLES
  readIndex, writeIndex, consumed, published,  \* the four atomic counters
  buffer,    \* the slots
  pc,        \* the next access of each thread, "idle" between calls
  cur,       \* curWriteIndex / curReadIndex of the call
  seen,      \* curConsumed / curPublished of the call
  item,      \* the item the call carries: in for enqueue, out for dequeue
  issued,    \* number of enqueue calls so far; the k-th enqueues item k
  result,    \* what the last call returned: "ok", "full" or "empty"
  witness    \* history: what may excuse an empty-handed dequeue

indices == <<readIndex, writeIndex, consumed, published>>
vars == <<indices, buffer, pc, cur, seen, item, issued, result, witness>>

Slot(i) == i % Size

\* No published item is left unclaimed.
Empty == published <= readIndex

Init == /\ readIndex = 0 /\ writeIndex = 0 /\ consumed = 0 /\ published = 0
        /\ buffer = [i \in 0..Size-1 |-> Null]
        /\ pc = [t \in Threads |-> "idle"]
        /\ cur = [t \in Threads |-> 0]
        /\ seen = [t \in Threads |-> 0]
        /\ item = [t \in Threads |-> Null]
        /\ issued = 0
        /\ result = [t \in Threads |-> "none"]
        /\ witness = [t \in Threads |-> FALSE]

Goto(t, l) == pc' = [pc EXCEPT ![t] = l]

\* The call returns r and its locals die.
Return(t, r) == /\ Goto(t, "idle")
                /\ result' = [result EXCEPT ![t] = r]
                /\ cur' = [cur EXCEPT ![t] = 0]

\* Faulty: accepts one item more than there are slots.
DiffAbove(a, b, n) == a < b \/ a - b > n

\* a - b >= n on uint64_t: a difference below zero wraps to a huge value.
DiffAtLeast(a, b, n) == a < b \/ a - b >= n

-----------------------------------------------------------------------------
(* enqueue *)

EnqueueLoadConsumed(t) ==
  /\ t \in Producers
  /\ pc[t] = "idle"
  /\ issued < MaxEnqueues
  /\ issued' = issued + 1
  /\ item' = [item EXCEPT ![t] = issued + 1]
  /\ seen' = [seen EXCEPT ![t] = consumed]
  /\ result' = [result EXCEPT ![t] = "none"]
  /\ Goto(t, "loadWrite")
  /\ UNCHANGED <<indices, buffer, cur>>

EnqueueLoadWrite(t) ==
  /\ pc[t] = "loadWrite"
  /\ IF DiffAtLeast(writeIndex, seen[t], Size)
     THEN Return(t, "full")
     ELSE /\ cur' = [cur EXCEPT ![t] = writeIndex]
          /\ Goto(t, "casWrite")
          /\ UNCHANGED result
  /\ seen' = [seen EXCEPT ![t] = 0]
  /\ UNCHANGED <<indices, buffer, item, issued>>

EnqueueClaim(t) ==
  /\ pc[t] = "casWrite"
  /\ writeIndex = cur[t]
  /\ writeIndex' = cur[t] + 1
  /\ Goto(t, "write")
  /\ UNCHANGED <<readIndex, consumed, published, buffer, cur, seen, item,
                 issued, result>>

\* Faulty: gives an index back that was never claimed.
EnqueueClaimRollsBack(t) ==
  /\ pc[t] = "casWrite"
  /\ writeIndex' = writeIndex - 1
  /\ cur' = [cur EXCEPT ![t] = writeIndex]
  /\ Goto(t, "recheckWrite")
  /\ UNCHANGED <<readIndex, consumed, published, buffer, seen, item, issued,
                 result>>

\* The exchange fails, because writeIndex moved or spuriously.
EnqueueClaimFails(t) ==
  /\ pc[t] = "casWrite"
  /\ cur' = [cur EXCEPT ![t] = writeIndex]
  /\ Goto(t, "recheckWrite")
  /\ UNCHANGED <<indices, buffer, seen, item, issued, result>>

EnqueueRecheck(t) ==
  /\ pc[t] = "recheckWrite"
  /\ IF DiffAtLeast(cur[t], consumed, Size)
     THEN Return(t, "full")
     ELSE Goto(t, "casWrite") /\ UNCHANGED <<result, cur>>
  /\ UNCHANGED <<indices, buffer, seen, item, issued>>

EnqueueWrite(t) ==
  /\ pc[t] = "write"
  /\ buffer' = [buffer EXCEPT ![Slot(cur[t])] = item[t]]
  /\ item' = [item EXCEPT ![t] = Null]
  /\ Goto(t, "publish")
  /\ UNCHANGED <<indices, cur, seen, issued, result>>

\* Faulty: publishes without waiting for the earlier claims.
EnqueuePublishEarly(t) ==
  /\ pc[t] = "publish"
  /\ published' = cur[t] + 1
  /\ Return(t, "ok")
  /\ UNCHANGED <<readIndex, writeIndex, consumed, buffer, seen, item, issued>>

\* Faulty: also waits for no later claim.
EnqueuePublishLast(t) ==
  /\ pc[t] = "publish"
  /\ published = cur[t] /\ writeIndex = cur[t] + 1
  /\ published' = cur[t] + 1
  /\ Return(t, "ok")
  /\ UNCHANGED <<readIndex, writeIndex, consumed, buffer, seen, item, issued>>

EnqueuePublish(t) ==
  /\ pc[t] = "publish"
  /\ published = cur[t]
  /\ published' = cur[t] + 1
  /\ Return(t, "ok")
  /\ UNCHANGED <<readIndex, writeIndex, consumed, buffer, seen, item, issued>>

-----------------------------------------------------------------------------
(* dequeue *)

DequeueLoadPublished(t) ==
  /\ t \in Consumers
  /\ pc[t] = "idle"
  /\ seen' = [seen EXCEPT ![t] = published]
  /\ result' = [result EXCEPT ![t] = "none"]
  /\ Goto(t, "loadRead")
  /\ UNCHANGED <<indices, buffer, cur, item, issued>>

\* Faulty: never hands out the last item.
DequeueLoadReadShort(t) ==
  /\ pc[t] = "loadRead"
  /\ IF seen[t] <= readIndex + 1
     THEN Return(t, "empty")
     ELSE /\ cur' = [cur EXCEPT ![t] = readIndex]
          /\ Goto(t, "casRead")
          /\ UNCHANGED result
  /\ seen' = [seen EXCEPT ![t] = 0]
  /\ UNCHANGED <<indices, buffer, item, issued>>

DequeueLoadRead(t) ==
  /\ pc[t] = "loadRead"
  /\ IF seen[t] <= readIndex
     THEN Return(t, "empty")
     ELSE /\ cur' = [cur EXCEPT ![t] = readIndex]
          /\ Goto(t, "casRead")
          /\ UNCHANGED result
  /\ seen' = [seen EXCEPT ![t] = 0]
  /\ UNCHANGED <<indices, buffer, item, issued>>

DequeueClaim(t) ==
  /\ pc[t] = "casRead"
  /\ readIndex = cur[t]
  /\ readIndex' = cur[t] + 1
  /\ Goto(t, "take")
  /\ UNCHANGED <<writeIndex, consumed, published, buffer, cur, seen, item,
                 issued, result>>

DequeueClaimFails(t) ==
  /\ pc[t] = "casRead"
  /\ cur' = [cur EXCEPT ![t] = readIndex]
  /\ Goto(t, "recheckRead")
  /\ UNCHANGED <<indices, buffer, seen, item, issued, result>>

DequeueRecheck(t) ==
  /\ pc[t] = "recheckRead"
  /\ IF published <= cur[t]
     THEN Return(t, "empty")
     ELSE Goto(t, "casRead") /\ UNCHANGED <<result, cur>>
  /\ UNCHANGED <<indices, buffer, seen, item, issued>>

\* Faulty: the item is copied and stays in the slot.
DequeueCopy(t) ==
  /\ pc[t] = "take"
  /\ item' = [item EXCEPT ![t] = buffer[Slot(cur[t])]]
  /\ Goto(t, "consume")
  /\ UNCHANGED <<indices, buffer, cur, seen, issued, result>>

\* std::move leaves an empty item in the slot.
DequeueTake(t) ==
  /\ pc[t] = "take"
  /\ item' = [item EXCEPT ![t] = buffer[Slot(cur[t])]]
  /\ buffer' = [buffer EXCEPT ![Slot(cur[t])] = Null]
  /\ Goto(t, "consume")
  /\ UNCHANGED <<indices, cur, seen, issued, result>>

\* Faulty: frees the slot without waiting for the earlier readers.
DequeueConsumeEarly(t) ==
  /\ pc[t] = "consume"
  /\ consumed' = cur[t] + 1
  /\ item' = [item EXCEPT ![t] = Null]
  /\ Return(t, "ok")
  /\ UNCHANGED <<readIndex, writeIndex, published, buffer, seen, issued>>

DequeueConsume(t) ==
  /\ pc[t] = "consume"
  /\ consumed = cur[t]
  /\ consumed' = cur[t] + 1
  /\ item' = [item EXCEPT ![t] = Null]
  /\ Return(t, "ok")
  /\ UNCHANGED <<readIndex, writeIndex, published, buffer, seen, issued>>

-----------------------------------------------------------------------------
Enqueue(t) == \/ EnqueueLoadConsumed(t) \/ EnqueueLoadWrite(t)
              \/ EnqueueClaim(t) \/ EnqueueClaimFails(t) \/ EnqueueRecheck(t)
              \/ EnqueueWrite(t) \/ EnqueuePublish(t)

Dequeue(t) == \/ DequeueLoadPublished(t) \/ DequeueLoadRead(t)
              \/ DequeueClaim(t) \/ DequeueClaimFails(t) \/ DequeueRecheck(t)
              \/ DequeueTake(t) \/ DequeueConsume(t)

\* witness[t] records whether the ring was empty when t's dequeue started or
\* after any later step of any thread, or an item was claimed meanwhile.
Observe ==
  witness' = [t \in Threads |->
    IF pc'[t] = "idle" /\ pc[t] = "idle" THEN witness[t]
    ELSE \/ pc[t] # "idle" /\ witness[t]
         \/ (pc[t] \in DequeuePcs \/ pc'[t] \in DequeuePcs) /\ Empty'
         \/ pc[t] \in DequeuePcs /\ readIndex' # readIndex]

Step(t) == (Enqueue(t) \/ Dequeue(t)) /\ Observe

Next == \E t \in Threads : Step(t)

Spec == Init /\ [][Next]_vars

(***************************************************************************)
(* The operating system schedules every thread that is inside a call.      *)
(* Nobody is obliged to start one, and a weak exchange may fail for ever.  *)
(***************************************************************************)
Fairness == \A t \in Threads : WF_vars(pc[t] # "idle" /\ Step(t))

FairSpec == Spec /\ Fairness

-----------------------------------------------------------------------------
(* Properties *)

\* Every variable keeps its type.
TypeOK ==
  /\ readIndex \in Nat /\ writeIndex \in Nat
  /\ consumed \in Nat /\ published \in Nat
  /\ buffer \in [0..Size-1 -> Item \cup {Null}]
  /\ pc \in [Threads -> {"idle"} \cup EnqueuePcs \cup DequeuePcs]
  /\ cur \in [Threads -> Nat]
  /\ seen \in [Threads -> Nat]
  /\ item \in [Threads -> Item \cup {Null}]
  /\ issued \in 0..MaxEnqueues
  /\ result \in [Threads -> {"none", "ok", "full", "empty"}]
  /\ witness \in [Threads -> BOOLEAN]

\* The four counters never cross, and never run more than a ring apart: the
\* comments at lines 65-68 and 103-106 rely on it.
IndexOrder == /\ consumed <= readIndex
              /\ readIndex <= published
              /\ published <= writeIndex
              /\ writeIndex <= consumed + Size

\* Threads that own an index and are about to touch its slot.
Touching == {t \in Threads : pc[t] \in {"write", "take"}}

\* No slot is accessed by two threads at once: "no other threads will write
\* to buffer[curWriteIndex % size] simultaneously" (line 67) and no reader is
\* still moving the item out of it.
NoSlotRace == \A t, u \in Touching : t # u => Slot(cur[t]) # Slot(cur[u])

\* An enqueue never overwrites an item, and a dequeue never returns an empty
\* slot: "does not overwrite any unconsumed item" (line 66), "contains a valid
\* item" (line 104).
SlotReady == \A t \in Touching :
               (buffer[Slot(cur[t])] = Null) <=> (pc[t] = "write")

\* dequeue "returns a value-initialized ItemType if the buffer is empty" (line
\* 95): when it returns nothing, no item was waiting at some moment of the
\* call, or another consumer claimed one during it (readIndex can move past a
\* published that was loaded before).  For one consumer, which is how a worker
\* uses its ring, only the first can be.
EmptyWhenRefused == \A t \in Threads : result[t] = "empty" => witness[t]

\* The ring is a FIFO: publishing puts, claiming readIndex takes.
Fifo == INSTANCE BoundedFifo WITH
          Capacity <- Size, Takers <- Consumers, None <- Null,
          queue <- [i \in 1..(published - readIndex) |->
                      buffer[Slot(readIndex + i - 1)]],
          held <- [t \in Consumers |->
                     CASE pc[t] = "take" -> buffer[Slot(cur[t])]
                       [] pc[t] = "consume" -> item[t]
                       [] OTHER -> Null]

\* The ring hands out the items in the order they were published, each of them
\* once and to one caller, whatever the interleaving of the calls.
RefinesFifo == Fifo!Spec

\* A thread that owns an index gets out of the publish (consume) spin and its
\* call returns: the spins of lines 88 and 127 wait only for threads that
\* claimed earlier.
ClaimsComplete ==
  \A t \in Threads : pc[t] \in {"write", "take"} ~> pc[t] = "idle"
=============================================================================
