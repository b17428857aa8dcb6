---------------------------- MODULE BoundedFifo ----------------------------
(***************************************************************************)
(* What a bounded queue shared by threads promises: an item is accepted    *)
(* only while there is room, items leave in the order they were accepted,  *)
(* each one to exactly one caller, and a caller that has been given an     *)
(* item receives that item and no other.  LockFreeRingBuffer refines this. *)
(***************************************************************************)
EXTENDS Naturals, Sequences

CONSTANTS Capacity,   \* number of items the queue has room for
          Takers,     \* callers that remove items
          Item,       \* the items
          None        \* "holds no item"

VARIABLES queue,      \* items accepted and not yet taken, oldest first
          held        \* held[t]: the item t was given and has not yet returned

vars == <<queue, held>>

Init == queue = << >> /\ held = [t \in Takers |-> None]

\* A caller's item enters at the back of the queue.
Put(v) == /\ Len(queue) < Capacity
          /\ queue' = Append(queue, v)
          /\ UNCHANGED held

\* A caller is given the oldest item.
Take(t) == /\ queue # << >>
           /\ held[t] = None
           /\ held' = [held EXCEPT ![t] = Head(queue)]
           /\ queue' = Tail(queue)

\* The caller goes away with the item it was given.
Return(t) == /\ held[t] # None
             /\ held' = [held EXCEPT ![t] = None]
             /\ UNCHANGED queue

Next == \/ \E v \in Item : Put(v)
        \/ \E t \in Takers : Take(t) \/ Return(t)

Spec == Init /\ [][Next]_vars
=============================================================================
