------------------------------- MODULE Future -------------------------------
(***************************************************************************)
(* What an AsyncValue promises its users: it becomes ready once, with a    *)
(* value or with an error, and never changes again; every waiter handed to *)
(* andThen is called exactly once, and only when the value is ready.       *)
(***************************************************************************)
CONSTANT Waiters

VARIABLES outcome,    \* "pending", "available" or "error"
          status      \* status[w]: "new", "waiting" or "called"

vars == <<outcome, status>>

Init == outcome = "pending" /\ status = [w \in Waiters |-> "new"]

\* A waiter is handed to andThen.
AndThen(w) == /\ status[w] = "new"
              /\ status' = [status EXCEPT ![w] = "waiting"]
              /\ UNCHANGED outcome

\* The producer settles the value.
Settle(o) == /\ outcome = "pending"
             /\ outcome' = o
             /\ UNCHANGED status

\* A waiter is called (or given to the work queue to be called).
Call(w) == /\ outcome # "pending"
           /\ status[w] = "waiting"
           /\ status' = [status EXCEPT ![w] = "called"]
           /\ UNCHANGED outcome

\* andThen on a ready value calls the waiter right away.
CallNow(w) == /\ outcome # "pending"
              /\ status[w] = "new"
              /\ status' = [status EXCEPT ![w] = "called"]
              /\ UNCHANGED outcome

Next == \/ \E w \in Waiters : AndThen(w) \/ Call(w) \/ CallNow(w)
        \/ \E o \in {"available", "error"} : Settle(o)

Spec == Init /\ [][Next]_vars

\* Once the value is ready no waiter is left behind.
FairSpec == Spec /\ \A w \in Waiters : WF_vars(Call(w))
=============================================================================
