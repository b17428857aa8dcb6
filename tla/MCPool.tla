------------------------------- MODULE MCPool -------------------------------
(* Model-checking instances of ThreadPoolWorkQueue: the programs. *)
EXTENDS ThreadPoolWorkQueue

CONSTANTS A, B, C,    \* tasks
          V1, V2      \* values

Add(a, w) == [op |-> "addTask", task |-> a, to |-> w]
Emplace(x) == [op |-> "emplace", value |-> x]
Then(x, a) == [op |-> "andThen", value |-> x, task |-> a]
Await(X) == [op |-> "await", values |-> X]
Shutdown == [op |-> "shutdown"]

\* What the threads and tasks execute, by name; the others do nothing.
Does(f) == [x \in Tasks \cup Clients |-> IF x \in DOMAIN f THEN f[x] ELSE <<>>]

Places == {AnyWorker} \cup Workers

\* The main thread adds two tasks and awaits a value that one of them
\* emplaces; the other one adds a third task; then the main thread shuts down.
AwaitAndShutdown(p, q, r) ==
  Does((Main :> <<Add(A, p), Add(B, q), Await({V2}), Shutdown>>) @@
       (A :> <<Emplace(V2)>>) @@ (B :> <<Add(C, r)>>))

\* A donating main thread uses waiters, awaits two values, one of which another
\* client emplaces, and shuts down while a task may still add work.
DonateAndShutdown ==
  {Does((Main :> <<Add(A, p), Then(V2, B), Await({V1, V2}), Shutdown>>) @@
        (A :> <<Emplace(V2), Add(C, q)>>) @@
        [t \in Foreign |-> <<Emplace(V1)>>]) :
     p \in Places, q \in {AnyWorker, 1}}

\* A task awaits a value that the task added before it emplaces.
NestedAwait(p, q) ==
  Does((Main :> <<Add(A, p), Add(B, q), Await({V1}), Shutdown>>) @@
       (A :> <<Emplace(V2)>>) @@ (B :> <<Await({V2}), Emplace(V1)>>))

\* Everything for worker 0, whose ring overflows; a mix; and nested awaits.
AwaitPrograms == {AwaitAndShutdown(0, 0, 0), AwaitAndShutdown(AnyWorker, 0, AnyWorker),
                  NestedAwait(0, 1)}

-----------------------------------------------------------------------------
(* Single programs for the runs that exhibit a disagreement. *)

\* More tasks for worker 0 than its ring holds.
FillRing == {Does(Main :> <<Add(A, 0), Add(B, 0)>>)}

\* The donating main thread awaits a value and then adds a task.
AwaitThenAdd ==
  {Does((Main :> <<Add(A, AnyWorker), Await({V2}), Add(B, AnyWorker)>>) @@
        (A :> <<Emplace(V2)>>))}

\* A task that runs during the shutdown adds a task for another worker.
LateAffinity ==
  {Does((Main :> <<Add(A, 1), Shutdown>>) @@ (A :> <<Add(B, 0)>>))}

\* A awaits what B emplaces, after awaiting what C emplaces; C is A's.
BuriedAwait ==
  {Does((Main :> <<Add(A, 0), Add(B, 0), Add(C, 0), Shutdown>>) @@
        (A :> <<Await({V2}), Emplace(V1)>>) @@
        (B :> <<Await({V1})>>) @@ (C :> <<Emplace(V2)>>))}
=============================================================================
