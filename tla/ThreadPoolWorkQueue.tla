------------------------ MODULE ThreadPoolWorkQueue ------------------------
(***************************************************************************)
(* AsyncRT/lib/Runtime/ThreadPoolWorkQueue.cpp: the thread pool that runs  *)
(* the work items of a CPU device.                                         *)
(*                                                                         *)
(* Work waits in four places: the ring of tasks with affinity to a worker  *)
(* and its spill list for when the ring is full, the list all workers      *)
(* share and its overflow list, and the worker's own list of local tasks   *)
(* (the waiters of the values it emplaced).  A worker that finds none      *)
(* marks itself suspended, polls once more and sleeps on its semaphore;    *)
(* who adds work takes the mark and posts the semaphore.                   *)
(*                                                                         *)
(* Tasks and client threads execute a program: a sequence of calls of the  *)
(* work queue and of AsyncValue.  A task that awaits runs other tasks on   *)
(* top of its own stack frame, so a thread has a stack of frames.  One     *)
(* action is one access to shared state.  Memory is sequentially           *)
(* consistent.  The counting semaphores and the MoodyCamel queue are       *)
(* external; AsyncValue is used through what Future promises.              *)
(***************************************************************************)
EXTENDS Integers, Sequences, FiniteSets, SequencesExt, Functions

CONSTANTS
  NumWorkers,      \* number of workers, the main thread included if it donates
  MainWillDonate,  \* does the main thread act as worker 0
  Foreign,         \* other threads that use the queue
  RingSize,        \* capacity of a worker's affinity ring
  Tasks, Values,   \* the work items and the async values of the programs
  MayFail,         \* bound: the tasks for which enqueue into the shared list may
                   \* run out of memory
  Programs         \* set of functions: what each task and client executes

ASSUME ConfigAssumption ==
  /\ NumWorkers \in Nat \ {0} /\ RingSize \in Nat
  /\ MainWillDonate \in BOOLEAN /\ MayFail \subseteq Tasks
  /\ Foreign \subseteq Nat /\ \A t \in Foreign : t > NumWorkers
  /\ IsFiniteSet(Values)

Workers == 0..NumWorkers-1

\* The thread that creates the pool and shuts it down.
Main == IF MainWillDonate THEN 0 ELSE NumWorkers
Clients == {Main} \cup Foreign
Threads == Workers \cup Clients
AnyWorker == -1

\* The calls of the work queue and of AsyncValue.
Call == [op : {"addTask"}, task : Tasks, to : Workers \cup {AnyWorker}]
        \cup [op : {"emplace"}, value : Values]
        \cup [op : {"andThen"}, value : Values, task : Tasks]
        \cup [op : {"await"}, values : SUBSET Values]
        \cup [op : {"shutdown"}]

Hands(call, a) == call.op \in {"addTask", "andThen"} /\ call.task = a

\* A work item is handed over once: it is a unique_function that addTask and
\* andThen move from.  Only the main thread shuts the pool down, at its end.
ASSUME ProgramAssumption ==
  /\ Tasks \cap Clients = {}
  /\ \A p \in Programs :
       /\ p \in [Tasks \cup Clients -> Seq(Call)]
       /\ \A a \in Tasks, x, y \in Tasks \cup Clients :
            \A i \in DOMAIN p[x], j \in DOMAIN p[y] :
              Hands(p[x][i], a) /\ Hands(p[y][j], a) => x = y /\ i = j
       /\ \A x \in Tasks \cup Clients : \A i \in DOMAIN p[x] :
            p[x][i].op = "shutdown" => x = Main /\ i = Len(p[x])

VARIABLES
  prog,        \* the program of each task and client
  stack,       \* the frames of each thread, innermost last; empty: exited
  local,       \* localTaskList of each worker, from nextLocalTaskListIndex on
  ring,        \* affinityTaskList of each worker
  spill,       \* localSpillQueue of each worker
  taskList,    \* the shared list; MoodyCamel gives no order across producers
  overflow,    \* overflowTaskList
  suspended,   \* the bits of suspendedThreads
  sema,        \* semaphore of each worker (of the await call, if foreign)
  doneFlag,
  ready,       \* the values that are ready
  waiters,     \* the waiters registered with each value
  joined,      \* shutdown has joined the workers
  added,       \* history: the tasks handed to addTask or andThen
  ran          \* history: how often each task was started

queues == <<local, ring, spill, taskList, overflow>>
values == <<ready, waiters>>
vars == <<prog, stack, queues, suspended, sema, doneFlag, values, joined, added,
          ran>>

-----------------------------------------------------------------------------
(* Frames and work items *)

\* A work item is a task, or the closure with which an await call at depth d
\* of thread t's stack waits for value v.
TaskItem(a) == [task |-> a]
WakeItem(t, d, v) == [thread |-> t, depth |-> d, value |-> v]
IsTask(it) == "task" \in DOMAIN it

\* A program being executed: next call, step within it, items still to add.
ProgFrame(a) == [is |-> "prog", id |-> a, ip |-> 1, pc |-> "op", todo |-> <<>>,
                 target |-> AnyWorker]

\* runItemsImpl for a worker's thread, an await or a shutdown; left is the
\* await's numRemaining.
LoopFrame(k, n) == [is |-> "loop", kind |-> k, pc |-> "keep", left |-> n]

WakeFrame(t, d, v) == [is |-> "wake", pc |-> "decrement", thread |-> t,
                       depth |-> d, value |-> v]

\* taskList.enqueue may fail for this item.
EnqueueFails(it) == IsTask(it) /\ it.task \in MayFail

FrameOf(it) == IF IsTask(it) THEN ProgFrame(it.task)
                             ELSE WakeFrame(it.thread, it.depth, it.value)

Top(t) == stack[t][Len(stack[t])]
At(t, k, l) == stack[t] # <<>> /\ Top(t).is = k /\ Top(t).pc = l

SetTop(t, f) == stack' = [stack EXCEPT ![t][Len(stack[t])] = f]
Goto(t, l) == SetTop(t, [Top(t) EXCEPT !.pc = l])

\* t's innermost frame becomes f and calls g; and returns.
CallWith(t, f, g) ==
  stack' = [stack EXCEPT ![t] = Append([@ EXCEPT ![Len(@)] = f], g)]
Return(t) == stack' = [stack EXCEPT ![t] = Front(@)]

\* doWork: run the item on top of t's stack, to come back to frame f.
Run(t, f, it) ==
  /\ CallWith(t, f, FrameOf(it))
  /\ ran' = IF IsTask(it) THEN [ran EXCEPT ![it.task] = @ + 1] ELSE ran

Init ==
  /\ prog \in Programs
  /\ stack = [t \in Threads |->
                << IF t \in Clients THEN ProgFrame(t)
                                     ELSE LoopFrame("worker", 0) >>]
  /\ local = [w \in Workers |-> <<>>]
  /\ ring = [w \in Workers |-> <<>>]
  /\ spill = [w \in Workers |-> <<>>]
  /\ taskList = {} /\ overflow = <<>>
  /\ suspended = {}
  /\ sema = [t \in Threads |-> 0]
  /\ doneFlag = FALSE /\ joined = FALSE
  /\ ready = {}
  /\ waiters = [v \in Values |-> <<>>]
  /\ added = {}
  /\ ran = [a \in Tasks |-> 0]

-----------------------------------------------------------------------------
(* runItemsImpl *)

EarlyStop(f) == f.kind = "await" /\ f.left = 0
LateStop(f) == f.kind = "worker" /\ doneFlag

KeepRunning(t) ==
  /\ At(t, "loop", "keep")
  /\ IF EarlyStop(Top(t)) THEN Return(t) ELSE Goto(t, "local")
  /\ UNCHANGED <<prog, queues, suspended, sema, doneFlag, values, joined,
                 added, ran>>

RunLocal(t) ==
  /\ At(t, "loop", "local")
  /\ IF local[t] # <<>>
     THEN /\ Run(t, Top(t), Head(local[t]))
          /\ local' = [local EXCEPT ![t] = Tail(@)]
     ELSE Goto(t, "affinity") /\ UNCHANGED <<local, ran>>
  /\ UNCHANGED <<prog, ring, spill, taskList, overflow, suspended, sema,
                 doneFlag, values, joined, added>>

\* The affinity ring is polled in three places; the poll at l that finds
\* nothing continues at m.
PollAffinity(t, l, m) ==
  /\ At(t, "loop", l)
  /\ IF ring[t] # <<>>
     THEN /\ Run(t, [Top(t) EXCEPT !.pc = "keep"], Head(ring[t]))
          /\ ring' = [ring EXCEPT ![t] = Tail(@)]
     ELSE Goto(t, m) /\ UNCHANGED <<ring, ran>>
  /\ UNCHANGED <<prog, local, spill, taskList, overflow, suspended, sema,
                 doneFlag, values, joined, added>>

\* So is the shared list.
PollGlobal(t, l, m) ==
  /\ At(t, "loop", l)
  /\ \/ \E it \in taskList :
          /\ Run(t, [Top(t) EXCEPT !.pc = "keep"], it)
          /\ taskList' = taskList \ {it}
     \/ /\ taskList = {}
        /\ IF m = "spinAffinity" /\ Top(t).kind = "shutdown"
           THEN Return(t)                                  \* !waitForTasks
           ELSE Goto(t, m)
        /\ UNCHANGED <<taskList, ran>>
  /\ UNCHANGED <<prog, local, ring, spill, overflow, suspended, sema,
                 doneFlag, values, joined, added>>

\* Faulty: spins on, whatever doneFlag says.
SpinOn(t) ==
  /\ At(t, "loop", "spinStop")
  /\ IF EarlyStop(Top(t)) THEN Return(t) ELSE Goto(t, "keep")
  /\ UNCHANGED <<prog, queues, suspended, sema, doneFlag, values, joined,
                 added, ran>>

\* The end of a round of the spin loop.  A round that finds nothing changes
\* nothing, so one round stands for any number of them.
SpinStop(t) ==
  /\ At(t, "loop", "spinStop")
  /\ IF EarlyStop(Top(t)) \/ LateStop(Top(t)) THEN Return(t)
                                              ELSE Goto(t, "pumpSpill")
  /\ UNCHANGED <<prog, queues, suspended, sema, doneFlag, values, joined,
                 added, ran>>

\* Faulty: the items stay in the spill list as well.
PumpSpillCopies(t) ==
  /\ At(t, "loop", "pumpSpill")
  /\ IF spill[t] # <<>>
     THEN /\ local' = [local EXCEPT ![t] = @ \o Reverse(spill[t])]
          /\ Goto(t, "keep")
     ELSE Goto(t, "pumpOverflow") /\ UNCHANGED local
  /\ UNCHANGED <<prog, ring, spill, taskList, overflow, suspended, sema,
                 doneFlag, values, joined, added, ran>>

PumpSpill(t) ==
  /\ At(t, "loop", "pumpSpill")
  /\ IF spill[t] # <<>>
     THEN /\ local' = [local EXCEPT ![t] = @ \o Reverse(spill[t])]
          /\ spill' = [spill EXCEPT ![t] = <<>>]
          /\ Goto(t, "keep")
     ELSE Goto(t, "pumpOverflow") /\ UNCHANGED <<local, spill>>
  /\ UNCHANGED <<prog, ring, taskList, overflow, suspended, sema, doneFlag,
                 values, joined, added, ran>>

\* Faulty: the item whose enqueue failed is not put back.
PumpOverflowLoses(t) ==
  /\ At(t, "loop", "pumpOverflow")
  /\ IF overflow # <<>>
     THEN /\ \E k \in {0} \cup {i \in DOMAIN overflow :
                                    EnqueueFails(overflow[i])} :
               /\ taskList' = taskList \cup
                                Range(SubSeq(overflow, k + 1, Len(overflow)))
               /\ overflow' = SubSeq(overflow, 1, k - 1)
          /\ Goto(t, "keep")
     ELSE Goto(t, "mark") /\ UNCHANGED <<taskList, overflow>>
  /\ UNCHANGED <<prog, local, ring, spill, suspended, sema, doneFlag, values,
                 joined, added, ran>>

\* The first k items stay behind when an enqueue fails.
PumpOverflow(t) ==
  /\ At(t, "loop", "pumpOverflow")
  /\ IF overflow # <<>>
     THEN /\ \E k \in {0} \cup {i \in DOMAIN overflow :
                                    EnqueueFails(overflow[i])} :
               /\ taskList' = taskList \cup
                                Range(SubSeq(overflow, k + 1, Len(overflow)))
               /\ overflow' = SubSeq(overflow, 1, k)
          /\ Goto(t, "keep")
     ELSE Goto(t, "mark") /\ UNCHANGED <<taskList, overflow>>
  /\ UNCHANGED <<prog, local, ring, spill, suspended, sema, doneFlag, values,
                 joined, added, ran>>

\* Faulty: goes to sleep without polling the lists again.
MarkAndSleep(t) ==
  /\ At(t, "loop", "mark")
  /\ suspended' = suspended \cup {t}
  /\ Goto(t, "preStop")
  /\ UNCHANGED <<prog, queues, sema, doneFlag, values, joined, added, ran>>

MarkSuspended(t) ==
  /\ At(t, "loop", "mark")
  /\ suspended' = suspended \cup {t}
  /\ Goto(t, "preAffinity")
  /\ UNCHANGED <<prog, queues, sema, doneFlag, values, joined, added, ran>>

PreSuspendStop(t) ==
  /\ At(t, "loop", "preStop")
  /\ IF EarlyStop(Top(t)) THEN Return(t) ELSE Goto(t, "sleep")
  /\ UNCHANGED <<prog, queues, suspended, sema, doneFlag, values, joined,
                 added, ran>>

\* sema.wait() returns.  A worker starts over; a foreign await is finished.
WakeUp(t) ==
  /\ At(t, "loop", "sleep")
  /\ sema[t] > 0
  /\ sema' = [sema EXCEPT ![t] = @ - 1]
  /\ IF Top(t).kind = "foreign" THEN Return(t) ELSE Goto(t, "keep")
  /\ UNCHANGED <<prog, queues, suspended, doneFlag, values, joined, added,
                 ran>>

RunItems(t) ==
  \/ KeepRunning(t) \/ RunLocal(t)
  \/ PollAffinity(t, "affinity", "global")
  \/ PollGlobal(t, "global", "spinAffinity")
  \/ PollAffinity(t, "spinAffinity", "spinGlobal")
  \/ PollGlobal(t, "spinGlobal", "spinStop")
  \/ SpinStop(t) \/ PumpSpill(t) \/ PumpOverflow(t) \/ MarkSuspended(t)
  \/ PollAffinity(t, "preAffinity", "preGlobal")
  \/ PollGlobal(t, "preGlobal", "preStop")
  \/ PreSuspendStop(t) \/ WakeUp(t)

-----------------------------------------------------------------------------
(* addTask, for the items on the frame's todo list, the first one first *)

\* The call for the first item is over.
Added(f) == LET rest == Tail(f.todo)
            IN  [f EXCEPT !.todo = rest, !.target = AnyWorker,
                          !.pc = IF rest = <<>> THEN "op" ELSE "add"]

Adding(t) == Head(Top(t).todo)

AddAffinity(t) ==
  /\ At(t, "prog", "add")
  /\ Adding(t).to # AnyWorker
  /\ LET w == Adding(t).to
     IN  IF Len(ring[w]) < RingSize
         THEN /\ ring' = [ring EXCEPT ![w] = Append(@, Adding(t).item)]
              /\ Goto(t, "take")
         ELSE Goto(t, "spill") /\ UNCHANGED ring
  /\ UNCHANGED <<prog, local, spill, taskList, overflow, suspended, sema,
                 doneFlag, values, joined, added, ran>>

AddSpill(t) ==
  /\ At(t, "prog", "spill")
  /\ spill' = [spill EXCEPT ![Adding(t).to] = Append(@, Adding(t).item)]
  /\ Goto(t, "take")
  /\ UNCHANGED <<prog, local, ring, taskList, overflow, suspended, sema,
                 doneFlag, values, joined, added, ran>>

\* takeSuspendedThread
TakeSuspended(t) ==
  /\ At(t, "prog", "take")
  /\ LET w == Adding(t).to
     IN  /\ suspended' = suspended \ {w}
         /\ SetTop(t, IF w \in suspended
                      THEN [Top(t) EXCEPT !.pc = "post", !.target = w]
                      ELSE Added(Top(t)))
  /\ UNCHANGED <<prog, queues, sema, doneFlag, values, joined, added, ran>>

\* Faulty: nobody is woken.
AddGlobalQuietly(t) ==
  /\ At(t, "prog", "add")
  /\ Adding(t).to = AnyWorker
  /\ taskList' = taskList \cup {Adding(t).item}
  /\ SetTop(t, Added(Top(t)))
  /\ UNCHANGED <<prog, local, ring, spill, overflow, suspended, sema,
                 doneFlag, values, joined, added, ran>>

AddGlobal(t) ==
  /\ At(t, "prog", "add")
  /\ Adding(t).to = AnyWorker
  /\ \/ /\ taskList' = taskList \cup {Adding(t).item}
        /\ Goto(t, "takeAny")
     \/ /\ EnqueueFails(Adding(t).item)
        /\ Goto(t, "overflow")
        /\ UNCHANGED taskList
  /\ UNCHANGED <<prog, local, ring, spill, overflow, suspended, sema,
                 doneFlag, values, joined, added, ran>>

\* takeAnySuspendedThread: the lowest bit.
TakeAny(t) ==
  /\ At(t, "prog", "takeAny")
  /\ IF suspended = {}
     THEN SetTop(t, Added(Top(t))) /\ UNCHANGED suspended
     ELSE LET w == CHOOSE x \in suspended : \A y \in suspended : x <= y
          IN  /\ suspended' = suspended \ {w}
              /\ SetTop(t, [Top(t) EXCEPT !.pc = "post", !.target = w])
  /\ UNCHANGED <<prog, queues, sema, doneFlag, values, joined, added, ran>>

Post(t) ==
  /\ At(t, "prog", "post")
  /\ sema' = [sema EXCEPT ![Top(t).target] = @ + 1]
  /\ SetTop(t, Added(Top(t)))
  /\ UNCHANGED <<prog, queues, suspended, doneFlag, values, joined, added,
                 ran>>

\* The overflow list wakes nobody.
AddOverflow(t) ==
  /\ At(t, "prog", "overflow")
  /\ overflow' = Append(overflow, Adding(t).item)
  /\ SetTop(t, Added(Top(t)))
  /\ UNCHANGED <<prog, local, ring, spill, taskList, suspended, sema,
                 doneFlag, values, joined, added, ran>>

AddTask(t) == \/ AddAffinity(t) \/ AddSpill(t) \/ TakeSuspended(t)
              \/ AddGlobal(t) \/ TakeAny(t) \/ Post(t) \/ AddOverflow(t)

-----------------------------------------------------------------------------
(* The calls a program makes *)

Calls(t, op) == /\ At(t, "prog", "op")
                /\ Top(t).ip <= Len(prog[Top(t).id])
                /\ prog[Top(t).id][Top(t).ip].op = op

Arg(t) == prog[Top(t).id][Top(t).ip]
Past(t) == [Top(t) EXCEPT !.ip = @ + 1]

CallAddTask(t) ==
  /\ Calls(t, "addTask")
  /\ SetTop(t, [Past(t) EXCEPT !.pc = "add",
        !.todo = <<[item |-> TaskItem(Arg(t).task), to |-> Arg(t).to]>>])
  /\ added' = added \cup {Arg(t).task}
  /\ UNCHANGED <<prog, queues, suspended, sema, doneFlag, values, joined, ran>>

\* The value becomes ready and its waiters go to addLocalTask: the list of the
\* worker that emplaces it, or addTask if the thread is foreign.
CallEmplace(t) ==
  /\ Calls(t, "emplace")
  /\ LET v == Arg(t).value
     IN  /\ ready' = ready \cup {v}
         /\ waiters' = [waiters EXCEPT ![v] = <<>>]
         /\ IF t \in Workers
            THEN /\ local' = [local EXCEPT ![t] = @ \o waiters[v]]
                 /\ SetTop(t, Past(t))
            ELSE /\ SetTop(t, [Past(t) EXCEPT
                       !.pc = IF waiters[v] = <<>> THEN "op" ELSE "add",
                       !.todo = [i \in DOMAIN waiters[v] |->
                                   [item |-> waiters[v][i], to |-> AnyWorker]]])
                 /\ UNCHANGED local
  /\ UNCHANGED <<prog, ring, spill, taskList, overflow, suspended, sema,
                 doneFlag, joined, added, ran>>

\* andThenSync: a waiter of a ready value runs on the caller's stack.
CallAndThen(t) ==
  /\ Calls(t, "andThen")
  /\ LET v == Arg(t).value
         it == TaskItem(Arg(t).task)
     IN  IF v \in ready
         THEN Run(t, Past(t), it) /\ UNCHANGED waiters
         ELSE /\ waiters' = [waiters EXCEPT ![v] = Append(@, it)]
              /\ SetTop(t, Past(t))
              /\ UNCHANGED ran
  /\ added' = added \cup {Arg(t).task}
  /\ UNCHANGED <<prog, queues, suspended, sema, doneFlag, ready, joined>>

\* await returns at once if all values are ready.
CallAwait(t) ==
  /\ Calls(t, "await")
  /\ IF Arg(t).values \subseteq ready
     THEN SetTop(t, Past(t))
     ELSE Goto(t, "register")
  /\ UNCHANGED <<prog, queues, suspended, sema, doneFlag, values, joined,
                 added, ran>>

\* Otherwise it registers a closure with each value and runs work items (or,
\* on a foreign thread, sleeps).  Values that became ready meanwhile run their
\* closure now; if all did, the last one posts the caller's own semaphore.
AwaitRegister(t) ==
  /\ At(t, "prog", "register")
  /\ LET missing == Arg(t).values \ ready
         n == Cardinality(missing)
         loop == IF t \in Workers
                 THEN LoopFrame("await", n)
                 ELSE [LoopFrame("foreign", n) EXCEPT !.pc = "sleep"]
     IN  /\ waiters' = [v \in Values |->
                          IF v \in missing
                          THEN Append(waiters[v], WakeItem(t, Len(stack[t]) + 1, v))
                          ELSE waiters[v]]
         /\ sema' = [sema EXCEPT ![t] = IF n = 0 THEN @ + 1 ELSE @]
         /\ CallWith(t, [Past(t) EXCEPT !.pc = "op"], loop)
  /\ UNCHANGED <<prog, queues, suspended, doneFlag, ready, joined, added,
                 ran>>

\* The closure of await: one value less to wait for, and at the last one the
\* awaiting thread's semaphore is posted, its suspended bit left alone.
WakeDecrement(t) ==
  /\ At(t, "wake", "decrement")
  /\ LET u == Top(t).thread
         d == Top(t).depth
         s == [stack EXCEPT ![u][d].left = @ - 1]
     IN  IF s[u][d].left = 0
         THEN stack' = [s EXCEPT ![t][Len(s[t])].pc = "post"]
         ELSE stack' = [s EXCEPT ![t] = Front(@)]
  /\ UNCHANGED <<prog, queues, suspended, sema, doneFlag, values, joined,
                 added, ran>>

WakePost(t) ==
  /\ At(t, "wake", "post")
  /\ sema' = [sema EXCEPT ![Top(t).thread] = @ + 1]
  /\ Return(t)
  /\ UNCHANGED <<prog, queues, suspended, doneFlag, values, joined, added,
                 ran>>

\* Faulty: a donating main thread does not run the items that are left.
CallShutdownAtOnce(t) ==
  /\ Calls(t, "shutdown")
  /\ \A u \in Foreign : stack[u] = <<>>
  /\ SetTop(t, [Past(t) EXCEPT !.pc = "done"])
  /\ UNCHANGED <<prog, queues, suspended, sema, doneFlag, values, joined,
                 added, ran>>

\* The main thread shuts the pool down once the other clients are finished.  A
\* donating main thread first runs the items it finds.
CallShutdown(t) ==
  /\ Calls(t, "shutdown")
  /\ \A u \in Foreign : stack[u] = <<>>
  /\ IF MainWillDonate
     THEN CallWith(t, [Past(t) EXCEPT !.pc = "done"], LoopFrame("shutdown", 0))
     ELSE SetTop(t, [Past(t) EXCEPT !.pc = "done"])
  /\ UNCHANGED <<prog, queues, suspended, sema, doneFlag, values, joined,
                 added, ran>>

ShutdownFlag(t) ==
  /\ At(t, "prog", "done")
  /\ doneFlag' = TRUE
  /\ Goto(t, "postAll")
  /\ UNCHANGED <<prog, queues, suspended, sema, values, joined, added, ran>>

ShutdownPost(t) ==
  /\ At(t, "prog", "postAll")
  /\ sema' = [u \in Threads |-> IF u \in Workers THEN sema[u] + 1 ELSE sema[u]]
  /\ Goto(t, "clear")
  /\ UNCHANGED <<prog, queues, suspended, doneFlag, values, joined, added,
                 ran>>

ShutdownClear(t) ==
  /\ At(t, "prog", "clear")
  /\ suspended' = {}
  /\ Goto(t, "join")
  /\ UNCHANGED <<prog, queues, sema, doneFlag, values, joined, added, ran>>

ShutdownJoin(t) ==
  /\ At(t, "prog", "join")
  /\ \A w \in Workers \ {t} : stack[w] = <<>>
  /\ joined' = TRUE
  /\ Goto(t, "op")
  /\ UNCHANGED <<prog, queues, suspended, sema, doneFlag, values, added, ran>>

\* The task returns, or the client is finished.
Finish(t) ==
  /\ At(t, "prog", "op")
  /\ Top(t).ip > Len(prog[Top(t).id])
  /\ Return(t)
  /\ UNCHANGED <<prog, queues, suspended, sema, doneFlag, values, joined,
                 added, ran>>

Execute(t) ==
  \/ CallAddTask(t) \/ CallEmplace(t) \/ CallAndThen(t) \/ CallAwait(t)
  \/ AwaitRegister(t) \/ WakeDecrement(t) \/ WakePost(t)
  \/ CallShutdown(t) \/ ShutdownFlag(t) \/ ShutdownPost(t) \/ ShutdownClear(t)
  \/ ShutdownJoin(t) \/ Finish(t)

Step(t) == RunItems(t) \/ AddTask(t) \/ Execute(t)

Terminated == (\A t \in Threads : stack[t] = <<>>) /\ UNCHANGED vars

Next == (\E t \in Threads : Step(t)) \/ Terminated

Spec == Init /\ [][Next]_vars

(***************************************************************************)
(* Work items do not block (docs/WorkQueueNonblocking.md), the system      *)
(* schedules every thread, and clients execute their program to its end.   *)
(***************************************************************************)
FairSpec == Spec /\ \A t \in Threads : WF_vars(Step(t))

-----------------------------------------------------------------------------
(* Properties *)

IsItem(it) == IF IsTask(it) THEN it.task \in Tasks
                            ELSE /\ it.thread \in Threads /\ it.depth \in Nat
                                 /\ it.value \in Values

\* Every variable keeps its type.
TypeOK ==
  /\ prog \in Programs
  /\ DOMAIN stack = Threads
  /\ \A w \in Workers : \A it \in Range(local[w]) \cup Range(ring[w]) \cup
                                   Range(spill[w]) : IsItem(it)
  /\ \A it \in taskList \cup Range(overflow) : IsItem(it)
  /\ \A v \in Values : \A it \in Range(waiters[v]) : IsItem(it)
  /\ suspended \subseteq Workers
  /\ sema \in [Threads -> Nat]
  /\ doneFlag \in BOOLEAN /\ joined \in BOOLEAN
  /\ ready \subseteq Values
  /\ added \subseteq Tasks /\ ran \in [Tasks -> Nat]

\* What thread t has in hand: the items it is still handing over, or the
\* closure of an await that it is about to count.
Hand(t) ==
  LET items(todo) == [i \in DOMAIN todo |-> todo[i].item]
  IN  IF stack[t] = <<>> THEN <<>>
      ELSE IF Top(t).is = "prog" /\ Top(t).pc \in {"add", "spill", "overflow"}
      THEN items(Top(t).todo)
      ELSE IF Top(t).is = "prog" /\ Top(t).pc \in {"take", "takeAny", "post"}
      THEN items(Tail(Top(t).todo))
      ELSE IF Top(t).is = "wake" /\ Top(t).pc = "decrement"
      THEN << WakeItem(Top(t).thread, Top(t).depth, Top(t).value) >>
      ELSE <<>>

\* The lists an item can be in, the shared one aside, and where it is.
Lists == ({"local", "ring", "spill"} \X Workers) \cup ({"waiters"} \X Values)
         \cup ({"hand"} \X Threads) \cup {<<"overflow", 0>>}
List(k) == CASE k[1] = "local" -> local[k[2]]
             [] k[1] = "ring" -> ring[k[2]]
             [] k[1] = "spill" -> spill[k[2]]
             [] k[1] = "waiters" -> waiters[k[2]]
             [] k[1] = "hand" -> Hand(k[2])
             [] k[1] = "overflow" -> overflow

Waits(it) == it \in taskList \/ \E k \in Lists : it \in Range(List(k))

\* No item is in two places at once.
NoneTwice ==
  \A k \in Lists :
    /\ \A i, j \in DOMAIN List(k) : List(k)[i] = List(k)[j] => i = j
    /\ Range(List(k)) \cap taskList = {}
    /\ \A m \in Lists \ {k} : Range(List(k)) \cap Range(List(m)) = {}

\* A task handed to the queue waits until it is run, and is run once: no
\* interleaving of adding, spilling, pumping and polling loses it.
TaskConserved == \A a \in added : ran[a] = IF Waits(TaskItem(a)) THEN 0 ELSE 1

Awaits(f) == f.is = "loop" /\ f.kind \in {"await", "foreign"}

\* numRemaining of an await counts the closures that have not run yet, and
\* when it is zero the values are ready (the assert at line 1265).
AwaitCounts ==
  \A t \in Threads : \A d \in DOMAIN stack[t] :
    Awaits(stack[t][d]) =>
      LET left == stack[t][d].left
          call == stack[t][d - 1]
      IN  /\ left = Cardinality({v \in Values : Waits(WakeItem(t, d, v))})
          /\ left = 0 => prog[call.id][call.ip - 1].values \subseteq ready

\* Neither tasks nor the closures of awaits are lost or duplicated, whatever
\* list they pass through.
WorkConserved == TypeOK /\ NoneTwice /\ TaskConserved /\ AwaitCounts

Asleep(w) == At(w, "loop", "sleep") /\ sema[w] = 0

\* A thread is about to post w's semaphore.
BeingWoken(w) ==
  \E t \in Threads :
    \/ At(t, "prog", "take") /\ Adding(t).to = w
    \/ At(t, "prog", "post") /\ Top(t).target = w
    \/ At(t, "wake", "post") /\ Top(t).thread = w
    \/ At(t, "prog", "postAll")

\* No worker sleeps on a task in its ring: the reasoning of lines 763-775 on
\* the two orders of markSuspended and takeSuspended.
NoSleepOnRing ==
  \A w \in Workers : Asleep(w) /\ ring[w] # <<>> => BeingWoken(w)

\* "Any task with taskId >= 0 always finds a place in either of these two
\* queues.  Wake up the thread just in case" (line 1092): nor on a task in its
\* spill list.
NoSleepOnSpill ==
  \A w \in Workers : Asleep(w) /\ spill[w] # <<>> => BeingWoken(w)

PoolThreads == Workers \ Clients

\* While a task is in the shared list, not all threads of the pool sleep, or
\* somebody is about to wake one: addTask kicks a worker "to make sure there's
\* at least one worker still awake to pick up work" (line 1118).
SomeWorkerAwake ==
  taskList # {} /\ (\A w \in PoolThreads : Asleep(w)) =>
    \E t \in Threads :
      \/ At(t, "prog", "takeAny")
      \/ \E w \in PoolThreads : BeingWoken(w)

\* "Drains remaining work items" (docs/WorkQueue.md line 113): when shutdown
\* has joined the workers, every task that was added has run.
ShutdownDrains == joined => \A a \in added : ran[a] = 1

\* The part of it that holds when the main thread donates: the shared list and
\* the local lists are empty, so the assertions of the destructors at lines
\* 1022 and 409 hold.  Without donation a worker may test doneFlag between the
\* main thread's last addTask and its own next poll.
SharedWorkDrained ==
  joined /\ MainWillDonate => taskList = {} /\ \A w \in Workers : local[w] = <<>>

\* Awaits return, shutdown joins every worker and all threads end.
AllThreadsEnd == <>(\A t \in Threads : stack[t] = <<>>)
=============================================================================
