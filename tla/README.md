# A TLA+ verification of MojoCocoa's runtime and serving stack

This directory models, in TLA+, the two parts of MojoCocoa where several actors
share state: the asynchronous runtime `AsyncRT` (C++) and the scheduling and KV
cache management of the MAX serving stack (Python). TLC checks the models on small
instances, and TLAPS proves the main safety properties of the runtime (ring,
asynchronous values, thread pool, timers), of the KV block pool, of one serving
worker and of disaggregated serving for every instance. Paths below are relative to `src/`; `max/...` stands for
`max/python/max/...`.

## 1. The system

MojoCocoa is the Mojo compiler (`KGEN`), its standard library (`mojo`), the MAX
libraries (`max`), a Cocoa IDE (`ide`), a game pane (`gamepane`) and the runtime
they execute on (`AsyncRT`, `Support`, `Cache`, `Init`). Compiled programs and the
compiler itself run their parallel work on AsyncRT. The serving stack in `max`
batches the requests of many clients onto a model, manages the memory in which the
model keeps the keys and values (KV) of every token, and can split prompt
processing and token generation between two nodes. These are the parts where a
test sees one order of events in millions, and where the other components rely on
guarantees written down only in comments.

### Inventory of AsyncRT

| component | state | operations | interacts with | what is hard | what makes it correct |
|---|---|---|---|---|---|
| affinity ring, `AsyncRT/include/AsyncRT/Support/LockFreeRingBuffer.h` | four 64-bit counters, slots | `enqueue`, `dequeue` | one per worker; any thread enqueues, the worker dequeues | claims, writes and publications of several threads interleave; comparisons use stale counters | counters stay ordered, a slot has one user, FIFO |
| `AsyncValue`, `AsyncRT/lib/Runtime/AsyncValue.cpp` | one atomic word (list head and state), payload area, list nodes, reference count | `andThen`, `emplaceAndDecRef`, `setToErrorAndDecRef`, resolution of indirect values | waiters are run directly or handed to the work queue | a waiter is registered while the value becomes ready; the first waiter is stored in the bytes of the value itself; nodes are freed while slots are being filled | each waiter is called once, only when ready, and eventually |
| thread pool, `AsyncRT/lib/Runtime/ThreadPoolWorkQueue.cpp` | per worker: local list, ring, spill list, semaphore; shared list, overflow list, bit set of suspended threads, done flag | `addTask`, `addLocalTask`, `await`, `shutdown`, the worker's loop | runs all work items; `await` uses `andThen`; tasks call everything recursively | going to sleep against adding work; nested awaits on one stack; shutdown against running tasks; lists that are full | no task lost or run twice, no lost wake-up, awaits return, shutdown ends |
| semaphore, `AsyncRT/lib/Support/Semaphore.cpp` | a count | `wait`, `post` | workers sleep on it | platform code | a post is never lost |
| timers, `AsyncRT/lib/Runtime/TimerHeap.cpp` | heap of entries, `running`, mutex, condition variable | `push`, `cancel`, `stop`, the timer thread | emplaces chains (AsyncValues) | a push or cancel against the timed wait | each chain is emplaced once, earliest first, on time; stop returns |
| single-threaded and delegating queues, `SingleThreadWorkQueue.cpp`, `DelegateThreadPoolWorkQueue.cpp` | a list of items; a wrapped pool | the `WorkQueue` interface | `CPUDevice` chooses one | re-entrant awaits | as for the pool |
| fork-join, algorithms, `ForkJoin.h`, `Algorithms.h` | atomic counters in AsyncValues | `parallelFor` and the like | work queue, AsyncValue | counters that reach zero once | the result is emplaced once, after all parts |
| device, `CPUDevice.cpp`, `HostSystem.cpp`, `CompactCPUDevicePtr.cpp` | table of devices, shutdown state | create, shut down, destroy | owns the work queue and the timers | life cycle | no use after destruction |
| allocators, GPU bindings, LLVM pool adaptor | | | | wrappers of libraries | |

### Inventory of the serving stack

| component | state | operations | interacts with | what is hard | what makes it correct |
|---|---|---|---|---|---|
| block pool, `max/pipelines/kv_cache/paged_kv_cache/block_pool.py`, `block_utils.py` | free queue, reference counts, block hashes, prefix cache | `alloc_block`, `free_block`, `touch`, `commit_into_prefix_cache`, `get_or_commit...`, `uncommit_block`, `reset_prefix_cache` | one per replica, used by the block manager | a block is shared, cached and free at different times, in long sequences of calls | a block is free exactly when nobody holds it; cache and hashes agree |
| token buffer and context, `max/pipelines/context/tokens.py`, `context.py` | window of tokens to process, placeholders for tokens still on the device | `chunk`, `advance_*`, `skip_processing`, `rewind_processing`, `update_with_future_token`, `realize_future_token`, `reset` | written by scheduler, cache manager and pipeline | three writers, tokens realized late | a token lands on the placeholder of its forward |
| block manager, `block_manager.py`, `cache_manager.py` | per request: blocks, hashes, commit index; pending transfers and offloads | `claim`, `alloc` (prefix reuse, copies, loads), `step` (commit), `offload`, `poll_transfers`, `release` | scheduler, pipeline, KV connectors, other replicas | eviction and sharing against forwards and transfers in flight | a hit brings the right KV; a running request finds its KV in its own blocks |
| overlap pipeline, `max/pipelines/lib/pipeline_variants/overlap_text_generation.py` | up to two batches in flight | `execute` | realizes tokens, commits blocks | the order of sync, forward, placeholder and commit | as above |
| batch constructor, `max/serve/scheduler/batch_constructor/*.py` | CE (prefill) and TG (decode) queues, requests waiting for a grammar or a load, bound requests | `enqueue_new_request`, `construct_batch`, `advance_requests`, `release_request` | token budget, grammar gate, KV cache | full memory: defer, preempt or give up; cancellation at any point | no request lost or in two places, no livelock, no needless death |
| scheduler, `max/serve/scheduler/text_generation_scheduler.py` | the iteration | `run_iteration` | request, response and cancel queues | one batch behind the device | clients get their tokens once and in order |
| worker proxy, `max/serve/worker_interface/zmq_interface.py` | open streams | `stream`, `cancel`, `response_worker` | the three queues | a stream is abandoned while answers are under way | every stream ends |
| decode and prefill schedulers, `decode_scheduler.py`, `prefill_scheduler.py`, `di_dispatchers.py` | requests in flight by phase, reserved blocks, counters; active transfers, deferred first tokens | messages both ways, reservation, expiry, cancellation, transfer completion | each other, over a network; a transfer engine that writes remote memory | replies lost or late, cancellation overtaking a transfer | a transfer keeps its blocks at both ends; one final answer; all blocks return |

The parts of the repository that are not modelled, and why, are listed in
`PROJECT.json` under `components`.

## 2. The modules

| module | models |
|---|---|
| `BoundedFifo` | what a bounded queue promises (abstract) |
| `LockFreeRingBuffer` | the affinity ring, one action per atomic access |
| `LockFreeRingBufferProofs` | theorems about it |
| `Lemmas` | facts about numbers, finite sets and sequences that several proofs use |
| `Future` | what an asynchronous value promises (abstract) |
| `AsyncValue` | the waiter list of a concrete AsyncValue, one action per atomic access |
| `AsyncValueProofs` | theorems about it |
| `ThreadPoolWorkQueue` | the thread pool, one action per access to shared state |
| `ThreadPoolWorkQueueProofs` | theorems: sleeping and waking, shutdown, conservation of work |
| `TimerHeap` | the timer thread and its clients, one action per critical section |
| `TimerHeapProofs` | theorems about it |
| `BlockPool` | the block pool, as operators on a pool record |
| `BlockPoolProofs` | theorems about any sequence of calls of it |
| `TokenBuffer` | a request's window and placeholders, as operators on a buffer record |
| `BlockManager` | the KV cache under admission, preemption, the overlap pipeline and a connector (uses the two above) |
| `Serving` | API process, scheduler and batch constructor of one worker (uses `TokenBuffer`) |
| `ServingProofs` | theorems about it |
| `Disaggregated` | a decode node and a prefill node |
| `DisaggregatedProofs` | theorems about it |
| `MCRing`, `MCAsyncValue`, `MCPool`, `MCTimer`, `MCBlocks`, `MCServing`, `MCDisagg` | instances for TLC |

Definitions whose comment begins with "Faulty:" are plausible bugs. Nothing uses
them in the models; each can be put in the place of the definition that follows
it, to see that a property notices (the pairs are in `PROJECT.json` under
`mutants`). Every module has a `TypeOK`; outside the ring it is a conjunct of the
module's conservation invariant. The proof modules add no model of the code.

**LockFreeRingBuffer.** `readIndex`, `writeIndex`, `consumed`, `published` and
`buffer` are the members of the class. `pc[t]` is the access that thread `t` makes
next; `cur`, `seen` and `item` are the locals of its call. A weak
compare-and-exchange may fail at any time (`EnqueueClaimFails`). The unsigned
difference of lines 52 and 73 wraps (`DiffAtLeast`). The counters themselves do
not: the code asserts (line 61) that they stay below 2^64. `Observe` updates a
history variable that records whether, during a `dequeue`, the ring was empty at
some moment or another consumer claimed an item.

**AsyncValue.** `word` is `waitersAndState`. The state is a number, as in the code,
where adding `NodeSlots` (4 in the code) leads from "initializing the inline
waiter" to "inline waiter present, next waiter needs a node". `payload` is the area
that holds the inline waiter first and the value afterwards. `node[w]` is the list
node allocated by the call for waiter `w`, so that a freed node is not confused
with a new one. A waiter that is run on the spot and one that is given to the work
queue both count as called. Value and error differ only in the final state.

**ThreadPoolWorkQueue.** A thread is a stack of frames: programs (a task or a client),
loops (`runItemsImpl` for a worker, an `await` or a `shutdown`) and the closures with
which an await registers. This keeps the recursion of the code: a task that awaits
runs other tasks on its own stack. A program is a sequence of calls of `addTask`,
`emplace`, `andThen`, `await` and `shutdown`; the MC module supplies the programs.
`ProgramAssumption` says of them what the types of the code enforce or its callers
keep to: a work item is handed over once (it is a `unique_function` that `addTask` and
`andThen` move from), and only the main thread calls `shutdown`, as its last call. The
closure of an await is told from the others by the thread, the depth of the await on
its stack and the value it was registered with. The model of a loop visits the lists
in the code's order: local, ring, shared, the same again while spinning, the stop
predicates, spill, overflow, `markSuspended`, ring, shared, early stop, sleep.
AsyncValue is used through what `Future` promises (settling a value hands its waiters
to `addLocalTask` in one step). An await registers its closures in one step. One round
of spinning stands for any number of rounds, since a round that finds nothing changes
nothing and the spin waiter performs at least one.

**TimerHeap.** A client's critical section is one action. The timer thread takes
one action per round of its loop and releases the mutex only while it waits. The
heap algorithms of the C++ library may leave any arrangement that is a heap
(`Heaps`). Both waits of the condition variable have a predicate, so a spurious
wake-up changes nothing or coincides with a pending notification; it has no action
of its own.

Common to these four: memory is sequentially consistent; back-off, logging, statistics,
names and profiling are left out. The MoodyCamel queue, semaphores, mutexes,
condition variables and clocks are external and modelled from their use: the
queue is a set (it gives no order between producers) whose `enqueue` may fail for
lack of memory and whose `try_dequeue` finds an item if there is one.

**BlockPool, TokenBuffer.** Records with one field per member of the Python
classes, and one operator per method. A hash is the token prefix it stands for,
because the code chains hashes; asserts of the code clear the field `ok`. Token
values are fixed per request (greedy generation), so a buffer is only lengths.

**BlockManager.** `dev[p]` is replica `p`: its pool, the content of its blocks
(`kv`: for each block the prefix whose last tokens it holds) and its transfers.
`req[r]` is what the block manager and the context know of a request, `stage[r]`
where the scheduler keeps it. An admission (`AdmitCE`, `AdmitTG`, `Preempt`) is the
scheduler's whole call of `alloc` with what follows from its result; `Execute` is
one `execute` of the pipeline in the code's order: drain, offloads and forward,
sync, placeholders, commit, and (without overlap) sync again. The device runs
forwards in order, so a forward takes effect when it is enqueued. The scheduler's
choice of request is left open here; `Serving` models it. A connector is a map
`host` from hashes to stored KV (external); an asynchronous one completes loads and
offloads at any later time (`TransferDone`).

**Serving.** One iteration of the scheduler is a sequence of steps (`pc`): drain the
request queue, plan, add prefills or decodes one request at a time, execute, drain
the cancellations. KV memory is a number of blocks here; what a set of requests holds
is counted as pairs of a request and a number (`HeldBlocks`). The comprehensions with
which the code filters its queues are one operator, `Keep`, which takes the elements
in the order of their indices. The API process acts only where the scheduler reads or
writes a queue, as the steps between touch none. Loads and grammar builds complete
at any of these points. `Configs` is the set of configurations the code can be
started in; `Modes` are those an instance explores.

**Disaggregated.** The two nodes are loops with phases `pcD` and `pcP` in the order
of `run_iteration`. `d2p` and `p2d` are the message channels, which keep their order
(one socket); `xfer` holds the posted transfers, which are not ordered with
messages. Decode blocks have identities, because the question is who may write
them. Prefill blocks are numbered and need no identity: `PrefillUsed` counts what
the active requests and the running transfers hold, and `PrefillFree` is the rest.
After a batch (`PrefillRun`) the prefill node posts a transfer and sends a reply for
one request after the other (`PrefillReply`), so the decode node can act between two
replies of one batch; `RepliesDone` ends the iteration. `Config` is the set of
configurations the code can be started in. `accepted` is a history variable.

## 3. What TLC checks

All runs are exhaustive. "Deadlock" is checked unless stated; a state in which all
threads have returned is marked as termination (`Terminated`). `MCTimer` does not
check it: there a behaviour may end when the clock reaches its bound, and
`StopReturns` and `EveryChainSettles` say that it does not end too early. Nor does
`MCServing`: the worker process may die for want of memory, and `OnlyGenuineOOM`
and `EveryStreamEnds` say when.

| run | instance | shows |
|---|---|---|
| `MCRing` | 2 producers, 2 consumers, 2 slots, 4 enqueues | types, `IndexOrder`, `NoSlotRace`, `SlotReady`; `EmptyWhenRefused`: an empty answer was true at some moment or lost a race; `RefinesFifo`: the ring is a bounded FIFO that gives each item to one caller; `ClaimsComplete`: no thread is stuck in a spin |
| `MCAsyncValue` | 4 waiters, 3 slots per node | `NoWaiterLost`: no waiter lost or called twice; `NodesSafe`: claimed slots are distinct, their node is alive, none is called empty; `PayloadSafe`: one writer of the payload area, and the value outlives its users; `RefinesFuture` with liveness |
| `MCPool` | 2 workers, rings of 1 slot, foreign main thread, 3 programs (spilling, mixed placement, an await inside a task) | `WorkConserved`, no lost wake-up (`NoSleepOnRing`, `SomeWorkerAwake`), no deadlock, `AllThreadsEnd` |
| `MCPoolDonate` | main thread is worker 0, 1 more worker, 1 foreign client, 6 programs; memory may run out for the task that is added late | `WorkConserved` with waiters run through `andThen`, with donation and with the overflow list; `SharedWorkDrained`: after a shutdown in which the main thread donates itself, shared and local lists are empty |
| `MCTimer` | 3 chains, clock 0..2 | `ChainConserved`, `FiresEarliest`, `EveryChainSettles`, `StopReturns` |
| `MCBlocks` | 3 requests (two share a first block), 4 blocks of 2 tokens per replica, chunks of 3, batches of 2, 5 configurations: one and two batches in flight, synchronous and asynchronous connector, two replicas | `BlocksConserved`, `CacheConsistent` (with the commit index), `HitsRight`: cached and stored KV is what the hash says; `KVHoldsPrefix`: a runnable request's KV is in its blocks; `ForwardFits`: a forward has a slot for each token and shares none it writes; `ChainsWhole`: parents outlive children in the cache; `TokensInPlace` |
| `MCServing` | 3 requests, batches of 2, queue of 2, 7 configurations: overlap, decode-first without overlap, in-flight batching with a budget of one token, chunking, loads, grammars, a pool too small; the last four with cancellation or death | `NoBlockLost`, `OnePlace`, `BatchBacked`, `StreamExact`, `OnlyGenuineOOM`, `EveryStreamEnds`, `AbandonedFreed` |
| `MCDisagg` | 3 requests, 2 replicas of 2 decode blocks, 2 prefill blocks, 5 configurations: overlap on and off, cancellation, lost replies with a time to live | `Bookkeeping` (counters and block ownership), `TransferSafe`, `PrefillSurvives`, `FinalOnce`, `AllSettles` |

Why the bounds are enough for the cases that matter: four enqueues on two slots
wrap every slot twice, and two threads on either side meet in every race between
claim, write and publication. Four waiters with three slots per node fill a node
and push a second one (a producer that closes the inline area first makes the
first waiter push a node), while a third waiter is between claim and mark. Rings of
one slot spill at the second task. Two workers are the smallest pool in which one
sleeps while the other works and in which a task can be added across workers. Three
chains are the smallest heap in which an entry leaves from the middle. In
`MCBlocks` the three requests together need nine blocks of four, so eviction,
preemption and failed allocation all happen; prompts of 3 to 5 tokens in blocks of
2 have partial last blocks, hits that end inside the prompt, and chunks that end
inside a block. In `MCServing` pools of 5 to 9 blocks lie between the need of the
largest request and that of all (2 is below both). In `MCDisagg` a transfer can be
late for every other event, and two replicas make the counters matter. Named
bounds are `MaxEnqueues`, `MaxTime`, the finite set `Programs`, `MayFail` (the tasks
for which an enqueue may run out of memory), the lengths of the streams
(`Stream`, `Goal`), and `Modes`, the set of configurations, each an initial state
of one run. In `MCPoolDonate` `MayFail` is one task nobody waits for: a task in the
overflow list wakes no worker and may wait there until some thread next looks, as
the comment at `ThreadPoolWorkQueue.cpp:1155` says.

Fairness. A thread inside a call is scheduled (`WF` of its steps); nobody is
obliged to start a call, and a weak exchange may fail for ever, so that lock-free
claims are not claimed to succeed. In `ThreadPoolWorkQueue!FairSpec` clients also
execute their programs to the end, because `AllThreadsEnd` is about the end; work
items do not block (`AsyncRT/docs/WorkQueueNonblocking.md`). In `TimerHeap` time
passes, and spurious wake-ups are never relied upon. In `Serving` and
`Disaggregated` the worker loops call `run_iteration` for ever and the response
task of the API process keeps reading; grammar builds, loads and transfers
complete (`SF`, because the model lets them act only at certain points of the
loop); and a request that stays in its phase expires where a time to live is
configured (`SF` of `Evict`, which is enabled in one phase of the loop). No client
is obliged to submit or to cancel anything.

### Disagreements between code and comments

Each of these runs ends in a counterexample that the code can follow.

* `MCPoolStaleBit` (`SomeWorkerAwake`): `await`'s closure posts a semaphore and
  leaves the bit in `suspendedThreads`, and a worker that finds work after marking
  itself does not unmark itself either. A donating main thread comes back from
  `await` with the bit set; the next `addTask` takes that bit and wakes the main
  thread, which runs no items, while the pool's own worker sleeps on.
* `MCBlocksAhead` (`WindowFits`): with two placeholders pending, `_compute_seq_len`
  (`block_manager.py:206`) subtracts two positions, but the window of the forward it
  sizes still ends at the second placeholder. At a block boundary the forward's
  last position has no block and its KV goes to the null block. For this reason
  `CachedKVRight`, `KVHoldsPrefix` and `ForwardFits` speak of at most one batch in
  flight; the other properties cover two.
* `MCServingFatal` (`FatalOnlyWhenStuck`): a chunked prefill waiting in the CE queue
  holds blocks and could go on, but above 90% usage decoding has priority, and a
  lone decoding request that finds no block ends the worker
  (`text_batch_constructor.py:1186` does not look at the CE queue).
* `MCDisaggCancel` (`NoForeignWrite`): the prefill node posts the transfer before it
  sends the reply, so a request that is still "awaiting prefill" on the decode node
  may be the target of a running transfer. Its cancellation frees the blocks at once
  (`decode_scheduler.py:368`) and another request gets them.

More configurations of the same modules show smaller disagreements; each is run
with `tlc -config <name>.cfg <module>` and ends in a counterexample.

* `MCPoolSpill.cfg` (`MCPool`, `NoSleepOnSpill`): a worker pumps its spill list
  *before* `markSuspended` and polls only the ring and the shared list after it. A
  task spilled in between finds the bit clear, so nobody posts, and the worker
  sleeps on it (`ThreadPoolWorkQueue.cpp:762`).
* `MCPoolLateAffinity.cfg` (`MCPool`, `ShutdownDrains`): a donating main thread stops
  draining when it finds nothing; a task still running on another worker may then
  add a task for worker 0, which nobody runs. For the same reason
  `SharedWorkDrained` speaks only of the shared and the local lists.
* `MCPoolBuried.cfg` (`MCPool`, `AllThreadsEnd`): an await whose values are ready
  cannot return while another task's await runs on top of it on the same stack; if
  that one waits for the first, both wait for ever.
* `MCTimerLate.cfg` (`MCTimer`, `OnTime`): the predicate of the timed wait is
  `!running`, so a push with an earlier deadline does not shorten the wait.
* `MCBlocksRace.cfg` (`MCBlocks`, `StepAsserts`): with an asynchronous connector two
  loads of one hash can be in flight for the same request (its allocation failed
  after the first load was started and was retried); the commit index and the
  hashes then disagree, and the assert at `block_manager.py:1310` fails.
* `MCServingStarve.cfg` (`MCServing`, `EveryStreamEnds`): under a strategy that sets a
  priority override, a prefill that does not fit produces an empty batch, because
  the decode requests that would free the memory are tried only without an override
  (`text_batch_constructor.py:1273`).

Visible in the models, without a run of their own:

* `enqueue` of the ring may report "full" although there is room, when its stale
  index has been overtaken by `consumed` (the unsigned difference wraps); the caller
  then spills, so nothing is lost, and `IndexOrder` shows that the error is never in
  the other direction.
* `poll_transfers` unpins a chain parent first, so with an asynchronous connector a
  parent can be evicted before its child (`ChainsWhole` excepts it).
* A cancellation that is read while its request is still in the request queue is
  dropped, and the request runs to its end (`AbandonedFreed` allows this, as its
  memory is freed then). The decode node ignores a cancellation of a request it has
  not reserved for yet.
* Without donation a worker may test `doneFlag` between the last `addTask` of the main
  thread and its own next poll, and the task stays in the shared list; the comment at
  `ThreadPoolWorkQueue.cpp:1057` calls this "as good a synchronization we can
  guarantee". `SharedWorkDrained` therefore speaks of a donating main thread.
* After `doneFlag` is set a wake-up can be lost. A worker inside an `await` consumes the
  post of `shutdown`, finds nothing and marks itself again; `shutdown` then clears the
  set of suspended threads (`ThreadPoolWorkQueue.cpp:1068`); a task added to that
  worker's ring later finds the bit clear and posts nobody. The theorems about
  sleeping end at `doneFlag` for this reason.
* Requests whose loads land in one iteration return to the front of the CE queue in
  reverse order.
* A request that is done with its first token still gets one decode step and with it
  a second final result (`FinalOnce` allows two for those).
* Expiry frees decode blocks that a late transfer may still write (`TransferOwnsBlocks`
  excepts it), and a cancellation sent for a request whose reply is already out
  stays in the prefill node's set of outstanding cancellations.

## 4. What TLAPS proves

Each theorem holds for every value of the constants that satisfies the named
assumptions of its module, which TLC also evaluates on the instances of section 3.
Every inductive invariant was checked with TLC as an invariant of those instances
before it was proved. `Lemmas` holds the shared facts: a nonempty set of naturals has
a least element, a finite set has subsets of every smaller size, what appending,
taking, concatenating, cutting and reversing do to the elements of a queue.

| module | theorems | assumptions |
|---|---|---|
| `LockFreeRingBufferProofs` | `TypeCorrect`, `CountersOrdered` (`IndexOrder`), `SlotsExclusive` (`NoSlotRace`), `SlotsReady` (`SlotReady`), `RefusalsExcused` (`EmptyWhenRefused`), `ImplementsFifo` (`RefinesFifo`) | `SizeAssumption`, `EnqueuesAssumption` |
| `AsyncValueProofs` | `AsyncInvariant`, `NoWaiterIsLost` (`NoWaiterLost`), `NodesAreSafe` (`NodesSafe`), `PayloadIsSafe` (`PayloadSafe`), `ImplementsFuture` (the safety part of `RefinesFuture`) | `NodeSlotsAssumption`, `WaitersAssumption`, `ValueAssumption` |
| `ThreadPoolWorkQueueProofs` | `PoolInvariant`, `RingWakeNotLost` (`NoSleepOnRing` until `doneFlag`), `PoolStaysAwake` (`SomeWorkerAwake` until `doneFlag`, without donation), `LifeInvariant`, `WorkIsDrained` (`SharedWorkDrained`), `WorkInvariant`, `WorkIsConserved` (`WorkConserved`) | `ConfigAssumption`; for the last four also `ProgramAssumption` |
| `TimerHeapProofs` | `TimerInvariant`, `ChainsConserved` (`ChainConserved`), `EarliestFirst` (`FiresEarliest`, an action property) | `TimeAssumption` |
| `BlockPoolProofs` | `PoolStaysConsistent` (`FreeQueueExact`, `CacheKeyed` and the asserts, for any sequence of calls) | `SizesPositive` |
| `ServingProofs` | `ServingInvariant`, `NoBlockIsLost` (`NoBlockLost`), `EveryRequestInOnePlace` (`OnePlace`), `EveryBatchIsBacked` (`BatchBacked`), `EveryStreamIsExact` (`StreamExact`), `WithoutChunksOnlyGenuineOOM` (`OnlyGenuineOOM` without chunks and loads) | `ServingAssumption` |
| `DisaggregatedProofs` | `DisaggInvariant`, `BooksKept` (`Bookkeeping`), `TransfersSafe` (`TransferSafe`), `FinalsOnce` (`FinalOnce`), `PrefillAlive` (`PrefillSurvives`, if each request alone fits the prefill pool) | `SizeAssumption` |

**Ring.** None of the properties is inductive: that `writeIndex` stays within a ring of
`consumed` depends on what a thread remembers between its comparison and its exchange.
`RingInv` adds `Bounds` (an index about to be claimed is inside the window, because the
remembered counter was true once and `consumed` and `published` only grow; an owned
index lies between `published` and `writeIndex`, or between `consumed` and
`readIndex`), `Owners` (no index has two owners) and `Contents` (which slots of the
window are empty and which are full). `SlotDistinct` and `SlotWraps` do the modular
arithmetic, `WindowDistinct` and `OwnersApart` carry it over to owners, `StoreLocal`
says that a store disturbs no other slot. That the size is a power of two is not
needed. For `RefusalsExcused`, `CallInv` adds what a `dequeue` in progress has seen: unless
it is excused already, the counter it loaded was ahead of `readIndex`. In the
refinement, publishing is `Put`, claiming `readIndex` is `Take`, the end of `dequeue` is
`Return`, and all other steps stutter, because the abstract queue is the slots from
`readIndex` to `published` and `RingInv` says that no step but these changes them.

**AsyncValue.** `AsyncInv` says what each phase of the producer may rely on
(`ProducerInv`), what a caller may rely on between two atomic accesses (`ThreadInv`: its
node is not in use, its loaded word is not ahead of the current one, a claimed slot is
its own), which slots of a node are claimed, filled and emptied (`NodeInv`), that a
waiter waits in one place (`PlaceInv`), that the allocated nodes are those of one list
without a cycle (`ChainInv`) and what the reference count counts (`RefInv`). All parts
are needed together: the producer may delete a node because every claimed slot was
marked, which is known because a claim is counted in the word or in `numValid`. The
`Reach` lemmas treat the list as the least closed set, so no induction is needed.

**Thread pool.** The argument is the order in which a worker goes to sleep: mark, poll
the ring, poll the shared list, sleep. `PoolInv` says that from the mark on the worker
is marked or whoever took the mark is going to post it (`MarkInv`), that from the poll
of its ring on a task in it comes with a thread that will take the mark or post
(`RingInv`), and the same for the last worker's poll of the shared list (`ListInv`). A
frame below the innermost one never is in the middle of any of these (`Resting`), so
the recursion of awaits is covered by looking at the tip of each stack. `AwakeStep` and
`DrowsyStep` reduce every action to one of the two kinds of thread. After `doneFlag`,
and with a main thread that is also worker 0, the statements are false for reasons
given in section 3, so the theorems exclude exactly that.

`WorkIsDrained` rests on `LifeInv`. Its first part, `TypeInv`, gives every frame of
every stack a type (`FrameOK`): a client's program is the first frame of its thread
and all other programs are tasks', only the main thread's first frame is in
`shutdown`, and a worker's first loop ends only after `doneFlag`. `LocalInv` says that
a worker past its local list has emptied it and a thread that has ended left none;
`DrainInv` follows the main thread from its own last loop through `doneFlag` to the
join: from then on work can be left only while some worker has yet to look for it, and
a worker ends only after looking. Every action is reduced to a kind of move
(`LoopMoved`, `ProgMoved`, `ClosingMoved`), and the move of one thread is set against
the duty of the others.

`WorkIsConserved` rests on `WorkInv`. Where an item waits is a set of lists, so
`Effect(F, G)` (the items `F` come to wait, `G` cease to, none is in two places) is
all that is said of a step's queue operations; the queue lemmas give it for appending,
taking, pumping and handing over. `TaskInv` adds to `NoneTwice` and `TaskConserved`
why a task is not handed over again: a program is executed by one frame, which was
started once (`OneFrame`, `StartedInv`), and the calls it has not reached yet have not
been made (`AheadInv`). `AwaitInv` says that a waiting closure has its await, that
`numRemaining` counts the waiting ones, and that each value the await named is ready
or still holds the closure. For that the await must not return early. On a worker the
loop tests `numRemaining`; on a foreign thread only the semaphore says so, hence
`SemaInv`: the semaphore of a foreign thread is posted at most once, by the closure
that counted to zero, and only while the thread sleeps in the await the closure
belongs to. All steps but two leave the closures where they are (`Moves`);
`RegisterStep` and `DecrementStep` treat those two.

**TimerHeap.** `HeapInv`: the vector is a heap, a chain has at most one entry, with the
deadline it was pushed with, and a chain that was pushed has an entry until it is
emplaced. `HeapMinimum` (the root is least) is shown by taking the least index that
contradicts it and looking at its parent; `RemoveEntry` covers the removal from the middle by swap,
pop and re-heapify in `cancel`.

**BlockPool.** One lemma per method: called within the contract its asserts state, it
keeps `PoolOK` (types, `FreeQueueExact`, `CacheKeyed`) and says what it did to counts and
hashes; `AllocKeeps` shows that the two asserts of `alloc_block` follow from the
invariant and that the block it returns is held by nobody and named by no cache entry,
and `GetOrCommitKeeps` that the caller comes away holding the cached block. The
theorem is about a pool and arbitrary such calls; that `BlockManager` keeps to the
contract is what its runs check (the field `ok`).

**Serving.** `ServingInv` has a part for each thing that a step reads from one variable
and relies on in another. `Places` says that the CE queue, the TG queue, the cordon and
the batch are disjoint but for decoding members of the batch, that together they are
the bound requests, and that while a decode batch is built its candidates are decoding
requests not chosen yet: without that, preempting the last candidate could take
blocks from a member of the batch. `FreshApart` and the last part of `BufOK` say that a
request not bound yet has its prompt, no block and no token on its way, which is what
binding it needs. `BufOK` also says that a buffer has a placeholder exactly if its
request was in the batch that is not synchronized yet and has generated a token since
its last reset: hence preemption drops at most one placeholder, the token computed
again gets the number that was dropped, and a request preempted after its batch was
sent is not answered. `Blocks` counts, `Backed` follows each member of the batch from
the moment it is chosen, and `StreamInv` says of the response queue what `StreamExact`
says, plus that nothing is under way for a request not bound yet. The lemmas about
`Having` and `Exact` follow the queue of responses at both ends; `KeepFacts` says what
`Keep` keeps (the rank of an index is a bijection, `RankFacts`), and the lemmas about
`Cells` what taking and releasing do to the count. One lemma per action (`DrainStep`,
`PlanStep`, `BatchingStep` for the ones that build the batch, `ScheduleStep`,
`CancelStep`, ...) then rests on a lemma that says which requests it moves.

`WithoutChunksOnlyGenuineOOM` has two conditions because `OnlyGenuineOOM` is false
without either: a chunked prefill, or a request whose load has landed, waits in the CE
queue with its blocks while a lone decode finds none and gives up. TLC shows the first
in the configuration of `MCServingFatal`, and the second with two requests of two
tokens, loads and a pool of four blocks. With neither, only decoding requests hold
blocks between two batches (`GenuineInv`), so the last one has the pool for itself
(`OnlyHolder`).

**Disaggregated.** `PipeInv` follows a request through the stages of its prefill
(pending, asked for, queued, batched, awaiting its output, replied): it is in at most
one, once, so it is answered at most once. `DstInv` says that the destination blocks
that travel with a request that is still in flight are the ones it owns now, wherever
they are written down; without it `TransferSafe` is not inductive, since a transfer is
posted long after the blocks were chosen. `HeldInv` says who holds prefill blocks,
`FinalInv` how many final results a request in each situation can have had. That a
request is reserved only once is what excludes a late reply to an earlier
reservation. `PrefillAlive` follows because with nothing batched and nothing in flight
no block is held.

Only model-checked, and why:

* all liveness, and the fairness part of `RefinesFuture`: beyond the prover;
* `NoSleepOnSpill`, `SomeWorkerAwake` with donation and the other statements that the
  runs of section 3 refute;
* the properties of `BlockManager`: its operations are folds over sequences, about
  which nothing can be proved here without induction over data;
* `OnlyGenuineOOM` with chunks or loads: it holds in the configurations of `MCServing`
  and not in all.

## 5. Not modelled

AsyncRT: indirect AsyncValues and destructors; groups of workers
(`multicastFactor > 0`, pools of more than 64 workers); the single-threaded and
delegating queues; fork-join and the parallel algorithms; the life cycle of the
device; the platform code of the semaphore, and with it whether `post` may still use
a semaphore that a foreign `await` has already destroyed
(`ThreadPoolWorkQueue.cpp:1259`); weak memory: for instance the store of the shared
list's `enqueue` against the load of `suspendedThreads` that follows it.

Serving: speculative decoding and draft tokens; LoRA adapters; several replicas in
`Serving`, with the planner of data-parallel prefill and the padding of batches; the
budget of total context tokens; structured-output bitmasks; preemption on the decode
node, the stall watchdog, destination blocks that are already cached and chunked
prefill on the prefill node in `Disaggregated`; the hybrid (Jenga) pool; the insides
of connectors and of the transfer engine; the embeddings and one-shot schedulers.

Outside TLC's reach or without state to explore: graph building, layers, kernels,
model architectures, the interpreter, the routes that parse and format HTTP, the
compiler, the IDE and the game pane. They are by far the largest part of the
repository's lines, so the share of the whole that these models cover is small.

## 6. Plan

1. More of the system: several replicas in `Serving`; the Jenga pool as a variant of
   `BlockPool`; indirect values in `AsyncValue`; `SingleThreadWorkQueue`;
   `DelegateThreadPoolWorkQueue` and the life cycle of `CPUDevice`; `ForkJoin` and
   `Algorithms.h` over `Future`; `Semaphore` with its mutex, as a refinement of the
   counter used by the pool.
