----------------------------- MODULE AsyncValue -----------------------------
(***************************************************************************)
(* AsyncRT/lib/Runtime/AsyncValue.cpp and AsyncRT/Runtime/AsyncValue.h: a  *)
(* value that will be produced later, with its lock-free list of waiters.  *)
(*                                                                         *)
(* The first waiter is stored inline, in the bytes of the value that does  *)
(* not exist yet.  Further waiters go to a linked list of nodes of         *)
(* NodeSlots waiters each.  The head of the list and the state share one   *)
(* atomic word, and the state says how many slots of the head node have    *)
(* been claimed, so that a claim is one compare-and-exchange.  A claimed   *)
(* slot is filled afterwards; its bit in the node says that it has been.   *)
(*                                                                         *)
(* One thread, the producer, executes emplaceAndDecRef or                  *)
(* setToErrorAndDecRef.  Each waiter w stands also for the thread that     *)
(* executes andThen(w), and for the list node that call may allocate.  One *)
(* action is one atomic access of the code, with the thread-local work up  *)
(* to the next one.  A compare-and-exchange that fails spuriously leaves   *)
(* everything unchanged and is retried, so it is a stuttering step.        *)
(***************************************************************************)
EXTENDS Integers, FiniteSets

CONSTANTS Waiters,     \* the waiters (and the threads that register them)
          NodeSlots,   \* waiters in a node, 4 in the code
          None,        \* no waiter, no node
          Value        \* what the producer constructs: a payload or an error

ASSUME NodeSlotsAssumption == NodeSlots \in Nat /\ NodeSlots > 1
ASSUME WaitersAssumption == IsFiniteSet(Waiters) /\ None \notin Waiters
ASSUME ValueAssumption == Value \notin Waiters /\ Value # None

\* The state enumeration, in the code's order and numbering.
Unconstructed == 0
InitializingInlineWaiter == 1
Valid(n) == n + 1                  \* n claimed slots, 1 <= n <= NodeSlots
Available == NodeSlots + 2
Error == NodeSlots + 3
State == 0..(NodeSlots + 3)

IsReady(s) == s \in {Available, Error}
HasInlineWaiter(s) == s >= Valid(1) /\ s <= Valid(NodeSlots)
NumValid(s) == s - 1

VARIABLES
  word,      \* waitersAndState: the head node and the state
  payload,   \* the payload area: None, the inline waiter, or Value
  node,      \* the list nodes, named after the waiter whose call made them
  pc,        \* what the andThen call of each waiter does next
  old,       \* its oldValue
  ppc,       \* what the producer does next
  extra,     \* the producer's inlineWaiter
  list,      \* the producer's position in the list it detached
  numValid,  \* how many slots of that node were claimed
  index,     \* and the slot it runs next
  refcount,  \* references to the value: the producer's and one per caller
  calls      \* history: how often each waiter has been called or scheduled

vars == <<word, payload, node, pc, old, ppc, extra, list, numValid, index,
          refcount, calls>>

Word(p, s) == [ptr |-> p, state |-> s]

\* slot 0 is firstWaiter, slots 1..NodeSlots-1 the array waiters[];
\* init is the bit set waitersCompletelyInitialized.
NoNode == [live |-> FALSE, slot |-> [i \in 0..NodeSlots-1 |-> None],
           init |-> {}, next |-> None]

Init == /\ word = Word(None, Unconstructed)
        /\ payload = None
        /\ node = [w \in Waiters |-> NoNode]
        /\ pc = [w \in Waiters |-> "idle"]
        /\ old = [w \in Waiters |-> Word(None, Unconstructed)]
        /\ ppc = "idle"
        /\ extra = None
        /\ list = None
        /\ numValid = 0
        /\ index = 0
        /\ refcount = 1 + Cardinality(Waiters)
        /\ calls = [w \in Waiters |-> 0]

\* The waiter is run on this thread, or given to the work queue.  A slot that
\* holds no waiter is an empty function, and calling it calls nobody.
CallWaiters(W) == calls' = [w \in Waiters |-> IF w \in W THEN calls[w] + 1
                                                         ELSE calls[w]]

\* The andThen call returns and its caller drops its reference to the value.
Return(w) == /\ pc' = [pc EXCEPT ![w] = "returned"]
             /\ refcount' = refcount - 1

-----------------------------------------------------------------------------
(* andThen *)

producer == <<ppc, extra, list, numValid, index>>

\* Faulty: calls the waiter at once if the head node is full.
AndThenFull(w) ==
  /\ pc[w] = "idle"
  /\ old' = [old EXCEPT ![w] = word]
  /\ IF word.state >= Valid(NodeSlots)
     THEN CallWaiters({w}) /\ Return(w)
     ELSE /\ pc' = [pc EXCEPT ![w] = CASE word.state = Unconstructed -> "inline"
                                       [] OTHER -> "spin"]
          /\ UNCHANGED <<calls, refcount>>
  /\ UNCHANGED <<word, payload, node, producer>>

AndThen(w) ==
  /\ pc[w] = "idle"
  /\ old' = [old EXCEPT ![w] = word]
  /\ IF IsReady(word.state)
     THEN CallWaiters({w}) /\ Return(w)
     ELSE /\ pc' = [pc EXCEPT ![w] = CASE word.state = Unconstructed -> "inline"
                                       [] OTHER -> "spin"]
          /\ UNCHANGED <<calls, refcount>>
  /\ UNCHANGED <<word, payload, node, producer>>

\* Claim the payload area for the inline waiter, or find out that the value
\* left the unconstructed state.
ClaimInline(w) ==
  /\ pc[w] = "inline"
  /\ IF word = old[w]
     THEN /\ word' = Word(word.ptr, InitializingInlineWaiter)
          /\ pc' = [pc EXCEPT ![w] = "construct"]
          /\ UNCHANGED old
     ELSE /\ old' = [old EXCEPT ![w] = word]
          /\ pc' = [pc EXCEPT ![w] = IF word.state = Unconstructed
                                     THEN "inline" ELSE "spin"]
          /\ UNCHANGED word
  /\ UNCHANGED <<payload, node, producer, refcount, calls>>

ConstructInline(w) ==
  /\ pc[w] = "construct"
  /\ payload' = w
  /\ pc' = [pc EXCEPT ![w] = "announce"]
  /\ UNCHANGED <<word, node, old, producer, refcount, calls>>

\* fetch_add(4), and the call returns.
AnnounceInline(w) ==
  /\ pc[w] = "announce"
  /\ word' = [word EXCEPT !.state = @ + NodeSlots]
  /\ Return(w)
  /\ UNCHANGED <<payload, node, old, producer, calls>>

\* Wait while another thread constructs the inline waiter.
SpinInitializing(w) ==
  /\ pc[w] = "spin"
  /\ IF old[w].state = InitializingInlineWaiter
     THEN /\ word.state # InitializingInlineWaiter
          /\ old' = [old EXCEPT ![w] = word]
     ELSE UNCHANGED old
  /\ pc' = [pc EXCEPT ![w] = "loop"]
  /\ UNCHANGED <<word, payload, node, producer, refcount, calls>>

\* The value turned out to be ready: run the waiter.
RunNow(w) ==
  /\ pc[w] = "loop"
  /\ IsReady(old[w].state)
  /\ CallWaiters({w})
  /\ Return(w)
  /\ UNCHANGED <<word, payload, node, old, producer>>

\* moveState to one more claimed slot of the head node, or look again.
ClaimSlot(w) ==
  /\ pc[w] = "loop"
  /\ HasInlineWaiter(old[w].state)
  /\ NumValid(old[w].state) < NodeSlots
  /\ IF word = old[w]
     THEN /\ word' = Word(word.ptr, word.state + 1)
          /\ pc' = [pc EXCEPT ![w] = "fill"]
          /\ UNCHANGED old
     ELSE /\ old' = [old EXCEPT ![w] = word]
          /\ UNCHANGED <<word, pc>>
  /\ UNCHANGED <<payload, node, producer, refcount, calls>>

\* setWaiter: the waiter moves into the slot, then the slot's bit is set.
FillSlot(w) ==
  /\ pc[w] = "fill"
  /\ node' = [node EXCEPT ![old[w].ptr].slot[NumValid(old[w].state)] = w]
  /\ pc' = [pc EXCEPT ![w] = "mark"]
  /\ UNCHANGED <<word, payload, old, producer, refcount, calls>>

MarkSlot(w) ==
  /\ pc[w] = "mark"
  /\ node' = [node EXCEPT ![old[w].ptr].init =
                @ \cup {NumValid(old[w].state)}]
  /\ Return(w)
  /\ UNCHANGED <<word, payload, old, producer, calls>>

\* Faulty: the new node does not link the old head.
PushNodeUnlinked(w) ==
  /\ pc[w] = "loop"
  /\ old[w].state = Valid(NodeSlots)
  /\ word = old[w]
  /\ node' = [node EXCEPT ![w] =
                [NoNode EXCEPT !.live = TRUE, !.slot[0] = w]]
  /\ word' = Word(w, Valid(1))
  /\ Return(w)
  /\ UNCHANGED <<payload, old, producer, calls>>

\* The head node is full (or there is none): push a node that starts with w.
PushNode(w) ==
  /\ pc[w] = "loop"
  /\ old[w].state = Valid(NodeSlots)
  /\ word = old[w]
  /\ node' = [node EXCEPT ![w] =
                [NoNode EXCEPT !.live = TRUE, !.slot[0] = w,
                               !.next = old[w].ptr]]
  /\ word' = Word(w, Valid(1))
  /\ Return(w)
  /\ UNCHANGED <<payload, old, producer, calls>>

\* The exchange failed.  The new node is deleted; if the value became ready
\* its waiter is scheduled, otherwise it goes round again.
PushNodeFails(w) ==
  /\ pc[w] = "loop"
  /\ old[w].state = Valid(NodeSlots)
  /\ word # old[w]
  /\ IF IsReady(word.state)
     THEN CallWaiters({w}) /\ Return(w) /\ UNCHANGED old
     ELSE /\ old' = [old EXCEPT ![w] = word]
          /\ UNCHANGED <<pc, calls, refcount>>
  /\ UNCHANGED <<word, payload, node, producer>>

-----------------------------------------------------------------------------
(* emplaceAndDecRef and setToErrorAndDecRef *)

\* Faulty: does not wait for a waiter that is being constructed.
RemoveInlineWaiterNow ==
  /\ ppc = "idle"
  /\ \/ /\ word.state \in {Unconstructed, InitializingInlineWaiter}
        /\ word' = Word(None, Valid(NodeSlots))
        /\ UNCHANGED <<payload, extra>>
     \/ /\ HasInlineWaiter(word.state)
        /\ extra' = payload
        /\ payload' = None
        /\ UNCHANGED word
  /\ ppc' = "construct"
  /\ UNCHANGED <<node, pc, old, list, numValid, index, refcount, calls>>

\* removeAnyInlineWaiter: close the payload area to inline waiters.  While a
\* thread is constructing one, the producer spins.
RemoveInlineWaiter ==
  /\ ppc = "idle"
  /\ \/ /\ word.state = Unconstructed
        /\ word' = Word(None, Valid(NodeSlots))
        /\ UNCHANGED <<payload, extra>>
     \/ /\ HasInlineWaiter(word.state)
        /\ extra' = payload
        /\ payload' = None
        /\ UNCHANGED word
  /\ ppc' = "construct"
  /\ UNCHANGED <<node, pc, old, list, numValid, index, refcount, calls>>

\* The payload or the diagnostic is constructed where the waiter was.
ConstructPayload ==
  /\ ppc = "construct"
  /\ payload' = Value
  /\ ppc' = "exchange"
  /\ UNCHANGED <<word, node, pc, old, extra, list, numValid, index, refcount,
                 calls>>

\* notifyReadyAndDecRef, up to the exchange: the value becomes ready.
NotifyReady(s) ==
  /\ ppc = "exchange"
  /\ word' = Word(None, s)
  /\ list' = word.ptr
  /\ numValid' = NumValid(word.state)
  /\ ppc' = "dropRef"
  /\ UNCHANGED <<payload, node, pc, old, extra, index, refcount, calls>>

\* dropRef, and the inline waiter is scheduled.
DropRefAndRunExtra ==
  /\ ppc = "dropRef"
  /\ refcount' = refcount - 1
  /\ CallWaiters({extra} \ {None})
  /\ extra' = None
  /\ ppc' = "node"
  /\ UNCHANGED <<word, payload, node, pc, old, list, numValid, index>>

\* runWaitersAndDeallocate: the first waiter of the node needs no check.
RunFirstWaiter ==
  /\ ppc = "node"
  /\ list # None
  /\ CallWaiters({node[list].slot[0]} \ {None})
  /\ node' = [node EXCEPT ![list].slot[0] = None]
  /\ ppc' = "spin"
  /\ UNCHANGED <<word, payload, pc, old, extra, list, numValid, index, refcount>>

\* Faulty: does not wait for the last slot.
SpinFewerSlots ==
  /\ ppc = "spin"
  /\ 1..(numValid - 2) \subseteq node[list].init
  /\ index' = 1
  /\ ppc' = "rest"
  /\ UNCHANGED <<word, payload, node, pc, old, extra, list, numValid, refcount,
                 calls>>

\* spinUntilWaitersAreInitialized: the claimed slots have been filled.
SpinSlots ==
  /\ ppc = "spin"
  /\ node[list].init = 1..(numValid - 1)
  /\ index' = 1
  /\ ppc' = "rest"
  /\ UNCHANGED <<word, payload, node, pc, old, extra, list, numValid, refcount,
                 calls>>

RunOtherWaiter ==
  /\ ppc = "rest"
  /\ index # numValid
  /\ CallWaiters({node[list].slot[index]} \ {None})
  /\ node' = [node EXCEPT ![list].slot[index] = None]
  /\ index' = index + 1
  /\ UNCHANGED <<word, payload, pc, old, ppc, extra, list, numValid, refcount>>

\* Free the node and go to the next one, all of whose slots were claimed.
DeleteNode ==
  /\ ppc = "rest"
  /\ index = numValid
  /\ list' = node[list].next
  /\ node' = [node EXCEPT ![list] = NoNode]
  /\ numValid' = NodeSlots
  /\ index' = 0
  /\ ppc' = "node"
  /\ UNCHANGED <<word, payload, pc, old, extra, refcount, calls>>

ProducerReturns ==
  /\ ppc = "node"
  /\ list = None
  /\ ppc' = "done"
  /\ UNCHANGED <<word, payload, node, pc, old, extra, list, numValid, index,
                 refcount, calls>>

-----------------------------------------------------------------------------
Register(w) == \/ AndThen(w) \/ ClaimInline(w) \/ ConstructInline(w)
               \/ AnnounceInline(w) \/ SpinInitializing(w) \/ RunNow(w)
               \/ ClaimSlot(w) \/ FillSlot(w) \/ MarkSlot(w)
               \/ PushNode(w) \/ PushNodeFails(w)

Produce == \/ RemoveInlineWaiter \/ ConstructPayload
           \/ NotifyReady(Available) \/ NotifyReady(Error)
           \/ DropRefAndRunExtra \/ RunFirstWaiter \/ SpinSlots
           \/ RunOtherWaiter \/ DeleteNode \/ ProducerReturns

\* Every call has returned.
Terminated == /\ ppc = "done"
              /\ \A w \in Waiters : pc[w] = "returned"
              /\ UNCHANGED vars

Next == (\E w \in Waiters : Register(w)) \/ Produce \/ Terminated

Spec == Init /\ [][Next]_vars

\* Every thread inside a call is scheduled.  Nobody has to start one.
Fairness == /\ \A w \in Waiters : WF_vars(pc[w] # "idle" /\ Register(w))
            /\ WF_vars(ppc # "idle" /\ Produce)

FairSpec == Spec /\ Fairness

-----------------------------------------------------------------------------
(* Properties *)

Slots == 0..NodeSlots-1

WordType == [ptr : Waiters \cup {None}, state : State]

NodeType == [live : BOOLEAN, slot : [Slots -> Waiters \cup {None}],
             init : SUBSET (1..NodeSlots-1), next : Waiters \cup {None}]

AndThenPcs == {"idle", "inline", "construct", "announce", "spin", "loop",
               "fill", "mark", "returned"}

ProducerPcs == {"idle", "construct", "exchange", "dropRef", "node", "spin",
                "rest", "done"}

\* Every variable keeps its type.
TypeOK == /\ word \in WordType
          /\ payload \in Waiters \cup {None, Value}
          /\ node \in [Waiters -> NodeType]
          /\ pc \in [Waiters -> AndThenPcs]
          /\ old \in [Waiters -> WordType]
          /\ ppc \in ProducerPcs
          /\ extra \in Waiters \cup {None}
          /\ list \in Waiters \cup {None}
          /\ numValid \in Nat
          /\ index \in Nat
          /\ refcount \in Int
          /\ calls \in [Waiters -> Nat]

\* The nodes of the list that starts at p: what every set that contains p and is
\* closed under next contains.
Reach(nodes, p) ==
  {n \in Waiters : \A S \in SUBSET (Waiters \cup {None}) :
     p \in S /\ (\A m \in S \ {None} : nodes[m].next \in S) => n \in S}

Listed == Reach(node, word.ptr) \cup Reach(node, list)

\* A waiter is called at most once, whichever of its caller, the producer and
\* the threads racing with it ends up calling it; and one whose andThen returned
\* and that was not called yet is where the producer will find it: inline, in
\* the producer's hands, or in a slot of the list that is installed or that the
\* producer walks (andThenOutOfLine lines 328-386, runWaitersAndDeallocate).
NoWaiterLost ==
  \A w \in Waiters :
    /\ calls[w] <= 1
    /\ pc[w] = "returned" /\ calls[w] = 0 =>
         w \in {payload, extra} \cup {node[n].slot[i] : n \in Listed, i \in Slots}

\* A thread that claimed a slot finds its node still allocated: the producer
\* waits for the slot's bit before it deletes the node (setWaiter,
\* spinUntilWaitersAreInitialized).
ClaimedNodeAlive ==
  \A w \in Waiters : pc[w] \in {"fill", "mark"} =>
    old[w].ptr # None /\ node[old[w].ptr].live

\* Two claims never name the same slot: the assert of setWaiter.
ClaimsDistinct ==
  \A v, w \in {x \in Waiters : pc[x] \in {"fill", "mark"}} :
    v # w => old[v] # old[w]

\* The producer never calls an empty slot or walks into a deleted node.
NoEmptyCall ==
  /\ ppc \in {"node", "spin", "rest"} /\ list # None => node[list].live
  /\ ppc = "node" /\ list # None => node[list].slot[0] # None
  /\ ppc = "rest" => \A i \in index..(numValid - 1) : node[list].slot[i] # None

\* The nodes are used safely while they are claimed, filled, walked and freed.
NodesSafe == TypeOK /\ ClaimedNodeAlive /\ ClaimsDistinct /\ NoEmptyCall

\* The payload area has one writer at a time: "nothing can move the value in
\* the WaiterConstructing state", and no inline waiter is built over a payload.
PayloadExclusive ==
  LET builders == {w \in Waiters : pc[w] \in {"construct", "announce"}}
  IN  /\ Cardinality(builders) <= 1
      /\ builders # {} => ppc = "idle" /\ word.state = InitializingInlineWaiter
      /\ IsReady(word.state) => payload = Value

\* The value is alive for as long as a call may touch it: the producer touches
\* it until dropRef, a caller of andThen until it returns.
AliveWhileUsed ==
  \/ ppc \in {"idle", "construct", "exchange", "dropRef"}
  \/ \E w \in Waiters : pc[w] # "returned"
  => refcount > 0

\* The value's memory is used safely by callers and producer.
PayloadSafe == PayloadExclusive /\ AliveWhileUsed

\* The abstract future: a waiter counts as called once it was called or
\* scheduled.
F == INSTANCE Future WITH
       outcome <- CASE word.state = Available -> "available"
                    [] word.state = Error -> "error"
                    [] OTHER -> "pending",
       status <- [w \in Waiters |-> IF calls[w] > 0 THEN "called"
                                    ELSE IF pc[w] = "idle" THEN "new"
                                    ELSE "waiting"]

\* The list of waiters implements a future: settled once, each waiter called
\* once and only when the value is ready, and none left behind then.
RefinesFuture == F!FairSpec
=============================================================================
