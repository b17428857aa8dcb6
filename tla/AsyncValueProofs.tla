-------------------------- MODULE AsyncValueProofs --------------------------
(***************************************************************************)
(* Proofs that the waiter list of an AsyncValue keeps its promises for any *)
(* number of callers and any node size.                                    *)
(*                                                                         *)
(* ProducerInv says what each phase of the producer may rely on, ThreadInv *)
(* what a caller between two accesses may rely on, NodeInv which slots of  *)
(* a node are claimed, filled and emptied, PlaceInv that a waiter waits in *)
(* one place, ChainInv that the allocated nodes are those of one list      *)
(* without a cycle, and RefInv what the reference count counts.            *)
(***************************************************************************)
EXTENDS AsyncValue, FiniteSetTheorems, TLAPS

\* The producer has made the value ready.
Notified == {"dropRef", "node", "spin", "rest", "done"}

\* The nodes that are allocated.
Live == {n \in Waiters : node[n].live}

\* How many slots of node n have been claimed; only the head of the installed
\* list, and the same node once the producer walks it, may have free ones.
Claimed == [n \in Waiters |-> IF n = word.ptr THEN NumValid(word.state)
                              ELSE IF n = list THEN numValid
                              ELSE NodeSlots]

WordInv ==
  /\ word.state \in {Unconstructed, InitializingInlineWaiter} => word.ptr = None
  /\ HasInlineWaiter(word.state) /\ word.state # Valid(NodeSlots) => word.ptr # None
  /\ IsReady(word.state) => word.ptr = None
  /\ IsReady(word.state) <=> ppc \in Notified

ProducerInv ==
  /\ ppc \notin Notified => list = None
  /\ ppc \in {"construct", "exchange"} => HasInlineWaiter(word.state)
  /\ ppc \in {"idle", "node", "spin", "rest", "done"} => extra = None
  /\ ppc = "idle" /\ word.state = Unconstructed => payload = None
  /\ ppc = "idle" /\ HasInlineWaiter(word.state) => payload \in Waiters
  /\ ppc = "construct" => payload = None
  /\ ppc \in Notified \cup {"exchange"} => payload = Value
  /\ ppc \in {"spin", "rest"} => list # None
  /\ ppc = "rest" => /\ index \in 1..numValid
                     /\ node[list].init = 1..(numValid - 1)

\* A call that goes on has not called its waiter, and its node is not in use.
Fresh(w) == pc[w] # "returned" => calls[w] = 0 /\ w \notin Live

\* What a caller knows of the state it has loaded.
LoadInv(w) ==
  /\ pc[w] = "inline" => old[w] = Word(None, Unconstructed)
  /\ pc[w] \in {"spin", "loop"} =>
       /\ word.state # Unconstructed
       /\ old[w].state # Unconstructed
       /\ IsReady(old[w].state) => IsReady(word.state)
       /\ word.state = InitializingInlineWaiter => old[w].state = InitializingInlineWaiter
  /\ pc[w] = "loop" => old[w].state # InitializingInlineWaiter

\* The builder of the inline waiter has the payload area to itself.
BuildInv(w) ==
  pc[w] \in {"construct", "announce"} =>
    /\ ppc = "idle"
    /\ word.state = InitializingInlineWaiter
    /\ payload = IF pc[w] = "announce" THEN w ELSE None

\* A slot that is claimed and not marked is its claimer's alone.
ClaimInv(w) ==
  pc[w] \in {"fill", "mark"} =>
    /\ old[w].ptr \in Live
    /\ NumValid(old[w].state) \in 1..(Claimed[old[w].ptr] - 1)
    /\ NumValid(old[w].state) \notin node[old[w].ptr].init
    /\ node[old[w].ptr].slot[NumValid(old[w].state)] =
         IF pc[w] = "mark" THEN w ELSE None

ThreadInv(w) == Fresh(w) /\ LoadInv(w) /\ BuildInv(w) /\ ClaimInv(w)

\* At most one caller is building the inline waiter, and no two callers have
\* claimed the same slot.
ClaimsInv ==
  \A v, w \in Waiters : v # w =>
    /\ ~(pc[v] \in {"construct", "announce"} /\ pc[w] \in {"construct", "announce"})
    /\ pc[v] \in {"fill", "mark"} /\ pc[w] \in {"fill", "mark"} => old[v] # old[w]

NodeInv(n) ==
  IF n \in Live
  THEN /\ Claimed[n] \in 1..NodeSlots
       /\ node[n].init \subseteq 1..(Claimed[n] - 1)
       /\ node[n].slot[0] = None <=> n = list /\ ppc \in {"spin", "rest"}
       /\ \A i \in 1..NodeSlots-1 :
            /\ i >= Claimed[n] => node[n].slot[i] = None
            /\ i \in node[n].init =>
                 (node[n].slot[i] = None <=> n = list /\ ppc = "rest" /\ i < index)
  ELSE node[n] = NoNode

\* A waiter in the payload area, in the producer's hands or in a slot has not
\* been called, and is nowhere else; a waiter that is nowhere has been called.
PlaceInv ==
  /\ \A w \in Waiters : payload = w \/ extra = w =>
       calls[w] = 0 /\ pc[w] \in {"announce", "returned"}
  /\ \A n \in Waiters, i \in Slots : node[n].slot[i] \in Waiters =>
       /\ calls[node[n].slot[i]] = 0
       /\ pc[node[n].slot[i]] \in {"mark", "returned"}
       /\ node[n].slot[i] \notin {payload, extra}
  /\ payload \in Waiters => payload # extra
  /\ \A n, m \in Waiters, i, j \in Slots :
       node[n].slot[i] \in Waiters /\ node[n].slot[i] = node[m].slot[j] => n = m /\ i = j
  /\ \A w \in Waiters : pc[w] = "returned" /\ calls[w] = 0 =>
       \/ w \in {payload, extra}
       \/ \E n \in Waiters, i \in Slots : node[n].slot[i] = w
  /\ \A w \in Waiters : calls[w] <= 1

ChainInv ==
  /\ Listed = Live
  /\ \A n \in Live : n \notin Reach(node, node[n].next)

\* The producer has not dropped its reference yet.
Holding == {"idle", "construct", "exchange", "dropRef"}

RefInv ==
  refcount = (IF ppc \in Holding THEN 1 ELSE 0)
             + Cardinality({w \in Waiters : pc[w] # "returned"})

AsyncInv == /\ TypeOK /\ WordInv /\ ProducerInv
            /\ \A w \in Waiters : ThreadInv(w) /\ NodeInv(w)
            /\ ClaimsInv /\ PlaceInv /\ ChainInv /\ RefInv

-----------------------------------------------------------------------------
(* Lists *)

Pointer == Waiters \cup {None}

\* S contains the successors of its nodes.
ClosedUnder(nodes, S) == \A m \in S \ {None} : nodes[m].next \in S

\* A list that starts nowhere is empty.
LEMMA ReachNone == ASSUME NEW nodes PROVE Reach(nodes, None) = {}
<1>1. {None} \in SUBSET (Waiters \cup {None}) /\ \A m \in {None} \ {None} : nodes[m].next \in {None}
  OBVIOUS
<1>2. SUFFICES ASSUME NEW n \in Reach(nodes, None) PROVE FALSE
  OBVIOUS
<1>3. n \in Waiters /\ n \in {None}
  BY <1>1, <1>2 DEF Reach
<1>4. QED BY <1>3, WaitersAssumption

\* A closed set that contains the start contains the list.
LEMMA ReachMinimal ==
  ASSUME NEW nodes, NEW p, NEW S \in SUBSET Pointer, p \in S, ClosedUnder(nodes, S)
  PROVE  Reach(nodes, p) \subseteq S
BY DEF Reach, ClosedUnder, Pointer

\* A list is its first node and the list that starts at the next one.
LEMMA ReachStep ==
  ASSUME NEW nodes, NEW p \in Waiters, nodes[p].next \in Pointer
  PROVE  Reach(nodes, p) = {p} \cup Reach(nodes, nodes[p].next)
<1>1. ASSUME NEW n \in Reach(nodes, p), n # p
      PROVE  n \in Reach(nodes, nodes[p].next)
  <2>1. SUFFICES ASSUME NEW S \in SUBSET (Waiters \cup {None}), nodes[p].next \in S,
                        \A m \in S \ {None} : nodes[m].next \in S
                 PROVE  n \in S
    BY <1>1 DEF Reach
  <2> DEFINE T == S \cup {p}
  <2>2. T \in SUBSET Pointer /\ p \in T /\ ClosedUnder(nodes, T)
    BY <2>1 DEF Pointer, ClosedUnder
  <2>3. n \in T
    BY <1>1, <2>2, ReachMinimal
  <2>4. QED BY <1>1, <2>3
<1>2. ASSUME NEW n \in Reach(nodes, nodes[p].next) PROVE n \in Reach(nodes, p)
  BY <1>2, WaitersAssumption DEF Reach
<1>3. p \in Reach(nodes, p)
  BY DEF Reach
<1>4. QED BY <1>1, <1>2, <1>3

\* The successor of a node of the list is in the list, or there is none.
LEMMA ReachClosed ==
  ASSUME NEW nodes \in [Waiters -> NodeType], NEW p \in Pointer
  PROVE  /\ Reach(nodes, p) \cup {None} \in SUBSET Pointer
         /\ p \in Reach(nodes, p) \cup {None}
         /\ ClosedUnder(nodes, Reach(nodes, p) \cup {None})
<1>1. Reach(nodes, p) \subseteq Waiters
  BY DEF Reach
<1>2. p \in Reach(nodes, p) \cup {None}
  BY DEF Reach, Pointer
<1>3. ASSUME NEW m \in Reach(nodes, p) PROVE nodes[m].next \in Reach(nodes, p) \cup {None}
  <2>1. m \in Waiters /\ nodes[m].next \in Pointer
    BY <1>1 DEF NodeType, Pointer
  <2>2. QED BY <1>3, <2>1, WaitersAssumption DEF Reach, Pointer
<1>4. QED BY <1>1, <1>2, <1>3 DEF Pointer, ClosedUnder

\* Nodes outside a list do not matter to it.
LEMMA ReachSame ==
  ASSUME NEW nodes \in [Waiters -> NodeType], NEW nodes2 \in [Waiters -> NodeType],
         NEW p \in Pointer,
         \A n \in Reach(nodes, p) : nodes2[n].next = nodes[n].next
  PROVE  Reach(nodes2, p) = Reach(nodes, p)
<1>1. Reach(nodes2, p) \subseteq Reach(nodes, p)
  <2>1. ClosedUnder(nodes2, Reach(nodes, p) \cup {None})
    BY ReachClosed DEF ClosedUnder
  <2>2. Reach(nodes2, p) \subseteq Reach(nodes, p) \cup {None}
    BY <2>1, ReachClosed, ReachMinimal
  <2>3. QED BY <2>2, WaitersAssumption DEF Reach
<1>2. Reach(nodes, p) \subseteq Reach(nodes2, p)
  <2>1. ClosedUnder(nodes, Reach(nodes2, p) \cup {None})
    BY <1>1, ReachClosed DEF ClosedUnder
  <2>2. Reach(nodes, p) \subseteq Reach(nodes2, p) \cup {None}
    BY <2>1, ReachClosed, ReachMinimal
  <2>3. QED BY <2>2, WaitersAssumption DEF Reach
<1>3. QED BY <1>1, <1>2

-----------------------------------------------------------------------------
(* Facts that several steps need *)

\* The calls of andThen that have not returned.
Busy == {w \in Waiters : pc[w] # "returned"}

\* There are finitely many of them.
LEMMA BusyFinite == IsFiniteSet(Busy) /\ Cardinality(Busy) \in Nat
<1>1. IsFiniteSet(Busy)
  BY WaitersAssumption, FS_Subset DEF Busy
<1>2. QED BY <1>1, FS_CardinalityType

\* A caller that returns takes its reference with it.
LEMMA ReturnRef ==
  ASSUME TypeOK, RefInv, NEW w \in Waiters, pc[w] # "returned", Return(w),
         UNCHANGED ppc
  PROVE  RefInv'
<1>1. w \in Busy /\ Busy' = Busy \ {w}
  BY DEF Busy, Return, TypeOK
<1>2. Cardinality(Busy') = Cardinality(Busy) - 1
  BY <1>1, BusyFinite, FS_RemoveElement
<1>3. QED BY <1>2, BusyFinite DEF RefInv, Return, Busy, TypeOK, Holding

\* A caller that goes on keeps it.
LEMMA SameRef ==
  ASSUME TypeOK, RefInv, NEW w \in Waiters, NEW x, pc[w] # "returned", x # "returned",
         pc' = [pc EXCEPT ![w] = x], UNCHANGED <<ppc, refcount>>
  PROVE  RefInv'
<1>1. Busy' = Busy
  BY DEF Busy, TypeOK
<1>2. QED BY <1>1 DEF RefInv, Busy

\* So it is when no call of andThen takes a step.
LEMMA ProducerRef ==
  ASSUME RefInv, UNCHANGED <<pc, refcount>>, ppc \in Holding <=> ppc' \in Holding
  PROVE  RefInv'
<1>1. Busy' = Busy
  BY DEF Busy
<1>2. QED BY <1>1 DEF RefInv, Busy

\* The list stays as it is when no node is linked, freed or detached.
LEMMA SameChain ==
  ASSUME TypeOK, TypeOK', ChainInv, UNCHANGED list, word'.ptr = word.ptr,
         \A n \in Waiters : node'[n].next = node[n].next /\ node'[n].live = node[n].live
  PROVE  ChainInv'
<1>1. ASSUME NEW p \in Pointer PROVE Reach(node', p) = Reach(node, p)
  <2>1. \A n \in Reach(node, p) : node'[n].next = node[n].next
    BY DEF Reach
  <2>2. node \in [Waiters -> NodeType] /\ node' \in [Waiters -> NodeType]
    BY DEF TypeOK
  <2>3. QED BY <2>1, <2>2, ReachSame
<1>2. word.ptr \in Pointer /\ list \in Pointer
  BY DEF TypeOK, WordType, Pointer
<1>3. Listed' = Listed /\ Live' = Live
  BY <1>1, <1>2 DEF Listed, Live
<1>4. ASSUME NEW n \in Live PROVE n \notin Reach(node', node'[n].next)
  <2>1. node[n].next \in Pointer /\ node'[n].next = node[n].next
    BY DEF TypeOK, NodeType, Pointer, Live
  <2>2. QED BY <1>1, <2>1 DEF ChainInv
<1>5. QED BY <1>3, <1>4 DEF ChainInv

USE DEF Unconstructed, InitializingInlineWaiter, Valid, Available, Error, State,
        IsReady, HasInlineWaiter, NumValid

\* Init satisfies the invariant.
LEMMA InitInv == Init => AsyncInv
<1> SUFFICES ASSUME Init PROVE AsyncInv
  OBVIOUS
<1> USE NodeSlotsAssumption, WaitersAssumption, ValueAssumption
<1>1. TypeOK
  <2>1. NoNode \in NodeType
    BY DEF NoNode, NodeType, Slots
  <2>2. Cardinality(Waiters) \in Nat
    BY FS_CardinalityType
  <2>3. Word(None, 0) \in WordType
    BY DEF Word, WordType
  <2>4. QED BY <2>1, <2>2, <2>3 DEF TypeOK, Init, AndThenPcs, ProducerPcs
<1>2. WordInv /\ ProducerInv
  BY DEF Init, WordInv, ProducerInv, Word, Notified
<1>3. \A w \in Waiters : ThreadInv(w) /\ NodeInv(w)
  <2>1. Live = {}
    BY DEF Live, Init, NoNode
  <2>2. QED BY <2>1 DEF Init, ThreadInv, Fresh, LoadInv, BuildInv, ClaimInv, NodeInv
<1>4. ClaimsInv
  BY DEF Init, ClaimsInv
<1>5. PlaceInv
  BY DEF Init, PlaceInv, NoNode, Slots
<1>6. ChainInv
  <2>1. Listed = {}
    BY ReachNone DEF Listed, Init, Word
  <2>2. Live = {}
    BY DEF Live, Init, NoNode
  <2>3. QED BY <2>1, <2>2 DEF ChainInv
<1>7. RefInv
  <2>1. {w \in Waiters : pc[w] # "returned"} = Waiters
    BY DEF Init
  <2>2. QED BY <2>1 DEF RefInv, Init, Holding
<1>8. QED BY <1>1, <1>2, <1>3, <1>4, <1>5, <1>6, <1>7 DEF AsyncInv

-----------------------------------------------------------------------------
(* The steps of andThen *)

USE NodeSlotsAssumption, WaitersAssumption, ValueAssumption

\* A step that leaves the list, the value and the producer alone does not disturb
\* the callers that do not take it.
LEMMA OtherThread ==
  ASSUME NEW v \in Waiters, ThreadInv(v), NodeInv(v),
         pc'[v] = pc[v], old'[v] = old[v], calls'[v] = calls[v],
         word' = word, payload' = payload, node' = node, producer' = producer
  PROVE  ThreadInv(v)' /\ NodeInv(v)'
<1>1. ppc' = ppc /\ list' = list /\ numValid' = numValid /\ index' = index
  BY DEF producer
<1>2. Live' = Live /\ Claimed' = Claimed
  BY <1>1 DEF Live, Claimed
<1>3. NodeInv(v)'
  BY <1>1, <1>2 DEF NodeInv
<1>4. Fresh(v)'
  BY <1>2 DEF ThreadInv, Fresh
<1>5. LoadInv(v)' /\ BuildInv(v)'
  BY <1>1 DEF ThreadInv, LoadInv, BuildInv
<1>6. ClaimInv(v)'
  BY <1>2 DEF ThreadInv, ClaimInv
<1>7. QED BY <1>3, <1>4, <1>5, <1>6 DEF ThreadInv

\* A step that only moves the caller on, and perhaps calls its waiter and
\* returns, keeps the invariant if the caller may rely on what it has loaded.
LEMMA LocalStep ==
  ASSUME AsyncInv, NEW w \in Waiters, pc[w] \in {"idle", "inline", "spin", "loop"},
         NEW x \in {"inline", "spin", "loop", "returned"},
         NEW o \in WordType,
         pc' = [pc EXCEPT ![w] = x], old' = [old EXCEPT ![w] = o],
         word' = word, payload' = payload, node' = node, producer' = producer,
         IF x = "returned"
           THEN CallWaiters({w}) /\ refcount' = refcount - 1
           ELSE calls' = calls /\ refcount' = refcount,
         x = "inline" => o = Word(None, Unconstructed),
         x \in {"spin", "loop"} =>
           /\ word.state # Unconstructed
           /\ o.state # Unconstructed
           /\ IsReady(o.state) => IsReady(word.state)
           /\ word.state = InitializingInlineWaiter => o.state = InitializingInlineWaiter,
         x = "loop" => o.state # InitializingInlineWaiter
  PROVE  AsyncInv'
<1>a. /\ TypeOK /\ WordInv /\ ProducerInv /\ ClaimsInv /\ PlaceInv /\ ChainInv /\ RefInv
      /\ \A v \in Waiters : ThreadInv(v) /\ NodeInv(v)
  BY DEF AsyncInv
<1>0. calls' = [calls EXCEPT ![w] = IF x = "returned" THEN 1 ELSE 0]
  <2>1. calls \in [Waiters -> Nat] /\ calls[w] = 0
    BY <1>a DEF ThreadInv, Fresh, TypeOK
  <2>2. CASE x = "returned"
    BY <2>1, <2>2 DEF CallWaiters
  <2>3. CASE x # "returned"
    BY <2>1, <2>3
  <2>4. QED BY <2>2, <2>3
<1>f. /\ ppc' = ppc /\ extra' = extra /\ list' = list
      /\ numValid' = numValid /\ index' = index
  BY DEF producer
<1>1. TypeOK'
  BY <1>a, <1>0, <1>f DEF TypeOK, AndThenPcs
<1>2. WordInv' /\ ProducerInv'
  BY <1>a, <1>f DEF WordInv, ProducerInv
<1>3. ASSUME NEW v \in Waiters, v # w PROVE ThreadInv(v)' /\ NodeInv(v)'
  <2>1. pc'[v] = pc[v] /\ old'[v] = old[v] /\ calls'[v] = calls[v]
    BY <1>a, <1>0, <1>3 DEF TypeOK
  <2>2. QED BY <1>a, <2>1, OtherThread
<1>4. ThreadInv(w)' /\ NodeInv(w)'
  <2>1. pc'[w] = x /\ old'[w] = o /\ calls'[w] = (IF x = "returned" THEN 1 ELSE 0)
    BY <1>a, <1>0 DEF TypeOK
  <2>2. Live' = Live /\ Claimed' = Claimed
    BY <1>f DEF Live, Claimed
  <2>3. NodeInv(w)'
    BY <1>a, <1>f, <2>2 DEF NodeInv
  <2>4. Fresh(w)'
    BY <1>a, <2>1, <2>2 DEF ThreadInv, Fresh
  <2>5. LoadInv(w)' /\ BuildInv(w)' /\ ClaimInv(w)'
    BY <2>1 DEF LoadInv, BuildInv, ClaimInv
  <2>6. QED BY <2>3, <2>4, <2>5 DEF ThreadInv
<1>5. ClaimsInv'
  BY <1>a DEF ClaimsInv, TypeOK
<1>6. PlaceInv'
  BY <1>a, <1>0, <1>f DEF PlaceInv, TypeOK
<1>7. ChainInv'
  BY <1>a, <1>f, <1>1, SameChain
<1>8. RefInv'
  <2>1. CASE x = "returned"
    BY <1>a, <1>f, <2>1, ReturnRef DEF Return
  <2>2. CASE x # "returned"
    BY <1>a, <1>f, <2>2, SameRef
  <2>3. QED BY <2>1, <2>2
<1>9. QED BY <1>1, <1>2, <1>3, <1>4, <1>5, <1>6, <1>7, <1>8 DEF AsyncInv

\* andThen looks at the state and chooses its way.
LEMMA AndThenInv ==
  ASSUME AsyncInv, NEW w \in Waiters, AndThen(w) PROVE AsyncInv'
<1>1. word \in WordType
  BY DEF TypeOK, AsyncInv
<1>2. word.state = Unconstructed => word = Word(None, Unconstructed)
  BY DEF AsyncInv, TypeOK, WordType, Word, WordInv
<1>f. /\ pc[w] = "idle" /\ old' = [old EXCEPT ![w] = word]
      /\ word' = word /\ payload' = payload /\ node' = node /\ producer' = producer
  BY DEF AndThen
<1>3. CASE IsReady(word.state)
  BY <1>1, <1>3, <1>f, LocalStep DEF AndThen, Return
<1>4. CASE ~IsReady(word.state) /\ word.state = Unconstructed
  BY <1>1, <1>2, <1>4, <1>f, LocalStep DEF AndThen
<1>5. CASE ~IsReady(word.state) /\ word.state # Unconstructed
  BY <1>1, <1>2, <1>5, <1>f, LocalStep DEF AndThen
<1>6. QED BY <1>3, <1>4, <1>5

\* The wait for the inline waiter is over.
LEMMA SpinInitializingInv ==
  ASSUME AsyncInv, NEW w \in Waiters, SpinInitializing(w) PROVE AsyncInv'
<1>1. word \in WordType /\ old \in [Waiters -> WordType] /\ LoadInv(w)
  BY DEF TypeOK, AsyncInv, ThreadInv
<1>f. /\ pc[w] = "spin" /\ pc' = [pc EXCEPT ![w] = "loop"] /\ calls' = calls
      /\ refcount' = refcount
      /\ word' = word /\ payload' = payload /\ node' = node /\ producer' = producer
  BY DEF SpinInitializing
<1>g. word.state # Unconstructed /\ old[w].state # Unconstructed
      /\ (IsReady(old[w].state) => IsReady(word.state))
      /\ (word.state = InitializingInlineWaiter => old[w].state = InitializingInlineWaiter)
  BY <1>1, <1>f DEF LoadInv
<1>2. CASE old[w].state = InitializingInlineWaiter
  <2>1. old' = [old EXCEPT ![w] = word] /\ word.state # InitializingInlineWaiter
    BY <1>2 DEF SpinInitializing
  <2>2. QED BY <1>1, <1>f, <1>g, <2>1, LocalStep
<1>3. CASE old[w].state # InitializingInlineWaiter
  <2>1. old' = [old EXCEPT ![w] = old[w]] /\ old[w] \in WordType
    BY <1>1, <1>3 DEF SpinInitializing
  <2>2. QED BY <1>3, <1>f, <1>g, <2>1, LocalStep
<1>4. QED BY <1>2, <1>3

\* The value is ready and the caller runs its waiter.
LEMMA RunNowInv ==
  ASSUME AsyncInv, NEW w \in Waiters, RunNow(w) PROVE AsyncInv'
<1>1. old[w] \in WordType /\ old' = [old EXCEPT ![w] = old[w]]
  BY DEF TypeOK, RunNow, AsyncInv
<1>2. QED BY <1>1, LocalStep DEF RunNow, Return

\* The caller's node is not needed or not wanted.
LEMMA PushNodeFailsInv ==
  ASSUME AsyncInv, NEW w \in Waiters, PushNodeFails(w) PROVE AsyncInv'
<1>1. word \in WordType /\ old \in [Waiters -> WordType] /\ pc \in [Waiters -> AndThenPcs]
      /\ LoadInv(w)
  BY DEF TypeOK, AsyncInv, ThreadInv
<1>f. /\ pc[w] = "loop" /\ word' = word /\ payload' = payload /\ node' = node
      /\ producer' = producer
  BY DEF PushNodeFails
<1>2. CASE IsReady(word.state)
  <2>1. old' = [old EXCEPT ![w] = old[w]] /\ old[w] \in WordType
    BY <1>1, <1>2 DEF PushNodeFails
  <2>2. CallWaiters({w}) /\ pc' = [pc EXCEPT ![w] = "returned"] /\ refcount' = refcount - 1
    BY <1>2 DEF PushNodeFails, Return
  <2>3. QED BY <1>f, <2>1, <2>2, LocalStep
<1>3. CASE ~IsReady(word.state)
  <2>1. /\ pc' = [pc EXCEPT ![w] = "loop"] /\ old' = [old EXCEPT ![w] = word]
        /\ calls' = calls /\ refcount' = refcount
    BY <1>1, <1>3, <1>f DEF PushNodeFails
  <2>2. word.state # Unconstructed /\ word.state # InitializingInlineWaiter
    BY <1>1, <1>f DEF LoadInv
  <2>3. QED BY <1>1, <1>f, <2>1, <2>2, LocalStep
<1>4. QED BY <1>2, <1>3

\* The claim of the payload area succeeds only in the unconstructed state, when
\* nobody else builds, waits or produces.
LEMMA ClaimInlineInv ==
  ASSUME AsyncInv, NEW w \in Waiters, ClaimInline(w) PROVE AsyncInv'
<1>a. /\ TypeOK /\ WordInv /\ ProducerInv /\ ClaimsInv /\ PlaceInv /\ ChainInv /\ RefInv
      /\ \A v \in Waiters : ThreadInv(v) /\ NodeInv(v)
  BY DEF AsyncInv
<1>f. /\ pc[w] = "inline" /\ payload' = payload /\ node' = node /\ producer' = producer
      /\ refcount' = refcount /\ calls' = calls
  BY DEF ClaimInline
<1>p. /\ ppc' = ppc /\ extra' = extra /\ list' = list
      /\ numValid' = numValid /\ index' = index
  BY <1>f DEF producer
<1>i. old[w] = Word(None, Unconstructed) /\ calls[w] = 0 /\ w \notin Live
  BY <1>a, <1>f DEF ThreadInv, LoadInv, Fresh
<1>1. CASE word # old[w]
  <2>1. word \in WordType
    BY <1>a DEF TypeOK
  <2>2. word.state # Unconstructed
    BY <1>a, <1>i, <1>1, <2>1 DEF WordInv, Word, WordType
  <2>3. old' = [old EXCEPT ![w] = word] /\ pc' = [pc EXCEPT ![w] = "spin"] /\ word' = word
    BY <1>1, <2>2 DEF ClaimInline
  <2>4. QED BY <1>f, <2>1, <2>2, <2>3, LocalStep
<1>2. CASE word = old[w]
  <2>f. /\ word' = Word(None, InitializingInlineWaiter) /\ old' = old
        /\ pc' = [pc EXCEPT ![w] = "construct"]
        /\ word.ptr = None /\ word.state = Unconstructed
    BY <1>2, <1>i DEF ClaimInline, Word
  <2>g. word'.ptr = None /\ word'.state = InitializingInlineWaiter
    BY <2>f DEF Word
  <2>h. ppc = "idle" /\ list = None /\ payload = None
    BY <1>a, <2>f DEF WordInv, ProducerInv, Notified, TypeOK, ProducerPcs
  <2>l. Live' = Live /\ Claimed' = Claimed
    BY <1>f, <1>p, <2>f, <2>g DEF Live, Claimed
  <2>1. TypeOK'
    BY <1>a, <1>f, <1>p, <2>f DEF TypeOK, AndThenPcs, WordType, Word
  <2>2. WordInv' /\ ProducerInv'
    BY <1>a, <1>f, <1>p, <2>g, <2>h DEF WordInv, ProducerInv, Notified
  <2>3. ASSUME NEW v \in Waiters PROVE ThreadInv(v)' /\ NodeInv(v)'
    <3>1. old'[v] = old[v] /\ calls'[v] = calls[v] /\ pc'[v] = (IF v = w THEN "construct" ELSE pc[v])
      BY <1>a, <1>f, <2>f DEF TypeOK
    <3>2. NodeInv(v)'
      BY <1>a, <1>f, <1>p, <2>l DEF NodeInv
    <3>3. Fresh(v)'
      BY <1>a, <1>f, <2>l, <3>1, <1>i DEF ThreadInv, Fresh
    <3>4. LoadInv(v)'
      BY <1>a, <2>f, <3>1 DEF ThreadInv, LoadInv
    <3>5. BuildInv(v)'
      BY <1>a, <1>f, <1>p, <2>f, <2>g, <2>h, <3>1 DEF ThreadInv, BuildInv
    <3>6. ClaimInv(v)'
      BY <1>a, <1>f, <2>l, <3>1 DEF ThreadInv, ClaimInv
    <3>7. QED BY <3>2, <3>3, <3>4, <3>5, <3>6 DEF ThreadInv
  <2>4. ClaimsInv'
    <3>1. \A v \in Waiters : pc[v] \notin {"construct", "announce"}
      BY <1>a, <2>f DEF ThreadInv, BuildInv
    <3>2. QED BY <1>a, <2>f, <3>1 DEF ClaimsInv, TypeOK
  <2>5. PlaceInv'
    BY <1>a, <1>f, <1>p, <2>f DEF PlaceInv, TypeOK
  <2>6. ChainInv'
    BY <1>a, <1>f, <1>p, <2>f, <2>g, <2>1, SameChain
  <2>7. RefInv'
    BY <1>a, <1>f, <1>p, <2>f, SameRef
  <2>8. QED BY <2>1, <2>2, <2>3, <2>4, <2>5, <2>6, <2>7 DEF AsyncInv
<1>3. QED BY <1>1, <1>2

\* The inline waiter is constructed in the payload area.
LEMMA ConstructInlineInv ==
  ASSUME AsyncInv, NEW w \in Waiters, ConstructInline(w) PROVE AsyncInv'
<1>a. /\ TypeOK /\ WordInv /\ ProducerInv /\ ClaimsInv /\ PlaceInv /\ ChainInv /\ RefInv
      /\ \A v \in Waiters : ThreadInv(v) /\ NodeInv(v)
  BY DEF AsyncInv
<1>f. /\ pc[w] = "construct" /\ payload' = w /\ pc' = [pc EXCEPT ![w] = "announce"]
      /\ word' = word /\ node' = node /\ old' = old
      /\ producer' = producer /\ refcount' = refcount /\ calls' = calls
  BY DEF ConstructInline
<1>p. /\ ppc' = ppc /\ extra' = extra /\ list' = list
      /\ numValid' = numValid /\ index' = index
  BY <1>f DEF producer
<1>i. /\ ppc = "idle" /\ word.state = InitializingInlineWaiter /\ payload = None
      /\ calls[w] = 0 /\ w \notin Live /\ extra = None
  BY <1>a, <1>f DEF ThreadInv, BuildInv, Fresh, ProducerInv
<1>l. Live' = Live /\ Claimed' = Claimed
  BY <1>f, <1>p DEF Live, Claimed
<1>o. \A v \in Waiters \ {w} : pc[v] \notin {"construct", "announce"}
  BY <1>a, <1>f DEF ClaimsInv
<1>1. TypeOK'
  BY <1>a, <1>f, <1>p DEF TypeOK, AndThenPcs
<1>2. WordInv' /\ ProducerInv'
  BY <1>a, <1>f, <1>p, <1>i DEF WordInv, ProducerInv, Notified
<1>3. ASSUME NEW v \in Waiters PROVE ThreadInv(v)' /\ NodeInv(v)'
  <2>1. old'[v] = old[v] /\ calls'[v] = calls[v] /\ pc'[v] = (IF v = w THEN "announce" ELSE pc[v])
    BY <1>a, <1>f DEF TypeOK
  <2>2. NodeInv(v)'
    BY <1>a, <1>f, <1>p, <1>l DEF NodeInv
  <2>3. Fresh(v)' /\ LoadInv(v)'
    BY <1>a, <1>f, <1>l, <1>i, <2>1 DEF ThreadInv, Fresh, LoadInv
  <2>4. BuildInv(v)'
    BY <1>f, <1>p, <1>i, <1>o, <2>1 DEF BuildInv
  <2>5. ClaimInv(v)'
    BY <1>a, <1>f, <1>l, <2>1 DEF ThreadInv, ClaimInv
  <2>6. QED BY <2>2, <2>3, <2>4, <2>5 DEF ThreadInv
<1>4. ClaimsInv'
  BY <1>a, <1>f DEF ClaimsInv, TypeOK
<1>5. PlaceInv'
  BY <1>a, <1>f, <1>p, <1>i DEF PlaceInv, TypeOK
<1>6. ChainInv'
  BY <1>a, <1>f, <1>p, <1>1, SameChain
<1>7. RefInv'
  BY <1>a, <1>f, <1>p, SameRef
<1>8. QED BY <1>1, <1>2, <1>3, <1>4, <1>5, <1>6, <1>7 DEF AsyncInv

\* fetch_add(4) turns the building state into the state with an inline waiter.
LEMMA AnnounceInlineInv ==
  ASSUME AsyncInv, NEW w \in Waiters, AnnounceInline(w) PROVE AsyncInv'
<1>a. /\ TypeOK /\ WordInv /\ ProducerInv /\ ClaimsInv /\ PlaceInv /\ ChainInv /\ RefInv
      /\ \A v \in Waiters : ThreadInv(v) /\ NodeInv(v)
  BY DEF AsyncInv
<1>f. /\ pc[w] = "announce" /\ word' = [word EXCEPT !.state = @ + NodeSlots]
      /\ pc' = [pc EXCEPT ![w] = "returned"] /\ Return(w)
      /\ payload' = payload /\ node' = node /\ old' = old
      /\ producer' = producer /\ calls' = calls
  BY DEF AnnounceInline, Return
<1>p. /\ ppc' = ppc /\ extra' = extra /\ list' = list
      /\ numValid' = numValid /\ index' = index
  BY <1>f DEF producer
<1>i. /\ ppc = "idle" /\ word.state = InitializingInlineWaiter /\ payload = w
      /\ calls[w] = 0 /\ word.ptr = None
  BY <1>a, <1>f DEF ThreadInv, BuildInv, Fresh, WordInv
<1>g. word' \in WordType /\ word'.ptr = None /\ word'.state = Valid(NodeSlots)
  BY <1>a, <1>f, <1>i DEF TypeOK, WordType
<1>l. Live' = Live /\ Claimed' = Claimed
  BY <1>f, <1>p, <1>g, <1>i DEF Live, Claimed
<1>o. \A v \in Waiters \ {w} : pc[v] \notin {"construct", "announce"}
  BY <1>a, <1>f DEF ClaimsInv
<1>1. TypeOK'
  BY <1>a, <1>f, <1>p, <1>g DEF TypeOK, AndThenPcs, Return
<1>2. WordInv' /\ ProducerInv'
  BY <1>a, <1>f, <1>p, <1>i, <1>g DEF WordInv, ProducerInv, Notified
<1>3. ASSUME NEW v \in Waiters PROVE ThreadInv(v)' /\ NodeInv(v)'
  <2>1. old'[v] = old[v] /\ calls'[v] = calls[v] /\ pc'[v] = (IF v = w THEN "returned" ELSE pc[v])
    BY <1>a, <1>f DEF TypeOK
  <2>2. NodeInv(v)'
    BY <1>a, <1>f, <1>p, <1>l DEF NodeInv
  <2>3. Fresh(v)' /\ LoadInv(v)'
    BY <1>a, <1>f, <1>l, <1>i, <1>g, <2>1 DEF ThreadInv, Fresh, LoadInv
  <2>4. BuildInv(v)'
    BY <1>o, <2>1 DEF BuildInv
  <2>5. ClaimInv(v)'
    BY <1>a, <1>f, <1>l, <2>1 DEF ThreadInv, ClaimInv
  <2>6. QED BY <2>2, <2>3, <2>4, <2>5 DEF ThreadInv
<1>4. ClaimsInv'
  BY <1>a, <1>f DEF ClaimsInv, TypeOK
<1>5. PlaceInv'
  BY <1>a, <1>f, <1>p, <1>i DEF PlaceInv, TypeOK
<1>6. ChainInv'
  BY <1>a, <1>f, <1>p, <1>i, <1>g, <1>1, SameChain
<1>7. RefInv'
  BY <1>a, <1>f, <1>p, ReturnRef
<1>8. QED BY <1>1, <1>2, <1>3, <1>4, <1>5, <1>6, <1>7 DEF AsyncInv

\* The head of the installed list, and the node the producer is at, are allocated.
LEMMA HeadLive ==
  ASSUME TypeOK, ChainInv
  PROVE  (word.ptr # None => word.ptr \in Live) /\ (list # None => list \in Live)
<1>1. word.ptr \in Pointer /\ list \in Pointer /\ node \in [Waiters -> NodeType]
  BY DEF TypeOK, WordType, Pointer
<1>2. word.ptr \in Reach(node, word.ptr) \cup {None} /\ list \in Reach(node, list) \cup {None}
  BY <1>1, ReachClosed
<1>3. QED BY <1>2 DEF ChainInv, Listed

\* A claim takes the first free slot of the head node, and nobody else has it.
LEMMA ClaimSlotInv ==
  ASSUME AsyncInv, NEW w \in Waiters, ClaimSlot(w) PROVE AsyncInv'
<1>a. /\ TypeOK /\ WordInv /\ ProducerInv /\ ClaimsInv /\ PlaceInv /\ ChainInv /\ RefInv
      /\ \A v \in Waiters : ThreadInv(v) /\ NodeInv(v)
  BY DEF AsyncInv
<1>f. /\ pc[w] = "loop" /\ payload' = payload /\ node' = node /\ producer' = producer
      /\ refcount' = refcount /\ calls' = calls
      /\ HasInlineWaiter(old[w].state) /\ NumValid(old[w].state) < NodeSlots
  BY DEF ClaimSlot
<1>p. /\ ppc' = ppc /\ extra' = extra /\ list' = list
      /\ numValid' = numValid /\ index' = index
  BY <1>f DEF producer
<1>i. /\ calls[w] = 0 /\ w \notin Live
      /\ word.state # Unconstructed /\ word.state # InitializingInlineWaiter
  BY <1>a, <1>f DEF ThreadInv, LoadInv, Fresh
<1>t. word \in WordType /\ old[w] \in WordType
  BY <1>a DEF TypeOK
<1>1. CASE word # old[w]
  <2>1. old' = [old EXCEPT ![w] = word] /\ word' = word /\ pc' = [pc EXCEPT ![w] = "loop"]
    BY <1>1, <1>a, <1>f DEF ClaimSlot, TypeOK
  <2>2. QED BY <1>f, <1>i, <1>t, <2>1, LocalStep
<1>2. CASE word = old[w]
  <2> DEFINE p == word.ptr
             k == NumValid(word.state)
  <2>f. /\ word' = Word(p, word.state + 1) /\ old' = old
        /\ pc' = [pc EXCEPT ![w] = "fill"]
    BY <1>2 DEF ClaimSlot
  <2>g. word'.ptr = p /\ word'.state = word.state + 1
    BY <2>f DEF Word
  <2>s. word.state \in 2..NodeSlots /\ k \in 1..NodeSlots-1 /\ word.state \in Int
    BY <1>2, <1>f, <1>t DEF WordType
  <2>h. p \in Live /\ p \in Waiters
    <3>1. p # None
      BY <1>a, <2>s DEF WordInv
    <3>2. QED BY <1>a, <3>1, HeadLive DEF Live
  <2>l. Live' = Live /\ Claimed[p] = k /\ Claimed'[p] = k + 1
        /\ \A n \in Waiters \ {p} : Claimed'[n] = Claimed[n]
    BY <1>f, <1>p, <2>g, <2>s, <2>h DEF Live, Claimed
  <2>n. ppc \notin Notified
    BY <1>a, <2>s DEF WordInv
  <2>e. k \notin node[p].init /\ node[p].slot[k] = None
    BY <1>a, <2>h, <2>l, <2>s DEF NodeInv
  <2>1. TypeOK'
    BY <1>a, <1>f, <1>p, <2>f, <2>s DEF TypeOK, AndThenPcs, WordType, Word
  <2>2. WordInv' /\ ProducerInv'
    BY <1>a, <1>f, <1>p, <2>g, <2>s, <2>h, <2>n DEF WordInv, ProducerInv, Notified
  <2>3. ASSUME NEW v \in Waiters PROVE ThreadInv(v)' /\ NodeInv(v)'
    <3>1. old'[v] = old[v] /\ calls'[v] = calls[v] /\ pc'[v] = (IF v = w THEN "fill" ELSE pc[v])
      BY <1>a, <1>f, <2>f DEF TypeOK
    <3>2. NodeInv(v)'
      <4>1. Claimed'[p] \in 1..NodeSlots /\ node[p].init \subseteq 1..(Claimed'[p] - 1)
        BY <1>a, <2>l, <2>h, <2>s DEF NodeInv
      <4>2. QED BY <1>a, <1>f, <1>p, <2>l, <2>h, <2>s, <4>1 DEF NodeInv
    <3>3. Fresh(v)' /\ BuildInv(v)'
      BY <1>a, <1>f, <1>i, <2>l, <2>s, <3>1 DEF ThreadInv, Fresh, BuildInv
    <3>4. LoadInv(v)'
      BY <1>a, <2>g, <2>s, <3>1 DEF ThreadInv, LoadInv
    <3>5. ClaimInv(v)'
      <4>1. CASE v = w
        BY <1>2, <1>f, <2>e, <2>h, <2>l, <2>s, <3>1, <4>1 DEF ClaimInv
      <4>2. CASE v # w
        <5>1. SUFFICES ASSUME pc[v] \in {"fill", "mark"} PROVE ClaimInv(v)'
          BY <3>1, <4>2 DEF ClaimInv
        <5>2. old[v].ptr \in Waiters /\ old[v].ptr \in Live
              /\ NumValid(old[v].state) \in 1..(Claimed[old[v].ptr] - 1)
          BY <1>a, <5>1 DEF ThreadInv, ClaimInv, Live
        <5>3. NumValid(old[v].state) \in 1..(Claimed'[old[v].ptr] - 1)
          BY <2>l, <2>s, <5>2
        <5>4. QED BY <1>a, <1>f, <2>l, <3>1, <4>2, <5>1, <5>2, <5>3 DEF ThreadInv, ClaimInv
      <4>3. QED BY <4>1, <4>2
    <3>6. QED BY <3>2, <3>3, <3>4, <3>5 DEF ThreadInv
  <2>4. ClaimsInv'
    <3>1. ASSUME NEW v \in Waiters, pc[v] \in {"fill", "mark"} PROVE old[v] # old[w]
      <4>1. SUFFICES ASSUME old[v] = word PROVE FALSE
        BY <1>2
      <4>2. QED BY <1>a, <2>l, <2>s, <3>1, <4>1 DEF ThreadInv, ClaimInv
    <3>2. QED BY <1>a, <1>f, <2>f, <3>1 DEF ClaimsInv, TypeOK
  <2>5. PlaceInv'
    BY <1>a, <1>f, <1>p, <2>f DEF PlaceInv, TypeOK
  <2>6. ChainInv'
    BY <1>a, <1>f, <1>p, <2>f, <2>g, <2>1, SameChain
  <2>7. RefInv'
    BY <1>a, <1>f, <1>p, <2>f, SameRef
  <2>8. QED BY <2>1, <2>2, <2>3, <2>4, <2>5, <2>6, <2>7 DEF AsyncInv
<1>3. QED BY <1>1, <1>2

\* The claimed slot is filled.
LEMMA FillSlotInv ==
  ASSUME AsyncInv, NEW w \in Waiters, FillSlot(w) PROVE AsyncInv'
<1>a. /\ TypeOK /\ WordInv /\ ProducerInv /\ ClaimsInv /\ PlaceInv /\ ChainInv /\ RefInv
      /\ \A v \in Waiters : ThreadInv(v) /\ NodeInv(v)
  BY DEF AsyncInv
<1> DEFINE p == old[w].ptr
           k == NumValid(old[w].state)
<1>f. /\ pc[w] = "fill" /\ pc' = [pc EXCEPT ![w] = "mark"]
      /\ node' = [node EXCEPT ![p].slot[k] = w]
      /\ payload' = payload /\ word' = word /\ old' = old /\ producer' = producer
      /\ refcount' = refcount /\ calls' = calls
  BY DEF FillSlot
<1>p. /\ ppc' = ppc /\ extra' = extra /\ list' = list
      /\ numValid' = numValid /\ index' = index
  BY <1>f DEF producer
<1>i. /\ calls[w] = 0 /\ w \notin Live /\ p \in Live /\ p \in Waiters
      /\ k \in 1..(Claimed[p] - 1) /\ k \notin node[p].init /\ node[p].slot[k] = None
  BY <1>a, <1>f DEF ThreadInv, ClaimInv, Fresh, Live
<1>s. Claimed[p] \in 1..NodeSlots /\ k \in 1..(NodeSlots-1) /\ k \in Slots /\ k \in Int
  BY <1>a, <1>i DEF NodeInv, Slots
<1>t. node \in [Waiters -> NodeType] /\ node[p] \in NodeType
  BY <1>a, <1>i DEF TypeOK
<1>n. /\ \A n \in Waiters : node'[n].init = node[n].init /\ node'[n].next = node[n].next
                            /\ node'[n].live = node[n].live
      /\ \A n \in Waiters, i \in Slots :
           node'[n].slot[i] = IF n = p /\ i = k THEN w ELSE node[n].slot[i]
  BY <1>f, <1>i, <1>s, <1>t DEF NodeType
<1>l. Live' = Live /\ Claimed' = Claimed
  BY <1>f, <1>p, <1>n DEF Live, Claimed
<1>1. TypeOK'
  <2>1. node' \in [Waiters -> NodeType]
    BY <1>f, <1>i, <1>s, <1>t DEF NodeType
  <2>2. QED BY <1>a, <1>f, <1>p, <2>1 DEF TypeOK, AndThenPcs
<1>2. WordInv' /\ ProducerInv'
  BY <1>a, <1>f, <1>p, <1>n DEF WordInv, ProducerInv, TypeOK
<1>3. ASSUME NEW v \in Waiters PROVE ThreadInv(v)' /\ NodeInv(v)'
  <2>1. old'[v] = old[v] /\ calls'[v] = calls[v] /\ pc'[v] = (IF v = w THEN "mark" ELSE pc[v])
    BY <1>a, <1>f DEF TypeOK
  <2>2. NodeInv(v)'
    <3>1. CASE v \in Live
      BY <1>a, <1>p, <1>l, <1>n, <1>i, <1>s, <3>1 DEF NodeInv, Slots
    <3>2. CASE v \notin Live
      <4>1. node'[v] = node[v]
        BY <1>f, <1>i, <1>t, <3>2
      <4>2. QED BY <1>a, <1>l, <3>2, <4>1 DEF NodeInv
    <3>3. QED BY <3>1, <3>2
  <2>3. Fresh(v)' /\ LoadInv(v)' /\ BuildInv(v)'
    BY <1>a, <1>f, <1>p, <1>i, <1>l, <2>1 DEF ThreadInv, Fresh, LoadInv, BuildInv
  <2>4. ClaimInv(v)'
    <3>1. CASE v = w
      BY <1>i, <1>l, <1>n, <1>s, <2>1, <3>1 DEF ClaimInv
    <3>2. CASE v # w
      <4>1. SUFFICES ASSUME pc[v] \in {"fill", "mark"} PROVE ClaimInv(v)'
        BY <2>1, <3>2 DEF ClaimInv
      <4>2. /\ old[v].ptr \in Waiters /\ old[v].ptr \in Live
            /\ NumValid(old[v].state) \in 1..(Claimed[old[v].ptr] - 1)
            /\ NumValid(old[v].state) \notin node[old[v].ptr].init
            /\ node[old[v].ptr].slot[NumValid(old[v].state)] =
                 IF pc[v] = "mark" THEN v ELSE None
        BY <1>a, <4>1 DEF ThreadInv, ClaimInv, Live
      <4>3. NumValid(old[v].state) \in Slots
        BY <1>a, <4>2 DEF NodeInv, Slots
      <4>4. old[v].ptr # p \/ NumValid(old[v].state) # k
        <5>1. old[v] # old[w] /\ old[v] \in WordType /\ old[w] \in WordType
          BY <1>a, <1>f, <3>2, <4>1 DEF ClaimsInv, TypeOK
        <5>2. QED BY <5>1 DEF WordType
      <4>5. QED BY <1>l, <1>n, <2>1, <3>2, <4>1, <4>2, <4>3, <4>4 DEF ClaimInv
    <3>3. QED BY <3>1, <3>2
  <2>5. QED BY <2>2, <2>3, <2>4 DEF ThreadInv
<1>4. ClaimsInv'
  BY <1>a, <1>f DEF ClaimsInv, TypeOK
<1>5. PlaceInv'
  <2>1. \A n \in Waiters, i \in Slots : node[n].slot[i] # w
    BY <1>a, <1>f DEF PlaceInv
  <2>2. w \notin {payload, extra}
    BY <1>a, <1>f DEF PlaceInv
  <2>3. \A v \in Waiters : pc'[v] = (IF v = w THEN "mark" ELSE pc[v])
    BY <1>a, <1>f DEF TypeOK
  <2>4. QED BY <1>a, <1>f, <1>p, <1>i, <1>n, <1>s, <2>1, <2>2, <2>3 DEF PlaceInv
<1>6. ChainInv'
  BY <1>a, <1>f, <1>p, <1>n, <1>1, SameChain
<1>7. RefInv'
  BY <1>a, <1>f, <1>p, SameRef
<1>8. QED BY <1>1, <1>2, <1>3, <1>4, <1>5, <1>6, <1>7 DEF AsyncInv

\* The slot's bit is set after the slot was filled; the producer cannot have
\* passed it.
LEMMA MarkSlotInv ==
  ASSUME AsyncInv, NEW w \in Waiters, MarkSlot(w) PROVE AsyncInv'
<1>a. /\ TypeOK /\ WordInv /\ ProducerInv /\ ClaimsInv /\ PlaceInv /\ ChainInv /\ RefInv
      /\ \A v \in Waiters : ThreadInv(v) /\ NodeInv(v)
  BY DEF AsyncInv
<1> DEFINE p == old[w].ptr
           k == NumValid(old[w].state)
<1>f. /\ pc[w] = "mark" /\ pc' = [pc EXCEPT ![w] = "returned"] /\ Return(w)
      /\ node' = [node EXCEPT ![p].init = @ \cup {k}]
      /\ payload' = payload /\ word' = word /\ old' = old /\ producer' = producer
      /\ calls' = calls
  BY DEF MarkSlot, Return
<1>p. /\ ppc' = ppc /\ extra' = extra /\ list' = list
      /\ numValid' = numValid /\ index' = index
  BY <1>f DEF producer
<1>i. /\ calls[w] = 0 /\ p \in Live /\ p \in Waiters
      /\ k \in 1..(Claimed[p] - 1) /\ k \notin node[p].init /\ node[p].slot[k] = w
  BY <1>a, <1>f DEF ThreadInv, ClaimInv, Fresh, Live
<1>s. Claimed[p] \in 1..NodeSlots /\ k \in 1..(NodeSlots-1) /\ k \in Slots /\ k \in Int
  BY <1>a, <1>i DEF NodeInv, Slots
<1>t. node \in [Waiters -> NodeType] /\ node[p] \in NodeType
  BY <1>a, <1>i DEF TypeOK
<1>n. /\ \A n \in Waiters : node'[n].slot = node[n].slot /\ node'[n].next = node[n].next
                            /\ node'[n].live = node[n].live
      /\ \A n \in Waiters \ {p} : node'[n].init = node[n].init /\ node'[n] = node[n]
      /\ node'[p].init = node[p].init \cup {k}
  BY <1>f, <1>i, <1>t DEF NodeType
<1>l. Live' = Live /\ Claimed' = Claimed
  BY <1>f, <1>p, <1>n DEF Live, Claimed
<1>r. ~(p = list /\ ppc = "rest")
  <2>1. SUFFICES ASSUME p = list, ppc = "rest" PROVE FALSE
    OBVIOUS
  <2>2. word.ptr = None /\ node[p].init = 1..(numValid - 1)
    BY <1>a, <2>1 DEF WordInv, ProducerInv, Notified
  <2>3. Claimed[p] = numValid
    BY <1>i, <2>1, <2>2 DEF Claimed
  <2>4. QED BY <1>i, <2>2, <2>3
<1>1. TypeOK'
  <2>1. node' \in [Waiters -> NodeType]
    BY <1>f, <1>i, <1>s, <1>t DEF NodeType
  <2>2. QED BY <1>a, <1>f, <1>p, <2>1 DEF TypeOK, AndThenPcs, Return
<1>2. WordInv' /\ ProducerInv'
  <2>1. ppc = "rest" => list \in Waiters /\ node'[list].init = node[list].init
    BY <1>a, <1>n, <1>r DEF TypeOK, ProducerInv
  <2>2. QED BY <1>a, <1>f, <1>p, <2>1 DEF WordInv, ProducerInv
<1>3. ASSUME NEW v \in Waiters PROVE ThreadInv(v)' /\ NodeInv(v)'
  <2>1. old'[v] = old[v] /\ calls'[v] = calls[v] /\ pc'[v] = (IF v = w THEN "returned" ELSE pc[v])
    BY <1>a, <1>f DEF TypeOK
  <2>2. NodeInv(v)'
    <3>1. CASE v = p
      BY <1>a, <1>p, <1>l, <1>n, <1>i, <1>s, <1>r, <3>1 DEF NodeInv
    <3>2. CASE v # p
      BY <1>a, <1>p, <1>l, <1>n, <3>2 DEF NodeInv
    <3>3. QED BY <3>1, <3>2
  <2>3. Fresh(v)' /\ LoadInv(v)' /\ BuildInv(v)'
    BY <1>a, <1>f, <1>p, <1>i, <1>l, <2>1 DEF ThreadInv, Fresh, LoadInv, BuildInv
  <2>4. ClaimInv(v)'
    <3>1. SUFFICES ASSUME pc[v] \in {"fill", "mark"}, v # w PROVE ClaimInv(v)'
      BY <2>1 DEF ClaimInv
    <3>2. /\ old[v].ptr \in Waiters /\ old[v].ptr \in Live
          /\ NumValid(old[v].state) \in 1..(Claimed[old[v].ptr] - 1)
          /\ NumValid(old[v].state) \notin node[old[v].ptr].init
          /\ node[old[v].ptr].slot[NumValid(old[v].state)] =
               IF pc[v] = "mark" THEN v ELSE None
      BY <1>a, <3>1 DEF ThreadInv, ClaimInv, Live
    <3>3. old[v].ptr # p \/ NumValid(old[v].state) # k
      <4>1. old[v] # old[w] /\ old[v] \in WordType /\ old[w] \in WordType
        BY <1>a, <1>f, <3>1 DEF ClaimsInv, TypeOK
      <4>2. QED BY <4>1 DEF WordType
    <3>4. QED BY <1>l, <1>n, <1>i, <2>1, <3>1, <3>2, <3>3 DEF ClaimInv
  <2>5. QED BY <2>2, <2>3, <2>4 DEF ThreadInv
<1>4. ClaimsInv'
  BY <1>a, <1>f DEF ClaimsInv, TypeOK
<1>5. PlaceInv'
  <2>1. \A v \in Waiters : pc'[v] = (IF v = w THEN "returned" ELSE pc[v])
    BY <1>a, <1>f DEF TypeOK
  <2>2. QED BY <1>a, <1>f, <1>p, <1>i, <1>n, <1>s, <2>1 DEF PlaceInv
<1>6. ChainInv'
  BY <1>a, <1>f, <1>p, <1>n, <1>1, SameChain
<1>7. RefInv'
  BY <1>a, <1>f, <1>p, ReturnRef
<1>8. QED BY <1>1, <1>2, <1>3, <1>4, <1>5, <1>6, <1>7 DEF AsyncInv

\* What a node links to is in the list, or nothing.
LEMMA NextReach ==
  ASSUME NEW nodes \in [Waiters -> NodeType], NEW p \in Pointer, NEW n \in Reach(nodes, p)
  PROVE  nodes[n].next \in Pointer /\ Reach(nodes, nodes[n].next) \subseteq Reach(nodes, p)
<1>1. n \in Waiters /\ nodes[n].next \in Pointer /\ Reach(nodes, nodes[n].next) \subseteq Waiters
  BY DEF Reach, NodeType, Pointer
<1>2. nodes[n].next \in Reach(nodes, p) \cup {None}
  BY <1>1, ReachClosed DEF ClosedUnder
<1>3. Reach(nodes, nodes[n].next) \subseteq Reach(nodes, p) \cup {None}
  <2> DEFINE S == Reach(nodes, p) \cup {None}
  <2>1. S \in SUBSET Pointer /\ ClosedUnder(nodes, S)
    BY ReachClosed
  <2> HIDE DEF S
  <2>2. Reach(nodes, nodes[n].next) \subseteq S
    BY <1>2, <2>1, ReachMinimal DEF S
  <2>3. QED BY <2>2 DEF S
<1>4. QED BY <1>1, <1>3

\* The caller's node becomes the head of the list.
LEMMA PushNodeInv ==
  ASSUME AsyncInv, NEW w \in Waiters, PushNode(w) PROVE AsyncInv'
<1>a. /\ TypeOK /\ WordInv /\ ProducerInv /\ ClaimsInv /\ PlaceInv /\ ChainInv /\ RefInv
      /\ \A v \in Waiters : ThreadInv(v) /\ NodeInv(v)
  BY DEF AsyncInv
<1> DEFINE p == word.ptr
<1>f. /\ pc[w] = "loop" /\ word.state = Valid(NodeSlots)
      /\ pc' = [pc EXCEPT ![w] = "returned"] /\ Return(w)
      /\ node' = [node EXCEPT ![w] = [NoNode EXCEPT !.live = TRUE, !.slot[0] = w, !.next = p]]
      /\ word' = Word(w, Valid(1))
      /\ payload' = payload /\ old' = old /\ producer' = producer /\ calls' = calls
  BY DEF PushNode, Return
<1>p. /\ ppc' = ppc /\ extra' = extra /\ list' = list
      /\ numValid' = numValid /\ index' = index
  BY <1>f DEF producer
<1>g. word' \in WordType /\ word'.ptr = w /\ word'.state = Valid(1)
  BY <1>f DEF Word, WordType
<1>i. /\ calls[w] = 0 /\ w \notin Live /\ ppc \notin Notified /\ list = None
      /\ p \in Pointer /\ p # w /\ node \in [Waiters -> NodeType]
  <2>1. ppc \notin Notified
    BY <1>a, <1>f DEF WordInv
  <2>2. calls[w] = 0 /\ w \notin Live
    BY <1>a, <1>f DEF ThreadInv, Fresh
  <2>3. p # None => p \in Live
    BY <1>a, HeadLive
  <2>4. QED BY <1>a, <2>1, <2>2, <2>3 DEF ProducerInv, TypeOK, WordType, Pointer
<1>n. /\ \A n \in Waiters \ {w} : node'[n] = node[n]
      /\ node'[w] \in NodeType
      /\ node'[w].next = p /\ node'[w].init = {} /\ node'[w].slot[0] = w /\ node'[w].live
      /\ \A i \in 1..NodeSlots-1 : node'[w].slot[i] = None
  <2> DEFINE nn == [NoNode EXCEPT !.live = TRUE, !.slot[0] = w, !.next = p]
  <2>1. NoNode \in NodeType /\ NoNode.init = {} /\ \A i \in Slots : NoNode.slot[i] = None
    BY DEF NoNode, NodeType, Slots
  <2>2. nn \in NodeType
    BY <1>i, <2>1 DEF NodeType, Pointer
  <2>3. nn.next = p /\ nn.init = {} /\ nn.live /\ nn.slot = [NoNode.slot EXCEPT ![0] = w]
    BY <2>1 DEF NodeType
  <2>4. nn.slot[0] = w /\ \A i \in 1..NodeSlots-1 : nn.slot[i] = None
    BY <2>1, <2>3 DEF NodeType, Slots
  <2>5. node'[w] = nn /\ \A n \in Waiters \ {w} : node'[n] = node[n]
    BY <1>f, <1>i
  <2> HIDE DEF nn
  <2>6. QED BY <2>2, <2>3, <2>4, <2>5
<1>l. /\ Live' = Live \cup {w}
      /\ Claimed'[w] = 1 /\ \A n \in Waiters \ {w} : Claimed'[n] = Claimed[n]
  <2>1. Live' = Live \cup {w}
    BY <1>n DEF Live
  <2>2. QED BY <1>a, <1>f, <1>p, <1>g, <1>i, <2>1 DEF Claimed
<1>1. TypeOK'
  <2>1. node' \in [Waiters -> NodeType]
    BY <1>f, <1>i, <1>n
  <2>2. QED BY <1>a, <1>f, <1>p, <1>g, <2>1 DEF TypeOK, AndThenPcs, Return
<1>2. WordInv' /\ ProducerInv'
  BY <1>a, <1>f, <1>p, <1>g, <1>i DEF WordInv, ProducerInv, Notified
<1>3. ASSUME NEW v \in Waiters PROVE ThreadInv(v)' /\ NodeInv(v)'
  <2>1. old'[v] = old[v] /\ calls'[v] = calls[v] /\ pc'[v] = (IF v = w THEN "returned" ELSE pc[v])
    BY <1>a, <1>f DEF TypeOK
  <2>2. NodeInv(v)'
    <3>1. CASE v = w
      BY <1>p, <1>l, <1>n, <1>i, <3>1 DEF NodeInv
    <3>2. CASE v # w
      BY <1>a, <1>p, <1>l, <1>n, <3>2 DEF NodeInv
    <3>3. QED BY <3>1, <3>2
  <2>3. Fresh(v)' /\ LoadInv(v)' /\ BuildInv(v)'
    BY <1>a, <1>f, <1>g, <1>p, <1>i, <1>l, <2>1 DEF ThreadInv, Fresh, LoadInv, BuildInv
  <2>4. ClaimInv(v)'
    <3>1. SUFFICES ASSUME pc[v] \in {"fill", "mark"}, v # w PROVE ClaimInv(v)'
      BY <2>1 DEF ClaimInv
    <3>2. old[v].ptr \in Waiters \ {w} /\ ClaimInv(v)
      BY <1>a, <1>i, <3>1 DEF ThreadInv, ClaimInv, Live
    <3>3. QED BY <1>l, <1>n, <2>1, <3>1, <3>2 DEF ClaimInv
  <2>5. QED BY <2>2, <2>3, <2>4 DEF ThreadInv
<1>4. ClaimsInv'
  BY <1>a, <1>f DEF ClaimsInv, TypeOK
<1>5. PlaceInv'
  <2>1. \A v \in Waiters : pc'[v] = (IF v = w THEN "returned" ELSE pc[v])
    BY <1>a, <1>f DEF TypeOK
  <2>2. \A n \in Waiters, i \in Slots : node[n].slot[i] # w
    BY <1>a, <1>f DEF PlaceInv
  <2>3. w \notin {payload, extra}
    BY <1>a, <1>f DEF PlaceInv
  <2>4. \A n \in Waiters, i \in Slots :
          node'[n].slot[i] = IF n = w THEN (IF i = 0 THEN w ELSE None) ELSE node[n].slot[i]
    BY <1>n DEF Slots
  <2>5. 0 \in Slots /\ \A i \in Slots : node[w].slot[i] = None
    BY <1>a, <1>i DEF NodeInv, NoNode, Slots
  <2>6. QED BY <1>a, <1>f, <1>p, <1>i, <2>1, <2>2, <2>3, <2>4, <2>5 DEF PlaceInv
<1>6. ChainInv'
  <2>t. node' \in [Waiters -> NodeType]
    BY <1>1 DEF TypeOK
  <2>1. Live = Reach(node, p)
    BY <1>a, <1>i, ReachNone DEF ChainInv, Listed
  <2>2. ASSUME NEW q \in Pointer, w \notin Reach(node, q) PROVE Reach(node', q) = Reach(node, q)
    <3>1. \A n \in Reach(node, q) : node'[n].next = node[n].next
      BY <1>n, <2>2 DEF Reach
    <3>2. QED BY <1>i, <2>t, <3>1, ReachSame
  <2>3. Reach(node', p) = Live
    BY <1>i, <2>1, <2>2
  <2>4. Reach(node', w) = {w} \cup Live
    BY <1>n, <1>i, <2>3, ReachStep
  <2>5. Listed' = Live'
    <3>1. Reach(node', None) = {}
      BY ReachNone
    <3>2. QED BY <1>g, <1>i, <1>l, <1>p, <2>4, <3>1 DEF Listed
  <2>6. ASSUME NEW n \in Live' PROVE n \notin Reach(node', node'[n].next)
    <3>1. CASE n = w
      BY <1>i, <1>n, <2>3, <3>1
    <3>2. CASE n # w
      <4>1. n \in Live /\ n \in Waiters /\ node'[n].next = node[n].next
        BY <1>l, <1>n, <2>6, <3>2 DEF Live
      <4>2. node[n].next \in Pointer /\ Reach(node, node[n].next) \subseteq Live
        BY <1>i, <2>1, <4>1, NextReach
      <4>3. Reach(node', node[n].next) = Reach(node, node[n].next)
        BY <1>i, <2>2, <4>2
      <4>4. QED BY <1>a, <4>1, <4>3 DEF ChainInv
    <3>3. QED BY <3>1, <3>2
  <2>7. QED BY <2>5, <2>6 DEF ChainInv
<1>7. RefInv'
  BY <1>a, <1>f, <1>p, ReturnRef
<1>8. QED BY <1>1, <1>2, <1>3, <1>4, <1>5, <1>6, <1>7 DEF AsyncInv

-----------------------------------------------------------------------------
(* The steps of the producer *)

\* The producer closes the payload area to inline waiters, and takes the one that
\* is there.
LEMMA RemoveInlineWaiterInv ==
  ASSUME AsyncInv, RemoveInlineWaiter PROVE AsyncInv'
<1>a. /\ TypeOK /\ WordInv /\ ProducerInv /\ ClaimsInv /\ PlaceInv /\ ChainInv /\ RefInv
      /\ \A v \in Waiters : ThreadInv(v) /\ NodeInv(v)
  BY DEF AsyncInv
<1>f. /\ ppc = "idle" /\ ppc' = "construct" /\ node' = node /\ pc' = pc /\ old' = old
      /\ list' = list /\ numValid' = numValid /\ index' = index
      /\ refcount' = refcount /\ calls' = calls
  BY DEF RemoveInlineWaiter
<1>i. list = None /\ extra = None /\ ppc \notin Notified
  BY <1>a, <1>f DEF ProducerInv, Notified
<1>g. /\ payload' = None /\ word' \in WordType /\ word'.ptr = word.ptr
      /\ HasInlineWaiter(word'.state)
      /\ word'.state # Valid(NodeSlots) => word.ptr # None
      /\ extra' \in Waiters \cup {None}
  <2>1. CASE word.state = Unconstructed
    BY <1>a, <1>f, <1>i, <2>1 DEF RemoveInlineWaiter, ProducerInv, WordInv, Word, WordType
  <2>2. CASE HasInlineWaiter(word.state)
    BY <1>a, <1>f, <2>2 DEF RemoveInlineWaiter, ProducerInv, WordInv, TypeOK
  <2>3. QED BY <2>1, <2>2 DEF RemoveInlineWaiter
<1>b. \A v \in Waiters : pc[v] \notin {"construct", "announce"}
  BY <1>a DEF ThreadInv, BuildInv, RemoveInlineWaiter
<1>l. Live' = Live /\ \A n \in Live : Claimed'[n] = Claimed[n]
  <2>1. Live' = Live
    BY <1>f DEF Live
  <2>2. word.ptr # None => word' = word
    BY <1>a DEF RemoveInlineWaiter, WordInv
  <2>3. QED BY <1>f, <1>g, <2>1, <2>2 DEF Claimed, Live
<1>1. TypeOK'
  BY <1>a, <1>f, <1>g DEF TypeOK, ProducerPcs
<1>2. WordInv' /\ ProducerInv'
  BY <1>f, <1>g, <1>i DEF WordInv, ProducerInv, Notified
<1>3. ASSUME NEW v \in Waiters PROVE ThreadInv(v)' /\ NodeInv(v)'
  <2>1. NodeInv(v)'
    BY <1>a, <1>f, <1>l DEF NodeInv
  <2>2. Fresh(v)' /\ BuildInv(v)'
    BY <1>a, <1>f, <1>b, <1>l DEF ThreadInv, Fresh, BuildInv
  <2>3. LoadInv(v)'
    <3>1. pc[v] \in {"spin", "loop"} => word' = word
      BY <1>a DEF ThreadInv, LoadInv, RemoveInlineWaiter
    <3>2. QED BY <1>a, <1>f, <1>g, <3>1 DEF ThreadInv, LoadInv
  <2>4. ClaimInv(v)'
    BY <1>a, <1>f, <1>l DEF ThreadInv, ClaimInv
  <2>5. QED BY <2>1, <2>2, <2>3, <2>4 DEF ThreadInv
<1>4. ClaimsInv'
  BY <1>a, <1>f DEF ClaimsInv
<1>5. PlaceInv'
  <2>1. extra' = payload
    BY <1>a, <1>f, <1>i DEF RemoveInlineWaiter, ProducerInv
  <2>2. QED BY <1>a, <1>f, <1>g, <1>i, <2>1 DEF PlaceInv
<1>6. ChainInv'
  BY <1>a, <1>f, <1>g, <1>1, SameChain
<1>7. RefInv'
  BY <1>a, <1>f, ProducerRef DEF Holding
<1>8. QED BY <1>1, <1>2, <1>3, <1>4, <1>5, <1>6, <1>7 DEF AsyncInv

\* The payload is constructed, and nobody else uses its area.
LEMMA ConstructPayloadInv ==
  ASSUME AsyncInv, ConstructPayload PROVE AsyncInv'
<1>a. /\ TypeOK /\ WordInv /\ ProducerInv /\ ClaimsInv /\ PlaceInv /\ ChainInv /\ RefInv
      /\ \A v \in Waiters : ThreadInv(v) /\ NodeInv(v)
  BY DEF AsyncInv
<1>f. /\ ppc = "construct" /\ ppc' = "exchange" /\ payload' = Value /\ word' = word
      /\ node' = node /\ pc' = pc /\ old' = old /\ extra' = extra
      /\ list' = list /\ numValid' = numValid /\ index' = index
      /\ refcount' = refcount /\ calls' = calls
  BY DEF ConstructPayload
<1>i. payload = None /\ HasInlineWaiter(word.state) /\ list = None
  BY <1>a, <1>f DEF ProducerInv, Notified
<1>l. Live' = Live /\ Claimed' = Claimed
  BY <1>f DEF Live, Claimed
<1>1. TypeOK'
  BY <1>a, <1>f DEF TypeOK, ProducerPcs
<1>2. WordInv' /\ ProducerInv'
  BY <1>a, <1>f, <1>i DEF WordInv, ProducerInv, Notified
<1>3. ASSUME NEW v \in Waiters PROVE ThreadInv(v)' /\ NodeInv(v)'
  <2>1. NodeInv(v)'
    BY <1>a, <1>f, <1>i, <1>l DEF NodeInv
  <2>2. Fresh(v)' /\ LoadInv(v)' /\ BuildInv(v)'
    BY <1>a, <1>f, <1>l DEF ThreadInv, Fresh, LoadInv, BuildInv
  <2>3. ClaimInv(v)'
    BY <1>a, <1>f, <1>l DEF ThreadInv, ClaimInv
  <2>4. QED BY <2>1, <2>2, <2>3 DEF ThreadInv
<1>4. ClaimsInv'
  BY <1>a, <1>f DEF ClaimsInv
<1>5. PlaceInv'
  BY <1>a, <1>f, <1>i DEF PlaceInv
<1>6. ChainInv'
  BY <1>a, <1>f, <1>1, SameChain
<1>7. RefInv'
  BY <1>a, <1>f, ProducerRef DEF Holding
<1>8. QED BY <1>1, <1>2, <1>3, <1>4, <1>5, <1>6, <1>7 DEF AsyncInv

\* The exchange makes the value ready and detaches the list.
LEMMA NotifyReadyInv ==
  ASSUME AsyncInv, NEW s \in {Available, Error}, NotifyReady(s) PROVE AsyncInv'
<1>a. /\ TypeOK /\ WordInv /\ ProducerInv /\ ClaimsInv /\ PlaceInv /\ ChainInv /\ RefInv
      /\ \A v \in Waiters : ThreadInv(v) /\ NodeInv(v)
  BY DEF AsyncInv
<1>f. /\ ppc = "exchange" /\ ppc' = "dropRef" /\ payload' = payload /\ word' = Word(None, s)
      /\ list' = word.ptr /\ numValid' = NumValid(word.state)
      /\ node' = node /\ pc' = pc /\ old' = old /\ extra' = extra
      /\ index' = index /\ refcount' = refcount /\ calls' = calls
  BY DEF NotifyReady
<1>g. word' \in WordType /\ word'.ptr = None /\ IsReady(word'.state) /\ s \in Int
  BY <1>f DEF Word, WordType
<1>i. payload = Value /\ HasInlineWaiter(word.state) /\ list = None
  BY <1>a, <1>f DEF ProducerInv, Notified
<1>t. word.ptr \in Waiters \cup {None} /\ word.state \in Int
  BY <1>a DEF TypeOK, WordType
<1>l. Live' = Live /\ Claimed' = Claimed
  BY <1>f, <1>g, <1>i, <1>t DEF Live, Claimed
<1>1. TypeOK'
  BY <1>a, <1>f, <1>g, <1>i, <1>t DEF TypeOK, ProducerPcs
<1>2. WordInv' /\ ProducerInv'
  BY <1>f, <1>g, <1>i DEF WordInv, ProducerInv, Notified
<1>3. ASSUME NEW v \in Waiters PROVE ThreadInv(v)' /\ NodeInv(v)'
  <2>1. NodeInv(v)'
    BY <1>a, <1>f, <1>i, <1>l DEF NodeInv
  <2>2. Fresh(v)' /\ LoadInv(v)' /\ BuildInv(v)'
    BY <1>a, <1>f, <1>g, <1>l DEF ThreadInv, Fresh, LoadInv, BuildInv
  <2>3. ClaimInv(v)'
    BY <1>a, <1>f, <1>l DEF ThreadInv, ClaimInv
  <2>4. QED BY <2>1, <2>2, <2>3 DEF ThreadInv
<1>4. ClaimsInv'
  BY <1>a, <1>f DEF ClaimsInv
<1>5. PlaceInv'
  BY <1>a, <1>f DEF PlaceInv
<1>6. ChainInv'
  <2>1. Listed' = Listed
    BY <1>f, <1>g, <1>i DEF Listed
  <2>2. QED BY <1>a, <1>f, <1>l, <2>1 DEF ChainInv
<1>7. RefInv'
  BY <1>a, <1>f, ProducerRef DEF Holding
<1>8. QED BY <1>1, <1>2, <1>3, <1>4, <1>5, <1>6, <1>7 DEF AsyncInv

\* dropRef: the producer gives up its reference and calls the inline waiter.
LEMMA DropRefInv ==
  ASSUME AsyncInv, DropRefAndRunExtra PROVE AsyncInv'
<1>a. /\ TypeOK /\ WordInv /\ ProducerInv /\ ClaimsInv /\ PlaceInv /\ ChainInv /\ RefInv
      /\ \A v \in Waiters : ThreadInv(v) /\ NodeInv(v)
  BY DEF AsyncInv
<1>f. /\ ppc = "dropRef" /\ ppc' = "node" /\ extra' = None /\ refcount' = refcount - 1
      /\ word' = word /\ payload' = payload /\ node' = node /\ pc' = pc /\ old' = old
      /\ list' = list /\ numValid' = numValid /\ index' = index
  BY DEF DropRefAndRunExtra
<1>c. /\ calls' \in [Waiters -> Nat]
      /\ \A v \in Waiters : calls'[v] = IF v = extra THEN calls[v] + 1 ELSE calls[v]
  BY <1>a DEF DropRefAndRunExtra, CallWaiters, TypeOK
<1>i. payload = Value
  BY <1>a, <1>f DEF ProducerInv, Notified
<1>b. \A v \in Waiters : pc[v] \notin {"construct", "announce"}
  BY <1>a, <1>f DEF ThreadInv, BuildInv
<1>e. extra \in Waiters => pc[extra] = "returned" /\ calls[extra] = 0
  BY <1>a, <1>b DEF PlaceInv
<1>l. Live' = Live /\ Claimed' = Claimed
  BY <1>f DEF Live, Claimed
<1>1. TypeOK'
  BY <1>a, <1>f, <1>c DEF TypeOK, ProducerPcs
<1>2. WordInv' /\ ProducerInv'
  BY <1>a, <1>f, <1>i DEF WordInv, ProducerInv, Notified
<1>3. ASSUME NEW v \in Waiters PROVE ThreadInv(v)' /\ NodeInv(v)'
  <2>1. NodeInv(v)'
    BY <1>a, <1>f, <1>l DEF NodeInv
  <2>2. Fresh(v)' /\ LoadInv(v)' /\ BuildInv(v)'
    BY <1>a, <1>f, <1>b, <1>c, <1>e, <1>l DEF ThreadInv, Fresh, LoadInv, BuildInv
  <2>3. ClaimInv(v)'
    BY <1>a, <1>f, <1>l DEF ThreadInv, ClaimInv
  <2>4. QED BY <2>1, <2>2, <2>3 DEF ThreadInv
<1>4. ClaimsInv'
  BY <1>a, <1>f DEF ClaimsInv
<1>5. PlaceInv'
  <2>1. \A n \in Waiters, i \in Slots : node[n].slot[i] \in Waiters => node[n].slot[i] # extra
    BY <1>a DEF PlaceInv
  <2>2. QED BY <1>a, <1>f, <1>c, <1>e, <1>i, <2>1 DEF PlaceInv, TypeOK
<1>6. ChainInv'
  BY <1>a, <1>f, <1>1, SameChain
<1>7. RefInv'
  <2>1. Busy' = Busy
    BY <1>f DEF Busy
  <2>2. QED BY <1>a, <1>f, <2>1, BusyFinite DEF RefInv, Busy, Holding, TypeOK
<1>8. QED BY <1>1, <1>2, <1>3, <1>4, <1>5, <1>6, <1>7 DEF AsyncInv

\* Calling the waiter of slot i of the node the producer is at, and emptying it,
\* takes that waiter out of its only place.
LEMMA CallSlot ==
  ASSUME AsyncInv, NEW i \in Slots, list \in Live, node[list].slot[i] # None,
         i = 0 \/ i \in node[list].init,
         CallWaiters({node[list].slot[i]} \ {None}),
         node' = [node EXCEPT ![list].slot[i] = None],
         word' = word, payload' = payload, pc' = pc, old' = old, extra' = extra,
         list' = list, numValid' = numValid, refcount' = refcount,
         ppc \in {"node", "rest"}, ppc' \in {"spin", "rest"},
         index' \in Nat
  PROVE  /\ TypeOK' /\ ClaimsInv' /\ PlaceInv' /\ ChainInv' /\ RefInv' /\ WordInv'
         /\ \A v \in Waiters : ThreadInv(v)'
         /\ Live' = Live /\ Claimed' = Claimed
         /\ \A n \in Waiters : node'[n].init = node[n].init
         /\ \A n \in Waiters, j \in Slots :
              node'[n].slot[j] = IF n = list /\ j = i THEN None ELSE node[n].slot[j]
         /\ \A n \in Waiters \ {list} : node'[n] = node[n]
<1>a. /\ TypeOK /\ WordInv /\ ProducerInv /\ ClaimsInv /\ PlaceInv /\ ChainInv /\ RefInv
      /\ \A v \in Waiters : ThreadInv(v) /\ NodeInv(v)
  BY DEF AsyncInv
<1> DEFINE a == node[list].slot[i]
<1>t. list \in Waiters /\ node \in [Waiters -> NodeType] /\ node[list] \in NodeType /\ a \in Waiters
  BY <1>a DEF TypeOK, Live, NodeType
<1>c. /\ calls' \in [Waiters -> Nat]
      /\ \A v \in Waiters : calls'[v] = IF v = a THEN calls[v] + 1 ELSE calls[v]
  BY <1>a, <1>t DEF CallWaiters, TypeOK
<1>n. /\ node' \in [Waiters -> NodeType]
      /\ \A n \in Waiters : node'[n].init = node[n].init /\ node'[n].next = node[n].next
                            /\ node'[n].live = node[n].live
      /\ \A n \in Waiters, j \in Slots :
           node'[n].slot[j] = IF n = list /\ j = i THEN None ELSE node[n].slot[j]
      /\ \A n \in Waiters \ {list} : node'[n] = node[n]
  BY <1>t DEF NodeType
<1>l. Live' = Live /\ Claimed' = Claimed
  BY <1>n DEF Live, Claimed
<1>b. \A v \in Waiters : pc[v] \notin {"construct", "announce"}
  BY <1>a DEF ThreadInv, BuildInv
<1>m. ASSUME NEW v \in Waiters, pc[v] \in {"fill", "mark"}
      PROVE  /\ old[v].ptr \in Live /\ old[v].ptr \in Waiters
             /\ NumValid(old[v].state) \in Slots
             /\ ~(old[v].ptr = list /\ NumValid(old[v].state) = i)
             /\ node[old[v].ptr].slot[NumValid(old[v].state)] =
                  IF pc[v] = "mark" THEN v ELSE None
  <2>1. /\ old[v].ptr \in Live /\ old[v].ptr \in Waiters
        /\ NumValid(old[v].state) \in 1..(Claimed[old[v].ptr] - 1)
        /\ NumValid(old[v].state) \notin node[old[v].ptr].init
        /\ node[old[v].ptr].slot[NumValid(old[v].state)] =
             IF pc[v] = "mark" THEN v ELSE None
    BY <1>a, <1>m DEF ThreadInv, ClaimInv, Live
  <2>2. NumValid(old[v].state) \in Slots
    BY <1>a, <2>1 DEF NodeInv, Slots
  <2>3. NumValid(old[v].state) # 0
    BY <2>1
  <2>4. QED BY <2>1, <2>2, <2>3
<1>e. pc[a] = "returned" /\ calls[a] = 0 /\ a # payload /\ a # extra
  <2>1. /\ calls[a] = 0 /\ pc[a] \in {"mark", "returned"} /\ a \notin {payload, extra}
    BY <1>a, <1>t DEF PlaceInv
  <2>2. pc[a] # "mark"
    BY <1>a, <1>m, <1>t DEF PlaceInv
  <2>3. QED BY <2>1, <2>2
<1>1. TypeOK'
  BY <1>a, <1>n, <1>c DEF TypeOK, ProducerPcs
<1>2. WordInv'
  BY <1>a DEF WordInv, Notified
<1>3. ASSUME NEW v \in Waiters PROVE ThreadInv(v)'
  <2>2. Fresh(v)' /\ LoadInv(v)' /\ BuildInv(v)'
    BY <1>a, <1>b, <1>c, <1>e, <1>l DEF ThreadInv, Fresh, LoadInv, BuildInv
  <2>3. ClaimInv(v)'
    <3>1. SUFFICES ASSUME pc[v] \in {"fill", "mark"} PROVE ClaimInv(v)'
      BY DEF ClaimInv
    <3>2. QED BY <1>a, <1>l, <1>n, <1>m, <3>1 DEF ThreadInv, ClaimInv
  <2>4. QED BY <2>2, <2>3 DEF ThreadInv
<1>4. ClaimsInv'
  BY <1>a DEF ClaimsInv
<1>5. PlaceInv'
  <2>1. \A n \in Waiters, j \in Slots : node[n].slot[j] = a => n = list /\ j = i
    BY <1>a, <1>t DEF PlaceInv
  <2>2. \A w \in Waiters : payload' = w \/ extra' = w =>
          calls'[w] = 0 /\ pc'[w] \in {"announce", "returned"}
    BY <1>a, <1>c, <1>e DEF PlaceInv
  <2>3. \A n \in Waiters, j \in Slots : node'[n].slot[j] \in Waiters =>
          node'[n].slot[j] = node[n].slot[j] /\ node[n].slot[j] # a
    BY <1>n, <2>1
  <2>4. \A n \in Waiters, j \in Slots : node'[n].slot[j] \in Waiters =>
          /\ calls'[node'[n].slot[j]] = 0
          /\ pc'[node'[n].slot[j]] \in {"mark", "returned"}
          /\ node'[n].slot[j] \notin {payload', extra'}
    BY <1>a, <1>c, <2>3 DEF PlaceInv
  <2>5. \A n, m \in Waiters, j, k \in Slots :
          node'[n].slot[j] \in Waiters /\ node'[n].slot[j] = node'[m].slot[k] => n = m /\ j = k
    <3>1. SUFFICES ASSUME NEW n \in Waiters, NEW m \in Waiters, NEW j \in Slots, NEW k \in Slots,
                          node'[n].slot[j] \in Waiters, node'[n].slot[j] = node'[m].slot[k]
                   PROVE  n = m /\ j = k
      OBVIOUS
    <3>2. node[n].slot[j] \in Waiters /\ node[n].slot[j] = node[m].slot[k]
      BY <2>3, <3>1
    <3>3. QED BY <1>a, <3>2 DEF PlaceInv
  <2>6. ASSUME NEW w \in Waiters, pc'[w] = "returned", calls'[w] = 0
        PROVE  \/ w \in {payload', extra'}
               \/ \E n \in Waiters, j \in Slots : node'[n].slot[j] = w
    <3>1. w # a /\ calls[w] = 0 /\ pc[w] = "returned"
      BY <1>c, <1>e, <2>6
    <3>2. w \in {payload, extra} \/ \E n \in Waiters, j \in Slots : node[n].slot[j] = w
      BY <1>a, <3>1 DEF PlaceInv
    <3>3. QED BY <1>n, <3>1, <3>2
  <2>7. \A w \in Waiters : calls'[w] <= 1
    BY <1>a, <1>c, <1>e, <1>t DEF PlaceInv
  <2>8. QED BY <1>a, <2>2, <2>4, <2>5, <2>6, <2>7 DEF PlaceInv
<1>6. ChainInv'
  BY <1>a, <1>n, <1>1, SameChain
<1>7. RefInv'
  BY <1>a, ProducerRef DEF Holding
<1>8. QED BY <1>1, <1>2, <1>3, <1>4, <1>5, <1>6, <1>7, <1>l, <1>n

\* The first waiter of a node is called.
LEMMA RunFirstWaiterInv ==
  ASSUME AsyncInv, RunFirstWaiter PROVE AsyncInv'
<1>a. /\ TypeOK /\ WordInv /\ ProducerInv /\ ChainInv /\ \A v \in Waiters : NodeInv(v)
  BY DEF AsyncInv
<1>f. /\ ppc = "node" /\ list # None /\ ppc' = "spin"
      /\ node' = [node EXCEPT ![list].slot[0] = None]
      /\ CallWaiters({node[list].slot[0]} \ {None})
      /\ word' = word /\ payload' = payload /\ pc' = pc /\ old' = old /\ extra' = extra
      /\ list' = list /\ numValid' = numValid /\ index' = index /\ refcount' = refcount
  BY DEF RunFirstWaiter
<1>i. list \in Live /\ list \in Waiters /\ 0 \in Slots /\ node[list].slot[0] # None /\ index \in Nat
  <2>1. list \in Live
    BY <1>a, <1>f, HeadLive
  <2>2. QED BY <1>a, <1>f, <2>1 DEF NodeInv, Live, Slots, TypeOK
<1>1. /\ TypeOK' /\ ClaimsInv' /\ PlaceInv' /\ ChainInv' /\ RefInv' /\ WordInv'
      /\ \A v \in Waiters : ThreadInv(v)'
      /\ Live' = Live /\ Claimed' = Claimed
      /\ \A n \in Waiters : node'[n].init = node[n].init
      /\ \A n \in Waiters, j \in Slots :
           node'[n].slot[j] = IF n = list /\ j = 0 THEN None ELSE node[n].slot[j]
      /\ \A n \in Waiters \ {list} : node'[n] = node[n]
  BY <1>f, <1>i, CallSlot
<1>2. ProducerInv'
  BY <1>a, <1>f DEF ProducerInv, Notified
<1>3. ASSUME NEW v \in Waiters PROVE NodeInv(v)'
  <2>1. CASE v = list
    BY <1>a, <1>f, <1>i, <1>1, <2>1 DEF NodeInv, Slots
  <2>2. CASE v # list
    BY <1>a, <1>f, <1>i, <1>1, <2>2 DEF NodeInv
  <2>3. QED BY <2>1, <2>2
<1>4. QED BY <1>1, <1>2, <1>3 DEF AsyncInv

\* The producer goes on when every claimed slot of the node is marked.
LEMMA SpinSlotsInv ==
  ASSUME AsyncInv, SpinSlots PROVE AsyncInv'
<1>a. /\ TypeOK /\ WordInv /\ ProducerInv /\ ClaimsInv /\ PlaceInv /\ ChainInv /\ RefInv
      /\ \A v \in Waiters : ThreadInv(v) /\ NodeInv(v)
  BY DEF AsyncInv
<1>f. /\ ppc = "spin" /\ ppc' = "rest" /\ index' = 1 /\ node[list].init = 1..(numValid - 1)
      /\ word' = word /\ payload' = payload /\ node' = node /\ pc' = pc /\ old' = old
      /\ list' = list /\ numValid' = numValid /\ extra' = extra
      /\ refcount' = refcount /\ calls' = calls
  BY DEF SpinSlots
<1>i. list # None /\ list \in Live /\ list \in Waiters /\ word.ptr = None
  <2>1. list # None /\ word.ptr = None
    BY <1>a, <1>f DEF ProducerInv, WordInv, Notified
  <2>2. QED BY <1>a, <2>1, HeadLive DEF Live
<1>l. Live' = Live /\ Claimed' = Claimed /\ Claimed[list] = numValid
  BY <1>f, <1>i DEF Live, Claimed
<1>k. numValid \in 1..NodeSlots
  BY <1>a, <1>i, <1>l DEF NodeInv
<1>1. TypeOK'
  BY <1>a, <1>f DEF TypeOK, ProducerPcs
<1>2. WordInv' /\ ProducerInv'
  BY <1>a, <1>f, <1>k DEF WordInv, ProducerInv, Notified
<1>3. ASSUME NEW v \in Waiters PROVE ThreadInv(v)' /\ NodeInv(v)'
  <2>1. NodeInv(v)'
    BY <1>a, <1>f, <1>l DEF NodeInv
  <2>2. Fresh(v)' /\ LoadInv(v)' /\ BuildInv(v)'
    BY <1>a, <1>f, <1>l DEF ThreadInv, Fresh, LoadInv, BuildInv
  <2>3. ClaimInv(v)'
    BY <1>a, <1>f, <1>l DEF ThreadInv, ClaimInv
  <2>4. QED BY <2>1, <2>2, <2>3 DEF ThreadInv
<1>4. ClaimsInv' /\ PlaceInv'
  BY <1>a, <1>f DEF ClaimsInv, PlaceInv
<1>5. ChainInv'
  BY <1>a, <1>f, <1>1, SameChain
<1>6. RefInv'
  BY <1>a, <1>f, ProducerRef DEF Holding
<1>7. QED BY <1>1, <1>2, <1>3, <1>4, <1>5, <1>6 DEF AsyncInv

\* The other waiters of a node are called, in order.
LEMMA RunOtherWaiterInv ==
  ASSUME AsyncInv, RunOtherWaiter PROVE AsyncInv'
<1>a. /\ TypeOK /\ WordInv /\ ProducerInv /\ ChainInv /\ \A v \in Waiters : NodeInv(v)
  BY DEF AsyncInv
<1>f. /\ ppc = "rest" /\ index # numValid /\ ppc' = ppc /\ index' = index + 1
      /\ node' = [node EXCEPT ![list].slot[index] = None]
      /\ CallWaiters({node[list].slot[index]} \ {None})
      /\ word' = word /\ payload' = payload /\ pc' = pc /\ old' = old /\ extra' = extra
      /\ list' = list /\ numValid' = numValid /\ refcount' = refcount
  BY DEF RunOtherWaiter
<1>i. /\ list \in Live /\ list \in Waiters /\ index \in 1..(numValid - 1)
      /\ node[list].init = 1..(numValid - 1) /\ numValid \in Nat /\ index \in Nat
      /\ word.ptr = None
  <2>1. list # None /\ word.ptr = None /\ index \in 1..numValid /\ node[list].init = 1..(numValid - 1)
    BY <1>a, <1>f DEF ProducerInv, WordInv, Notified
  <2>2. list \in Live
    BY <1>a, <2>1, HeadLive
  <2>3. QED BY <1>a, <1>f, <2>1, <2>2 DEF Live, TypeOK
<1>k. Claimed[list] = numValid /\ numValid \in 1..NodeSlots /\ index \in Slots
      /\ index \in 1..NodeSlots-1
  <2>1. Claimed[list] = numValid
    BY <1>i DEF Claimed
  <2>2. numValid \in 1..NodeSlots
    BY <1>a, <1>i, <2>1 DEF NodeInv
  <2>3. QED BY <1>i, <2>1, <2>2 DEF Slots
<1>e. node[list].slot[index] # None
  BY <1>a, <1>i, <1>k DEF NodeInv
<1>h. /\ index \in node[list].init /\ index' \in Nat
      /\ ppc \in {"node", "rest"} /\ ppc' \in {"spin", "rest"}
  BY <1>f, <1>i
<1>1. /\ TypeOK' /\ ClaimsInv' /\ PlaceInv' /\ ChainInv' /\ RefInv' /\ WordInv'
      /\ \A v \in Waiters : ThreadInv(v)'
      /\ Live' = Live /\ Claimed' = Claimed
      /\ \A n \in Waiters : node'[n].init = node[n].init
      /\ \A n \in Waiters, j \in Slots :
           node'[n].slot[j] = IF n = list /\ j = index THEN None ELSE node[n].slot[j]
      /\ \A n \in Waiters \ {list} : node'[n] = node[n]
  BY <1>f, <1>i, <1>k, <1>e, <1>h, CallSlot
<1>2. ProducerInv'
  BY <1>a, <1>f, <1>i, <1>1 DEF ProducerInv, Notified
<1>3. ASSUME NEW v \in Waiters PROVE NodeInv(v)'
  <2>1. CASE v = list
    BY <1>a, <1>f, <1>i, <1>k, <1>1, <2>1 DEF NodeInv, Slots
  <2>2. CASE v # list
    BY <1>a, <1>f, <1>i, <1>1, <2>2 DEF NodeInv
  <2>3. QED BY <2>1, <2>2
<1>4. QED BY <1>1, <1>2, <1>3 DEF AsyncInv

\* The node whose waiters have all been called is freed: it is empty, nobody has
\* a claim in it, and the rest of the list does not lead back to it.
LEMMA DeleteNodeInv ==
  ASSUME AsyncInv, DeleteNode PROVE AsyncInv'
<1>a. /\ TypeOK /\ WordInv /\ ProducerInv /\ ClaimsInv /\ PlaceInv /\ ChainInv /\ RefInv
      /\ \A v \in Waiters : ThreadInv(v) /\ NodeInv(v)
  BY DEF AsyncInv
<1>f. /\ ppc = "rest" /\ index = numValid /\ ppc' = "node" /\ index' = 0
      /\ list' = node[list].next /\ numValid' = NodeSlots
      /\ node' = [node EXCEPT ![list] = NoNode]
      /\ word' = word /\ payload' = payload /\ pc' = pc /\ old' = old /\ extra' = extra
      /\ refcount' = refcount /\ calls' = calls
  BY DEF DeleteNode
<1>i. /\ list # None /\ list \in Live /\ list \in Waiters
      /\ node[list].init = 1..(numValid - 1) /\ word.ptr = None
      /\ node \in [Waiters -> NodeType]
  <2>1. list # None /\ word.ptr = None /\ node[list].init = 1..(numValid - 1)
    BY <1>a, <1>f DEF ProducerInv, WordInv, Notified
  <2>2. list \in Live
    BY <1>a, <2>1, HeadLive
  <2>3. QED BY <1>a, <2>1, <2>2 DEF Live, TypeOK
<1>k. Claimed[list] = numValid /\ numValid \in 1..NodeSlots
  <2>1. Claimed[list] = numValid
    BY <1>i DEF Claimed
  <2>2. QED BY <1>a, <1>i, <2>1 DEF NodeInv
<1> DEFINE q == node[list].next
<1>q. q \in Pointer /\ list' = q
  BY <1>f, <1>i DEF NodeType, Pointer
<1>c. /\ Reach(node, q) = Live \ {list}
      /\ Live = Reach(node, list)
  <2>1. Live = Reach(node, list)
    BY <1>a, <1>i, ReachNone DEF ChainInv, Listed
  <2>2. Reach(node, list) = {list} \cup Reach(node, q)
    BY <1>i, <1>q, ReachStep
  <2>3. list \notin Reach(node, q)
    BY <1>a, <1>i DEF ChainInv
  <2>4. QED BY <2>1, <2>2, <2>3
<1>n. /\ \A n \in Waiters \ {list} : node'[n] = node[n]
      /\ node'[list] = NoNode /\ NoNode \in NodeType /\ ~NoNode.live
      /\ node' \in [Waiters -> NodeType]
  <2>1. NoNode \in NodeType /\ ~NoNode.live
    BY DEF NoNode, NodeType, Slots
  <2>2. QED BY <1>f, <1>i, <2>1
<1>l. /\ Live' = Live \ {list}
      /\ \A n \in Live' : Claimed'[n] = Claimed[n]
  <2>1. Live' = Live \ {list}
    BY <1>n DEF Live
  <2>2. QED BY <1>f, <1>i, <2>1 DEF Claimed, Live
<1>m. ASSUME NEW v \in Waiters, pc[v] \in {"fill", "mark"} PROVE old[v].ptr # list
  BY <1>a, <1>i, <1>k, <1>m DEF ThreadInv, ClaimInv
<1>e. \A j \in Slots : node[list].slot[j] = None
  <2>1. node[list].slot[0] = None
    BY <1>a, <1>f, <1>i DEF NodeInv
  <2>2. ASSUME NEW j \in 1..NodeSlots-1 PROVE node[list].slot[j] = None
    <3>1. CASE j >= numValid
      BY <1>a, <1>i, <1>k, <2>2, <3>1 DEF NodeInv
    <3>2. CASE j < numValid
      <4>1. j \in node[list].init /\ j < index
        BY <1>f, <1>i, <1>k, <2>2, <3>2
      <4>2. QED BY <1>a, <1>f, <1>i, <2>2, <4>1 DEF NodeInv
    <3>3. QED BY <1>k, <2>2, <3>1, <3>2
  <2>3. QED BY <2>1, <2>2 DEF Slots
<1>1. TypeOK'
  BY <1>a, <1>f, <1>n, <1>q DEF TypeOK, ProducerPcs, Pointer
<1>2. WordInv' /\ ProducerInv'
  BY <1>a, <1>f DEF WordInv, ProducerInv, Notified
<1>3. ASSUME NEW v \in Waiters PROVE ThreadInv(v)' /\ NodeInv(v)'
  <2>1. NodeInv(v)'
    <3>1. CASE v = list
      BY <1>n, <1>l, <3>1 DEF NodeInv
    <3>2. CASE v # list
      BY <1>a, <1>f, <1>n, <1>l, <3>2 DEF NodeInv
    <3>3. QED BY <3>1, <3>2
  <2>2. Fresh(v)' /\ LoadInv(v)' /\ BuildInv(v)'
    BY <1>a, <1>f, <1>l DEF ThreadInv, Fresh, LoadInv, BuildInv
  <2>3. ClaimInv(v)'
    <3>1. SUFFICES ASSUME pc[v] \in {"fill", "mark"} PROVE ClaimInv(v)'
      BY <1>f DEF ClaimInv
    <3>2. old[v].ptr \in Waiters \ {list} /\ old[v].ptr \in Live' /\ ClaimInv(v)
      BY <1>a, <1>m, <1>l, <3>1 DEF ThreadInv, ClaimInv, Live
    <3>3. QED BY <1>f, <1>l, <1>n, <3>1, <3>2 DEF ClaimInv
  <2>4. QED BY <2>1, <2>2, <2>3 DEF ThreadInv
<1>4. ClaimsInv'
  BY <1>a, <1>f DEF ClaimsInv
<1>5. PlaceInv'
  <2>1. \A n \in Waiters, j \in Slots : node'[n].slot[j] = node[n].slot[j]
    BY <1>n, <1>e DEF NoNode, Slots
  <2>2. QED BY <1>a, <1>f, <2>1 DEF PlaceInv
<1>6. ChainInv'
  <2>1. ASSUME NEW r \in Pointer, list \notin Reach(node, r) PROVE Reach(node', r) = Reach(node, r)
    <3>1. \A n \in Reach(node, r) : node'[n].next = node[n].next
      BY <1>n, <2>1 DEF Reach
    <3>2. QED BY <1>i, <1>n, <3>1, ReachSame
  <2>2. Listed' = Live'
    <3>1. Reach(node', q) = Live'
      BY <1>c, <1>l, <1>q, <2>1
    <3>2. QED BY <1>f, <1>i, <3>1, ReachNone DEF Listed
  <2>3. ASSUME NEW n \in Live' PROVE n \notin Reach(node', node'[n].next)
    <3>1. n \in Live /\ n \in Waiters /\ n # list /\ n \in Reach(node, q) /\ node'[n] = node[n]
      BY <1>c, <1>l, <1>n, <2>3 DEF Live
    <3>2. node[n].next \in Pointer /\ list \notin Reach(node, node[n].next)
      BY <1>i, <1>c, <1>q, <3>1, NextReach
    <3>3. QED BY <1>a, <2>1, <3>1, <3>2 DEF ChainInv
  <2>4. QED BY <2>2, <2>3 DEF ChainInv
<1>7. RefInv'
  BY <1>a, <1>f, ProducerRef DEF Holding
<1>8. QED BY <1>1, <1>2, <1>3, <1>4, <1>5, <1>6, <1>7 DEF AsyncInv

\* The walk is over.
LEMMA ProducerReturnsInv ==
  ASSUME AsyncInv, ProducerReturns PROVE AsyncInv'
<1>a. /\ TypeOK /\ WordInv /\ ProducerInv /\ ClaimsInv /\ PlaceInv /\ ChainInv /\ RefInv
      /\ \A v \in Waiters : ThreadInv(v) /\ NodeInv(v)
  BY DEF AsyncInv
<1>f. /\ ppc = "node" /\ ppc' = "done" /\ list = None
      /\ word' = word /\ payload' = payload /\ node' = node /\ pc' = pc /\ old' = old
      /\ list' = list /\ numValid' = numValid /\ index' = index /\ extra' = extra
      /\ refcount' = refcount /\ calls' = calls
  BY DEF ProducerReturns
<1>l. Live' = Live /\ Claimed' = Claimed
  BY <1>f DEF Live, Claimed
<1>1. TypeOK'
  BY <1>a, <1>f DEF TypeOK, ProducerPcs
<1>2. WordInv' /\ ProducerInv'
  BY <1>a, <1>f DEF WordInv, ProducerInv, Notified
<1>3. ASSUME NEW v \in Waiters PROVE ThreadInv(v)' /\ NodeInv(v)'
  <2>1. NodeInv(v)'
    BY <1>a, <1>f, <1>l DEF NodeInv
  <2>2. Fresh(v)' /\ LoadInv(v)' /\ BuildInv(v)'
    BY <1>a, <1>f, <1>l DEF ThreadInv, Fresh, LoadInv, BuildInv
  <2>3. ClaimInv(v)'
    BY <1>a, <1>f, <1>l DEF ThreadInv, ClaimInv
  <2>4. QED BY <2>1, <2>2, <2>3 DEF ThreadInv
<1>4. ClaimsInv' /\ PlaceInv'
  BY <1>a, <1>f DEF ClaimsInv, PlaceInv
<1>5. ChainInv'
  BY <1>a, <1>f, <1>1, SameChain
<1>6. RefInv'
  BY <1>a, <1>f, ProducerRef DEF Holding
<1>7. QED BY <1>1, <1>2, <1>3, <1>4, <1>5, <1>6 DEF AsyncInv

\* A step that changes nothing.
LEMMA StutterInv ==
  ASSUME AsyncInv, UNCHANGED vars PROVE AsyncInv'
<1>f. /\ word' = word /\ payload' = payload /\ node' = node /\ pc' = pc /\ old' = old
      /\ ppc' = ppc /\ extra' = extra /\ list' = list /\ numValid' = numValid
      /\ index' = index /\ refcount' = refcount /\ calls' = calls
  BY DEF vars
<1>1. /\ TypeOK' /\ WordInv' /\ ProducerInv' /\ ClaimsInv' /\ PlaceInv'
  BY <1>f DEF AsyncInv, TypeOK, WordInv, ProducerInv, ClaimsInv, PlaceInv
<1>2. ChainInv' /\ RefInv'
  BY <1>f DEF AsyncInv, ChainInv, RefInv, Listed, Live
<1>3. ASSUME NEW v \in Waiters PROVE ThreadInv(v)' /\ NodeInv(v)'
  BY <1>f, OtherThread DEF AsyncInv, producer
<1>4. QED BY <1>1, <1>2, <1>3 DEF AsyncInv

-----------------------------------------------------------------------------
(* The theorems *)

\* Every step keeps the invariant.
LEMMA NextInv == AsyncInv /\ [Next]_vars => AsyncInv'
<1> SUFFICES ASSUME AsyncInv, [Next]_vars PROVE AsyncInv'
  OBVIOUS
<1>1. ASSUME NEW w \in Waiters, Register(w) PROVE AsyncInv'
  BY <1>1, AndThenInv, ClaimInlineInv, ConstructInlineInv, AnnounceInlineInv,
     SpinInitializingInv, RunNowInv, ClaimSlotInv, FillSlotInv, MarkSlotInv,
     PushNodeInv, PushNodeFailsInv DEF Register
<1>2. CASE Produce
  <2>1. ASSUME NEW s \in {Available, Error}, NotifyReady(s) PROVE AsyncInv'
    BY <2>1, NotifyReadyInv
  <2>2. QED
    BY <1>2, <2>1, RemoveInlineWaiterInv, ConstructPayloadInv, DropRefInv,
       RunFirstWaiterInv, SpinSlotsInv, RunOtherWaiterInv, DeleteNodeInv,
       ProducerReturnsInv DEF Produce
<1>3. CASE Terminated \/ UNCHANGED vars
  BY <1>3, StutterInv DEF Terminated
<1>4. QED BY <1>1, <1>2, <1>3 DEF Next

\* The inductive invariant holds in every state of the waiter list.
THEOREM AsyncInvariant == Spec => []AsyncInv
<1>1. QED BY InitInv, NextInv, PTL DEF Spec

\* However many callers race with the producer, no waiter is lost and none is
\* called twice (andThenOutOfLine, runWaitersAndDeallocate).
THEOREM NoWaiterIsLost == Spec => []NoWaiterLost
<1>1. AsyncInv => NoWaiterLost
  <2>1. SUFFICES ASSUME AsyncInv, NEW w \in Waiters
                 PROVE  /\ calls[w] <= 1
                        /\ pc[w] = "returned" /\ calls[w] = 0 =>
                             w \in {payload, extra}
                                   \cup {node[n].slot[i] : n \in Listed, i \in Slots}
    BY DEF NoWaiterLost
  <2>2. PlaceInv /\ Listed = Live /\ \A n \in Waiters : NodeInv(n)
    BY <2>1 DEF AsyncInv, ChainInv
  <2>3. ASSUME NEW n \in Waiters, NEW i \in Slots, node[n].slot[i] = w PROVE n \in Listed
    BY <2>2, <2>3 DEF NodeInv, NoNode, Slots
  <2>4. QED BY <2>2, <2>3 DEF PlaceInv
<1>2. QED BY <1>1, AsyncInvariant, PTL

\* A claimed slot is its claimer's alone and its node stays allocated until the
\* slot is marked; the producer never walks into a freed node and never calls an
\* empty slot (setWaiter, spinUntilWaitersAreInitialized).
THEOREM NodesAreSafe == Spec => []NodesSafe
<1>1. ASSUME AsyncInv PROVE NodesSafe
  <2>a. /\ TypeOK /\ WordInv /\ ProducerInv /\ ClaimsInv /\ ChainInv
        /\ \A v \in Waiters : ThreadInv(v) /\ NodeInv(v)
    BY <1>1 DEF AsyncInv
  <2>1. ClaimedNodeAlive
    BY <2>a DEF ClaimedNodeAlive, ThreadInv, ClaimInv, Live
  <2>2. ClaimsDistinct
    BY <2>a DEF ClaimsDistinct, ClaimsInv
  <2>3. NoEmptyCall
    <3>1. list # None => list \in Live /\ list \in Waiters
      BY <2>a, HeadLive DEF Live
    <3>2. ppc \in {"node", "spin", "rest"} /\ list # None => node[list].live
      BY <3>1 DEF Live
    <3>3. ppc = "node" /\ list # None => node[list].slot[0] # None
      BY <2>a, <3>1 DEF NodeInv
    <3>4. ASSUME ppc = "rest", NEW i \in index..(numValid - 1) PROVE node[list].slot[i] # None
      <4>1. /\ list # None /\ word.ptr = None /\ index \in 1..numValid
            /\ node[list].init = 1..(numValid - 1)
        BY <2>a, <3>4 DEF ProducerInv, WordInv, Notified
      <4>2. Claimed[list] = numValid
        BY <3>1, <4>1 DEF Claimed
      <4>3. numValid \in 1..NodeSlots
        BY <2>a, <3>1, <4>1, <4>2 DEF NodeInv
      <4>4. i \in node[list].init /\ i \in 1..NodeSlots-1 /\ ~(i < index)
        BY <3>4, <4>1, <4>3
      <4>5. QED BY <2>a, <3>1, <4>1, <4>4 DEF NodeInv
    <3>5. QED BY <3>2, <3>3, <3>4 DEF NoEmptyCall
  <2>4. QED BY <2>a, <2>1, <2>2, <2>3 DEF NodesSafe
<1>2. QED BY <1>1, AsyncInvariant, PTL

\* The payload area has one writer at a time, holds the payload once the value is
\* ready, and the value outlives every call that may touch it.
THEOREM PayloadIsSafe == Spec => []PayloadSafe
<1>1. ASSUME AsyncInv PROVE PayloadSafe
  <2>a. /\ TypeOK /\ WordInv /\ ProducerInv /\ ClaimsInv /\ RefInv
        /\ \A v \in Waiters : ThreadInv(v)
    BY <1>1 DEF AsyncInv
  <2> DEFINE builders == {w \in Waiters : pc[w] \in {"construct", "announce"}}
  <2>1. Cardinality(builders) <= 1
    <3>1. CASE builders = {}
      BY <3>1, FS_EmptySet
    <3>2. CASE builders # {}
      <4>1. PICK b \in builders : TRUE
        BY <3>2
      <4>2. builders = {b}
        BY <2>a, <4>1 DEF ClaimsInv
      <4>3. Cardinality({b}) = 1
        BY FS_Singleton
      <4> HIDE DEF builders
      <4>4. QED BY <4>2, <4>3
    <3>3. QED BY <3>1, <3>2
  <2>2. builders # {} => ppc = "idle" /\ word.state = InitializingInlineWaiter
    BY <2>a DEF ThreadInv, BuildInv
  <2>3. IsReady(word.state) => payload = Value
    BY <2>a DEF WordInv, ProducerInv
  <2>4. AliveWhileUsed
    <3>1. CASE Busy = {}
      BY <2>a, <3>1, BusyFinite DEF AliveWhileUsed, RefInv, Busy, Holding
    <3>2. CASE Busy # {}
      <4>1. Cardinality(Busy) > 0
        BY <3>2, BusyFinite, FS_EmptySet
      <4>2. QED BY <2>a, <4>1, BusyFinite DEF AliveWhileUsed, RefInv, Busy
    <3>3. QED BY <3>1, <3>2
  <2>5. QED BY <2>1, <2>2, <2>3, <2>4 DEF PayloadSafe, PayloadExclusive
<1>2. QED BY <1>1, AsyncInvariant, PTL

-----------------------------------------------------------------------------
(* The waiter list implements a future *)

\* What the abstract future sees of a state.
Outcome == CASE word.state = Available -> "available"
             [] word.state = Error -> "error"
             [] OTHER -> "pending"

StatusOf(w) == IF calls[w] > 0 THEN "called"
               ELSE IF pc[w] = "idle" THEN "new" ELSE "waiting"

Status == [w \in Waiters |-> StatusOf(w)]

\* The initial state of the future, through the mapping.
LEMMA FutureInit ==
  ASSUME Outcome = "pending", Status = [w \in Waiters |-> "new"] PROVE F!Init
BY DEF F!Init, Outcome, Status, StatusOf

\* A waiter that is called was handed over and the value is ready.
LEMMA FutureCall ==
  ASSUME NEW w \in Waiters, Outcome # "pending", Status[w] \in {"waiting", "new"},
         Outcome' = Outcome, Status' = [Status EXCEPT ![w] = "called"]
  PROVE  F!Next
BY DEF F!Next, F!Call, F!CallNow, Outcome, Status, StatusOf

\* A waiter that is registered while the value is not ready.
LEMMA FutureAndThen ==
  ASSUME NEW w \in Waiters, Status[w] = "new",
         Outcome' = Outcome, Status' = [Status EXCEPT ![w] = "waiting"]
  PROVE  F!Next
BY DEF F!Next, F!AndThen, Outcome, Status, StatusOf

\* The value becomes ready, or an error.
LEMMA FutureSettle ==
  ASSUME Outcome = "pending", Outcome' \in {"available", "error"}, Status' = Status
  PROVE  F!Next
BY DEF F!Next, F!Settle, Outcome, Status, StatusOf

\* A caller that moves on without a call is not seen by the future.
LEMMA SilentCaller ==
  ASSUME AsyncInv, NEW w \in Waiters, NEW x \in AndThenPcs, pc[w] # "idle", x # "idle",
         pc' = [pc EXCEPT ![w] = x], calls' = calls
  PROVE  Status' = Status
<1>1. pc \in [Waiters -> AndThenPcs]
  BY DEF AsyncInv, TypeOK
<1>2. \A v \in Waiters : (pc'[v] = "idle" <=> pc[v] = "idle") /\ calls'[v] = calls[v]
  BY <1>1
<1>3. QED BY <1>2 DEF Status, StatusOf

\* A call of one waiter that was not called before.
LEMMA CallSeen ==
  ASSUME AsyncInv, NEW w \in Waiters, CallWaiters({w}), calls[w] = 0,
         \A v \in Waiters \ {w} : pc'[v] = pc[v]
  PROVE  Status[w] \in {"waiting", "new"} /\ Status' = [Status EXCEPT ![w] = "called"]
<1>1. calls \in [Waiters -> Nat]
  BY DEF AsyncInv, TypeOK
<1>2. \A v \in Waiters : calls'[v] = IF v = w THEN calls[v] + 1 ELSE calls[v]
  BY DEF CallWaiters
<1>3. StatusOf(w)' = "called" /\ \A v \in Waiters \ {w} : StatusOf(v)' = StatusOf(v)
  BY <1>1, <1>2 DEF StatusOf
<1>4. Status[w] \in {"waiting", "new"}
  BY <1>1 DEF Status, StatusOf
<1>5. Status' = [v \in Waiters |-> StatusOf(v)']
  BY DEF Status
<1>6. QED BY <1>3, <1>4, <1>5 DEF Status

\* The outcome depends on the state alone.
LEMMA SameOutcome ==
  ASSUME word'.state = word.state \/ (~IsReady(word.state) /\ ~IsReady(word'.state))
  PROVE  Outcome' = Outcome
BY DEF Outcome

\* Every step is a step of the future or is not seen by it.
LEMMA FutureStep == ASSUME AsyncInv, [Next]_vars PROVE [F!Next]_(F!vars)
<1>a. /\ TypeOK /\ WordInv /\ ProducerInv /\ PlaceInv /\ ChainInv
      /\ \A v \in Waiters : ThreadInv(v) /\ NodeInv(v)
  BY DEF AsyncInv
<1>t. /\ word \in WordType /\ pc \in [Waiters -> AndThenPcs] /\ calls \in [Waiters -> Nat]
      /\ old \in [Waiters -> WordType]
  BY <1>a DEF TypeOK
<1>s. ASSUME Outcome' = Outcome, Status' = Status PROVE [F!Next]_(F!vars)
  <2>1. (F!vars)' = F!vars
    BY <1>s DEF F!vars, Outcome, Status, StatusOf
  <2>2. QED BY <2>1
<1>z. "returned" \in AndThenPcs /\ "fill" \in AndThenPcs
  BY DEF AndThenPcs
<1>r. IsReady(word.state) => Outcome # "pending"
  BY DEF Outcome
<1>c. ASSUME NEW w \in Waiters, IsReady(word.state), word'.state = word.state, CallWaiters({w}),
             calls[w] = 0, \A v \in Waiters \ {w} : pc'[v] = pc[v]
      PROVE  F!Next
  <2>1. Outcome # "pending" /\ Outcome' = Outcome
    BY <1>r, <1>c, SameOutcome
  <2>2. Status[w] \in {"waiting", "new"} /\ Status' = [Status EXCEPT ![w] = "called"]
    BY <1>c, CallSeen
  <2>3. QED BY <2>1, <2>2, FutureCall
<1>1. ASSUME NEW w \in Waiters, AndThen(w) PROVE F!Next
  <2>1. calls[w] = 0 /\ pc[w] = "idle" /\ word' = word
    BY <1>1, <1>a DEF AndThen, ThreadInv, Fresh
  <2>2. CASE IsReady(word.state)
    BY <1>1, <1>c, <1>t, <2>1, <2>2 DEF AndThen, Return
  <2>3. CASE ~IsReady(word.state)
    <3>1. calls' = calls /\ pc'[w] # "idle" /\ \A v \in Waiters \ {w} : pc'[v] = pc[v]
      BY <1>1, <1>t, <2>3 DEF AndThen
    <3>2. Status[w] = "new" /\ StatusOf(w)' = "waiting"
          /\ \A v \in Waiters \ {w} : StatusOf(v)' = StatusOf(v)
      BY <2>1, <3>1 DEF Status, StatusOf
    <3>3. Status' = [v \in Waiters |-> StatusOf(v)']
      BY DEF Status
    <3>4. Status' = [Status EXCEPT ![w] = "waiting"]
      BY <3>2, <3>3 DEF Status
    <3>5. Outcome' = Outcome
      BY <2>1, SameOutcome
    <3>6. QED BY <3>2, <3>4, <3>5, FutureAndThen
  <2>4. QED BY <2>2, <2>3
<1>2. ASSUME NEW w \in Waiters, RunNow(w) PROVE F!Next
  <2>1. calls[w] = 0 /\ IsReady(word.state) /\ word' = word
    BY <1>2, <1>a DEF RunNow, ThreadInv, Fresh, LoadInv
  <2>2. QED BY <1>2, <1>c, <1>t, <2>1 DEF RunNow, Return
<1>3. ASSUME NEW w \in Waiters, PushNodeFails(w) PROVE [F!Next]_(F!vars)
  <2>1. calls[w] = 0 /\ pc[w] = "loop" /\ word' = word
    BY <1>3, <1>a DEF PushNodeFails, ThreadInv, Fresh
  <2>2. CASE IsReady(word.state)
    BY <1>3, <1>c, <1>t, <2>1, <2>2 DEF PushNodeFails, Return
  <2>3. CASE ~IsReady(word.state)
    <3>1. Status' = Status
      BY <1>3, <2>3 DEF PushNodeFails, Status, StatusOf
    <3>2. QED BY <1>s, <2>1, <3>1, SameOutcome
  <2>4. QED BY <2>2, <2>3
<1>4. ASSUME NEW w \in Waiters, SpinInitializing(w) \/ FillSlot(w) \/ MarkSlot(w)
                                \/ ConstructInline(w)
      PROVE  Outcome' = Outcome /\ Status' = Status
  <2>1. word' = word /\ calls' = calls /\ pc[w] # "idle"
    BY <1>4 DEF SpinInitializing, FillSlot, MarkSlot, ConstructInline
  <2>2. \E x \in AndThenPcs \ {"idle"} : pc' = [pc EXCEPT ![w] = x]
    BY <1>4 DEF SpinInitializing, FillSlot, MarkSlot, ConstructInline, Return, AndThenPcs
  <2>3. QED BY <2>1, <2>2, SilentCaller, SameOutcome
<1>5. ASSUME NEW w \in Waiters, ClaimInline(w) PROVE Outcome' = Outcome /\ Status' = Status
  <2>1. calls' = calls /\ pc[w] = "inline" /\ old[w] = Word(None, Unconstructed)
    BY <1>5, <1>a DEF ClaimInline, ThreadInv, LoadInv
  <2>2. \E x \in AndThenPcs \ {"idle"} : pc' = [pc EXCEPT ![w] = x]
    BY <1>5 DEF ClaimInline, AndThenPcs
  <2>3. word'.state = word.state \/ (~IsReady(word.state) /\ ~IsReady(word'.state))
    BY <1>5, <2>1 DEF ClaimInline, Word
  <2>4. QED BY <2>1, <2>2, <2>3, SilentCaller, SameOutcome
<1>6. ASSUME NEW w \in Waiters, AnnounceInline(w) PROVE Outcome' = Outcome /\ Status' = Status
  <2>1. calls' = calls /\ pc[w] = "announce" /\ word.state = InitializingInlineWaiter
        /\ pc' = [pc EXCEPT ![w] = "returned"]
    BY <1>6, <1>a DEF AnnounceInline, ThreadInv, BuildInv, Return
  <2>2. word'.state = 1 + NodeSlots
    BY <1>6, <1>t, <2>1 DEF AnnounceInline, WordType
  <2>3. Status' = Status
    BY <1>z, <2>1, SilentCaller
  <2>4. QED BY <2>1, <2>2, <2>3, SameOutcome
<1>7. ASSUME NEW w \in Waiters, ClaimSlot(w) PROVE Outcome' = Outcome /\ Status' = Status
  <2>1. calls' = calls /\ pc[w] = "loop"
    BY <1>7 DEF ClaimSlot
  <2>2. CASE word = old[w]
    <3>1. /\ pc' = [pc EXCEPT ![w] = "fill"]
          /\ word'.state = word.state + 1 /\ word.state \in 2..NodeSlots
      BY <1>7, <1>t, <2>2 DEF ClaimSlot, Word, WordType
    <3>2. Status' = Status
      BY <1>z, <2>1, <3>1, SilentCaller
    <3>3. QED BY <3>1, <3>2, SameOutcome
  <2>3. CASE word # old[w]
    BY <1>7, <2>1, <2>3, SameOutcome DEF ClaimSlot, Status, StatusOf
  <2>4. QED BY <2>2, <2>3
<1>8. ASSUME NEW w \in Waiters, PushNode(w) PROVE Outcome' = Outcome /\ Status' = Status
  <2>1. /\ calls' = calls /\ pc[w] = "loop" /\ pc' = [pc EXCEPT ![w] = "returned"]
        /\ word.state = Valid(NodeSlots) /\ word'.state = Valid(1)
    BY <1>8 DEF PushNode, Return, Word
  <2>2. Status' = Status
    BY <1>z, <2>1, SilentCaller
  <2>3. QED BY <2>1, <2>2, SameOutcome
<1>9. ASSUME NEW s \in {Available, Error}, NotifyReady(s) PROVE F!Next
  <2>1. HasInlineWaiter(word.state) /\ word'.state = s /\ calls' = calls /\ pc' = pc
    BY <1>9, <1>a DEF NotifyReady, ProducerInv, Word
  <2>2. Outcome = "pending" /\ Outcome' \in {"available", "error"} /\ Status' = Status
    BY <1>t, <2>1 DEF Outcome, Status, StatusOf, WordType
  <2>3. QED BY <2>2, FutureSettle
<1>10. ASSUME RemoveInlineWaiter PROVE Outcome' = Outcome /\ Status' = Status
  <2>1. calls' = calls /\ pc' = pc
    BY <1>10 DEF RemoveInlineWaiter
  <2>2. word'.state = word.state \/ (~IsReady(word.state) /\ ~IsReady(word'.state))
    BY <1>10 DEF RemoveInlineWaiter, Word
  <2>3. QED BY <2>1, <2>2, SameOutcome DEF Status, StatusOf
<1>11. ASSUME ConstructPayload \/ SpinSlots \/ DeleteNode \/ ProducerReturns
              \/ Terminated \/ UNCHANGED vars
       PROVE Outcome' = Outcome /\ Status' = Status
  <2>1. calls' = calls /\ pc' = pc /\ word' = word
    BY <1>11 DEF ConstructPayload, SpinSlots, DeleteNode, ProducerReturns, Terminated, vars
  <2>2. QED BY <2>1, SameOutcome DEF Status, StatusOf
<1>12. ASSUME DropRefAndRunExtra PROVE [F!Next]_(F!vars)
  <2>1. /\ word' = word /\ pc' = pc /\ IsReady(word.state)
        /\ CallWaiters({extra} \ {None}) /\ extra \in Waiters \cup {None}
    BY <1>12, <1>a DEF DropRefAndRunExtra, WordInv, Notified, TypeOK
  <2>2. CASE extra = None
    <3>1. \A v \in Waiters : calls'[v] = calls[v]
      BY <2>1, <2>2 DEF CallWaiters
    <3>2. QED BY <1>s, <2>1, <3>1, SameOutcome DEF Status, StatusOf
  <2>3. CASE extra \in Waiters
    <3>1. {extra} \ {None} = {extra} /\ calls[extra] = 0
      BY <1>a, <2>3 DEF PlaceInv
    <3>2. QED BY <1>c, <2>1, <2>3, <3>1
  <2>4. QED BY <2>1, <2>2, <2>3
<1>13. ASSUME RunFirstWaiter \/ RunOtherWaiter PROVE [F!Next]_(F!vars)
  <2>1. PICK i \in Slots : /\ list \in Waiters
                           /\ CallWaiters({node[list].slot[i]} \ {None})
    <3>1. list # None
      BY <1>13, <1>a DEF RunFirstWaiter, RunOtherWaiter, ProducerInv
    <3>2. list \in Live /\ list \in Waiters
      BY <1>a, <3>1, HeadLive DEF Live
    <3>3. CASE RunFirstWaiter
      <4>1. 0 \in Slots
        BY DEF Slots
      <4>2. QED BY <3>2, <3>3, <4>1 DEF RunFirstWaiter
    <3>4. CASE RunOtherWaiter
      <4>1. word.ptr = None /\ index \in 1..numValid /\ index # numValid
        BY <1>a, <3>4 DEF RunOtherWaiter, ProducerInv, WordInv, Notified
      <4>2. Claimed[list] = numValid
        BY <3>2, <4>1 DEF Claimed
      <4>3. numValid \in 1..NodeSlots
        BY <1>a, <3>2, <4>2 DEF NodeInv
      <4>4. index \in Slots
        BY <4>1, <4>3 DEF Slots
      <4>5. QED BY <3>2, <3>4, <4>4 DEF RunOtherWaiter
    <3>5. QED BY <1>13, <3>3, <3>4
  <2> DEFINE a == node[list].slot[i]
  <2>2. word' = word /\ pc' = pc /\ IsReady(word.state)
    BY <1>13, <1>a DEF RunFirstWaiter, RunOtherWaiter, WordInv, Notified
  <2>3. a \in Waiters \cup {None}
    BY <1>a, <2>1 DEF TypeOK, NodeType
  <2>4. CASE a = None
    <3>1. \A v \in Waiters : calls'[v] = calls[v]
      BY <2>1, <2>4 DEF CallWaiters
    <3>2. QED BY <1>s, <2>2, <3>1, SameOutcome DEF Status, StatusOf
  <2>5. CASE a \in Waiters
    <3>1. {a} \ {None} = {a} /\ calls[a] = 0
      BY <1>a, <2>1, <2>5 DEF PlaceInv
    <3>2. QED BY <1>c, <2>1, <2>2, <2>5, <3>1
  <2>6. QED BY <2>3, <2>4, <2>5
<1>14. ASSUME NEW w \in Waiters, Register(w) PROVE [F!Next]_(F!vars)
  BY <1>14, <1>1, <1>2, <1>3, <1>4, <1>5, <1>6, <1>7, <1>8, <1>s DEF Register
<1>15. ASSUME Produce PROVE [F!Next]_(F!vars)
  BY <1>15, <1>9, <1>10, <1>11, <1>12, <1>13, <1>s DEF Produce
<1>16. QED BY <1>11, <1>14, <1>15, <1>s DEF Next

\* The safety part of RefinesFuture: what callers and producer do to the list is
\* what the future allows.  A value is settled once, a waiter is called once, and
\* only when the value is ready.
THEOREM ImplementsFuture == Spec => F!Spec
<1>1. Init => F!Init
  <2>1. ASSUME Init PROVE Outcome = "pending" /\ Status = [w \in Waiters |-> "new"]
    BY <2>1 DEF Init, Outcome, Status, StatusOf, Word
  <2>2. QED BY <2>1, FutureInit
<1>2. AsyncInv /\ [Next]_vars => [F!Next]_(F!vars)
  BY FutureStep
<1>3. QED BY <1>1, <1>2, AsyncInvariant, PTL DEF Spec, F!Spec
=============================================================================
