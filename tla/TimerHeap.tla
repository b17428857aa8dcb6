------------------------------ MODULE TimerHeap ------------------------------
(***************************************************************************)
(* AsyncRT/lib/Runtime/TimerHeap.cpp: a thread that emplaces a chain when  *)
(* its deadline has come.  Clients push and cancel chains under a mutex;   *)
(* the timer thread holds the mutex except while it waits on the condition *)
(* variable.                                                               *)
(*                                                                         *)
(* What a client does under the mutex is one action.  The timer thread     *)
(* takes one action per round of its loop.  The condition variable, the    *)
(* clock and the heap algorithms of std:: are external: a heap is any      *)
(* arrangement that has the heap property, and a wait that wakes           *)
(* spuriously finds its predicate false, which is a stuttering step, or a  *)
(* notification pending, which is Wake.                                    *)
(***************************************************************************)
EXTENDS Integers, Sequences, FiniteSets, SequencesExt

CONSTANTS Chains,    \* the chains that clients push, each at most once
          MaxTime,   \* bound: the last tick of the clock
          None       \* no deadline

ASSUME TimeAssumption == MaxTime \in Nat /\ None \notin 0..MaxTime

VARIABLES
  now,        \* steady_clock
  entries,    \* the vector, a heap with the earliest deadline first
  running,
  pc,         \* timer thread: "start", "locked", "waitEmpty", "waitFor", "exited"
  wakeAt,     \* when wait_for times out
  notified,   \* notify_one found the thread waiting
  owner,      \* the owner of the heap: "open", "joining" or "destroyed"
  deadline,   \* history: the deadline each chain was pushed with
  emplaced,   \* history: how often each chain was emplaced
  fired       \* history: when the timer thread emplaced it

vars == <<now, entries, running, pc, wakeAt, notified, owner, deadline,
          emplaced, fired>>

Time == 0..MaxTime
Waits == {"waitEmpty", "waitFor"}

Init == /\ now = 0
        /\ entries = <<>>
        /\ running = TRUE
        /\ pc = "start"
        /\ wakeAt = 0
        /\ notified = FALSE
        /\ owner = "open"
        /\ deadline = [c \in Chains |-> None]
        /\ emplaced = [c \in Chains |-> 0]
        /\ fired = [c \in Chains |-> None]

\* Entry i's parent in the heap is entry i \div 2.
IsHeap(s) == \A i \in 2..Len(s) : s[i \div 2].expiration <= s[i].expiration

\* The heaps push_heap, pop_heap or make_heap may leave behind.
Heaps(S) == {s \in SetToSeqs(S) : IsHeap(s)}

Emplace(c) == emplaced' = [emplaced EXCEPT ![c] = @ + 1]

Notify == notified' = (notified \/ pc \in Waits)

\* The client gets the mutex.
Locks == owner = "open" /\ pc # "locked"

-----------------------------------------------------------------------------
(* Clients *)

\* Faulty: a push into an empty heap wakes nobody.
PushQuietly(c, d) ==
  /\ Locks
  /\ deadline[c] = None
  /\ deadline' = [deadline EXCEPT ![c] = d]
  /\ entries' \in Heaps(Range(entries) \cup {[chain |-> c, expiration |-> d]})
  /\ IF entries # <<>> /\ entries[1].expiration > d
     THEN Notify ELSE UNCHANGED notified
  /\ UNCHANGED <<now, running, pc, wakeAt, owner, emplaced, fired>>

Push(c, d) ==
  /\ Locks
  /\ deadline[c] = None
  /\ deadline' = [deadline EXCEPT ![c] = d]
  /\ entries' \in Heaps(Range(entries) \cup {[chain |-> c, expiration |-> d]})
  /\ IF entries = <<>> \/ entries[1].expiration > d
     THEN Notify ELSE UNCHANGED notified
  /\ UNCHANGED <<now, running, pc, wakeAt, owner, emplaced, fired>>

\* Faulty: the last entry is lost and entry i stays.
PopBack(s, i) == Front(s)

\* The last entry takes the place of entry i.
SwapOut(s, i) == Front([s EXCEPT ![i] = Last(s)])

\* Faulty: the heap is not restored.
CancelWithoutReheap(c) ==
  /\ Locks
  /\ \E i \in DOMAIN entries :
       /\ entries[i].chain = c
       /\ Emplace(c)
       /\ entries' = SwapOut(entries, i)
  /\ UNCHANGED <<now, running, pc, wakeAt, notified, owner, deadline, fired>>

Cancel(c) ==
  /\ Locks
  /\ \E i \in DOMAIN entries :
       /\ entries[i].chain = c
       /\ Emplace(c)
       /\ entries' \in IF i < Len(entries)
                       THEN Heaps(Range(SwapOut(entries, i)))
                       ELSE {SwapOut(entries, i)}
  /\ UNCHANGED <<now, running, pc, wakeAt, notified, owner, deadline, fired>>

\* Faulty: the timer thread is not notified.
StopQuietly ==
  /\ Locks
  /\ running' = FALSE
  /\ owner' = "joining"
  /\ UNCHANGED <<now, entries, pc, wakeAt, notified, deadline, emplaced, fired>>

\* The destructor calls stop, which joins the timer thread.
Stop ==
  /\ Locks
  /\ running' = FALSE
  /\ Notify
  /\ owner' = "joining"
  /\ UNCHANGED <<now, entries, pc, wakeAt, deadline, emplaced, fired>>

Join ==
  /\ owner = "joining"
  /\ pc = "exited"
  /\ owner' = "destroyed"
  /\ UNCHANGED <<now, entries, running, pc, wakeAt, notified, deadline,
                 emplaced, fired>>

-----------------------------------------------------------------------------
(* The timer thread *)

\* The thread starts, or a wait is over, and it gets the mutex.
Lock == /\ pc' = "locked"
        /\ notified' = FALSE
        /\ UNCHANGED <<now, entries, running, wakeAt, owner, deadline,
                       emplaced, fired>>

Start == pc = "start" /\ Lock

Exit ==
  /\ pc = "locked"
  /\ ~running
  /\ pc' = "exited"
  /\ UNCHANGED <<now, entries, running, wakeAt, notified, owner, deadline,
                 emplaced, fired>>

WaitEmpty ==
  /\ pc = "locked"
  /\ running
  /\ entries = <<>>
  /\ pc' = "waitEmpty"
  /\ UNCHANGED <<now, entries, running, wakeAt, notified, owner, deadline,
                 emplaced, fired>>

\* The first entry has expired: emplace its chain and drop it.
Fire ==
  /\ pc = "locked"
  /\ running
  /\ entries # <<>>
  /\ now >= entries[1].expiration
  /\ Emplace(entries[1].chain)
  /\ fired' = [fired EXCEPT ![entries[1].chain] = now]
  /\ entries' \in Heaps(Range(Tail(entries)))
  /\ UNCHANGED <<now, running, pc, wakeAt, notified, owner, deadline>>

WaitFor ==
  /\ pc = "locked"
  /\ running
  /\ entries # <<>>
  /\ now < entries[1].expiration
  /\ pc' = "waitFor"
  /\ wakeAt' = entries[1].expiration
  /\ UNCHANGED <<now, entries, running, notified, owner, deadline, emplaced,
                 fired>>

\* The predicates of the two waits.
WaitIsOver == ~running \/ (pc = "waitEmpty" /\ entries # <<>>)

\* A notified wait tests its predicate and ends or goes on.
Wake ==
  /\ pc \in Waits
  /\ notified
  /\ IF WaitIsOver
     THEN Lock
     ELSE /\ notified' = FALSE
          /\ UNCHANGED <<now, entries, running, pc, wakeAt, owner, deadline,
                         emplaced, fired>>

\* wait_for times out.
Timeout == pc = "waitFor" /\ now >= wakeAt /\ Lock

Tick ==
  /\ now < MaxTime
  /\ now' = now + 1
  /\ UNCHANGED <<entries, running, pc, wakeAt, notified, owner, deadline,
                 emplaced, fired>>

-----------------------------------------------------------------------------
Run == Start \/ Exit \/ WaitEmpty \/ Fire \/ WaitFor \/ Wake \/ Timeout

Next == \/ \E c \in Chains : (\E d \in Time : Push(c, d)) \/ Cancel(c)
        \/ Stop \/ Join
        \/ Run
        \/ Tick

Spec == Init /\ [][Next]_vars

\* The timer thread is scheduled, time passes and a joining owner joins;
\* nobody has to push, cancel or stop.
FairSpec == Spec /\ WF_vars(Run) /\ WF_vars(Tick) /\ WF_vars(Join)

-----------------------------------------------------------------------------
(* Properties *)

Entry == [chain : Chains, expiration : Time]

\* Every variable keeps its type.
TypeOK == /\ now \in Time
          /\ entries \in Seq(Entry)
          /\ running \in BOOLEAN
          /\ pc \in {"start", "locked", "exited"} \cup Waits
          /\ wakeAt \in Time
          /\ notified \in BOOLEAN
          /\ owner \in {"open", "joining", "destroyed"}
          /\ deadline \in [Chains -> Time \cup {None}]
          /\ emplaced \in [Chains -> Nat]
          /\ fired \in [Chains -> Time \cup {None}]

\* A chain that was pushed waits in one entry or has been emplaced, once: a
\* cancel that races the deadline does not emplace it again, and removing an
\* entry from the middle of the vector loses no other.
ChainConserved ==
  /\ TypeOK
  /\ \A c \in Chains : deadline[c] # None =>
       Cardinality({i \in DOMAIN entries : entries[i].chain = c}) + emplaced[c] = 1

\* The timer thread fires a chain only when its deadline has come and no other
\* entry has an earlier one: the vector is a heap again whenever the mutex is
\* released (cancel, lines 36-46).
FiresEarliest ==
  [][\A c \in Chains : fired'[c] # fired[c] =>
       /\ deadline[c] <= now
       /\ \A i \in DOMAIN entries : deadline[c] <= entries[i].expiration]_vars

\* "Push a new function which will be executed at the given deadline"
\* (TimerHeap.h line 34): when no notification and no time-out will wake it,
\* the timer thread does not sleep past the deadline of an entry.
OnTime ==
  pc = "waitFor" /\ ~notified /\ now < wakeAt =>
    \A i \in DOMAIN entries : entries[i].expiration > now

\* Every chain that is pushed is emplaced sooner or later, unless the heap is
\* stopped first.
EveryChainSettles ==
  \A c \in Chains : deadline[c] # None ~> emplaced[c] = 1 \/ ~running

\* The destructor returns: stop never waits for ever for the timer thread.
StopReturns == owner = "joining" ~> owner = "destroyed"
=============================================================================
