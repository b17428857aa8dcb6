---------------------- MODULE ThreadPoolWorkQueueProofs ----------------------
(***************************************************************************)
(* Three results on the thread pool, for any number of workers and         *)
(* clients, any ring size and any programs.                                *)
(*                                                                         *)
(* No wake-up is lost: until shutdown is called, a worker that sleeps has  *)
(* nothing in its ring that nobody is about to wake it for, and while      *)
(* there is work in the shared list not every worker sleeps.               *)
(*                                                                         *)
(* Shutdown drains: when a donating main thread has joined the workers,    *)
(* the shared list and the local lists are empty.                          *)
(*                                                                         *)
(* Work is conserved: a task is in one place until it is run, and is run   *)
(* once; an await counts the closures that have not run, and returns only  *)
(* when its values are ready.                                              *)
(*                                                                         *)
(* The first does not depend on what the programs are; the others use      *)
(* ProgramAssumption, that a work item is handed over once.                *)
(***************************************************************************)
EXTENDS ThreadPoolWorkQueue, Lemmas

-----------------------------------------------------------------------------
(* What a stack says about its thread *)

Tip(s) == s[Len(s)]

\* Its innermost frame is at one of these points of runItemsImpl, or at this
\* point of a program.
Looping(s, L) == s # <<>> /\ Tip(s).is = "loop" /\ Tip(s).pc \in L
Doing(s, l) == s # <<>> /\ Tip(s).is = "prog" /\ Tip(s).pc = l
Waking(s) == s # <<>> /\ Tip(s).is = "wake" /\ Tip(s).pc = "post"

\* Its next step posts w's semaphore, takes w's mark after adding a task for
\* w, takes some worker's mark after adding a task for any.
Wakes(s, w) == \/ Doing(s, "post") /\ Tip(s).target = w
               \/ Waking(s) /\ Tip(s).thread = w
Takes(s, w) == Doing(s, "take") /\ Head(Tip(s).todo).to = w
Kicks(s) == Doing(s, "takeAny")

\* The points at which a worker has marked itself, has then found its ring
\* empty, and has then found the shared list empty.
Marked == {"preAffinity", "preGlobal", "preStop", "sleep"}
Polled == {"preGlobal", "preStop", "sleep"}
Committed == {"preStop", "sleep"}

-----------------------------------------------------------------------------
(* The inductive invariant *)

IsFrame(f) ==
  /\ {"is", "pc"} \subseteq DOMAIN f
  /\ f.is \in {"prog", "loop", "wake"}
  /\ f.is = "prog" => {"todo", "target"} \subseteq DOMAIN f
  /\ f.is = "loop" => "kind" \in DOMAIN f
  /\ f.is = "wake" => "thread" \in DOMAIN f

\* Only workers run items; the await of another thread just sleeps.
OnThread(t, f) ==
  f.is = "loop" =>
    IF t \in Workers THEN f.kind # "foreign" ELSE f.kind = "foreign" /\ f.pc = "sleep"

\* A frame that has called another one continues at one of these points.
Resting(f) == \/ f.is = "loop" /\ f.pc \in {"keep", "local"}
              \/ f.is = "prog" /\ f.pc \in {"op", "done"}

StackOK(t, s) ==
  /\ s \in Seq(Range(s))
  /\ \A i \in 1..Len(s) : IsFrame(s[i]) /\ OnThread(t, s[i])
  /\ \A i \in 1..(Len(s) - 1) : Resting(s[i])

StacksOK == DOMAIN stack = Threads /\ \A t \in Threads : StackOK(t, stack[t])

PoolTypes == /\ suspended \subseteq Workers
             /\ sema \in [Threads -> Nat]
             /\ DOMAIN ring = Workers

\* w will be woken, or woken again, whatever happens.
Woken(w) == sema[w] > 0 \/ \E t \in Threads : Wakes(stack[t], w)

\* The steps of shutdown that post and clear all marks come after doneFlag.
FlagFirst == \A t \in Threads : ~ Doing(stack[t], "postAll") /\ ~ Doing(stack[t], "clear")

\* A worker about to sleep is marked, or whoever took the mark wakes it.
MarkInv == \A w \in Workers : Looping(stack[w], Marked) => w \in suspended \/ Woken(w)

\* A task that came after the last poll of the ring comes with a wake-up.
RingInv == \A w \in Workers :
             Looping(stack[w], Polled) /\ ring[w] # <<>> =>
               Woken(w) \/ \E t \in Threads : Takes(stack[t], w)

\* So does a task that came after the last worker's poll of the shared list.
ListInv == taskList # {} =>
             \/ \E t \in Threads : Kicks(stack[t])
             \/ \E w \in Workers : ~ Looping(stack[w], Committed) \/ Woken(w)

WakeInv == FlagFirst /\ MarkInv /\ RingInv /\ ListInv

PoolInv == StacksOK /\ PoolTypes /\ (doneFlag \/ WakeInv)

-----------------------------------------------------------------------------
(* Stacks *)

\* A sequence stays one over a larger set of elements.
LEMMA SeqLarger ==
  ASSUME NEW S, NEW T, S \subseteq T, NEW s \in Seq(S) PROVE s \in Seq(T)
  OBVIOUS

\* Replacing the innermost frame: SetTop and Goto.
LEMMA Replaced ==
  ASSUME NEW t, NEW s, StackOK(t, s), s # <<>>, NEW f, IsFrame(f), OnThread(t, f)
  PROVE  LET r == [s EXCEPT ![Len(s)] = f]
         IN  StackOK(t, r) /\ Len(r) = Len(s) /\ r # <<>> /\ Tip(r) = f
<1> DEFINE n == Len(s)
           S == Range(s) \cup {f}
           r == [s EXCEPT ![n] = f]
<1>1. s \in Seq(S) /\ f \in S
  BY SeqLarger DEF StackOK
<1>2. n \in Nat /\ n \in 1..n
  BY <1>1, LenProperties, EmptySeq
<1>3. /\ r \in Seq(S) /\ Len(r) = n
      /\ \A j \in 1..n : r[j] = IF j = n THEN f ELSE s[j]
  BY <1>1, <1>2, ExceptSeq
<1> HIDE DEF S, r
<1>4. r \in Seq(Range(r))
  BY <1>3, SeqOfRange
<1>5. r # <<>> /\ Tip(r) = f
  BY <1>2, <1>3, EmptySeq DEF Tip
<1>6. \A i \in 1..n : IsFrame(s[i]) /\ OnThread(t, s[i])
  BY DEF StackOK
<1>7. \A i \in 1..(n - 1) : Resting(s[i]) /\ i \in 1..n /\ i # n
  BY <1>2 DEF StackOK
<1> HIDE DEF n
<1>8. \A i \in 1..n : IsFrame(r[i]) /\ OnThread(t, r[i])
  BY <1>3, <1>6
<1>9. \A i \in 1..(n - 1) : Resting(r[i])
  BY <1>3, <1>7
<1>10. StackOK(t, r)
  BY <1>3, <1>4, <1>8, <1>9 DEF StackOK
<1>11. QED BY <1>3, <1>5, <1>10 DEF r, n

\* Calling: the innermost frame comes to rest and a new one is on top.
LEMMA Pushed ==
  ASSUME NEW t, NEW s, StackOK(t, s), s # <<>>,
         NEW g, IsFrame(g), OnThread(t, g), Resting(Tip(s))
  PROVE  LET r == Append(s, g)
         IN  StackOK(t, r) /\ r # <<>> /\ Tip(r) = g
<1> DEFINE n == Len(s)
           S == Range(s) \cup {g}
           r == Append(s, g)
<1>1. s \in Seq(S) /\ g \in S
  BY SeqLarger DEF StackOK
<1>2. n \in Nat
  BY <1>1, LenProperties
<1>3. /\ r \in Seq(S) /\ r # <<>> /\ Len(r) = n + 1 /\ r[n + 1] = g
      /\ \A j \in 1..n : r[j] = s[j]
  BY <1>1, AppendProperties
<1> HIDE DEF S, r
<1>4. r \in Seq(Range(r)) /\ Tip(r) = g
  BY <1>3, SeqOfRange DEF Tip
<1>5. /\ \A i \in 1..n : IsFrame(s[i]) /\ OnThread(t, s[i])
      /\ \A i \in 1..(n - 1) : Resting(s[i])
      /\ Resting(s[n])
  BY DEF StackOK, Tip
<1> HIDE DEF n
<1>6. /\ \A i \in 1..(n + 1) : i \in 1..n \/ i = n + 1
      /\ \A i \in 1..n : i \in 1..(n - 1) \/ i = n
      /\ (n + 1) - 1 = n
  BY <1>2
<1>7. \A i \in 1..(n + 1) : IsFrame(r[i]) /\ OnThread(t, r[i])
  BY <1>3, <1>5, <1>6
<1>8. \A i \in 1..n : Resting(r[i])
  BY <1>3, <1>5, <1>6
<1>9. StackOK(t, r)
  BY <1>3, <1>4, <1>6, <1>7, <1>8 DEF StackOK
<1>10. QED BY <1>3, <1>4, <1>9 DEF r

\* Returning to a frame that was at rest.
LEMMA Popped ==
  ASSUME NEW t, NEW s, StackOK(t, s), s # <<>>
  PROVE  LET r == Front(s)
         IN  StackOK(t, r) /\ (r # <<>> => Resting(Tip(r)))
<1> DEFINE n == Len(s)
           S == Range(s)
           r == Front(s)
<1>1. s \in Seq(S)
  BY DEF StackOK
<1>2. n \in Nat /\ n >= 1 /\ \A i \in 1..n : s[i] \in S
  BY <1>1, LenProperties, EmptySeq
<1>3. /\ r \in Seq(S) /\ Len(r) = n - 1
      /\ \A i \in 1..(n - 1) : r[i] = s[i]
  <2>1. \A i \in 1..(n - 1) : s[i] \in S
    BY <1>2
  <2>2. /\ r \in Seq(S) /\ Len(r) = IF 1 <= n - 1 THEN (n - 1) - 1 + 1 ELSE 0
        /\ \A i \in 1..((n - 1) - 1 + 1) : r[i] = s[1 + i - 1]
    BY <1>2, <2>1, SubSeqProperties DEF Front
  <2> HIDE DEF r, n
  <2>3. QED BY <1>2, <2>2
<1>4. r \in Seq(Range(r))
  BY <1>3, SeqOfRange
<1>5. /\ \A i \in 1..n : IsFrame(s[i]) /\ OnThread(t, s[i])
      /\ \A i \in 1..(n - 1) : Resting(s[i])
  BY DEF StackOK
<1>6. r # <<>> => n - 1 \in 1..(n - 1)
  BY <1>2, <1>3, EmptySeq
<1> HIDE DEF n, S, r
<1>7. /\ \A i \in 1..(n - 1) : i \in 1..n
      /\ \A i \in 1..((n - 1) - 1) : i \in 1..(n - 1)
  BY <1>2
<1>8. \A i \in 1..(n - 1) : IsFrame(r[i]) /\ OnThread(t, r[i])
  BY <1>3, <1>5, <1>7
<1>9. \A i \in 1..((n - 1) - 1) : Resting(r[i])
  BY <1>3, <1>5, <1>7
<1>10. StackOK(t, r)
  BY <1>3, <1>4, <1>8, <1>9 DEF StackOK
<1>11. r # <<>> => Resting(Tip(r))
  BY <1>3, <1>5, <1>6 DEF Tip
<1>12. QED BY <1>10, <1>11 DEF r

\* What a step by t does to the stacks of the other threads: nothing.
OthersStay(t) == \A u \in Threads \ {t} : stack'[u] = stack[u]

\* SetTop.
LEMMA SetTopFacts ==
  ASSUME StacksOK, NEW t \in Threads, stack[t] # <<>>,
         NEW f, IsFrame(f), OnThread(t, f), SetTop(t, f)
  PROVE  StacksOK' /\ OthersStay(t) /\ stack'[t] # <<>> /\ Tip(stack'[t]) = f
<1> DEFINE r == [stack[t] EXCEPT ![Len(stack[t])] = f]
<1>1. stack' = [stack EXCEPT ![t] = r]
  BY DEF SetTop
<1>2. DOMAIN stack = Threads /\ \A u \in Threads : StackOK(u, stack[u])
  BY DEF StacksOK
<1>3. StackOK(t, r) /\ r # <<>> /\ Tip(r) = f
  BY <1>2, Replaced
<1> HIDE DEF r
<1>4. DOMAIN stack' = Threads /\ stack'[t] = r /\ OthersStay(t)
  BY <1>1, <1>2 DEF OthersStay
<1>5. \A u \in Threads : StackOK(u, stack'[u])
  BY <1>2, <1>3, <1>4 DEF OthersStay
<1>6. QED BY <1>3, <1>4, <1>5 DEF StacksOK

\* CallWith.
LEMMA CallFacts ==
  ASSUME StacksOK, NEW t \in Threads, stack[t] # <<>>,
         NEW f, IsFrame(f), OnThread(t, f), Resting(f),
         NEW g, IsFrame(g), OnThread(t, g), CallWith(t, f, g)
  PROVE  StacksOK' /\ OthersStay(t) /\ stack'[t] # <<>> /\ Tip(stack'[t]) = g
<1> DEFINE r == [stack[t] EXCEPT ![Len(stack[t])] = f]
           q == Append(r, g)
<1>1. stack' = [stack EXCEPT ![t] = q]
  BY DEF CallWith
<1>2. DOMAIN stack = Threads /\ \A u \in Threads : StackOK(u, stack[u])
  BY DEF StacksOK
<1>3. StackOK(t, r) /\ r # <<>> /\ Tip(r) = f
  BY <1>2, Replaced
<1> HIDE DEF r
<1>4. StackOK(t, q) /\ q # <<>> /\ Tip(q) = g
  BY <1>3, Pushed
<1> HIDE DEF q
<1>5. DOMAIN stack' = Threads /\ stack'[t] = q /\ OthersStay(t)
  BY <1>1, <1>2 DEF OthersStay
<1>6. \A u \in Threads : StackOK(u, stack'[u])
  BY <1>2, <1>4, <1>5 DEF OthersStay
<1>7. QED BY <1>4, <1>5, <1>6 DEF StacksOK

\* Return.
LEMMA ReturnFacts ==
  ASSUME StacksOK, NEW t \in Threads, stack[t] # <<>>, Return(t)
  PROVE  /\ StacksOK' /\ OthersStay(t)
         /\ stack'[t] # <<>> => Resting(Tip(stack'[t]))
<1> DEFINE r == Front(stack[t])
<1>1. stack' = [stack EXCEPT ![t] = r]
  BY DEF Return
<1>2. DOMAIN stack = Threads /\ \A u \in Threads : StackOK(u, stack[u])
  BY DEF StacksOK
<1>3. StackOK(t, r) /\ (r # <<>> => Resting(Tip(r)))
  BY <1>2, Popped
<1> HIDE DEF r
<1>4. DOMAIN stack' = Threads /\ stack'[t] = r /\ OthersStay(t)
  BY <1>1, <1>2 DEF OthersStay
<1>5. \A u \in Threads : StackOK(u, stack'[u])
  BY <1>2, <1>3, <1>4 DEF OthersStay
<1>6. QED BY <1>3, <1>4, <1>5 DEF StacksOK

\* The innermost frame of a thread.
LEMMA TopFacts ==
  ASSUME StacksOK, NEW t \in Threads, stack[t] # <<>>
  PROVE  /\ Top(t) = Tip(stack[t]) /\ IsFrame(Top(t)) /\ OnThread(t, Top(t))
<1>1. StackOK(t, stack[t]) /\ stack[t] \in Seq(Range(stack[t]))
  BY DEF StacksOK, StackOK
<1>2. Len(stack[t]) \in 1..Len(stack[t])
  BY <1>1, EmptySeq
<1>3. QED BY <1>1, <1>2 DEF StackOK, Top, Tip

\* A thread at a point of runItemsImpl before the wait is a worker.
LEMMA LoopOnWorker ==
  ASSUME StacksOK, NEW t \in Threads, NEW l, l # "sleep", At(t, "loop", l)
  PROVE  t \in Workers
  BY TopFacts DEF At, OnThread

-----------------------------------------------------------------------------
(* The obligations of a step *)

\* Two stacks that say the same of their thread: their innermost frames may
\* differ in numRemaining.
Alike(r, s) ==
  /\ r # <<>> <=> s # <<>>
  /\ r # <<>> =>
       /\ Tip(s).is = Tip(r).is /\ Tip(s).pc = Tip(r).pc
       /\ Tip(r).is = "prog" => Tip(s).todo = Tip(r).todo /\ Tip(s).target = Tip(r).target
       /\ Tip(r).is = "wake" => Tip(s).thread = Tip(r).thread

\* What a step by t owes to the sleepers.  It wakes whom it unmarks; it does
\* what it was about to do; who adds to a ring takes the owner's mark next, and
\* who adds to the shared list, unless it is a worker that is awake, any mark.
WakesKept(t) ==
  /\ \A u \in Threads \ {t} : Alike(stack[u], stack'[u])
  /\ ~ Doing(stack'[t], "postAll") /\ ~ Doing(stack'[t], "clear")
  /\ \A w \in suspended : w \in suspended' \/ Wakes(stack'[t], w)
  /\ \A w \in Workers : Wakes(stack[t], w) => Wakes(stack'[t], w) \/ sema'[w] > 0
  /\ \A w \in Workers \ {t} : sema'[w] >= sema[w]
  /\ \A w \in Workers : Takes(stack[t], w) =>
       Takes(stack'[t], w) \/ w \notin suspended'
  /\ \A w \in Workers \ {t} : ring'[w] = ring[w] \/ Takes(stack'[t], w)
  /\ Kicks(stack[t]) =>
       Kicks(stack'[t]) \/ suspended' = {} \/ \E w \in Workers : Wakes(stack'[t], w)
  /\ taskList' \subseteq taskList \/ t \in Workers \/ Kicks(stack'[t])

\* Stacks that are alike say the same.
LEMMA AlikeViews ==
  ASSUME NEW r, NEW s, Alike(r, s)
  PROVE  /\ \A L : Looping(r, L) <=> Looping(s, L)
         /\ \A l : Doing(r, l) <=> Doing(s, l)
         /\ \A w : Wakes(r, w) <=> Wakes(s, w)
         /\ \A w : Takes(r, w) <=> Takes(s, w)
         /\ Kicks(r) <=> Kicks(s)
<1>1. \A L : Looping(r, L) <=> Looping(s, L)
  BY DEF Alike, Looping
<1>2. \A l : Doing(r, l) <=> Doing(s, l)
  BY DEF Alike, Doing
<1>3. \A w : Wakes(r, w) <=> Wakes(s, w)
  BY DEF Alike, Doing, Waking, Wakes
<1>4. \A w : Takes(r, w) <=> Takes(s, w)
  BY DEF Alike, Doing, Takes
<1>5. QED BY <1>1, <1>2, <1>3, <1>4 DEF Kicks

\* Workers are threads, and there is one.
LEMMA SomeWorker == Workers \subseteq Threads /\ 0 \in Workers
<1>1. Workers \subseteq Threads
  BY DEF Threads
<1>2. 0 \in Workers
  BY ConfigAssumption DEF Workers
<1>3. QED BY <1>1, <1>2

\* A sleeper that will be woken still will be after another thread's step.
LEMMA WokenStays ==
  ASSUME PoolTypes, PoolTypes', NEW t \in Threads, WakesKept(t),
         NEW w \in Workers \ {t}, Woken(w)
  PROVE  Woken(w)'
<1>0. w \in Threads
  BY SomeWorker
<1>1. CASE sema[w] > 0
  <2>1. sema'[w] >= sema[w] /\ sema[w] \in Nat /\ sema'[w] \in Nat
    BY <1>0 DEF WakesKept, PoolTypes
  <2>2. QED BY <1>1, <2>1 DEF Woken
<1>2. CASE \E u \in Threads : Wakes(stack[u], w)
  <2>1. PICK u \in Threads : Wakes(stack[u], w)
    BY <1>2
  <2>2. CASE u = t
    BY <2>1, <2>2 DEF WakesKept, Woken
  <2>3. CASE u # t
    <3>1. Alike(stack[u], stack'[u])
      BY <2>3 DEF WakesKept
    <3>2. Wakes(stack'[u], w)
      BY <2>1, <3>1, AlikeViews
    <3>3. QED BY <3>2 DEF Woken
  <2>4. QED BY <2>2, <2>3
<1>3. QED BY <1>1, <1>2 DEF Woken

\* A step that keeps its obligations, after which its thread is not on the way
\* to sleep, preserves the invariant.
LEMMA AwakeStep ==
  ASSUME PoolTypes, PoolTypes', WakeInv, NEW t \in Threads, WakesKept(t),
         t \in Workers => ~ Looping(stack'[t], Marked)
  PROVE  WakeInv'
<1>s. Polled \subseteq Marked /\ Committed \subseteq Marked
  BY DEF Polled, Committed, Marked
<1>l. \A r : (Looping(r, Polled) => Looping(r, Marked)) /\ (Looping(r, Committed) => Looping(r, Marked))
  BY <1>s DEF Looping
<1>a. \A u \in Threads \ {t} :
        /\ \A L : Looping(stack[u], L) <=> Looping(stack'[u], L)
        /\ \A l : Doing(stack[u], l) <=> Doing(stack'[u], l)
        /\ \A w : Takes(stack[u], w) <=> Takes(stack'[u], w)
        /\ Kicks(stack[u]) <=> Kicks(stack'[u])
  BY AlikeViews DEF WakesKept
<1>w. \A w \in Workers \ {t} : Woken(w) => Woken(w)'
  BY WokenStays
<1>1. FlagFirst'
  BY <1>a DEF WakeInv, FlagFirst, WakesKept
<1>2. MarkInv'
  <2>1. SUFFICES ASSUME NEW w \in Workers, Looping(stack'[w], Marked)
                 PROVE  w \in suspended' \/ Woken(w)'
    BY DEF MarkInv
  <2>2. w # t /\ w \in Threads
    BY <2>1, SomeWorker
  <2>3. w \in suspended \/ Woken(w)
    BY <1>a, <2>1, <2>2 DEF WakeInv, MarkInv
  <2>4. ASSUME w \in suspended PROVE w \in suspended' \/ Woken(w)'
    <3>1. w \in suspended' \/ Wakes(stack'[t], w)
      BY <2>4 DEF WakesKept
    <3>2. QED BY <3>1 DEF Woken
  <2>5. QED BY <1>w, <2>2, <2>3, <2>4
<1>3. RingInv'
  <2>1. SUFFICES ASSUME NEW w \in Workers, Looping(stack'[w], Polled), ring'[w] # <<>>
                 PROVE  Woken(w)' \/ \E u \in Threads : Takes(stack'[u], w)
    BY DEF RingInv
  <2>2. w # t /\ w \in Threads
    BY <1>l, <2>1, SomeWorker
  <2>3. ring'[w] = ring[w] \/ Takes(stack'[t], w)
    BY <2>2 DEF WakesKept
  <2>4. CASE ring'[w] = ring[w]
    <3>1. Woken(w) \/ \E u \in Threads : Takes(stack[u], w)
      BY <1>a, <2>1, <2>2, <2>4 DEF WakeInv, RingInv
    <3>2. ASSUME NEW u \in Threads, Takes(stack[u], w), u # t PROVE Takes(stack'[u], w)
      BY <1>a, <3>2
    <3>3. ASSUME Takes(stack[t], w) PROVE Takes(stack'[t], w) \/ Woken(w)'
      <4>1. Takes(stack'[t], w) \/ w \notin suspended'
        BY <3>3 DEF WakesKept
      <4>2. w \in suspended' \/ Woken(w)'
        BY <1>2, <1>l, <2>1 DEF MarkInv
      <4>3. QED BY <4>1, <4>2
    <3>4. QED BY <1>w, <2>2, <3>1, <3>2, <3>3
  <2>5. QED BY <2>3, <2>4
<1>4. ListInv'
  <2>1. SUFFICES ASSUME taskList' # {}, ~ Kicks(stack'[t]), t \notin Workers
                 PROVE  \/ \E u \in Threads : Kicks(stack'[u])
                        \/ \E w \in Workers : ~ Looping(stack'[w], Committed) \/ Woken(w)'
    BY <1>l DEF ListInv
  <2>2. taskList # {}
    BY <2>1 DEF WakesKept
  <2>3. \/ \E u \in Threads : Kicks(stack[u])
        \/ \E w \in Workers : ~ Looping(stack[w], Committed) \/ Woken(w)
    BY <2>2 DEF WakeInv, ListInv
  <2>4. CASE \E w \in Workers : ~ Looping(stack[w], Committed) \/ Woken(w)
    <3>1. PICK w \in Workers : ~ Looping(stack[w], Committed) \/ Woken(w)
      BY <2>4
    <3>2. w # t /\ w \in Threads
      BY <2>1, SomeWorker
    <3>3. QED BY <1>a, <1>w, <3>1, <3>2
  <2>5. ASSUME NEW u \in Threads, Kicks(stack[u]), u # t PROVE Kicks(stack'[u])
    BY <1>a, <2>5
  <2>6. CASE Kicks(stack[t])
    <3>1. suspended' = {} \/ \E w \in Workers : Wakes(stack'[t], w)
      BY <2>1, <2>6 DEF WakesKept
    <3>2. ASSUME NEW w \in Workers, Wakes(stack'[t], w) PROVE Woken(w)'
      BY <3>2 DEF Woken
    <3>3. ASSUME suspended' = {} PROVE ~ Looping(stack'[0], Committed) \/ Woken(0)'
      BY <1>2, <1>l, <3>3, SomeWorker DEF MarkInv
    <3>4. QED BY <3>1, <3>2, <3>3, SomeWorker
  <2>7. QED BY <2>3, <2>4, <2>5, <2>6
<1>5. QED BY <1>1, <1>2, <1>3, <1>4 DEF WakeInv

\* A worker's steps on the way to sleep: mark, then poll the ring, then poll
\* the shared list, then wait.
LEMMA DrowsyStep ==
  ASSUME PoolTypes, PoolTypes', WakeInv, NEW t \in Workers, WakesKept(t),
         NEW l, Looping(stack'[t], {l}), Tip(stack[t]).is = "loop",
         UNCHANGED <<sema, ring, taskList>>,
         t \in suspended' \/ Woken(t),
         l \in Polled => Looping(stack[t], Polled) \/ ring[t] = <<>>,
         l \in Committed => Looping(stack[t], Committed) \/ taskList = {}
  PROVE  WakeInv'
<1>t. t \in Threads
  BY SomeWorker
<1>l. /\ \A L : Looping(stack'[t], L) <=> l \in L
      /\ \A w : ~ Wakes(stack[t], w) /\ ~ Takes(stack[t], w)
      /\ ~ Kicks(stack[t])
      /\ \A w : ~ Wakes(stack'[t], w)
  BY DEF Looping, Wakes, Takes, Kicks, Doing, Waking
<1>s. l \in Polled => l \in Marked
  BY DEF Polled, Marked
<1>p. \A r : Looping(r, Polled) => Looping(r, Marked)
  BY DEF Polled, Marked, Looping
<1>a. \A u \in Threads \ {t} :
        /\ \A L : Looping(stack[u], L) <=> Looping(stack'[u], L)
        /\ \A k : Doing(stack[u], k) <=> Doing(stack'[u], k)
        /\ \A w : Wakes(stack[u], w) <=> Wakes(stack'[u], w)
        /\ \A w : Takes(stack[u], w) <=> Takes(stack'[u], w)
        /\ Kicks(stack[u]) <=> Kicks(stack'[u])
  BY AlikeViews DEF WakesKept
<1>w. \A w \in Workers : Woken(w) => Woken(w)'
  BY <1>l, <1>a DEF Woken
<1>k. \A u \in Threads : Kicks(stack[u]) => Kicks(stack'[u])
  BY <1>l, <1>a
<1>h. \A u \in Threads, w \in Workers : Takes(stack[u], w) => Takes(stack'[u], w)
  BY <1>l, <1>a
<1>1. FlagFirst'
  BY <1>a DEF WakeInv, FlagFirst, WakesKept
<1>2. MarkInv'
  <2>1. SUFFICES ASSUME NEW w \in Workers, Looping(stack'[w], Marked)
                 PROVE  w \in suspended' \/ Woken(w)'
    BY DEF MarkInv
  <2>2. CASE w = t
    BY <1>w, <2>2
  <2>3. CASE w # t
    <3>1. w \in suspended \/ Woken(w)
      BY <1>a, <2>1, <2>3, SomeWorker DEF WakeInv, MarkInv
    <3>2. w \in suspended => w \in suspended'
      BY <1>l DEF WakesKept
    <3>3. QED BY <1>w, <3>1, <3>2
  <2>4. QED BY <2>2, <2>3
<1>3. RingInv'
  <2>1. SUFFICES ASSUME NEW w \in Workers, Looping(stack'[w], Polled), ring'[w] # <<>>
                 PROVE  Woken(w)' \/ \E u \in Threads : Takes(stack'[u], w)
    BY DEF RingInv
  <2>2. Looping(stack[w], Polled) /\ ring[w] # <<>>
    BY <1>l, <1>a, <2>1, SomeWorker
  <2>3. Woken(w) \/ \E u \in Threads : Takes(stack[u], w)
    BY <2>2 DEF WakeInv, RingInv
  <2>4. QED BY <1>w, <1>h, <2>3
<1>4. ListInv'
  <2>1. SUFFICES ASSUME taskList # {}
                 PROVE  \/ \E u \in Threads : Kicks(stack'[u])
                        \/ \E w \in Workers : ~ Looping(stack'[w], Committed) \/ Woken(w)'
    BY DEF ListInv
  <2>2. \/ \E u \in Threads : Kicks(stack[u])
        \/ \E w \in Workers : ~ Looping(stack[w], Committed) \/ Woken(w)
    BY <2>1 DEF WakeInv, ListInv
  <2>3. \A w \in Workers : ~ Looping(stack[w], Committed) => ~ Looping(stack'[w], Committed)
    BY <1>l, <1>a, <2>1, SomeWorker
  <2>4. QED BY <1>k, <1>w, <2>2, <2>3
<1>5. QED BY <1>1, <1>2, <1>3, <1>4 DEF WakeInv

\* A thread that owes nobody a wake-up, and one that is not on the way to
\* sleep either.
NoDebt(s) == ~ Waking(s) /\ ~ Doing(s, "post") /\ ~ Doing(s, "take") /\ ~ Doing(s, "takeAny")
NotFlagged(s) == ~ Doing(s, "postAll") /\ ~ Doing(s, "clear")
Calm(s) == NoDebt(s) /\ NotFlagged(s) /\ ~ Looping(s, Marked)

\* Frames of these kinds are calm.
LEMMA CalmFrames ==
  ASSUME NEW s,
         s # <<>> => \/ Tip(s).is = "loop" /\ Tip(s).pc \notin Marked
                     \/ Tip(s).is = "wake" /\ Tip(s).pc = "decrement"
                     \/ Tip(s).is = "prog" /\ Tip(s).pc \in {"op", "add", "register", "done",
                                                             "spill", "overflow", "join"}
  PROVE  Calm(s)
  BY DEF Calm, NoDebt, NotFlagged, Waking, Doing, Looping

\* So are frames that others return to.
LEMMA RestingIsCalm ==
  ASSUME NEW s, s # <<>> => Resting(Tip(s)) PROVE Calm(s)
<1>1. s # <<>> => \/ Tip(s).is = "loop" /\ Tip(s).pc \notin Marked
                  \/ Tip(s).is = "prog" /\ Tip(s).pc \in {"op", "done"}
  BY DEF Resting, Marked
<1>2. QED BY <1>1, CalmFrames

\* The invariant is preserved when the step keeps its obligations.
LEMMA KeptStep ==
  ASSUME PoolInv, NEW t \in Threads, StacksOK', PoolTypes', WakesKept(t),
         t \in Workers => ~ Looping(stack'[t], Marked), doneFlag' = doneFlag
  PROVE  PoolInv'
<1>1. CASE doneFlag
  BY <1>1 DEF PoolInv
<1>2. CASE WakeInv
  <2>1. WakeInv'
    BY <1>2, AwakeStep DEF PoolInv
  <2>2. QED BY <2>1 DEF PoolInv
<1>3. QED BY <1>1, <1>2 DEF PoolInv

\* The step of a thread that owed nobody a wake-up.
LEMMA FreeStep ==
  ASSUME PoolInv, NEW t \in Threads, StacksOK', PoolTypes', doneFlag' = doneFlag,
         \A u \in Threads \ {t} : Alike(stack[u], stack'[u]),
         NoDebt(stack[t]), NotFlagged(stack'[t]),
         t \in Workers => ~ Looping(stack'[t], Marked),
         suspended' = suspended,
         \A w \in Workers \ {t} : sema'[w] = sema[w] /\ (ring'[w] = ring[w] \/ Takes(stack'[t], w)),
         taskList' \subseteq taskList \/ t \in Workers \/ Kicks(stack'[t])
  PROVE  PoolInv'
<1>1. \A w : ~ Wakes(stack[t], w) /\ ~ Takes(stack[t], w)
  BY DEF NoDebt, Wakes, Takes
<1>2. ~ Kicks(stack[t])
  BY DEF NoDebt, Kicks
<1>3. \A w \in Workers : sema[w] \in Nat
  BY SomeWorker DEF PoolInv, PoolTypes
<1>4. \A w \in Workers \ {t} : sema'[w] >= sema[w]
  BY <1>3
<1>5. WakesKept(t)
  BY <1>1, <1>2, <1>4 DEF WakesKept, NotFlagged
<1>6. QED BY <1>5, KeptStep

\* Stacks that stay as they are, are alike.
LEMMA StayAlike ==
  ASSUME NEW t, OthersStay(t) PROVE \A u \in Threads \ {t} : Alike(stack[u], stack'[u])
  BY DEF OthersStay, Alike

\* A step of runItemsImpl that leaves the worker awake: it may change its own
\* semaphore and ring and the lists that are shared.
LEMMA LoopStep ==
  ASSUME PoolInv, NEW t \in Workers, NEW l, At(t, "loop", l),
         StacksOK', OthersStay(t), Calm(stack'[t]), doneFlag' = doneFlag,
         suspended' = suspended, sema' \in [Threads -> Nat], DOMAIN ring' = Workers,
         \A w \in Workers \ {t} : sema'[w] = sema[w] /\ ring'[w] = ring[w]
  PROVE  PoolInv'
<1>1. t \in Threads
  BY SomeWorker
<1>2. NoDebt(stack[t])
  BY DEF At, Top, NoDebt, Waking, Doing, Tip
<1>3. PoolTypes'
  BY DEF PoolInv, PoolTypes
<1>4. QED BY <1>1, <1>2, <1>3, FreeStep, StayAlike DEF Calm

-----------------------------------------------------------------------------
(* runItemsImpl *)

\* A worker goes to another point of runItemsImpl.
LEMMA GotoLoop ==
  ASSUME StacksOK, NEW t \in Workers, NEW l, NEW m, At(t, "loop", l), Goto(t, m)
  PROVE  /\ StacksOK' /\ OthersStay(t) /\ stack'[t] # <<>>
         /\ Tip(stack'[t]).is = "loop" /\ Tip(stack'[t]).pc = m
<1>1. t \in Threads /\ stack[t] # <<>>
  BY SomeWorker DEF At
<1>2. IsFrame(Top(t)) /\ OnThread(t, Top(t)) /\ Top(t).is = "loop"
  BY <1>1, TopFacts DEF At
<1> DEFINE f == [Top(t) EXCEPT !.pc = m]
<1>3. IsFrame(f) /\ OnThread(t, f) /\ f.is = "loop" /\ f.pc = m
  BY <1>2 DEF IsFrame, OnThread
<1>4. SetTop(t, f)
  BY DEF Goto
<1> HIDE DEF f
<1>5. QED BY <1>1, <1>3, <1>4, SetTopFacts

\* Running an item on top of a frame that can rest.
LEMMA RunFacts ==
  ASSUME StacksOK, NEW t \in Threads, stack[t] # <<>>, NEW f, NEW it,
         IsFrame(f), OnThread(t, f), Resting(f), Run(t, f, it)
  PROVE  StacksOK' /\ OthersStay(t) /\ Calm(stack'[t])
<1> DEFINE g == FrameOf(it)
<1>1. /\ IsFrame(g) /\ OnThread(t, g)
      /\ (g.is = "wake" /\ g.pc = "decrement") \/ (g.is = "prog" /\ g.pc = "op")
  <2>1. CASE IsTask(it)
    <3>1. g = ProgFrame(it.task)
      BY <2>1 DEF FrameOf
    <3>2. QED BY <3>1 DEF ProgFrame, IsFrame, OnThread
  <2>2. CASE ~ IsTask(it)
    <3>1. g = WakeFrame(it.thread, it.depth, it.value)
      BY <2>2 DEF FrameOf
    <3>2. QED BY <3>1 DEF WakeFrame, IsFrame, OnThread
  <2>3. QED BY <2>1, <2>2
<1>2. CallWith(t, f, g)
  BY DEF Run
<1> HIDE DEF g
<1>3. StacksOK' /\ OthersStay(t) /\ stack'[t] # <<>> /\ Tip(stack'[t]) = g
  BY <1>1, <1>2, CallFacts
<1>4. QED BY <1>1, <1>3, CalmFrames

\* A worker runs an item, to come back to point k.
LEMMA RunFromLoop ==
  ASSUME StacksOK, NEW t \in Workers, NEW l, At(t, "loop", l), NEW it, NEW k \in {"keep", "local"},
         Run(t, [Top(t) EXCEPT !.pc = k], it)
  PROVE  StacksOK' /\ OthersStay(t) /\ Calm(stack'[t])
<1>1. t \in Threads /\ stack[t] # <<>>
  BY SomeWorker DEF At
<1>2. IsFrame(Top(t)) /\ OnThread(t, Top(t)) /\ Top(t).is = "loop"
  BY <1>1, TopFacts DEF At
<1> DEFINE f == [Top(t) EXCEPT !.pc = k]
<1>3. IsFrame(f) /\ OnThread(t, f) /\ Resting(f)
  BY <1>2 DEF IsFrame, OnThread, Resting
<1> HIDE DEF f
<1>4. QED BY <1>1, <1>3, RunFacts DEF f

\* Going to a point before the mark leaves the worker calm,
LEMMA GotoCalm ==
  ASSUME StacksOK, NEW t \in Workers, NEW l, NEW m, m \notin Marked, At(t, "loop", l), Goto(t, m)
  PROVE  StacksOK' /\ OthersStay(t) /\ Calm(stack'[t])
<1>1. /\ StacksOK' /\ OthersStay(t) /\ stack'[t] # <<>>
      /\ Tip(stack'[t]).is = "loop" /\ Tip(stack'[t]).pc = m
  BY GotoLoop
<1>2. QED BY <1>1, CalmFrames

\* and so does returning.
LEMMA ReturnCalm ==
  ASSUME StacksOK, NEW t \in Threads, stack[t] # <<>>, Return(t)
  PROVE  StacksOK' /\ OthersStay(t) /\ Calm(stack'[t])
  BY ReturnFacts, RestingIsCalm

\* What a step that changes neither marks nor semaphores nor rings leaves.
LEMMA SameTypes ==
  ASSUME PoolTypes, sema' = sema, ring' = ring
  PROVE  /\ sema' \in [Threads -> Nat] /\ DOMAIN ring' = Workers
         /\ \A w \in Workers : sema'[w] = sema[w] /\ ring'[w] = ring[w]
  BY DEF PoolTypes

\* The steps before the mark.
LEMMA LoopEarly ==
  ASSUME PoolInv, NEW t \in Threads,
         \/ KeepRunning(t) \/ RunLocal(t) \/ SpinStop(t) \/ PumpSpill(t)
         \/ PumpOverflow(t)
         \/ PollGlobal(t, "global", "spinAffinity") \/ PollGlobal(t, "spinGlobal", "spinStop")
  PROVE  PoolInv'
<1> USE DEF queues, values
<1>s. StacksOK /\ PoolTypes
  BY DEF PoolInv
<1>n. /\ "keep" \notin Marked /\ "local" \notin Marked /\ "affinity" \notin Marked
      /\ "pumpSpill" \notin Marked /\ "pumpOverflow" \notin Marked
      /\ "spinAffinity" \notin Marked /\ "spinStop" \notin Marked /\ "mark" \notin Marked
  BY DEF Marked
<1>1. CASE KeepRunning(t)
  <2>1. /\ At(t, "loop", "keep") /\ sema' = sema /\ ring' = ring
        /\ suspended' = suspended /\ doneFlag' = doneFlag
        /\ Return(t) \/ Goto(t, "local")
    BY <1>1 DEF KeepRunning
  <2>2. t \in Workers /\ stack[t] # <<>>
    BY <1>s, <2>1, LoopOnWorker DEF At
  <2>3. StacksOK' /\ OthersStay(t) /\ Calm(stack'[t])
    BY <1>s, <1>n, <2>1, <2>2, ReturnCalm, GotoCalm
  <2>4. QED BY <1>s, <2>1, <2>2, <2>3, LoopStep, SameTypes
<1>2. CASE RunLocal(t)
  <2>1. /\ At(t, "loop", "local") /\ sema' = sema /\ ring' = ring
        /\ suspended' = suspended /\ doneFlag' = doneFlag
        /\ Run(t, Top(t), Head(local[t])) \/ Goto(t, "affinity")
    BY <1>2 DEF RunLocal
  <2>2. t \in Workers /\ stack[t] # <<>>
    BY <1>s, <2>1, LoopOnWorker DEF At
  <2>3. ASSUME Run(t, Top(t), Head(local[t]))
        PROVE  StacksOK' /\ OthersStay(t) /\ Calm(stack'[t])
    <3>1. IsFrame(Top(t)) /\ OnThread(t, Top(t)) /\ Resting(Top(t))
      BY <1>s, <2>1, <2>2, TopFacts DEF At, Resting
    <3>2. QED BY <1>s, <2>2, <2>3, <3>1, RunFacts
  <2>4. StacksOK' /\ OthersStay(t) /\ Calm(stack'[t])
    BY <1>s, <1>n, <2>1, <2>2, <2>3, GotoCalm
  <2>5. QED BY <1>s, <2>1, <2>2, <2>4, LoopStep, SameTypes
<1>3. CASE SpinStop(t)
  <2>1. /\ At(t, "loop", "spinStop") /\ sema' = sema /\ ring' = ring
        /\ suspended' = suspended /\ doneFlag' = doneFlag
        /\ Return(t) \/ Goto(t, "pumpSpill")
    BY <1>3 DEF SpinStop
  <2>2. t \in Workers /\ stack[t] # <<>>
    BY <1>s, <2>1, LoopOnWorker DEF At
  <2>3. StacksOK' /\ OthersStay(t) /\ Calm(stack'[t])
    BY <1>s, <1>n, <2>1, <2>2, ReturnCalm, GotoCalm
  <2>4. QED BY <1>s, <2>1, <2>2, <2>3, LoopStep, SameTypes
<1>4. CASE PumpSpill(t)
  <2>1. /\ At(t, "loop", "pumpSpill") /\ sema' = sema /\ ring' = ring
        /\ suspended' = suspended /\ doneFlag' = doneFlag
        /\ Goto(t, "keep") \/ Goto(t, "pumpOverflow")
    BY <1>4 DEF PumpSpill
  <2>2. t \in Workers /\ stack[t] # <<>>
    BY <1>s, <2>1, LoopOnWorker DEF At
  <2>3. StacksOK' /\ OthersStay(t) /\ Calm(stack'[t])
    BY <1>s, <1>n, <2>1, <2>2, GotoCalm
  <2>4. QED BY <1>s, <2>1, <2>2, <2>3, LoopStep, SameTypes
<1>5. CASE PumpOverflow(t)
  <2>1. /\ At(t, "loop", "pumpOverflow") /\ sema' = sema /\ ring' = ring
        /\ suspended' = suspended /\ doneFlag' = doneFlag
        /\ Goto(t, "keep") \/ Goto(t, "mark")
    BY <1>5 DEF PumpOverflow
  <2>2. t \in Workers /\ stack[t] # <<>>
    BY <1>s, <2>1, LoopOnWorker DEF At
  <2>3. StacksOK' /\ OthersStay(t) /\ Calm(stack'[t])
    BY <1>s, <1>n, <2>1, <2>2, GotoCalm
  <2>4. QED BY <1>s, <2>1, <2>2, <2>3, LoopStep, SameTypes
<1>6. ASSUME NEW l \in {"global", "spinGlobal"}, NEW m \in {"spinAffinity", "spinStop"},
             PollGlobal(t, l, m)
      PROVE  PoolInv'
  <2>1. /\ At(t, "loop", l) /\ sema' = sema /\ ring' = ring
        /\ suspended' = suspended /\ doneFlag' = doneFlag
        /\ \/ \E it \in taskList : Run(t, [Top(t) EXCEPT !.pc = "keep"], it)
           \/ Return(t) \/ Goto(t, m)
    BY <1>6 DEF PollGlobal
  <2>2. t \in Workers /\ stack[t] # <<>>
    BY <1>s, <1>6, <2>1, LoopOnWorker DEF At
  <2>3. ASSUME NEW it, Run(t, [Top(t) EXCEPT !.pc = "keep"], it)
        PROVE  StacksOK' /\ OthersStay(t) /\ Calm(stack'[t])
    BY <1>s, <2>1, <2>2, <2>3, RunFromLoop
  <2>4. StacksOK' /\ OthersStay(t) /\ Calm(stack'[t])
    BY <1>s, <1>n, <1>6, <2>1, <2>2, <2>3, ReturnCalm, GotoCalm
  <2>5. QED BY <1>s, <2>1, <2>2, <2>4, LoopStep, SameTypes
<1>7. QED BY <1>1, <1>2, <1>3, <1>4, <1>5, <1>6

\* The steps on the way to sleep, from point k to point l.
LEMMA LoopDrowsy ==
  ASSUME PoolInv, NEW t \in Workers, NEW k, NEW l, At(t, "loop", k), Goto(t, l),
         sema' = sema, ring' = ring, taskList' = taskList, doneFlag' = doneFlag,
         suspended \subseteq suspended', suspended' \subseteq Workers,
         t \in suspended' \/ k \in Marked,
         l \in Polled => k \in Polled \/ ring[t] = <<>>,
         l \in Committed => k \in Committed \/ taskList = {}
  PROVE  PoolInv'
<1>1. StacksOK /\ PoolTypes /\ t \in Threads
  BY SomeWorker DEF PoolInv
<1>2. /\ StacksOK' /\ OthersStay(t) /\ stack'[t] # <<>>
      /\ Tip(stack'[t]).is = "loop" /\ Tip(stack'[t]).pc = l
  BY <1>1, GotoLoop
<1>3. Tip(stack[t]).is = "loop" /\ stack[t] # <<>> /\ Tip(stack[t]).pc = k
  BY DEF At, Top, Tip
<1>4. PoolTypes'
  BY <1>1 DEF PoolTypes
<1>5. \A L : (Looping(stack[t], L) <=> k \in L) /\ (Looping(stack'[t], L) <=> l \in L)
  BY <1>2, <1>3 DEF Looping
<1>6. /\ \A w : ~ Wakes(stack[t], w) /\ ~ Takes(stack[t], w)
      /\ ~ Kicks(stack[t])
      /\ ~ Doing(stack'[t], "postAll") /\ ~ Doing(stack'[t], "clear")
  BY <1>2, <1>3 DEF Wakes, Takes, Kicks, Doing, Waking
<1>7. \A w \in Workers : sema'[w] >= sema[w]
  <2>1. \A w \in Workers : sema[w] \in Nat
    BY <1>1, SomeWorker DEF PoolTypes
  <2>2. QED BY <2>1
<1>8. WakesKept(t)
  BY <1>2, <1>6, <1>7, StayAlike DEF WakesKept
<1>9. CASE doneFlag
  BY <1>2, <1>4, <1>9 DEF PoolInv
<1>10. CASE WakeInv
  <2>1. t \in suspended' \/ Woken(t)
    BY <1>5, <1>10 DEF WakeInv, MarkInv
  <2>2. WakeInv'
    BY <1>1, <1>2, <1>3, <1>4, <1>5, <1>8, <1>10, <2>1, DrowsyStep
  <2>3. QED BY <1>2, <1>4, <2>2 DEF PoolInv
<1>11. QED BY <1>9, <1>10 DEF PoolInv

\* A poll of the ring that finds a task.
LEMMA RingHit ==
  ASSUME PoolInv, NEW t \in Workers, NEW l, At(t, "loop", l), NEW it,
         Run(t, [Top(t) EXCEPT !.pc = "keep"], it),
         NEW q, ring' = [ring EXCEPT ![t] = q],
         sema' = sema, suspended' = suspended, doneFlag' = doneFlag
  PROVE  PoolInv'
<1>1. StacksOK /\ PoolTypes
  BY DEF PoolInv
<1>2. StacksOK' /\ OthersStay(t) /\ Calm(stack'[t])
  BY <1>1, RunFromLoop
<1>3. /\ sema' \in [Threads -> Nat] /\ DOMAIN ring' = Workers
      /\ \A w \in Workers \ {t} : sema'[w] = sema[w] /\ ring'[w] = ring[w]
  BY <1>1 DEF PoolTypes
<1>4. QED BY <1>2, <1>3, LoopStep

\* The polls of the ring, the mark, the last poll of the shared list, the last
\* test of whether to stop, and the wait.
LEMMA LoopLate ==
  ASSUME PoolInv, NEW t \in Threads,
         \/ PollAffinity(t, "affinity", "global")
         \/ PollAffinity(t, "spinAffinity", "spinGlobal")
         \/ MarkSuspended(t)
         \/ PollAffinity(t, "preAffinity", "preGlobal")
         \/ PollGlobal(t, "preGlobal", "preStop")
         \/ PreSuspendStop(t)
  PROVE  PoolInv'
<1> USE DEF queues, values
<1>s. StacksOK /\ PoolTypes
  BY DEF PoolInv
<1>1. ASSUME NEW l \in {"affinity", "spinAffinity", "preAffinity"}, NEW m,
             PollAffinity(t, l, m),
             m \in {"global", "spinGlobal"} \/ (l = "preAffinity" /\ m = "preGlobal")
      PROVE  PoolInv'
  <2>1. /\ At(t, "loop", l) /\ sema' = sema /\ taskList' = taskList
        /\ suspended' = suspended /\ doneFlag' = doneFlag
        /\ \/ /\ Run(t, [Top(t) EXCEPT !.pc = "keep"], Head(ring[t]))
              /\ ring' = [ring EXCEPT ![t] = Tail(ring[t])]
           \/ ring[t] = <<>> /\ Goto(t, m) /\ ring' = ring
    BY <1>1 DEF PollAffinity
  <2>2. t \in Workers
    BY <1>s, <1>1, <2>1, LoopOnWorker
  <2>3. CASE /\ Run(t, [Top(t) EXCEPT !.pc = "keep"], Head(ring[t]))
             /\ ring' = [ring EXCEPT ![t] = Tail(ring[t])]
    BY <2>1, <2>2, <2>3, RingHit
  <2>4. CASE ring[t] = <<>> /\ Goto(t, m) /\ ring' = ring
    <3>1. CASE m \in {"global", "spinGlobal"}
      <4>1. m \notin Marked
        BY <3>1 DEF Marked
      <4>2. StacksOK' /\ OthersStay(t) /\ Calm(stack'[t])
        BY <1>s, <2>1, <2>2, <2>4, <4>1, GotoCalm
      <4>3. QED BY <1>s, <2>1, <2>2, <2>4, <4>2, LoopStep, SameTypes
    <3>2. CASE l = "preAffinity" /\ m = "preGlobal"
      <4>1. l \in Marked /\ m \notin Committed
        BY <3>2 DEF Marked, Committed
      <4>2. suspended \subseteq suspended' /\ suspended' \subseteq Workers
        BY <1>s, <2>1 DEF PoolTypes
      <4>3. QED BY <2>1, <2>2, <2>4, <4>1, <4>2, LoopDrowsy
    <3>3. QED BY <1>1, <3>1, <3>2
  <2>5. QED BY <2>1, <2>3, <2>4
<1>2. CASE MarkSuspended(t)
  <2>1. /\ At(t, "loop", "mark") /\ Goto(t, "preAffinity") /\ suspended' = suspended \cup {t}
        /\ sema' = sema /\ ring' = ring /\ taskList' = taskList /\ doneFlag' = doneFlag
    BY <1>2 DEF MarkSuspended
  <2>2. t \in Workers
    BY <1>s, <2>1, LoopOnWorker
  <2>3. suspended \subseteq suspended' /\ suspended' \subseteq Workers /\ t \in suspended'
    BY <1>s, <2>1, <2>2 DEF PoolTypes
  <2>4. "preAffinity" \notin Polled /\ "preAffinity" \notin Committed
    BY DEF Polled, Committed
  <2>5. QED BY <2>1, <2>2, <2>3, <2>4, LoopDrowsy
<1>3. CASE PollGlobal(t, "preGlobal", "preStop")
  <2>1. /\ At(t, "loop", "preGlobal") /\ sema' = sema /\ ring' = ring
        /\ suspended' = suspended /\ doneFlag' = doneFlag
        /\ \/ \E it \in taskList : Run(t, [Top(t) EXCEPT !.pc = "keep"], it)
           \/ taskList = {} /\ taskList' = taskList /\ Goto(t, "preStop")
    BY <1>3 DEF PollGlobal
  <2>2. t \in Workers
    BY <1>s, <2>1, LoopOnWorker
  <2>3. CASE \E it \in taskList : Run(t, [Top(t) EXCEPT !.pc = "keep"], it)
    <3>1. StacksOK' /\ OthersStay(t) /\ Calm(stack'[t])
      BY <1>s, <2>1, <2>2, <2>3, RunFromLoop
    <3>2. QED BY <1>s, <2>1, <2>2, <3>1, LoopStep, SameTypes
  <2>4. CASE taskList = {} /\ taskList' = taskList /\ Goto(t, "preStop")
    <3>1. "preGlobal" \in Marked /\ "preGlobal" \in Polled
      BY DEF Marked, Polled
    <3>2. suspended \subseteq suspended' /\ suspended' \subseteq Workers
      BY <1>s, <2>1 DEF PoolTypes
    <3>3. QED BY <2>1, <2>2, <2>4, <3>1, <3>2, LoopDrowsy
  <2>5. QED BY <2>1, <2>3, <2>4
<1>4. CASE PreSuspendStop(t)
  <2>1. /\ At(t, "loop", "preStop") /\ sema' = sema /\ ring' = ring /\ taskList' = taskList
        /\ suspended' = suspended /\ doneFlag' = doneFlag
        /\ Return(t) \/ Goto(t, "sleep")
    BY <1>4 DEF PreSuspendStop
  <2>2. t \in Workers /\ stack[t] # <<>>
    BY <1>s, <2>1, LoopOnWorker DEF At
  <2>3. CASE Return(t)
    <3>1. StacksOK' /\ OthersStay(t) /\ Calm(stack'[t])
      BY <1>s, <2>2, <2>3, ReturnCalm
    <3>2. QED BY <1>s, <2>1, <2>2, <3>1, LoopStep, SameTypes
  <2>4. CASE Goto(t, "sleep")
    <3>1. "preStop" \in Marked /\ "preStop" \in Polled /\ "preStop" \in Committed
      BY DEF Marked, Polled, Committed
    <3>2. suspended \subseteq suspended' /\ suspended' \subseteq Workers
      BY <1>s, <2>1 DEF PoolTypes
    <3>3. QED BY <2>1, <2>2, <2>4, <3>1, <3>2, LoopDrowsy
  <2>5. QED BY <2>1, <2>3, <2>4
<1>5. QED BY <1>1, <1>2, <1>3, <1>4

\* The wait returns.
LEMMA LoopWakeUp ==
  ASSUME PoolInv, NEW t \in Threads, WakeUp(t) PROVE PoolInv'
<1> USE DEF queues, values
<1>s. StacksOK /\ PoolTypes
  BY DEF PoolInv
<1>1. /\ At(t, "loop", "sleep") /\ sema[t] > 0 /\ sema' = [sema EXCEPT ![t] = sema[t] - 1]
      /\ ring' = ring /\ taskList' = taskList /\ suspended' = suspended /\ doneFlag' = doneFlag
      /\ IF Top(t).kind = "foreign" THEN Return(t) ELSE Goto(t, "keep")
  BY DEF WakeUp
<1>2. stack[t] # <<>> /\ OnThread(t, Top(t)) /\ Top(t).is = "loop"
  BY <1>s, <1>1, TopFacts DEF At
<1>3. sema[t] - 1 \in Nat
  BY <1>s, <1>1 DEF PoolTypes
<1>4. /\ sema' \in [Threads -> Nat] /\ DOMAIN ring' = Workers
      /\ \A w \in Workers \ {t} : sema'[w] = sema[w] /\ ring'[w] = ring[w]
  BY <1>s, <1>1, <1>3, SomeWorker DEF PoolTypes
<1>5. CASE t \in Workers
  <2>1. "keep" \notin Marked
    BY DEF Marked
  <2>2. StacksOK' /\ OthersStay(t) /\ Calm(stack'[t])
    BY <1>s, <1>1, <1>2, <1>5, <2>1, GotoCalm, ReturnCalm
  <2>3. QED BY <1>1, <1>4, <1>5, <2>2, LoopStep
<1>6. CASE t \notin Workers
  <2>1. Return(t)
    BY <1>1, <1>2, <1>6 DEF OnThread
  <2>2. StacksOK' /\ OthersStay(t) /\ Calm(stack'[t])
    BY <1>s, <1>2, <2>1, ReturnCalm
  <2>3. PoolTypes'
    BY <1>s, <1>1, <1>4 DEF PoolTypes
  <2>4. NoDebt(stack[t])
    BY <1>2 DEF Top, NoDebt, Waking, Doing, Tip
  <2>5. QED BY <1>1, <1>4, <2>2, <2>3, <2>4, FreeStep, StayAlike DEF Calm
<1>7. QED BY <1>5, <1>6

\* runItemsImpl.
LEMMA LoopSteps ==
  ASSUME PoolInv, NEW t \in Threads, RunItems(t) PROVE PoolInv'
  BY LoopEarly, LoopLate, LoopWakeUp DEF RunItems

-----------------------------------------------------------------------------
(* addTask *)

\* A program's frame changes to f.
LEMMA SetProg ==
  ASSUME StacksOK, NEW t \in Threads, stack[t] # <<>>,
         NEW f, IsFrame(f), f.is = "prog", SetTop(t, f)
  PROVE  StacksOK' /\ OthersStay(t) /\ stack'[t] # <<>> /\ Tip(stack'[t]) = f
<1>1. OnThread(t, f)
  BY DEF OnThread
<1>2. QED BY <1>1, SetTopFacts

\* A program's frame goes to point m.
LEMMA GotoProg ==
  ASSUME StacksOK, NEW t \in Threads, NEW l, At(t, "prog", l), NEW m, Goto(t, m)
  PROVE  /\ StacksOK' /\ OthersStay(t) /\ stack'[t] # <<>>
         /\ Tip(stack'[t]).is = "prog" /\ Tip(stack'[t]).pc = m
         /\ Tip(stack'[t]).todo = Top(t).todo
<1>1. stack[t] # <<>> /\ IsFrame(Top(t)) /\ Top(t).is = "prog"
  BY TopFacts DEF At
<1> DEFINE f == [Top(t) EXCEPT !.pc = m]
<1>2. IsFrame(f) /\ f.is = "prog" /\ f.pc = m /\ f.todo = Top(t).todo
  BY <1>1 DEF IsFrame
<1>3. SetTop(t, f)
  BY DEF Goto
<1> HIDE DEF f
<1>4. QED BY <1>1, <1>2, <1>3, SetProg

\* The call for the first item is over: the program goes on or adds the next.
LEMMA SetAdded ==
  ASSUME StacksOK, NEW t \in Threads, NEW l, At(t, "prog", l), SetTop(t, Added(Top(t)))
  PROVE  StacksOK' /\ OthersStay(t) /\ Calm(stack'[t])
<1>1. stack[t] # <<>> /\ IsFrame(Top(t)) /\ Top(t).is = "prog"
  BY TopFacts DEF At
<1> DEFINE f == Added(Top(t))
<1>2. IsFrame(f) /\ f.is = "prog" /\ f.pc \in {"op", "add"}
  BY <1>1 DEF IsFrame, Added
<1> HIDE DEF f
<1>3. StacksOK' /\ OthersStay(t) /\ stack'[t] # <<>> /\ Tip(stack'[t]) = f
  BY <1>1, <1>2, SetProg DEF f
<1>4. QED BY <1>2, <1>3, CalmFrames

\* A program about to wake w.
LEMMA SetPost ==
  ASSUME StacksOK, NEW t \in Threads, NEW l, At(t, "prog", l), NEW w,
         SetTop(t, [Top(t) EXCEPT !.pc = "post", !.target = w])
  PROVE  /\ StacksOK' /\ OthersStay(t) /\ Wakes(stack'[t], w)
         /\ NotFlagged(stack'[t]) /\ ~ Looping(stack'[t], Marked)
<1>1. stack[t] # <<>> /\ IsFrame(Top(t)) /\ Top(t).is = "prog"
  BY TopFacts DEF At
<1> DEFINE f == [Top(t) EXCEPT !.pc = "post", !.target = w]
<1>2. IsFrame(f) /\ f.is = "prog" /\ f.pc = "post" /\ f.target = w
  BY <1>1 DEF IsFrame
<1> HIDE DEF f
<1>3. StacksOK' /\ OthersStay(t) /\ stack'[t] # <<>> /\ Tip(stack'[t]) = f
  BY <1>1, <1>2, SetProg DEF f
<1>4. QED BY <1>2, <1>3 DEF Wakes, Doing, NotFlagged, Looping

\* A program at a point where it owes nobody a wake-up.
LEMMA ProgNoDebt ==
  ASSUME NEW t, NEW l, l \notin {"post", "take", "takeAny"}, At(t, "prog", l)
  PROVE  NoDebt(stack[t])
  BY DEF At, Top, Tip, NoDebt, Waking, Doing

\* Handing an item to the ring, the spill list, the shared list or the
\* overflow list.
LEMMA HandOver ==
  ASSUME PoolInv, NEW t \in Threads,
         AddAffinity(t) \/ AddSpill(t) \/ AddGlobal(t) \/ AddOverflow(t)
  PROVE  PoolInv'
<1> USE DEF queues, values
<1>s. StacksOK /\ PoolTypes
  BY DEF PoolInv
<1>c. ASSUME StacksOK', OthersStay(t), Calm(stack'[t]), NEW l, At(t, "prog", l),
             l \notin {"post", "take", "takeAny"},
             sema' = sema, ring' = ring, taskList' = taskList, suspended' = suspended,
             doneFlag' = doneFlag
      PROVE  PoolInv'
  <2>1. PoolTypes'
    BY <1>s, <1>c DEF PoolTypes
  <2>2. NoDebt(stack[t])
    BY <1>c, ProgNoDebt
  <2>3. QED BY <1>c, <2>1, <2>2, FreeStep, StayAlike DEF Calm
<1>1. CASE AddAffinity(t)
  <2> DEFINE w == Adding(t).to
  <2>1. /\ At(t, "prog", "add") /\ sema' = sema /\ taskList' = taskList
        /\ suspended' = suspended /\ doneFlag' = doneFlag
        /\ \/ ring' = [ring EXCEPT ![w] = Append(@, Adding(t).item)] /\ Goto(t, "take")
           \/ Goto(t, "spill") /\ ring' = ring
    BY <1>1 DEF AddAffinity
  <2>2. CASE ring' = [ring EXCEPT ![w] = Append(@, Adding(t).item)] /\ Goto(t, "take")
    <3>1. /\ StacksOK' /\ OthersStay(t) /\ stack'[t] # <<>>
          /\ Tip(stack'[t]).is = "prog" /\ Tip(stack'[t]).pc = "take"
          /\ Tip(stack'[t]).todo = Top(t).todo
      BY <1>s, <2>1, <2>2, GotoProg
    <3>2. Takes(stack'[t], w) /\ NotFlagged(stack'[t]) /\ ~ Looping(stack'[t], Marked)
      BY <3>1 DEF Takes, Doing, NotFlagged, Looping, Adding
    <3> HIDE DEF w
    <3>3. PoolTypes'
      BY <1>s, <2>1, <2>2 DEF PoolTypes
    <3>4. \A x \in Workers \ {t} : sema'[x] = sema[x] /\ (ring'[x] = ring[x] \/ Takes(stack'[t], x))
      BY <1>s, <2>1, <2>2, <3>2 DEF PoolTypes
    <3>5. NoDebt(stack[t])
      BY <2>1, ProgNoDebt
    <3>6. QED BY <2>1, <3>1, <3>2, <3>3, <3>4, <3>5, FreeStep, StayAlike
  <2>3. CASE Goto(t, "spill") /\ ring' = ring
    <3>1. StacksOK' /\ OthersStay(t) /\ Calm(stack'[t])
      BY <1>s, <2>1, <2>3, GotoProg, CalmFrames
    <3>2. QED BY <1>c, <2>1, <2>3, <3>1
  <2>4. QED BY <2>1, <2>2, <2>3
<1>2. CASE AddSpill(t)
  <2>1. /\ At(t, "prog", "spill") /\ sema' = sema /\ taskList' = taskList /\ ring' = ring
        /\ suspended' = suspended /\ doneFlag' = doneFlag /\ Goto(t, "take")
    BY <1>2 DEF AddSpill
  <2>2. /\ StacksOK' /\ OthersStay(t) /\ stack'[t] # <<>>
        /\ Tip(stack'[t]).is = "prog" /\ Tip(stack'[t]).pc = "take"
    BY <1>s, <2>1, GotoProg
  <2>3. NotFlagged(stack'[t]) /\ ~ Looping(stack'[t], Marked)
    BY <2>2 DEF Doing, NotFlagged, Looping
  <2>4. PoolTypes'
    BY <1>s, <2>1 DEF PoolTypes
  <2>5. NoDebt(stack[t])
    BY <2>1, ProgNoDebt
  <2>6. QED BY <2>1, <2>2, <2>3, <2>4, <2>5, FreeStep, StayAlike
<1>3. CASE AddGlobal(t)
  <2>1. /\ At(t, "prog", "add") /\ sema' = sema /\ ring' = ring
        /\ suspended' = suspended /\ doneFlag' = doneFlag
        /\ Goto(t, "takeAny") \/ (Goto(t, "overflow") /\ taskList' = taskList)
    BY <1>3 DEF AddGlobal
  <2>2. CASE Goto(t, "takeAny")
    <3>1. /\ StacksOK' /\ OthersStay(t) /\ stack'[t] # <<>>
          /\ Tip(stack'[t]).is = "prog" /\ Tip(stack'[t]).pc = "takeAny"
      BY <1>s, <2>1, <2>2, GotoProg
    <3>2. Kicks(stack'[t]) /\ NotFlagged(stack'[t]) /\ ~ Looping(stack'[t], Marked)
      BY <3>1 DEF Kicks, Doing, NotFlagged, Looping
    <3>3. PoolTypes'
      BY <1>s, <2>1 DEF PoolTypes
    <3>4. NoDebt(stack[t])
      BY <2>1, ProgNoDebt
    <3>5. QED BY <2>1, <3>1, <3>2, <3>3, <3>4, FreeStep, StayAlike
  <2>3. CASE Goto(t, "overflow") /\ taskList' = taskList
    <3>1. StacksOK' /\ OthersStay(t) /\ Calm(stack'[t])
      BY <1>s, <2>1, <2>3, GotoProg, CalmFrames
    <3>2. QED BY <1>c, <2>1, <2>3, <3>1
  <2>4. QED BY <2>1, <2>2, <2>3
<1>4. CASE AddOverflow(t)
  <2>1. /\ At(t, "prog", "overflow") /\ sema' = sema /\ taskList' = taskList /\ ring' = ring
        /\ suspended' = suspended /\ doneFlag' = doneFlag /\ SetTop(t, Added(Top(t)))
    BY <1>4 DEF AddOverflow
  <2>2. StacksOK' /\ OthersStay(t) /\ Calm(stack'[t])
    BY <1>s, <2>1, SetAdded
  <2>3. QED BY <1>c, <2>1, <2>2
<1>5. QED BY <1>1, <1>2, <1>3, <1>4

\* What a thread at the three points that concern other workers owes them.
LEMMA Debts ==
  ASSUME NEW t, stack[t] # <<>>
  PROVE  /\ At(t, "prog", "take") =>
              /\ \A w : Takes(stack[t], w) <=> w = Adding(t).to
              /\ (\A w : ~ Wakes(stack[t], w)) /\ ~ Kicks(stack[t])
         /\ At(t, "prog", "takeAny") => \A w : ~ Takes(stack[t], w) /\ ~ Wakes(stack[t], w)
         /\ At(t, "prog", "post") =>
              /\ \A w : Wakes(stack[t], w) <=> w = Top(t).target
              /\ (\A w : ~ Takes(stack[t], w)) /\ ~ Kicks(stack[t])
         /\ At(t, "wake", "post") =>
              /\ \A w : Wakes(stack[t], w) <=> w = Top(t).thread
              /\ (\A w : ~ Takes(stack[t], w)) /\ ~ Kicks(stack[t])
  BY DEF At, Top, Tip, Adding, Takes, Wakes, Kicks, Doing, Waking

\* A mark is taken: takeSuspendedThread, takeAnySuspendedThread.
LEMMA TakeMark ==
  ASSUME PoolInv, NEW t \in Threads, TakeSuspended(t) \/ TakeAny(t)
  PROVE  PoolInv'
<1> USE DEF queues, values
<1>s. StacksOK /\ PoolTypes
  BY DEF PoolInv
<1>g. \A w \in Workers : sema[w] \in Nat /\ sema[w] >= sema[w]
  BY <1>s, SomeWorker DEF PoolTypes
<1>1. CASE TakeSuspended(t)
  <2> DEFINE v == Adding(t).to
  <2>1. /\ At(t, "prog", "take") /\ sema' = sema /\ taskList' = taskList /\ ring' = ring
        /\ suspended' = suspended \ {v} /\ doneFlag' = doneFlag
        /\ v \in suspended => SetTop(t, [Top(t) EXCEPT !.pc = "post", !.target = v])
        /\ v \notin suspended => SetTop(t, Added(Top(t)))
    BY <1>1 DEF TakeSuspended
  <2>2. stack[t] # <<>>
    BY <2>1 DEF At
  <2>3. /\ \A w : Takes(stack[t], w) <=> w = v
        /\ (\A w : ~ Wakes(stack[t], w)) /\ ~ Kicks(stack[t])
    BY <2>1, <2>2, Debts
  <2> HIDE DEF v
  <2>4. PoolTypes'
    BY <1>s, <2>1 DEF PoolTypes
  <2>5. /\ StacksOK' /\ OthersStay(t) /\ NotFlagged(stack'[t]) /\ ~ Looping(stack'[t], Marked)
        /\ v \in suspended => Wakes(stack'[t], v)
    <3>1. CASE v \in suspended
      BY <1>s, <2>1, <3>1, SetPost
    <3>2. CASE v \notin suspended
      BY <1>s, <2>1, <3>2, SetAdded DEF Calm
    <3>3. QED BY <3>1, <3>2
  <2>6. WakesKept(t)
    BY <1>g, <2>1, <2>3, <2>5, StayAlike DEF WakesKept, NotFlagged
  <2>7. QED BY <2>1, <2>4, <2>5, <2>6, KeptStep
<1>2. CASE TakeAny(t)
  <2>1. /\ At(t, "prog", "takeAny") /\ sema' = sema /\ taskList' = taskList /\ ring' = ring
        /\ doneFlag' = doneFlag
    BY <1>2 DEF TakeAny
  <2>2. stack[t] # <<>>
    BY <2>1 DEF At
  <2>3. \A w : ~ Takes(stack[t], w) /\ ~ Wakes(stack[t], w)
    BY <2>1, <2>2, Debts
  <2>4. CASE suspended = {}
    <3>1. SetTop(t, Added(Top(t))) /\ suspended' = suspended
      BY <1>2, <2>4 DEF TakeAny
    <3>2. StacksOK' /\ OthersStay(t) /\ Calm(stack'[t])
      BY <1>s, <2>1, <3>1, SetAdded
    <3>3. PoolTypes'
      BY <1>s, <2>1, <3>1 DEF PoolTypes
    <3>4. WakesKept(t)
      BY <1>g, <2>1, <2>3, <2>4, <3>1, <3>2, StayAlike DEF WakesKept, Calm, NotFlagged
    <3>5. QED BY <2>1, <3>2, <3>3, <3>4, KeptStep DEF Calm
  <2>5. CASE suspended # {}
    <3> DEFINE v == CHOOSE x \in suspended : \A y \in suspended : x <= y
    <3>1. /\ suspended' = suspended \ {v}
          /\ SetTop(t, [Top(t) EXCEPT !.pc = "post", !.target = v])
      BY <1>2, <2>5 DEF TakeAny
    <3>2. v \in Workers
      <4>1. suspended \in SUBSET Nat /\ suspended \subseteq Workers
        BY <1>s DEF PoolTypes, Workers
      <4>2. \E x \in suspended : \A y \in suspended : x <= y
        BY <2>5, <4>1, Least
      <4>3. QED BY <4>1, <4>2
    <3> HIDE DEF v
    <3>3. /\ StacksOK' /\ OthersStay(t) /\ Wakes(stack'[t], v)
          /\ NotFlagged(stack'[t]) /\ ~ Looping(stack'[t], Marked)
      BY <1>s, <2>1, <3>1, SetPost
    <3>4. PoolTypes'
      BY <1>s, <2>1, <3>1 DEF PoolTypes
    <3>5. WakesKept(t)
      BY <1>g, <2>1, <2>3, <3>1, <3>2, <3>3, StayAlike DEF WakesKept, NotFlagged
    <3>6. QED BY <2>1, <3>3, <3>4, <3>5, KeptStep
  <2>6. QED BY <2>4, <2>5
<1>3. QED BY <1>1, <1>2

\* A semaphore is posted, by addTask or by the closure of an await.
LEMMA PostSema ==
  ASSUME PoolInv, NEW t \in Threads, Post(t) \/ WakePost(t)
  PROVE  PoolInv'
<1> USE DEF queues, values
<1>s. StacksOK /\ PoolTypes
  BY DEF PoolInv
<1>1. PICK v : /\ sema' = [sema EXCEPT ![v] = @ + 1]
               /\ stack[t] # <<>> /\ StacksOK' /\ OthersStay(t) /\ Calm(stack'[t])
               /\ \A w : Wakes(stack[t], w) <=> w = v
               /\ (\A w : ~ Takes(stack[t], w)) /\ ~ Kicks(stack[t])
               /\ taskList' = taskList /\ ring' = ring /\ suspended' = suspended
               /\ doneFlag' = doneFlag
  <2>1. CASE Post(t)
    <3>1. /\ At(t, "prog", "post") /\ sema' = [sema EXCEPT ![Top(t).target] = @ + 1]
          /\ SetTop(t, Added(Top(t))) /\ stack[t] # <<>>
          /\ taskList' = taskList /\ ring' = ring /\ suspended' = suspended
          /\ doneFlag' = doneFlag
      BY <2>1 DEF Post, At
    <3>2. StacksOK' /\ OthersStay(t) /\ Calm(stack'[t])
      BY <1>s, <3>1, SetAdded
    <3>3. QED BY <3>1, <3>2, Debts
  <2>2. CASE WakePost(t)
    <3>1. /\ At(t, "wake", "post") /\ sema' = [sema EXCEPT ![Top(t).thread] = @ + 1]
          /\ Return(t) /\ stack[t] # <<>>
          /\ taskList' = taskList /\ ring' = ring /\ suspended' = suspended
          /\ doneFlag' = doneFlag
      BY <2>2 DEF WakePost, At
    <3>2. StacksOK' /\ OthersStay(t) /\ Calm(stack'[t])
      BY <1>s, <3>1, ReturnCalm
    <3>3. QED BY <3>1, <3>2, Debts
  <2>3. QED BY <2>1, <2>2
<1>2. /\ sema' \in [Threads -> Nat]
      /\ \A w \in Threads : sema'[w] >= sema[w]
      /\ v \in Threads => sema'[v] > 0
  <2>1. sema \in [Threads -> Nat] /\ DOMAIN sema' = Threads
    BY <1>s, <1>1 DEF PoolTypes
  <2>2. \A w \in Threads : sema'[w] = IF w = v THEN sema[w] + 1 ELSE sema[w]
    BY <1>1, <2>1
  <2>3. \A w \in Threads : sema[w] \in Nat
    BY <2>1
  <2>4. \A w \in Threads : sema'[w] \in Nat /\ sema'[w] >= sema[w]
    BY <2>2, <2>3
  <2>5. v \in Threads => sema'[v] > 0
    BY <2>2, <2>3
  <2>6. sema' \in [Threads -> Nat]
    BY <1>1, <2>1, <2>4
  <2>7. QED BY <2>4, <2>5, <2>6
<1>3. PoolTypes'
  BY <1>s, <1>1, <1>2 DEF PoolTypes
<1>4. WakesKept(t)
  BY <1>1, <1>2, SomeWorker, StayAlike DEF WakesKept, Calm, NotFlagged
<1>5. QED BY <1>1, <1>3, <1>4, KeptStep DEF Calm

\* addTask.
LEMMA AddSteps ==
  ASSUME PoolInv, NEW t \in Threads, AddTask(t) PROVE PoolInv'
  BY HandOver, TakeMark, PostSema DEF AddTask

-----------------------------------------------------------------------------
(* The calls of a program *)

\* A step of a program that leaves marks, rings and the shared list alone.
LEMMA ProgStep ==
  ASSUME PoolInv, NEW t \in Threads, NEW l, At(t, "prog", l),
         l \notin {"post", "take", "takeAny"},
         StacksOK', OthersStay(t), NotFlagged(stack'[t]),
         t \in Workers => ~ Looping(stack'[t], Marked),
         sema' \in [Threads -> Nat], \A w \in Workers \ {t} : sema'[w] = sema[w],
         ring' = ring, taskList' = taskList, suspended' = suspended, doneFlag' = doneFlag
  PROVE  PoolInv'
<1>1. PoolTypes'
  BY DEF PoolInv, PoolTypes
<1>2. NoDebt(stack[t])
  BY ProgNoDebt
<1>3. QED BY <1>1, <1>2, FreeStep, StayAlike

\* The frame of a program that has made a call.
LEMMA PastFacts ==
  ASSUME StacksOK, NEW t \in Threads, NEW l, At(t, "prog", l)
  PROVE  /\ stack[t] # <<>> /\ IsFrame(Past(t)) /\ Past(t).is = "prog" /\ Past(t).pc = l
         /\ {"pc", "todo"} \subseteq DOMAIN Past(t)
<1>1. stack[t] # <<>> /\ IsFrame(Top(t)) /\ Top(t).is = "prog" /\ Top(t).pc = l
  BY TopFacts DEF At
<1>2. QED BY <1>1 DEF Past, IsFrame

\* addTask, emplace and andThen are called, await returns at once, a task or a
\* client ends.
LEMMA Calling ==
  ASSUME PoolInv, NEW t \in Threads,
         \/ CallAddTask(t) \/ CallEmplace(t) \/ CallAndThen(t) \/ CallAwait(t)
         \/ ShutdownJoin(t) \/ Finish(t)
  PROVE  PoolInv'
<1> USE DEF queues, values
<1>s. StacksOK /\ PoolTypes /\ sema \in [Threads -> Nat]
  BY DEF PoolInv, PoolTypes
<1>c. ASSUME NEW l \in {"op", "join"}, At(t, "prog", l),
             StacksOK', OthersStay(t), Calm(stack'[t]),
             sema' = sema, ring' = ring, taskList' = taskList, suspended' = suspended,
             doneFlag' = doneFlag
      PROVE  PoolInv'
  <2>1. sema' \in [Threads -> Nat] /\ \A w \in Workers \ {t} : sema'[w] = sema[w]
    BY <1>s, <1>c
  <2>2. QED BY <1>c, <2>1, ProgStep DEF Calm
<1>p. ASSUME At(t, "prog", "op"), NEW f, IsFrame(f), f.is = "prog", f.pc \in {"op", "add"}, SetTop(t, f)
      PROVE  StacksOK' /\ OthersStay(t) /\ Calm(stack'[t])
  <2>1. stack[t] # <<>>
    BY <1>p DEF At
  <2>2. StacksOK' /\ OthersStay(t) /\ stack'[t] # <<>> /\ Tip(stack'[t]) = f
    BY <1>s, <1>p, <2>1, SetProg
  <2>3. QED BY <1>p, <2>2, CalmFrames
<1>1. CASE CallAddTask(t)
  <2> DEFINE q == <<[item |-> TaskItem(Arg(t).task), to |-> Arg(t).to]>>
             f == [Past(t) EXCEPT !.pc = "add", !.todo = q]
  <2>1. /\ At(t, "prog", "op") /\ SetTop(t, f) /\ sema' = sema /\ ring' = ring
        /\ taskList' = taskList /\ suspended' = suspended /\ doneFlag' = doneFlag
    BY <1>1 DEF CallAddTask, Calls
  <2> HIDE DEF q
  <2>2. IsFrame(f) /\ f.is = "prog" /\ f.pc = "add"
    BY <1>s, <2>1, PastFacts DEF IsFrame
  <2> HIDE DEF f
  <2>3. StacksOK' /\ OthersStay(t) /\ Calm(stack'[t])
    BY <1>p, <2>1, <2>2
  <2>4. QED BY <1>c, <2>1, <2>3
<1>2. CASE CallEmplace(t)
  <2> DEFINE v == Arg(t).value
             k == IF waiters[v] = <<>> THEN "op" ELSE "add"
             q == [i \in DOMAIN waiters[v] |-> [item |-> waiters[v][i], to |-> AnyWorker]]
             f == [Past(t) EXCEPT !.pc = k, !.todo = q]
  <2>1. /\ At(t, "prog", "op") /\ sema' = sema /\ ring' = ring
        /\ taskList' = taskList /\ suspended' = suspended /\ doneFlag' = doneFlag
        /\ SetTop(t, f) \/ SetTop(t, Past(t))
    BY <1>2 DEF CallEmplace, Calls
  <2>2. k \in {"op", "add"}
    OBVIOUS
  <2> HIDE DEF q, k
  <2>3. /\ IsFrame(f) /\ f.is = "prog" /\ f.pc \in {"op", "add"}
        /\ IsFrame(Past(t)) /\ Past(t).is = "prog" /\ Past(t).pc = "op"
    BY <1>s, <2>1, <2>2, PastFacts DEF IsFrame
  <2> HIDE DEF f
  <2>4. StacksOK' /\ OthersStay(t) /\ Calm(stack'[t])
    BY <1>p, <2>1, <2>3
  <2>5. QED BY <1>c, <2>1, <2>4
<1>3. CASE CallAndThen(t)
  <2>1. /\ At(t, "prog", "op") /\ sema' = sema /\ ring' = ring
        /\ taskList' = taskList /\ suspended' = suspended /\ doneFlag' = doneFlag
        /\ Run(t, Past(t), TaskItem(Arg(t).task)) \/ SetTop(t, Past(t))
    BY <1>3 DEF CallAndThen, Calls
  <2>2. stack[t] # <<>> /\ IsFrame(Past(t)) /\ Past(t).is = "prog" /\ Past(t).pc = "op"
    BY <1>s, <2>1, PastFacts
  <2>3. Resting(Past(t)) /\ OnThread(t, Past(t))
    BY <2>2 DEF Resting, OnThread
  <2>4. StacksOK' /\ OthersStay(t) /\ Calm(stack'[t])
    BY <1>s, <1>p, <2>1, <2>2, <2>3, RunFacts
  <2>5. QED BY <1>c, <2>1, <2>4
<1>4. CASE CallAwait(t)
  <2>1. /\ At(t, "prog", "op") /\ sema' = sema /\ ring' = ring
        /\ taskList' = taskList /\ suspended' = suspended /\ doneFlag' = doneFlag
        /\ SetTop(t, Past(t)) \/ Goto(t, "register")
    BY <1>4 DEF CallAwait, Calls
  <2>2. IsFrame(Past(t)) /\ Past(t).is = "prog" /\ Past(t).pc = "op"
    BY <1>s, <2>1, PastFacts
  <2>3. ASSUME Goto(t, "register") PROVE StacksOK' /\ OthersStay(t) /\ Calm(stack'[t])
    BY <1>s, <2>1, <2>3, GotoProg, CalmFrames
  <2>4. StacksOK' /\ OthersStay(t) /\ Calm(stack'[t])
    BY <1>p, <2>1, <2>2, <2>3
  <2>5. QED BY <1>c, <2>1, <2>4
<1>5. CASE ShutdownJoin(t)
  <2>1. /\ At(t, "prog", "join") /\ sema' = sema /\ ring' = ring
        /\ taskList' = taskList /\ suspended' = suspended /\ doneFlag' = doneFlag
        /\ Goto(t, "op")
    BY <1>5 DEF ShutdownJoin
  <2>2. StacksOK' /\ OthersStay(t) /\ Calm(stack'[t])
    BY <1>s, <2>1, GotoProg, CalmFrames
  <2>3. QED BY <1>c, <2>1, <2>2
<1>6. CASE Finish(t)
  <2>1. /\ At(t, "prog", "op") /\ sema' = sema /\ ring' = ring
        /\ taskList' = taskList /\ suspended' = suspended /\ doneFlag' = doneFlag
        /\ Return(t) /\ stack[t] # <<>>
    BY <1>6 DEF Finish, At
  <2>2. StacksOK' /\ OthersStay(t) /\ Calm(stack'[t])
    BY <1>s, <2>1, ReturnCalm
  <2>3. QED BY <1>c, <2>1, <2>2
<1>7. QED BY <1>1, <1>2, <1>3, <1>4, <1>5, <1>6

\* await registers its closures and runs items, or sleeps.
LEMMA Awaiting ==
  ASSUME PoolInv, NEW t \in Threads, AwaitRegister(t) PROVE PoolInv'
<1> USE DEF queues, values
<1>s. StacksOK /\ PoolTypes /\ sema \in [Threads -> Nat]
  BY DEF PoolInv, PoolTypes
<1> DEFINE n == Cardinality(Arg(t).values \ ready)
           g == IF t \in Workers THEN LoopFrame("await", n)
                                 ELSE [LoopFrame("foreign", n) EXCEPT !.pc = "sleep"]
           f == [Past(t) EXCEPT !.pc = "op"]
           k == IF n = 0 THEN sema[t] + 1 ELSE sema[t]
<1>1. /\ At(t, "prog", "register") /\ sema' = [sema EXCEPT ![t] = k]
      /\ CallWith(t, f, g) /\ ring' = ring
      /\ taskList' = taskList /\ suspended' = suspended /\ doneFlag' = doneFlag
  BY DEF AwaitRegister
<1>2. stack[t] # <<>> /\ IsFrame(f) /\ OnThread(t, f) /\ Resting(f)
  BY <1>s, <1>1, PastFacts DEF IsFrame, OnThread, Resting
<1>3. k \in Nat
  BY <1>s
<1> HIDE DEF n, k, f
<1>4. /\ IsFrame(g) /\ OnThread(t, g) /\ g.is = "loop"
      /\ t \in Workers => g.pc = "keep"
  <2>1. CASE t \in Workers
    <3>1. g = LoopFrame("await", n)
      BY <2>1
    <3>2. QED BY <2>1, <3>1 DEF LoopFrame, IsFrame, OnThread
  <2>2. CASE t \notin Workers
    <3>1. g = [is |-> "loop", kind |-> "foreign", pc |-> "sleep", left |-> n]
      BY <2>2 DEF LoopFrame
    <3>2. QED BY <2>2, <3>1 DEF IsFrame, OnThread
  <2>3. QED BY <2>1, <2>2
<1> HIDE DEF g
<1>5. StacksOK' /\ OthersStay(t) /\ stack'[t] # <<>> /\ Tip(stack'[t]) = g
  BY <1>s, <1>1, <1>2, <1>4, CallFacts
<1>6. NotFlagged(stack'[t]) /\ (t \in Workers => ~ Looping(stack'[t], Marked))
  BY <1>4, <1>5 DEF NotFlagged, Doing, Looping, Marked
<1>7. sema' \in [Threads -> Nat] /\ \A w \in Workers \ {t} : sema'[w] = sema[w]
  BY <1>s, <1>1, <1>3, SomeWorker
<1>8. QED BY <1>1, <1>5, <1>6, <1>7, ProgStep

\* Counting down numRemaining in some frame of a stack.
LEMMA CountedDown ==
  ASSUME NEW t, NEW s, StackOK(t, s), NEW d, NEW x
  PROVE  LET r == [s EXCEPT ![d] = [s[d] EXCEPT !.left = x]]
         IN  StackOK(t, r) /\ Alike(s, r)
<1> DEFINE n == Len(s)
           f == [s[d] EXCEPT !.left = x]
           S == Range(s) \cup {f}
           r == [s EXCEPT ![d] = f]
<1>1. s \in Seq(S) /\ f \in S
  BY SeqLarger DEF StackOK
<1>2. n \in Nat /\ DOMAIN s = 1..n /\ (s # <<>> => n \in 1..n)
  BY <1>1, LenProperties, EmptySeq
<1>3. CASE d \notin 1..n
  <2>1. r = s
    BY <1>1, <1>2, <1>3
  <2>2. Alike(s, s)
    BY DEF Alike
  <2>3. QED BY <2>1, <2>2
<1>4. CASE d \in 1..n
  <2>1. /\ r \in Seq(S) /\ Len(r) = n
        /\ \A j \in 1..n : r[j] = IF j = d THEN f ELSE s[j]
    BY <1>1, <1>4, ExceptSeq
  <2>2. IsFrame(s[d]) /\ OnThread(t, s[d])
    BY <1>4 DEF StackOK
  <2>3. /\ IsFrame(f) /\ OnThread(t, f) /\ (Resting(s[d]) => Resting(f))
        /\ f.is = s[d].is /\ f.pc = s[d].pc
        /\ s[d].is = "prog" => f.todo = s[d].todo /\ f.target = s[d].target
        /\ s[d].is = "wake" => f.thread = s[d].thread
    <3>1. \A k \in DOMAIN s[d] : k # "left" => f[k] = s[d][k]
      OBVIOUS
    <3>2. DOMAIN f = DOMAIN s[d]
      OBVIOUS
    <3>3. f.is = s[d].is /\ f.pc = s[d].pc
      BY <2>2, <3>1 DEF IsFrame
    <3>4. s[d].is = "loop" => f.kind = s[d].kind
      BY <2>2, <3>1 DEF IsFrame
    <3>5. s[d].is = "prog" => f.todo = s[d].todo /\ f.target = s[d].target
      BY <2>2, <3>1 DEF IsFrame
    <3>6. s[d].is = "wake" => f.thread = s[d].thread
      BY <2>2, <3>1 DEF IsFrame
    <3> HIDE DEF f
    <3>7. IsFrame(f)
      BY <2>2, <3>2, <3>3 DEF IsFrame
    <3>8. OnThread(t, f)
      BY <2>2, <3>3, <3>4 DEF OnThread
    <3>9. Resting(s[d]) => Resting(f)
      BY <3>3 DEF Resting
    <3>10. QED BY <3>3, <3>5, <3>6, <3>7, <3>8, <3>9
  <2> HIDE DEF f, r, S
  <2>4. r \in Seq(Range(r))
    BY <2>1, SeqOfRange
  <2>5. \A i \in 1..n : IsFrame(r[i]) /\ OnThread(t, r[i])
    BY <2>1, <2>3 DEF StackOK
  <2>6. \A i \in 1..(n - 1) : Resting(r[i])
    <3>1. \A i \in 1..(n - 1) : i \in 1..n /\ Resting(s[i])
      BY <1>2 DEF StackOK
    <3>2. QED BY <2>1, <2>3, <3>1
  <2>7. StackOK(t, r)
    BY <2>1, <2>4, <2>5, <2>6 DEF StackOK
  <2>8. s # <<>> <=> r # <<>>
    BY <1>1, <1>2, <2>1, EmptySeq
  <2>9. Alike(s, r)
    BY <1>2, <2>1, <2>3, <2>8 DEF Alike, Tip
  <2>10. QED BY <2>7, <2>9 DEF r, f
<1>5. QED BY <1>3, <1>4

\* The closure of an await counts down, and at zero is about to post.
LEMMA Counting ==
  ASSUME PoolInv, NEW t \in Threads, WakeDecrement(t) PROVE PoolInv'
<1> USE DEF queues, values
<1>s. StacksOK /\ PoolTypes
  BY DEF PoolInv
<1> DEFINE u == Top(t).thread
           d == Top(t).depth
           s == [stack EXCEPT ![u][d].left = @ - 1]
<1>1. /\ At(t, "wake", "decrement") /\ sema' = sema /\ ring' = ring
      /\ taskList' = taskList /\ suspended' = suspended /\ doneFlag' = doneFlag
      /\ \/ stack' = [s EXCEPT ![t][Len(s[t])].pc = "post"]
         \/ stack' = [s EXCEPT ![t] = Front(@)]
  BY DEF WakeDecrement
<1>2. DOMAIN s = Threads /\ \A x \in Threads : StackOK(x, s[x]) /\ Alike(stack[x], s[x])
  <2> DEFINE q == [stack[u] EXCEPT ![d] = [stack[u][d] EXCEPT !.left = @ - 1]]
  <2>1. s = [stack EXCEPT ![u] = q]
    OBVIOUS
  <2>2. \A x \in Threads : StackOK(x, stack[x]) /\ Alike(stack[x], stack[x])
    BY <1>s DEF StacksOK, Alike
  <2>3. u \in Threads => StackOK(u, q) /\ Alike(stack[u], q)
    BY <2>2, CountedDown
  <2> HIDE DEF q, u, d
  <2>4. DOMAIN s = Threads /\ \A x \in Threads : s[x] = IF x = u THEN q ELSE stack[x]
    BY <1>s, <2>1 DEF StacksOK
  <2> HIDE DEF s
  <2>5. QED BY <2>2, <2>3, <2>4
<1>3. stack[t] # <<>> /\ Tip(stack[t]).is = "wake" /\ Tip(stack[t]).pc = "decrement"
  BY <1>1 DEF At, Top, Tip
<1> HIDE DEF s
<1>4. s[t] # <<>> /\ StackOK(t, s[t]) /\ Tip(s[t]).is = "wake"
  BY <1>2, <1>3 DEF Alike
<1>5. NoDebt(stack[t])
  BY <1>3 DEF NoDebt, Waking, Doing
<1>6. PoolTypes'
  BY <1>s, <1>1 DEF PoolTypes
<1>7. ASSUME NEW r, stack' = [s EXCEPT ![t] = r], StackOK(t, r)
      PROVE  StacksOK' /\ stack'[t] = r /\ \A x \in Threads \ {t} : Alike(stack[x], stack'[x])
  <2>1. DOMAIN stack' = Threads /\ stack'[t] = r /\ \A x \in Threads \ {t} : stack'[x] = s[x]
    BY <1>2, <1>7
  <2>2. QED BY <1>2, <1>7, <2>1 DEF StacksOK
<1>8. CASE stack' = [s EXCEPT ![t][Len(s[t])].pc = "post"]
  <2> DEFINE f == [Tip(s[t]) EXCEPT !.pc = "post"]
             r == [s[t] EXCEPT ![Len(s[t])] = f]
  <2>1. stack' = [s EXCEPT ![t] = r]
    BY <1>8 DEF Tip
  <2>2. IsFrame(Tip(s[t]))
    <3>1. s[t] \in Seq(Range(s[t]))
      BY <1>4 DEF StackOK
    <3>2. Len(s[t]) \in 1..Len(s[t])
      BY <1>4, <3>1, EmptySeq
    <3>3. QED BY <1>4, <3>2 DEF StackOK, Tip
  <2>3. IsFrame(f) /\ OnThread(t, f) /\ f.is = "wake" /\ f.pc = "post"
    BY <1>4, <2>2 DEF IsFrame, OnThread
  <2> HIDE DEF f
  <2>4. StackOK(t, r) /\ r # <<>> /\ Tip(r) = f
    BY <1>4, <2>3, Replaced
  <2> HIDE DEF r
  <2>5. StacksOK' /\ stack'[t] = r /\ \A x \in Threads \ {t} : Alike(stack[x], stack'[x])
    BY <1>7, <2>1, <2>4
  <2>6. NotFlagged(stack'[t]) /\ ~ Looping(stack'[t], Marked)
    BY <2>3, <2>4, <2>5 DEF NotFlagged, Doing, Looping
  <2>7. QED BY <1>1, <1>5, <1>6, <2>5, <2>6, FreeStep
<1>9. CASE stack' = [s EXCEPT ![t] = Front(@)]
  <2> DEFINE r == Front(s[t])
  <2>1. stack' = [s EXCEPT ![t] = r]
    BY <1>9
  <2>2. StackOK(t, r) /\ (r # <<>> => Resting(Tip(r)))
    BY <1>4, Popped
  <2> HIDE DEF r
  <2>3. StacksOK' /\ stack'[t] = r /\ \A x \in Threads \ {t} : Alike(stack[x], stack'[x])
    BY <1>7, <2>1, <2>2
  <2>4. Calm(stack'[t])
    BY <2>2, <2>3, RestingIsCalm
  <2>5. QED BY <1>1, <1>5, <1>6, <2>3, <2>4, FreeStep DEF Calm
<1>10. QED BY <1>1, <1>8, <1>9

\* Shutdown: before doneFlag the main thread runs items like a worker; after it
\* nothing is promised any more.
LEMMA ShuttingDown ==
  ASSUME PoolInv, NEW t \in Threads,
         CallShutdown(t) \/ ShutdownFlag(t) \/ ShutdownPost(t) \/ ShutdownClear(t)
  PROVE  PoolInv'
<1> USE DEF queues, values
<1>s. StacksOK /\ PoolTypes /\ sema \in [Threads -> Nat]
  BY DEF PoolInv, PoolTypes
<1>1. CASE CallShutdown(t)
  <2> DEFINE f == [Past(t) EXCEPT !.pc = "done"]
             g == LoopFrame("shutdown", 0)
  <2>1. /\ At(t, "prog", "op") /\ sema' = sema /\ ring' = ring
        /\ taskList' = taskList /\ suspended' = suspended /\ doneFlag' = doneFlag
        /\ \A x \in Foreign : stack[x] = <<>>
        /\ IF MainWillDonate THEN CallWith(t, f, g) ELSE SetTop(t, f)
    BY <1>1 DEF CallShutdown, Calls
  <2>2. stack[t] # <<>> /\ IsFrame(f) /\ f.is = "prog" /\ f.pc = "done"
    BY <1>s, <2>1, PastFacts DEF IsFrame
  <2> HIDE DEF f
  <2>3. OnThread(t, f) /\ Resting(f)
    BY <2>2 DEF OnThread, Resting
  <2>4. MainWillDonate => t \in Workers
    BY <2>1, <2>2, SomeWorker DEF Threads, Clients, Main
  <2>5. g.is = "loop" /\ g.pc = "keep" /\ IsFrame(g) /\ (MainWillDonate => OnThread(t, g))
    BY <2>4 DEF LoopFrame, IsFrame, OnThread
  <2> HIDE DEF g
  <2>6. StacksOK' /\ OthersStay(t) /\ Calm(stack'[t])
    <3>1. CASE MainWillDonate
      <4>1. StacksOK' /\ OthersStay(t) /\ stack'[t] # <<>> /\ Tip(stack'[t]) = g
        BY <1>s, <2>1, <2>2, <2>3, <2>5, <3>1, CallFacts
      <4>2. "keep" \notin Marked
        BY DEF Marked
      <4>3. QED BY <2>5, <4>1, <4>2, CalmFrames
    <3>2. CASE ~ MainWillDonate
      <4>1. StacksOK' /\ OthersStay(t) /\ stack'[t] # <<>> /\ Tip(stack'[t]) = f
        BY <1>s, <2>1, <2>2, <3>2, SetProg
      <4>2. QED BY <2>2, <4>1, CalmFrames
    <3>3. QED BY <3>1, <3>2
  <2>7. sema' \in [Threads -> Nat] /\ \A w \in Workers \ {t} : sema'[w] = sema[w]
    BY <1>s, <2>1
  <2>8. QED BY <2>1, <2>6, <2>7, ProgStep DEF Calm
<1>2. CASE ShutdownFlag(t)
  <2>1. /\ At(t, "prog", "done") /\ Goto(t, "postAll") /\ doneFlag' = TRUE
        /\ sema' = sema /\ ring' = ring /\ suspended' = suspended
    BY <1>2 DEF ShutdownFlag
  <2>2. StacksOK'
    BY <1>s, <2>1, GotoProg
  <2>3. PoolTypes'
    BY <1>s, <2>1 DEF PoolTypes
  <2>4. QED BY <2>1, <2>2, <2>3 DEF PoolInv
<1>3. CASE ShutdownPost(t)
  <2>1. /\ At(t, "prog", "postAll") /\ Goto(t, "clear") /\ doneFlag' = doneFlag
        /\ sema' = [x \in Threads |-> IF x \in Workers THEN sema[x] + 1 ELSE sema[x]]
        /\ ring' = ring /\ suspended' = suspended
    BY <1>3 DEF ShutdownPost
  <2>2. doneFlag
    BY <2>1 DEF PoolInv, WakeInv, FlagFirst, Doing, At, Top, Tip
  <2>3. StacksOK'
    BY <1>s, <2>1, GotoProg
  <2>4. sema' \in [Threads -> Nat]
    <3>1. \A x \in Threads : (IF x \in Workers THEN sema[x] + 1 ELSE sema[x]) \in Nat
      BY <1>s
    <3>2. QED BY <2>1, <3>1
  <2>5. PoolTypes'
    BY <1>s, <2>1, <2>4 DEF PoolTypes
  <2>6. QED BY <2>1, <2>2, <2>3, <2>5 DEF PoolInv
<1>4. CASE ShutdownClear(t)
  <2>1. /\ At(t, "prog", "clear") /\ Goto(t, "join") /\ doneFlag' = doneFlag
        /\ sema' = sema /\ ring' = ring /\ suspended' = {}
    BY <1>4 DEF ShutdownClear
  <2>2. doneFlag
    BY <2>1 DEF PoolInv, WakeInv, FlagFirst, Doing, At, Top, Tip
  <2>3. StacksOK'
    BY <1>s, <2>1, GotoProg
  <2>4. PoolTypes'
    BY <1>s, <2>1 DEF PoolTypes
  <2>5. QED BY <2>1, <2>2, <2>3, <2>4 DEF PoolInv
<1>5. QED BY <1>1, <1>2, <1>3, <1>4

-----------------------------------------------------------------------------
(* The theorems *)

\* The invariant holds when the pool is created.
LEMMA PoolStarts == Init => PoolInv
<1>1. SUFFICES ASSUME Init PROVE PoolInv
  OBVIOUS
<1> DEFINE f(t) == IF t \in Clients THEN ProgFrame(t) ELSE LoopFrame("worker", 0)
<1>2. stack = [t \in Threads |-> <<f(t)>>]
  BY <1>1 DEF Init
<1>3. ASSUME NEW t \in Threads
      PROVE  /\ IsFrame(f(t)) /\ OnThread(t, f(t))
             /\ \/ f(t).is = "loop" /\ f(t).pc = "keep"
                \/ f(t).is = "prog" /\ f(t).pc = "op"
  <2>1. CASE t \in Clients
    <3>1. f(t) = ProgFrame(t)
      BY <2>1
    <3>2. QED BY <3>1 DEF ProgFrame, IsFrame, OnThread
  <2>2. CASE t \notin Clients
    <3>1. f(t) = LoopFrame("worker", 0) /\ t \in Workers
      BY <2>2 DEF Threads
    <3>2. QED BY <3>1 DEF LoopFrame, IsFrame, OnThread
  <2>3. QED BY <2>1, <2>2
<1>4. \A t \in Threads : stack[t] = <<f(t)>>
  BY <1>2
<1>5. ASSUME NEW t \in Threads
      PROVE  StackOK(t, stack[t]) /\ stack[t] # <<>> /\ Tip(stack[t]) = f(t)
  <2> DEFINE g == f(t)
             s == <<g>>
  <2>1. IsFrame(g) /\ OnThread(t, g) /\ stack[t] = s
    BY <1>3, <1>4
  <2> HIDE DEF g
  <2>2. s \in Seq({g}) /\ Len(s) = 1 /\ s[1] = g /\ s # <<>>
    OBVIOUS
  <2>3. s \in Seq(Range(s))
    BY <2>2, SeqOfRange
  <2> HIDE DEF s
  <2>4. \A i \in 1..Len(s) : s[i] = g
    BY <2>2
  <2>5. 1..(Len(s) - 1) = {}
    BY <2>2
  <2>6. StackOK(t, s)
    BY <2>1, <2>3, <2>4, <2>5 DEF StackOK
  <2>7. QED BY <2>1, <2>2, <2>6 DEF Tip, g
<1> HIDE DEF f
<1>6. StacksOK
  BY <1>2, <1>5 DEF StacksOK
<1>7. PoolTypes
  BY <1>1 DEF Init, PoolTypes
<1>8. \A t \in Threads : Calm(stack[t])
  <2>1. "keep" \notin Marked
    BY DEF Marked
  <2>2. QED BY <1>3, <1>5, <2>1, CalmFrames
<1>9. FlagFirst /\ MarkInv
  BY <1>8, SomeWorker DEF FlagFirst, MarkInv, Calm, NotFlagged
<1>10. RingInv /\ ListInv
  BY <1>1, SomeWorker DEF Init, RingInv, ListInv
<1>11. QED BY <1>6, <1>7, <1>9, <1>10 DEF PoolInv, WakeInv

\* No step of any thread breaks it.
LEMMA PoolStep == PoolInv /\ [Next]_vars => PoolInv'
<1>1. SUFFICES ASSUME PoolInv, [Next]_vars PROVE PoolInv'
  OBVIOUS
<1>2. ASSUME UNCHANGED vars PROVE PoolInv'
  BY <1>1, <1>2 DEF vars, queues, PoolInv, StacksOK, PoolTypes, WakeInv, FlagFirst, MarkInv,
                    RingInv, ListInv, Woken
<1>3. ASSUME NEW t \in Threads, Step(t) PROVE PoolInv'
  <2>1. CASE RunItems(t)
    BY <1>1, <2>1, LoopSteps
  <2>2. CASE AddTask(t)
    BY <1>1, <2>2, AddSteps
  <2>3. CASE Execute(t)
    BY <1>1, <2>3, Calling, Awaiting, Counting, PostSema, ShuttingDown DEF Execute
  <2>4. QED BY <1>3, <2>1, <2>2, <2>3 DEF Step
<1>4. QED BY <1>1, <1>2, <1>3 DEF Next, Terminated

\* Until shutdown sets doneFlag, a worker that has marked itself suspended
\* keeps the mark or will be woken by whoever took it, and work that is added
\* after a worker's last poll comes with a wake-up (runItemsImpl lines 745-805
\* against addTask lines 1080-1121), in every reachable state.
THEOREM PoolInvariant == Spec => []PoolInv
<1>1. Init => PoolInv
  BY PoolStarts
<1>2. PoolInv /\ [Next]_vars => PoolInv'
  BY PoolStep
<1>3. QED BY <1>1, <1>2, PTL DEF Spec

\* Until shutdown sets doneFlag, no worker sleeps on a task in its ring that
\* nobody is about to wake it for: the reasoning of lines 763-775 on the two
\* orders of markSuspended and takeSuspended holds for any number of workers
\* and clients, any ring size and any programs, nested awaits included.
THEOREM RingWakeNotLost == Spec => [](doneFlag \/ NoSleepOnRing)
<1>1. PoolInv => doneFlag \/ NoSleepOnRing
  <2>1. SUFFICES ASSUME PoolInv, ~ doneFlag, NEW w \in Workers, Asleep(w), ring[w] # <<>>
                 PROVE  BeingWoken(w)
    BY DEF NoSleepOnRing
  <2>2. Looping(stack[w], Polled) /\ ~ (sema[w] > 0)
    BY <2>1, SomeWorker DEF Asleep, At, Top, Tip, Looping, Polled, PoolInv, PoolTypes
  <2>3. \E t \in Threads : Wakes(stack[t], w) \/ Takes(stack[t], w)
    BY <2>1, <2>2 DEF PoolInv, WakeInv, RingInv, Woken
  <2>4. QED BY <2>3 DEF BeingWoken, Wakes, Takes, Doing, Waking, At, Top, Tip, Adding
<1>2. QED BY <1>1, PoolInvariant, PTL

\* Until shutdown sets doneFlag, and unless the main thread acts as a worker,
\* addTask keeps its promise "to make sure there's at least one worker still
\* awake to pick up work" (line 1118): while there is a task in the shared
\* list, not every worker sleeps, or one of them is about to be woken.
THEOREM PoolStaysAwake ==
  ASSUME ~ MainWillDonate PROVE Spec => [](doneFlag \/ SomeWorkerAwake)
<1>1. PoolInv => doneFlag \/ SomeWorkerAwake
  <2>1. SUFFICES ASSUME PoolInv, ~ doneFlag, taskList # {}, \A w \in PoolThreads : Asleep(w)
                 PROVE  \E t \in Threads :
                          \/ At(t, "prog", "takeAny")
                          \/ \E w \in PoolThreads : BeingWoken(w)
    BY DEF SomeWorkerAwake
  <2>2. Workers \subseteq PoolThreads
    BY ConfigAssumption DEF PoolThreads, Workers, Clients, Main
  <2>3. \A w \in Workers : Looping(stack[w], Committed) /\ ~ (sema[w] > 0) /\ w \in PoolThreads
    BY <2>1, <2>2, SomeWorker DEF Asleep, At, Top, Tip, Looping, Committed, PoolInv, PoolTypes
  <2>4. \/ \E t \in Threads : Kicks(stack[t])
        \/ \E w \in Workers, t \in Threads : Wakes(stack[t], w)
    BY <2>1, <2>3 DEF PoolInv, WakeInv, ListInv, Woken
  <2>5. ASSUME NEW w \in Workers, NEW t \in Threads, Wakes(stack[t], w) PROVE BeingWoken(w)
    BY <2>5 DEF BeingWoken, Wakes, Doing, Waking, At, Top, Tip
  <2>6. ASSUME NEW t \in Threads, Kicks(stack[t]) PROVE At(t, "prog", "takeAny")
    BY <2>6 DEF Kicks, Doing, At, Top, Tip
  <2>7. QED BY <2>3, <2>4, <2>5, <2>6
<1>2. QED BY <1>1, PoolInvariant, PTL

-----------------------------------------------------------------------------
(* Types *)

Items == [task : Tasks] \cup [thread : Threads, depth : Nat, value : Values]
Handovers == [item : Items, to : Workers \cup {AnyWorker}]

\* The points of a program at which an item is still in hand, at which it has
\* been put into a list, and those of shutdown.
Giving == {"add", "spill", "overflow"}
Given == {"take", "takeAny", "post"}
Closing == {"done", "postAll", "clear", "join"}
LoopPoints == {"keep", "local", "affinity", "global", "spinAffinity", "spinGlobal", "spinStop",
               "pumpSpill", "pumpOverflow", "mark", "preAffinity", "preGlobal", "preStop",
               "sleep"}

ProgFrames == [is : {"prog"}, id : Tasks \cup Clients, ip : Nat \ {0},
               pc : {"op", "register"} \cup Giving \cup Given \cup Closing,
               todo : Seq(Handovers), target : Int]
LoopFrames == [is : {"loop"}, kind : {"worker", "await", "foreign", "shutdown"},
               pc : LoopPoints, left : Int]
WakeFrames == [is : {"wake"}, pc : {"decrement", "post"}, thread : Threads, depth : Nat,
               value : Values]

\* The frame of a program: a client's is the first of its thread, and only the
\* main thread's shuts the pool down, as its last call.
ProgOK(p, t, d, f) ==
  /\ f \in ProgFrames
  /\ IF d = 1 THEN f.id = t /\ t \in Clients ELSE f.id \in Tasks
  /\ f.pc \in Giving \cup Given => f.todo # <<>>
  /\ f.pc \in {"spill", "take"} => Head(f.todo).to \in Workers
  /\ f.pc = "post" => f.target \in Workers
  /\ f.pc = "register" => f.ip \in DOMAIN p[f.id] /\ p[f.id][f.ip].op = "await"
  /\ f.pc \in Closing => d = 1 /\ t = Main /\ f.ip > Len(p[Main])

\* The frame of runItemsImpl: a worker's first one ends with doneFlag.
LoopOK(t, d, f) ==
  /\ f \in LoopFrames
  /\ d = 1 <=> f.kind = "worker"
  /\ d = 1 => t \notin Clients
  /\ f.kind = "shutdown" => d = 2 /\ t = Main

FrameOK(p, t, d, f) == ProgOK(p, t, d, f) \/ LoopOK(t, d, f) \/ (f \in WakeFrames /\ d # 1)

FramesOK == \A t \in Threads : \A d \in 1..Len(stack[t]) : FrameOK(prog, t, d, stack[t][d])

QueuesOK ==
  /\ local \in [Workers -> Seq(Items)]
  /\ ring \in [Workers -> Seq(Items)]
  /\ spill \in [Workers -> Seq(Items)]
  /\ waiters \in [Values -> Seq(Items)]
  /\ taskList \subseteq Items /\ overflow \in Seq(Items)

HistoryOK ==
  /\ prog \in Programs /\ doneFlag \in BOOLEAN /\ joined \in BOOLEAN
  /\ ready \subseteq Values /\ added \subseteq Tasks /\ ran \in [Tasks -> Nat]

TypeInv == FramesOK /\ QueuesOK /\ HistoryOK

-----------------------------------------------------------------------------
(* What a step does to its thread's stack *)

\* From s to r: the innermost frame becomes f; it becomes f and calls g; it
\* returns.
Changed(s, r, f) == Len(r) = Len(s) /\ r[Len(s)] = f /\ \A i \in 1..(Len(s) - 1) : r[i] = s[i]
Entered(s, r, f, g) == /\ Len(r) = Len(s) + 1 /\ r[Len(s) + 1] = g /\ r[Len(s)] = f
                       /\ \A i \in 1..(Len(s) - 1) : r[i] = s[i]
Left(s, r) == Len(r) = Len(s) - 1 /\ \A i \in 1..(Len(s) - 1) : r[i] = s[i]

\* The stack of a thread is a sequence.
LEMMA StackLen ==
  ASSUME StacksOK, NEW t \in Threads
  PROVE  /\ stack[t] \in Seq(Range(stack[t])) /\ Len(stack[t]) \in Nat
         /\ DOMAIN stack[t] = 1..Len(stack[t])
         /\ stack[t] # <<>> <=> Len(stack[t]) > 0
<1>1. stack[t] \in Seq(Range(stack[t]))
  BY DEF StacksOK, StackOK
<1>2. QED BY <1>1, EmptySeq, LenProperties

\* SetTop replaces the innermost frame of one stack.
LEMMA SetShape ==
  ASSUME StacksOK, NEW t \in Threads, stack[t] # <<>>, NEW f, SetTop(t, f)
  PROVE  OthersStay(t) /\ DOMAIN stack' = Threads /\ Changed(stack[t], stack'[t], f)
<1> DEFINE s == stack[t]
           n == Len(s)
           S == Range(s) \cup {f}
           r == [s EXCEPT ![n] = f]
<1>1. s \in Seq(S) /\ f \in S /\ n \in 1..n
  BY StackLen, SeqLarger
<1>2. Len(r) = n /\ \A j \in 1..n : r[j] = IF j = n THEN f ELSE s[j]
  BY <1>1, ExceptSeq
<1>3. stack' = [stack EXCEPT ![t] = r]
  BY DEF SetTop
<1>n. n \in Nat
  BY StackLen
<1> HIDE DEF r, n
<1>4. \A j \in 1..(n - 1) : j \in 1..n /\ j # n
  BY <1>n
<1>5. DOMAIN stack' = Threads /\ stack'[t] = r /\ OthersStay(t)
  BY <1>3 DEF StacksOK, OthersStay
<1>6. QED BY <1>1, <1>2, <1>4, <1>5 DEF Changed, n

\* CallWith changes the innermost frame of one stack and puts another on top.
LEMMA CallShape ==
  ASSUME StacksOK, NEW t \in Threads, stack[t] # <<>>, NEW f, NEW g, CallWith(t, f, g)
  PROVE  OthersStay(t) /\ DOMAIN stack' = Threads /\ Entered(stack[t], stack'[t], f, g)
<1> DEFINE s == stack[t]
           n == Len(s)
           S == Range(s) \cup {f, g}
           r == [s EXCEPT ![n] = f]
           q == Append(r, g)
<1>1. s \in Seq(S) /\ f \in S /\ g \in S /\ n \in 1..n /\ n \in Nat
  BY StackLen, SeqLarger
<1>2. r \in Seq(S) /\ Len(r) = n /\ \A j \in 1..n : r[j] = IF j = n THEN f ELSE s[j]
  BY <1>1, ExceptSeq
<1>3. stack' = [stack EXCEPT ![t] = q]
  BY DEF CallWith
<1> HIDE DEF r, n
<1>4. Len(q) = n + 1 /\ q[n + 1] = g /\ \A j \in 1..n : q[j] = r[j]
  BY <1>1, <1>2, AppendProperties
<1> HIDE DEF q
<1>5. \A j \in 1..(n - 1) : j \in 1..n /\ j # n
  BY <1>1
<1>6. DOMAIN stack' = Threads /\ stack'[t] = q /\ OthersStay(t)
  BY <1>3 DEF StacksOK, OthersStay
<1>7. QED BY <1>1, <1>2, <1>4, <1>5, <1>6 DEF Entered, n

\* Return removes the innermost frame of one stack.
LEMMA ReturnShape ==
  ASSUME StacksOK, NEW t \in Threads, stack[t] # <<>>, Return(t)
  PROVE  OthersStay(t) /\ DOMAIN stack' = Threads /\ Left(stack[t], stack'[t])
<1> DEFINE s == stack[t]
           n == Len(s)
           S == Range(s)
           r == Front(s)
<1>1. s \in Seq(S) /\ n \in 1..n /\ n \in Nat /\ \A i \in 1..n : s[i] \in S
  BY StackLen
<1>2. Len(r) = n - 1 /\ \A i \in 1..(n - 1) : r[i] = s[i]
  <2>1. \A i \in 1..(n - 1) : s[i] \in S
    BY <1>1
  <2>2. /\ Len(r) = IF 1 <= n - 1 THEN (n - 1) - 1 + 1 ELSE 0
        /\ \A i \in 1..((n - 1) - 1 + 1) : r[i] = s[1 + i - 1]
    BY <1>1, <2>1, SubSeqProperties DEF Front
  <2> HIDE DEF r, n
  <2>3. QED BY <1>1, <2>2
<1>3. stack' = [stack EXCEPT ![t] = r]
  BY DEF Return
<1> HIDE DEF r, n
<1>4. DOMAIN stack' = Threads /\ stack'[t] = r /\ OthersStay(t)
  BY <1>3 DEF StacksOK, OthersStay
<1>5. QED BY <1>2, <1>4 DEF Left, n

\* The frames stay in order if the new ones are.
LEMMA FramesSet ==
  ASSUME StacksOK, FramesOK, NEW t \in Threads, stack[t] # <<>>, NEW f, SetTop(t, f),
         FrameOK(prog, t, Len(stack[t]), f), prog' = prog
  PROVE  FramesOK'
<1>1. OthersStay(t) /\ DOMAIN stack' = Threads /\ Changed(stack[t], stack'[t], f)
  BY SetShape
<1>2. Len(stack[t]) \in Nat
  BY StackLen
<1>3. \A d \in 1..Len(stack[t]) : d \in 1..(Len(stack[t]) - 1) \/ d = Len(stack[t])
  BY <1>2
<1>4. QED BY <1>1, <1>3 DEF FramesOK, Changed, OthersStay

\* Frames keep their type when one of them calls another.
LEMMA FramesCall ==
  ASSUME StacksOK, FramesOK, NEW t \in Threads, stack[t] # <<>>, NEW f, NEW g, CallWith(t, f, g),
         FrameOK(prog, t, Len(stack[t]), f), FrameOK(prog, t, Len(stack[t]) + 1, g), prog' = prog
  PROVE  FramesOK'
<1>1. OthersStay(t) /\ DOMAIN stack' = Threads /\ Entered(stack[t], stack'[t], f, g)
  BY CallShape
<1>2. Len(stack[t]) \in Nat
  BY StackLen
<1>3. /\ \A d \in 1..(Len(stack[t]) + 1) : d \in 1..(Len(stack[t]) - 1) \/ d = Len(stack[t])
                                           \/ d = Len(stack[t]) + 1
      /\ \A d \in 1..(Len(stack[t]) - 1) : d \in 1..Len(stack[t])
  BY <1>2
<1>4. \A u \in Threads \ {t} : stack'[u] = stack[u]
  BY <1>1 DEF OthersStay
<1>5. ASSUME NEW d \in 1..Len(stack'[t]) PROVE FrameOK(prog', t, d, stack'[t][d])
  BY <1>1, <1>3 DEF FramesOK, Entered
<1>6. QED BY <1>4, <1>5 DEF FramesOK

\* Frames keep their type when the innermost one returns.
LEMMA FramesReturn ==
  ASSUME StacksOK, FramesOK, NEW t \in Threads, stack[t] # <<>>, Return(t), prog' = prog
  PROVE  FramesOK'
<1>1. OthersStay(t) /\ DOMAIN stack' = Threads /\ Left(stack[t], stack'[t])
  BY ReturnShape
<1>2. Len(stack[t]) \in Nat
  BY StackLen
<1>3. \A d \in 1..(Len(stack[t]) - 1) : d \in 1..Len(stack[t])
  BY <1>2
<1>4. QED BY <1>1, <1>3 DEF FramesOK, Left, OthersStay

\* The innermost frame, by what it is.
LEMMA TipKinds ==
  ASSUME StacksOK, FramesOK, NEW t \in Threads, NEW k, NEW l, At(t, k, l)
  PROVE  /\ stack[t] # <<>> /\ Len(stack[t]) \in Nat /\ Len(stack[t]) > 0
         /\ Top(t) = stack[t][Len(stack[t])] /\ Top(t).is = k /\ Top(t).pc = l
         /\ k = "prog" => ProgOK(prog, t, Len(stack[t]), Top(t))
         /\ k = "loop" => LoopOK(t, Len(stack[t]), Top(t))
         /\ k = "wake" => Top(t) \in WakeFrames /\ Len(stack[t]) # 1
<1>1. /\ stack[t] # <<>> /\ Len(stack[t]) \in Nat /\ Len(stack[t]) > 0
      /\ Top(t) = stack[t][Len(stack[t])] /\ Top(t).is = k /\ Top(t).pc = l
  BY StackLen DEF At, Top
<1>2. FrameOK(prog, t, Len(stack[t]), Top(t))
  BY <1>1 DEF FramesOK
<1>3. QED BY <1>1, <1>2 DEF FrameOK, ProgOK, LoopOK, ProgFrames, LoopFrames, WakeFrames

\* A work item is a task or a closure.
LEMMA ItemKinds ==
  ASSUME NEW it \in Items
  PROVE  /\ IsTask(it) => it.task \in Tasks /\ it = TaskItem(it.task)
         /\ ~ IsTask(it) => /\ it.thread \in Threads /\ it.depth \in Nat /\ it.value \in Values
                            /\ it = WakeItem(it.thread, it.depth, it.value)
  BY DEF Items, IsTask, TaskItem, WakeItem

\* TaskItem and WakeItem make work items and keep what they were given.
LEMMA ItemMakers ==
  /\ \A a \in Tasks : TaskItem(a) \in Items /\ IsTask(TaskItem(a)) /\ TaskItem(a).task = a
  /\ \A t \in Threads, d \in Nat, v \in Values :
       /\ WakeItem(t, d, v) \in Items /\ ~ IsTask(WakeItem(t, d, v))
       /\ WakeItem(t, d, v).thread = t /\ WakeItem(t, d, v).depth = d
       /\ WakeItem(t, d, v).value = v
  BY DEF Items, IsTask, TaskItem, WakeItem

\* doWork pushes a frame that may be there.
LEMMA RunFrame ==
  ASSUME NEW p, NEW t, NEW d \in Nat, d # 1, NEW it \in Items
  PROVE  FrameOK(p, t, d, FrameOf(it))
<1>1. CASE IsTask(it)
  <2>1. FrameOf(it) = ProgFrame(it.task) /\ it.task \in Tasks
    BY <1>1, ItemKinds DEF FrameOf
  <2>2. <<>> \in Seq(Handovers) /\ AnyWorker \in Int
    BY DEF AnyWorker
  <2>3. ProgFrame(it.task) \in ProgFrames /\ ProgFrame(it.task).pc = "op"
        /\ ProgFrame(it.task).id = it.task
    BY <2>1, <2>2 DEF ProgFrame, ProgFrames
  <2>4. QED BY <2>1, <2>3 DEF FrameOK, ProgOK, Giving, Given, Closing
<1>2. CASE ~ IsTask(it)
  <2>1. /\ FrameOf(it) = WakeFrame(it.thread, it.depth, it.value)
        /\ it.thread \in Threads /\ it.depth \in Nat /\ it.value \in Values
    BY <1>2, ItemKinds DEF FrameOf
  <2>2. WakeFrame(it.thread, it.depth, it.value) \in WakeFrames
    BY <2>1 DEF WakeFrame, WakeFrames
  <2>3. QED BY <2>1, <2>2 DEF FrameOK
<1>3. QED BY <1>1, <1>2

\* Another point of runItemsImpl.
LEMMA LoopAt ==
  ASSUME StacksOK, FramesOK, NEW t \in Threads, NEW l, At(t, "loop", l), NEW m \in LoopPoints
  PROVE  LET f == [Top(t) EXCEPT !.pc = m]
         IN  /\ FrameOK(prog, t, Len(stack[t]), f) /\ f.is = "loop" /\ f.pc = m
             /\ f.kind = Top(t).kind /\ f.left = Top(t).left
<1>1. LoopOK(t, Len(stack[t]), Top(t))
  BY TipKinds
<1>2. QED BY <1>1 DEF LoopOK, LoopFrames, FrameOK

\* A worker runs an item, to come back to point k.
LEMMA RunTypes ==
  ASSUME StacksOK, FramesOK, HistoryOK, NEW t \in Threads, NEW l, At(t, "loop", l),
         NEW it \in Items, NEW k \in {"keep", "local"}, Run(t, [Top(t) EXCEPT !.pc = k], it),
         prog' = prog
  PROVE  FramesOK' /\ ran' \in [Tasks -> Nat]
<1> DEFINE f == [Top(t) EXCEPT !.pc = k]
<1>1. stack[t] # <<>> /\ Len(stack[t]) \in Nat /\ Len(stack[t]) > 0
  BY TipKinds
<1>2. FrameOK(prog, t, Len(stack[t]), f)
  BY LoopAt DEF LoopPoints
<1>3. FrameOK(prog, t, Len(stack[t]) + 1, FrameOf(it))
  BY <1>1, RunFrame
<1>4. CallWith(t, f, FrameOf(it))
  BY DEF Run
<1> HIDE DEF f
<1>5. FramesOK'
  BY <1>1, <1>2, <1>3, <1>4, FramesCall
<1>6. ran' \in [Tasks -> Nat]
  BY ItemKinds DEF Run, HistoryOK
<1>7. QED BY <1>5, <1>6

\* A worker goes to point m, and returns.
LEMMA GotoTypes ==
  ASSUME StacksOK, FramesOK, NEW t \in Threads, NEW l, At(t, "loop", l),
         NEW m \in LoopPoints, Goto(t, m), prog' = prog
  PROVE  FramesOK'
<1> DEFINE f == [Top(t) EXCEPT !.pc = m]
<1>1. stack[t] # <<>> /\ FrameOK(prog, t, Len(stack[t]), f)
  BY TipKinds, LoopAt
<1>2. SetTop(t, f)
  BY DEF Goto
<1> HIDE DEF f
<1>3. QED BY <1>1, <1>2, FramesSet

\* Return from a given point keeps the frames well typed.
LEMMA BackTypes ==
  ASSUME StacksOK, FramesOK, NEW t \in Threads, NEW k, NEW l, At(t, k, l), Return(t), prog' = prog
  PROVE  FramesOK'
  BY FramesReturn DEF At

\* runItemsImpl keeps the types.
LEMMA LoopTypes ==
  ASSUME StacksOK, TypeInv, NEW t \in Threads, RunItems(t) PROVE TypeInv'
<1> USE DEF queues, values
<1>s. FramesOK /\ QueuesOK /\ HistoryOK
  BY DEF TypeInv
<1>p. /\ "keep" \in LoopPoints /\ "local" \in LoopPoints /\ "affinity" \in LoopPoints
      /\ "global" \in LoopPoints /\ "spinAffinity" \in LoopPoints
      /\ "spinGlobal" \in LoopPoints /\ "spinStop" \in LoopPoints
      /\ "pumpSpill" \in LoopPoints /\ "pumpOverflow" \in LoopPoints /\ "mark" \in LoopPoints
      /\ "preAffinity" \in LoopPoints /\ "preGlobal" \in LoopPoints
      /\ "preStop" \in LoopPoints /\ "sleep" \in LoopPoints
  BY DEF LoopPoints
<1>q. ASSUME UNCHANGED <<prog, doneFlag, joined, values, added, ran>> PROVE HistoryOK'
  BY <1>s, <1>q DEF HistoryOK
<1>u. ASSUME UNCHANGED <<queues, values>> PROVE QueuesOK'
  BY <1>s, <1>u DEF QueuesOK
<1>1. CASE KeepRunning(t) \/ SpinStop(t) \/ MarkSuspended(t) \/ PreSuspendStop(t) \/ WakeUp(t)
  <2>1. PICK l : At(t, "loop", l) /\ (Return(t) \/ \E m \in LoopPoints : Goto(t, m))
    BY <1>1, <1>p DEF KeepRunning, SpinStop, MarkSuspended, PreSuspendStop, WakeUp
  <2>2. UNCHANGED <<prog, doneFlag, joined, values, added, ran, queues>>
    BY <1>1 DEF KeepRunning, SpinStop, MarkSuspended, PreSuspendStop, WakeUp
  <2>3. FramesOK'
    BY <1>s, <2>1, <2>2, GotoTypes, BackTypes
  <2>4. QED BY <1>q, <1>u, <2>2, <2>3 DEF TypeInv
<1>2. CASE RunLocal(t)
  <2>0. At(t, "loop", "local") /\ t \in Workers
    BY <1>2, LoopOnWorker DEF RunLocal
  <2>1. CASE local[t] # <<>>
    <3>1. /\ Run(t, Top(t), Head(local[t])) /\ local' = [local EXCEPT ![t] = Tail(local[t])]
          /\ UNCHANGED <<prog, ring, spill, taskList, overflow, doneFlag, values, joined, added>>
      BY <1>2, <2>1 DEF RunLocal
    <3>2. Head(local[t]) \in Items /\ Tail(local[t]) \in Seq(Items)
      BY <1>s, <2>0, <2>1, TailFacts DEF QueuesOK
    <3>3. Top(t) = [Top(t) EXCEPT !.pc = "local"]
      <4>1. Top(t) \in LoopFrames /\ Top(t).pc = "local"
        BY <1>s, <2>0, TipKinds DEF LoopOK
      <4>2. QED BY <4>1 DEF LoopFrames
    <3>4. Run(t, [Top(t) EXCEPT !.pc = "local"], Head(local[t]))
      BY <3>1, <3>3
    <3>5. FramesOK' /\ ran' \in [Tasks -> Nat]
      BY <1>s, <2>0, <3>1, <3>2, <3>4, RunTypes
    <3>6. QueuesOK'
      BY <1>s, <3>1, <3>2 DEF QueuesOK
    <3>7. HistoryOK'
      BY <1>s, <3>1, <3>5 DEF HistoryOK
    <3>8. QED BY <3>5, <3>6, <3>7 DEF TypeInv
  <2>2. CASE local[t] = <<>>
    <3>1. Goto(t, "affinity") /\ UNCHANGED <<prog, doneFlag, joined, values, added, ran, queues>>
      BY <1>2, <2>2 DEF RunLocal
    <3>2. QED BY <1>s, <1>p, <1>q, <1>u, <2>0, <3>1, GotoTypes DEF TypeInv
  <2>3. QED BY <2>1, <2>2
<1>3. ASSUME NEW l, l # "sleep", NEW m \in LoopPoints, PollAffinity(t, l, m) PROVE TypeInv'
  <2>0. At(t, "loop", l) /\ t \in Workers
    BY <1>3, LoopOnWorker DEF PollAffinity
  <2>1. CASE ring[t] # <<>>
    <3>1. /\ Run(t, [Top(t) EXCEPT !.pc = "keep"], Head(ring[t]))
          /\ ring' = [ring EXCEPT ![t] = Tail(ring[t])]
          /\ UNCHANGED <<prog, local, spill, taskList, overflow, doneFlag, values, joined, added>>
      BY <1>3, <2>1 DEF PollAffinity
    <3>2. Head(ring[t]) \in Items /\ Tail(ring[t]) \in Seq(Items)
      BY <1>s, <2>0, <2>1, TailFacts DEF QueuesOK
    <3>3. FramesOK' /\ ran' \in [Tasks -> Nat]
      BY <1>s, <2>0, <3>1, <3>2, RunTypes
    <3>4. QueuesOK'
      BY <1>s, <3>1, <3>2 DEF QueuesOK
    <3>5. HistoryOK'
      BY <1>s, <3>1, <3>3 DEF HistoryOK
    <3>6. QED BY <3>3, <3>4, <3>5 DEF TypeInv
  <2>2. CASE ring[t] = <<>>
    <3>1. Goto(t, m) /\ UNCHANGED <<prog, doneFlag, joined, values, added, ran, queues>>
      BY <1>3, <2>2 DEF PollAffinity
    <3>2. QED BY <1>s, <1>3, <1>q, <1>u, <2>0, <3>1, GotoTypes DEF TypeInv
  <2>3. QED BY <2>1, <2>2
<1>4. ASSUME NEW l, NEW m \in LoopPoints, PollGlobal(t, l, m) PROVE TypeInv'
  <2>0. At(t, "loop", l)
    BY <1>4 DEF PollGlobal
  <2>1. ASSUME NEW it \in taskList, Run(t, [Top(t) EXCEPT !.pc = "keep"], it),
               taskList' = taskList \ {it},
               UNCHANGED <<prog, local, ring, spill, overflow, doneFlag, values, joined, added>>
        PROVE  TypeInv'
    <3>1. it \in Items
      BY <1>s DEF QueuesOK
    <3>2. FramesOK' /\ ran' \in [Tasks -> Nat]
      BY <1>s, <2>0, <2>1, <3>1, RunTypes
    <3>3. QueuesOK'
      BY <1>s, <2>1 DEF QueuesOK
    <3>4. HistoryOK'
      BY <1>s, <2>1, <3>2 DEF HistoryOK
    <3>5. QED BY <3>2, <3>3, <3>4 DEF TypeInv
  <2>2. CASE /\ Return(t) \/ Goto(t, m)
             /\ UNCHANGED <<prog, doneFlag, joined, values, added, ran, queues>>
    <3>1. FramesOK'
      BY <1>s, <2>0, <2>2, GotoTypes, BackTypes
    <3>2. QED BY <1>q, <1>u, <2>2, <3>1 DEF TypeInv
  <2>3. QED BY <1>4, <2>1, <2>2 DEF PollGlobal
<1>5. CASE PumpSpill(t)
  <2>0. At(t, "loop", "pumpSpill") /\ t \in Workers
    BY <1>5, LoopOnWorker DEF PumpSpill
  <2>1. /\ Goto(t, "keep") \/ Goto(t, "pumpOverflow")
        /\ UNCHANGED <<prog, ring, taskList, overflow, doneFlag, joined, values, added, ran>>
        /\ \/ /\ local' = [local EXCEPT ![t] = local[t] \o Reverse(spill[t])]
              /\ spill' = [spill EXCEPT ![t] = <<>>]
           \/ UNCHANGED <<local, spill>>
    BY <1>5 DEF PumpSpill
  <2> DEFINE q == local[t] \o Reverse(spill[t])
  <2>2. q \in Seq(Items) /\ <<>> \in Seq(Items)
    BY <1>s, <2>0, ReverseFacts, ConcatFacts DEF QueuesOK
  <2>3. FramesOK'
    BY <1>s, <1>p, <2>0, <2>1, GotoTypes
  <2> HIDE DEF q
  <2>4. QueuesOK'
    <3>1. /\ local' \in [Workers -> Seq(Items)] /\ spill' \in [Workers -> Seq(Items)]
      BY <1>s, <2>1, <2>2 DEF QueuesOK, q
    <3>2. QED BY <1>s, <2>1, <3>1 DEF QueuesOK
  <2>5. QED BY <1>q, <2>1, <2>3, <2>4 DEF TypeInv
<1>6. CASE PumpOverflow(t)
  <2>0. At(t, "loop", "pumpOverflow")
    BY <1>6 DEF PumpOverflow
  <2>1. /\ Goto(t, "keep") \/ Goto(t, "mark")
        /\ UNCHANGED <<prog, local, ring, spill, doneFlag, joined, values, added, ran>>
        /\ \/ \E k \in {0} \cup DOMAIN overflow :
                /\ taskList' = taskList \cup Range(SubSeq(overflow, k + 1, Len(overflow)))
                /\ overflow' = SubSeq(overflow, 1, k)
           \/ UNCHANGED <<taskList, overflow>>
    BY <1>6 DEF PumpOverflow
  <2>2. FramesOK'
    BY <1>s, <1>p, <2>0, <2>1, GotoTypes
  <2>3. ASSUME NEW k \in {0} \cup DOMAIN overflow
        PROVE  /\ SubSeq(overflow, 1, k) \in Seq(Items)
               /\ Range(SubSeq(overflow, k + 1, Len(overflow))) \subseteq Items
    <3>1. overflow \in Seq(Items) /\ k \in Nat /\ k <= Len(overflow) /\ Len(overflow) \in Nat
      BY <1>s DEF QueuesOK
    <3>2. SubSeq(overflow, 1, k) \in Seq(Items)
      BY <3>1, PartFacts
    <3>3. SubSeq(overflow, k + 1, Len(overflow)) \in Seq(Items)
      BY <3>1, PartFacts
    <3>4. QED BY <3>2, <3>3 DEF Range
  <2>4. QueuesOK'
    BY <1>s, <2>1, <2>3 DEF QueuesOK
  <2>5. QED BY <1>q, <2>1, <2>2, <2>4 DEF TypeInv
<1>7. QED BY <1>p, <1>1, <1>2, <1>3, <1>4, <1>5, <1>6 DEF RunItems

-----------------------------------------------------------------------------
(* Types in programs *)

\* A program being executed.
LEMMA ProgAt ==
  ASSUME StacksOK, FramesOK, HistoryOK, NEW t \in Threads, NEW l, At(t, "prog", l)
  PROVE  /\ ProgOK(prog, t, Len(stack[t]), Top(t)) /\ Top(t) \in ProgFrames /\ Top(t).pc = l
         /\ stack[t] # <<>> /\ Len(stack[t]) \in Nat /\ Len(stack[t]) > 0
         /\ Top(t) = stack[t][Len(stack[t])]
         /\ Top(t).id \in Tasks \cup Clients /\ Top(t).ip \in Nat \ {0}
         /\ Top(t).todo \in Seq(Handovers)
         /\ prog[Top(t).id] \in Seq(Call)
         /\ prog \in Programs /\ prog[Main] \in Seq(Call)
<1>1. /\ ProgOK(prog, t, Len(stack[t]), Top(t)) /\ Top(t).pc = l
      /\ stack[t] # <<>> /\ Len(stack[t]) \in Nat /\ Len(stack[t]) > 0
      /\ Top(t) = stack[t][Len(stack[t])]
  BY TipKinds
<1>2. Top(t) \in ProgFrames
  BY <1>1 DEF ProgOK
<1>3. /\ Top(t).id \in Tasks \cup Clients /\ Top(t).ip \in Nat \ {0}
      /\ Top(t).todo \in Seq(Handovers)
  BY <1>2 DEF ProgFrames
<1>4. prog \in Programs /\ prog \in [Tasks \cup Clients -> Seq(Call)]
  BY ProgramAssumption DEF HistoryOK
<1>5. prog[Main] \in Seq(Call)
  BY <1>4 DEF Clients
<1>6. QED BY <1>1, <1>2, <1>3, <1>4, <1>5

\* The call it makes, and the frame after it.
LEMMA CallAt ==
  ASSUME StacksOK, FramesOK, HistoryOK, NEW t \in Threads, NEW o, Calls(t, o)
  PROVE  /\ At(t, "prog", "op") /\ Arg(t) \in Call /\ Arg(t).op = o
         /\ Top(t).ip \in DOMAIN prog[Top(t).id]
         /\ o = "addTask" => Arg(t).task \in Tasks /\ Arg(t).to \in Workers \cup {AnyWorker}
         /\ o = "emplace" => Arg(t).value \in Values
         /\ o = "andThen" => Arg(t).value \in Values /\ Arg(t).task \in Tasks
         /\ o = "await" => Arg(t).values \subseteq Values
         /\ o = "shutdown" => Top(t).id = Main /\ Top(t).ip = Len(prog[Main])
<1>1. At(t, "prog", "op") /\ Top(t).ip <= Len(prog[Top(t).id]) /\ Arg(t).op = o
  BY DEF Calls, Arg
<1>2. Top(t).ip \in DOMAIN prog[Top(t).id] /\ Arg(t) \in Call
  BY <1>1, ProgAt DEF Arg
<1>3. /\ o = "addTask" => Arg(t).task \in Tasks /\ Arg(t).to \in Workers \cup {AnyWorker}
      /\ o = "emplace" => Arg(t).value \in Values
      /\ o = "andThen" => Arg(t).value \in Values /\ Arg(t).task \in Tasks
      /\ o = "await" => Arg(t).values \subseteq Values
  BY <1>1, <1>2 DEF Call
<1>4. o = "shutdown" => Top(t).id = Main /\ Top(t).ip = Len(prog[Main])
  BY <1>1, <1>2, ProgAt, ProgramAssumption DEF Arg
<1>5. QED BY <1>1, <1>2, <1>3, <1>4

\* The frame after a call that is over, one that begins to hand items over,
\* and one at another point of a call.
LEMMA PastFrame ==
  ASSUME StacksOK, FramesOK, HistoryOK, NEW t \in Threads, NEW l \in {"op", "register"},
         At(t, "prog", l)
  PROVE  LET f == [Past(t) EXCEPT !.pc = "op"]
         IN  /\ ProgOK(prog, t, Len(stack[t]), f) /\ f.is = "prog" /\ f.pc = "op"
             /\ f.id = Top(t).id /\ f.ip = Top(t).ip + 1 /\ f.todo = Top(t).todo
             /\ l = "op" => Past(t) = f
<1>1. /\ ProgOK(prog, t, Len(stack[t]), Top(t)) /\ Top(t) \in ProgFrames /\ Top(t).pc = l
  BY ProgAt
<1> DEFINE g == Past(t)
           f == [g EXCEPT !.pc = "op"]
<1>g. /\ g \in ProgFrames /\ g.pc = l /\ g.id = Top(t).id /\ g.ip = Top(t).ip + 1
      /\ g.todo = Top(t).todo
  BY <1>1 DEF ProgFrames, Past
<1> HIDE DEF g
<1>2. /\ f \in ProgFrames /\ f.is = "prog" /\ f.pc = "op" /\ f.id = Top(t).id
      /\ f.ip = Top(t).ip + 1 /\ f.todo = Top(t).todo /\ (l = "op" => g = f)
  BY <1>g DEF ProgFrames
<1> HIDE DEF f
<1>3. ProgOK(prog, t, Len(stack[t]), f)
  BY <1>1, <1>2 DEF ProgOK, Giving, Given, Closing
<1>4. QED BY <1>2, <1>3 DEF f, g

\* The frame after a call that leaves the items q to hand over is well typed.
LEMMA GivingFrame ==
  ASSUME StacksOK, FramesOK, HistoryOK, NEW t \in Threads, At(t, "prog", "op"),
         NEW q \in Seq(Handovers)
  PROVE  LET f == [Past(t) EXCEPT !.pc = IF q = <<>> THEN "op" ELSE "add", !.todo = q]
         IN  /\ ProgOK(prog, t, Len(stack[t]), f) /\ f.is = "prog" /\ f.todo = q
             /\ f.pc = IF q = <<>> THEN "op" ELSE "add"
             /\ f.id = Top(t).id /\ f.ip = Top(t).ip + 1
<1>1. /\ ProgOK(prog, t, Len(stack[t]), Top(t)) /\ Top(t) \in ProgFrames
  BY ProgAt
<1> DEFINE k == IF q = <<>> THEN "op" ELSE "add"
           g == Past(t)
           f == [g EXCEPT !.pc = k, !.todo = q]
<1>2. k \in {"op", "add"} /\ (k = "add" => q # <<>>)
  OBVIOUS
<1>g. g \in ProgFrames /\ g.id = Top(t).id /\ g.ip = Top(t).ip + 1
  BY <1>1 DEF ProgFrames, Past
<1> HIDE DEF g, k
<1>3. /\ f \in ProgFrames /\ f.is = "prog" /\ f.pc = k /\ f.id = Top(t).id
      /\ f.ip = Top(t).ip + 1 /\ f.todo = q
  BY <1>g, <1>2 DEF ProgFrames, Giving
<1> HIDE DEF f
<1>4. ProgOK(prog, t, Len(stack[t]), f)
  BY <1>1, <1>2, <1>3 DEF ProgOK, Giving, Given, Closing
<1>5. QED BY <1>3, <1>4 DEF f, g, k

\* A program may go on to another point when what that point needs is there.
LEMMA PointFrame ==
  ASSUME StacksOK, FramesOK, HistoryOK, NEW t \in Threads, NEW l, At(t, "prog", l),
         NEW m \in {"op", "register"} \cup Giving \cup Given \cup Closing,
         m \in Giving \cup Given => l \in Giving \cup Given,
         m \in {"spill", "take"} => Adding(t).to \in Workers,
         m = "post" => l = "post",
         m = "register" => l = "op" /\ Calls(t, "await"),
         m \in Closing => l \in Closing
  PROVE  LET f == [Top(t) EXCEPT !.pc = m]
         IN  /\ ProgOK(prog, t, Len(stack[t]), f) /\ f.is = "prog" /\ f.pc = m
             /\ f.id = Top(t).id /\ f.ip = Top(t).ip /\ f.todo = Top(t).todo
<1>1. /\ ProgOK(prog, t, Len(stack[t]), Top(t)) /\ Top(t) \in ProgFrames /\ Top(t).pc = l
  BY ProgAt
<1> DEFINE f == [Top(t) EXCEPT !.pc = m]
<1>2. /\ f \in ProgFrames /\ f.is = "prog" /\ f.pc = m /\ f.id = Top(t).id
      /\ f.ip = Top(t).ip /\ f.todo = Top(t).todo /\ f.target = Top(t).target
  BY <1>1 DEF ProgFrames
<1> HIDE DEF f
<1>3. m = "register" => Top(t).ip \in DOMAIN prog[Top(t).id] /\ prog[Top(t).id][Top(t).ip].op = "await"
  BY CallAt DEF Arg
<1>4. ProgOK(prog, t, Len(stack[t]), f)
  BY <1>1, <1>2, <1>3 DEF ProgOK, Adding
<1>5. QED BY <1>2, <1>4 DEF f

\* The frame of addTask that took the mark of worker w is well typed.
LEMMA PostFrame ==
  ASSUME StacksOK, FramesOK, HistoryOK, NEW t \in Threads, NEW l \in Given, At(t, "prog", l),
         NEW w \in Workers
  PROVE  LET f == [Top(t) EXCEPT !.pc = "post", !.target = w]
         IN  /\ ProgOK(prog, t, Len(stack[t]), f) /\ f.is = "prog" /\ f.pc = "post"
             /\ f.id = Top(t).id /\ f.ip = Top(t).ip /\ f.todo = Top(t).todo
<1>1. /\ ProgOK(prog, t, Len(stack[t]), Top(t)) /\ Top(t) \in ProgFrames /\ Top(t).pc = l
      /\ w \in Int
  BY ProgAt, ConfigAssumption DEF Workers
<1> DEFINE f == [Top(t) EXCEPT !.pc = "post", !.target = w]
<1>2. /\ f \in ProgFrames /\ f.is = "prog" /\ f.pc = "post" /\ f.id = Top(t).id
      /\ f.ip = Top(t).ip /\ f.todo = Top(t).todo /\ f.target = w
  BY <1>1 DEF ProgFrames, Given
<1> HIDE DEF f
<1>3. ProgOK(prog, t, Len(stack[t]), f)
  BY <1>1, <1>2 DEF ProgOK, Giving, Given, Closing
<1>4. QED BY <1>2, <1>3 DEF f

\* The first item has been handed over.
LEMMA AddedFrame ==
  ASSUME StacksOK, FramesOK, HistoryOK, NEW t \in Threads, NEW l \in Giving \cup Given,
         At(t, "prog", l)
  PROVE  LET f == Added(Top(t))
         IN  /\ ProgOK(prog, t, Len(stack[t]), f) /\ f.is = "prog" /\ f.todo = Tail(Top(t).todo)
             /\ f.pc = IF f.todo = <<>> THEN "op" ELSE "add"
             /\ f.id = Top(t).id /\ f.ip = Top(t).ip
             /\ Top(t).todo # <<>> /\ Adding(t) \in Handovers
             /\ Tail(Top(t).todo) \in Seq(Handovers)
             /\ Adding(t).item \in Items /\ Adding(t).to \in Workers \cup {AnyWorker}
<1>1. /\ ProgOK(prog, t, Len(stack[t]), Top(t)) /\ Top(t) \in ProgFrames /\ Top(t).pc = l
      /\ Top(t).todo \in Seq(Handovers)
  BY ProgAt
<1>2. Top(t).todo # <<>>
  BY <1>1 DEF ProgOK
<1> DEFINE q == Tail(Top(t).todo)
           k == IF q = <<>> THEN "op" ELSE "add"
           f == Added(Top(t))
<1>3. q \in Seq(Handovers) /\ Adding(t) \in Handovers
  BY <1>1, <1>2, TailFacts DEF Adding
<1>4. f = [Top(t) EXCEPT !.todo = q, !.target = AnyWorker, !.pc = k]
  BY DEF Added
<1>5. k \in {"op", "add"} /\ AnyWorker \in Int
  BY DEF AnyWorker
<1>8. Adding(t).item \in Items /\ Adding(t).to \in Workers \cup {AnyWorker}
  BY <1>3 DEF Handovers
<1> HIDE DEF q, f
<1>6. /\ f \in ProgFrames /\ f.is = "prog" /\ f.pc = k /\ f.id = Top(t).id
      /\ f.ip = Top(t).ip /\ f.todo = q
  BY <1>1, <1>3, <1>4, <1>5 DEF ProgFrames, Giving
<1>7. ProgOK(prog, t, Len(stack[t]), f)
  BY <1>1, <1>5, <1>6 DEF ProgOK, Giving, Given, Closing
<1>9. QED BY <1>2, <1>3, <1>6, <1>7, <1>8 DEF f, q

\* A program's frame changes to f.
LEMMA ProgTypes ==
  ASSUME StacksOK, FramesOK, NEW t \in Threads, NEW l, At(t, "prog", l),
         NEW f, ProgOK(prog, t, Len(stack[t]), f), SetTop(t, f), prog' = prog
  PROVE  FramesOK'
<1>1. stack[t] # <<>> /\ FrameOK(prog, t, Len(stack[t]), f)
  BY DEF At, FrameOK
<1>2. QED BY <1>1, FramesSet

\* addTask keeps the types.
LEMMA AddTypes ==
  ASSUME StacksOK, PoolTypes, TypeInv, NEW t \in Threads, AddTask(t) PROVE TypeInv'
<1> USE DEF queues, values
<1>s. FramesOK /\ QueuesOK /\ HistoryOK
  BY DEF TypeInv
<1>h. HistoryOK' /\ prog' = prog
  <2>1. UNCHANGED <<prog, doneFlag, joined, values, added, ran>>
    BY DEF AddTask, AddAffinity, AddSpill, TakeSuspended, AddGlobal, TakeAny, Post, AddOverflow
  <2>2. QED BY <1>s, <2>1 DEF HistoryOK
<1>m. \A l \in Giving \cup Given : l \in {"op", "register"} \cup Giving \cup Given \cup Closing
  OBVIOUS
<1>p. /\ "add" \in Giving /\ "spill" \in Giving /\ "overflow" \in Giving
      /\ "take" \in Given /\ "takeAny" \in Given /\ "post" \in Given
      /\ "add" \notin Closing /\ "spill" \notin Closing /\ "overflow" \notin Closing
      /\ "take" \notin Closing /\ "takeAny" \notin Closing /\ "post" \notin Closing
  BY DEF Giving, Given, Closing
<1>g. ASSUME NEW l \in Giving \cup Given, At(t, "prog", l), NEW m \in {"spill", "take", "takeAny", "overflow"},
             Goto(t, m), m \in {"spill", "take"} => Adding(t).to \in Workers
      PROVE  FramesOK'
  <2>1. ProgOK(prog, t, Len(stack[t]), [Top(t) EXCEPT !.pc = m])
    BY <1>s, <1>g, <1>m, <1>p, PointFrame
  <2>2. SetTop(t, [Top(t) EXCEPT !.pc = m])
    BY <1>g DEF Goto
  <2>3. QED BY <1>s, <1>h, <1>g, <2>1, <2>2, ProgTypes
<1>d. ASSUME NEW l \in Giving \cup Given, At(t, "prog", l), SetTop(t, Added(Top(t))) PROVE FramesOK'
  BY <1>s, <1>h, <1>d, AddedFrame, ProgTypes
<1>o. ASSUME NEW l \in Given, At(t, "prog", l), NEW w \in Workers,
             SetTop(t, [Top(t) EXCEPT !.pc = "post", !.target = w])
      PROVE  FramesOK'
  BY <1>s, <1>h, <1>o, PostFrame, ProgTypes
<1>1. CASE AddAffinity(t)
  <2>1. At(t, "prog", "add") /\ Adding(t).to # AnyWorker
        /\ UNCHANGED <<local, spill, taskList, overflow, values>>
    BY <1>1 DEF AddAffinity
  <2>2. Adding(t).to \in Workers /\ Adding(t).item \in Items
    BY <1>s, <1>p, <2>1, AddedFrame
  <2> DEFINE w == Adding(t).to
             it == Adding(t).item
  <2>3. \/ ring' = [ring EXCEPT ![w] = Append(ring[w], it)] /\ Goto(t, "take")
        \/ ring' = ring /\ Goto(t, "spill")
    BY <1>1 DEF AddAffinity
  <2>4. FramesOK'
    BY <1>g, <1>p, <2>1, <2>2, <2>3
  <2> HIDE DEF w, it
  <2>5. w \in Workers /\ it \in Items
    BY <2>2 DEF w, it
  <2>6. Append(ring[w], it) \in Seq(Items)
    BY <1>s, <2>5, AppendFacts DEF QueuesOK
  <2>7. ring' \in [Workers -> Seq(Items)]
    BY <1>s, <2>3, <2>6 DEF QueuesOK
  <2>8. QueuesOK'
    BY <1>s, <2>1, <2>7 DEF QueuesOK
  <2>9. QED BY <1>h, <2>4, <2>8 DEF TypeInv
<1>2. CASE AddSpill(t)
  <2> DEFINE w == Adding(t).to
             it == Adding(t).item
  <2>1. /\ At(t, "prog", "spill") /\ Goto(t, "take")
        /\ spill' = [spill EXCEPT ![w] = Append(spill[w], it)]
        /\ UNCHANGED <<local, ring, taskList, overflow, values>>
    BY <1>2 DEF AddSpill
  <2>2. w \in Workers /\ it \in Items
    <3>1. ProgOK(prog, t, Len(stack[t]), Top(t)) /\ Top(t).pc = "spill"
      BY <1>s, <2>1, ProgAt
    <3>2. QED BY <1>s, <1>p, <2>1, <3>1, AddedFrame DEF ProgOK, Adding
  <2>3. FramesOK'
    BY <1>g, <1>p, <2>1, <2>2
  <2> HIDE DEF w, it
  <2>4. Append(spill[w], it) \in Seq(Items)
    BY <1>s, <2>2, AppendFacts DEF QueuesOK
  <2>5. spill' \in [Workers -> Seq(Items)]
    BY <1>s, <2>1, <2>4 DEF QueuesOK
  <2>6. QueuesOK'
    BY <1>s, <2>1, <2>5 DEF QueuesOK
  <2>7. QED BY <1>h, <2>3, <2>6 DEF TypeInv
<1>3. CASE TakeSuspended(t) \/ TakeAny(t) \/ Post(t)
  <2>1. UNCHANGED <<local, ring, spill, taskList, overflow, waiters>>
    BY <1>3 DEF TakeSuspended, TakeAny, Post
  <2>2. PICK l \in Given : At(t, "prog", l)
    BY <1>3, <1>p DEF TakeSuspended, TakeAny, Post
  <2>3. \/ SetTop(t, Added(Top(t)))
        \/ \E w \in Workers : SetTop(t, [Top(t) EXCEPT !.pc = "post", !.target = w])
    <3>1. CASE TakeSuspended(t)
      BY <3>1 DEF TakeSuspended, PoolTypes
    <3>2. CASE TakeAny(t)
      <4>1. suspended # {} => (CHOOSE x \in suspended : \A y \in suspended : x <= y) \in Workers
        <5>1. suspended \subseteq Nat /\ suspended \subseteq Workers
          BY ConfigAssumption DEF PoolTypes, Workers
        <5>2. suspended # {} => \E x \in suspended : \A y \in suspended : x <= y
          BY <5>1, Least
        <5>3. QED BY <5>1, <5>2
      <4>2. QED BY <3>2, <4>1 DEF TakeAny
    <3>3. CASE Post(t)
      BY <3>3 DEF Post
    <3>4. QED BY <1>3, <3>1, <3>2, <3>3
  <2>4. FramesOK'
    BY <1>d, <1>o, <2>2, <2>3
  <2>5. QueuesOK'
    BY <1>s, <2>1 DEF QueuesOK
  <2>6. QED BY <1>h, <2>4, <2>5 DEF TypeInv
<1>4. CASE AddGlobal(t)
  <2>1. At(t, "prog", "add") /\ UNCHANGED <<local, ring, spill, overflow, waiters>>
        /\ \/ taskList' = taskList \cup {Adding(t).item} /\ Goto(t, "takeAny")
           \/ taskList' = taskList /\ Goto(t, "overflow")
    BY <1>4 DEF AddGlobal
  <2>2. Adding(t).item \in Items
    BY <1>s, <1>p, <2>1, AddedFrame
  <2>3. FramesOK'
    BY <1>g, <1>p, <2>1
  <2>4. QueuesOK'
    BY <1>s, <2>1, <2>2 DEF QueuesOK
  <2>5. QED BY <1>h, <2>3, <2>4 DEF TypeInv
<1>5. CASE AddOverflow(t)
  <2>1. /\ At(t, "prog", "overflow") /\ UNCHANGED <<local, ring, spill, taskList, waiters>>
        /\ overflow' = Append(overflow, Adding(t).item) /\ SetTop(t, Added(Top(t)))
    BY <1>5 DEF AddOverflow
  <2>2. Adding(t).item \in Items
    BY <1>s, <1>p, <2>1, AddedFrame
  <2>3. FramesOK'
    BY <1>d, <1>p, <2>1
  <2>4. QueuesOK'
    BY <1>s, <2>1, <2>2, AppendFacts DEF QueuesOK
  <2>5. QED BY <1>h, <2>3, <2>4 DEF TypeInv
<1>6. QED BY <1>1, <1>2, <1>3, <1>4, <1>5 DEF AddTask

\* Shutdown is called by the main thread, from its own program.
LEMMA ShutdownFrame ==
  ASSUME StacksOK, FramesOK, HistoryOK, NEW t \in Threads, Calls(t, "shutdown")
  PROVE  /\ t = Main /\ Len(stack[t]) = 1
         /\ LET f == [Past(t) EXCEPT !.pc = "done"]
            IN  /\ ProgOK(prog, t, 1, f) /\ f.is = "prog" /\ f.pc = "done"
                /\ f.id = Top(t).id /\ f.ip = Top(t).ip + 1
<1>1. /\ ProgOK(prog, t, Len(stack[t]), Top(t)) /\ Top(t) \in ProgFrames
      /\ Top(t).id = Main /\ Top(t).ip = Len(prog[Main]) /\ Len(prog[Main]) \in Nat
  BY CallAt, ProgAt
<1>2. Main \notin Tasks
  BY ProgramAssumption DEF Clients
<1>3. Len(stack[t]) = 1 /\ t = Main
  BY <1>1, <1>2 DEF ProgOK
<1> DEFINE g == Past(t)
           f == [g EXCEPT !.pc = "done"]
<1>4. g \in ProgFrames /\ g.id = Top(t).id /\ g.ip = Top(t).ip + 1
  BY <1>1 DEF ProgFrames, Past
<1> HIDE DEF g
<1>5. f \in ProgFrames /\ f.is = "prog" /\ f.pc = "done" /\ f.id = Top(t).id /\ f.ip = Top(t).ip + 1
  BY <1>4 DEF ProgFrames, Closing
<1> HIDE DEF f
<1>6. ProgOK(prog, t, 1, f)
  BY <1>1, <1>3, <1>5 DEF ProgOK, Giving, Given, Closing
<1>7. QED BY <1>3, <1>5, <1>6 DEF f, g

\* What an await registers.
LEMMA RegisterFacts ==
  ASSUME StacksOK, FramesOK, HistoryOK, NEW t \in Threads, At(t, "prog", "register")
  PROVE  /\ Arg(t).op = "await" /\ Arg(t).values \subseteq Values
         /\ Top(t).ip \in DOMAIN prog[Top(t).id]
         /\ IsFiniteSet(Arg(t).values \ ready)
         /\ Cardinality(Arg(t).values \ ready) \in Nat
<1>1. /\ Top(t).ip \in DOMAIN prog[Top(t).id] /\ prog[Top(t).id][Top(t).ip].op = "await"
      /\ prog[Top(t).id] \in Seq(Call)
  BY ProgAt DEF ProgOK
<1>2. Arg(t) \in Call /\ Arg(t).op = "await"
  BY <1>1 DEF Arg
<1>3. Arg(t).values \subseteq Values
  BY <1>2 DEF Call
<1>4. IsFiniteSet(Arg(t).values \ ready)
  BY <1>3, ConfigAssumption, FS_Subset
<1>5. QED BY <1>1, <1>2, <1>3, <1>4, FS_CardinalityType

\* The frames in which WakeDecrement counts down.
CountedFrame(f) == [f EXCEPT !.left = @ - 1]
CountedStack(u, d) == [stack EXCEPT ![u][d].left = @ - 1]

\* Counting down changes numRemaining of a loop frame, and no other frame.
LEMMA CountFrame ==
  ASSUME NEW p, NEW t, NEW d, NEW f, FrameOK(p, t, d, f)
  PROVE  LET g == CountedFrame(f)
         IN  /\ FrameOK(p, t, d, g) /\ g.is = f.is /\ g.pc = f.pc
             /\ f.is # "loop" => g = f
             /\ f.is = "loop" => g.kind = f.kind /\ g.left = f.left - 1 /\ f.left \in Int
<1>1. CASE ProgOK(p, t, d, f)
  <2>1. f \in ProgFrames
    BY <1>1 DEF ProgOK
  <2>2. CountedFrame(f) = f /\ f.is = "prog"
    BY <2>1 DEF ProgFrames, CountedFrame
  <2>3. QED BY <1>1, <2>2 DEF FrameOK
<1>2. CASE LoopOK(t, d, f)
  <2>1. f \in LoopFrames
    BY <1>2 DEF LoopOK
  <2> DEFINE g == CountedFrame(f)
  <2>2. /\ g \in LoopFrames /\ g.is = f.is /\ g.pc = f.pc /\ g.kind = f.kind /\ f.is = "loop"
        /\ g.left = f.left - 1 /\ f.left \in Int
    BY <2>1 DEF LoopFrames, CountedFrame
  <2> HIDE DEF g
  <2>3. LoopOK(t, d, g)
    BY <1>2, <2>2 DEF LoopOK
  <2>4. QED BY <2>2, <2>3 DEF FrameOK, g
<1>3. CASE f \in WakeFrames /\ d # 1
  <2>1. CountedFrame(f) = f /\ f.is = "wake"
    BY <1>3 DEF WakeFrames, CountedFrame
  <2>2. QED BY <1>3, <2>1 DEF FrameOK
<1>4. QED BY <1>1, <1>2, <1>3 DEF FrameOK

\* The stacks after counting down: one frame differs.
LEMMA CountShape ==
  ASSUME StacksOK, NEW u \in Threads, NEW d
  PROVE  LET s == CountedStack(u, d)
         IN  /\ DOMAIN s = Threads
             /\ \A x \in Threads :
                  /\ Len(s[x]) = Len(stack[x]) /\ s[x] \in Seq(Range(s[x]))
                  /\ \A i \in 1..Len(stack[x]) :
                       s[x][i] = IF x = u /\ i = d THEN CountedFrame(stack[x][i]) ELSE stack[x][i]
<1> DEFINE f == CountedFrame(stack[u][d])
           q == [stack[u] EXCEPT ![d] = f]
           s == CountedStack(u, d)
<1>1. s = [stack EXCEPT ![u] = q]
  BY DEF CountedStack, CountedFrame
<1>2. Len(q) = Len(stack[u]) /\ \A i \in 1..Len(stack[u]) : q[i] = IF i = d THEN f ELSE stack[u][i]
  <2>1. stack[u] \in Seq(Range(stack[u])) /\ DOMAIN stack[u] = 1..Len(stack[u])
    BY StackLen
  <2>2. CASE d \in 1..Len(stack[u])
    <3> DEFINE S == Range(stack[u]) \cup {f}
    <3>1. stack[u] \in Seq(S) /\ f \in S
      BY <2>1, SeqLarger
    <3>2. QED BY <2>2, <3>1, ExceptSeq
  <2>3. CASE d \notin 1..Len(stack[u])
    <3>1. q = stack[u]
      BY <2>1, <2>3
    <3>2. QED BY <2>3, <3>1
  <2>4. QED BY <2>2, <2>3
<1>3. q \in Seq(Range(q))
  <2>1. stack[u] \in Seq(Range(stack[u])) /\ DOMAIN stack[u] = 1..Len(stack[u])
    BY StackLen
  <2>2. CASE d \in 1..Len(stack[u])
    <3> DEFINE S == Range(stack[u]) \cup {f}
    <3>1. stack[u] \in Seq(S) /\ f \in S
      BY <2>1, SeqLarger
    <3>2. q \in Seq(S)
      BY <2>2, <3>1, ExceptSeq
    <3> HIDE DEF S, q
    <3>3. QED BY <3>2, SeqOfRange
  <2>3. CASE d \notin 1..Len(stack[u])
    <3>1. q = stack[u]
      BY <2>1, <2>3
    <3>2. QED BY <2>1, <3>1
  <2>4. QED BY <2>2, <2>3
<1> HIDE DEF f, q, s
<1>4. DOMAIN s = Threads /\ s[u] = q /\ \A x \in Threads \ {u} : s[x] = stack[x]
  BY <1>1 DEF StacksOK
<1>5. \A x \in Threads : stack[x] \in Seq(Range(stack[x]))
  BY StackLen
<1>6. QED BY <1>2, <1>3, <1>4, <1>5 DEF s, f

\* WakeDecrement: one frame is counted down, and the closure goes on to post
\* or returns.
LEMMA DecrementShape ==
  ASSUME StacksOK, FramesOK, NEW t \in Threads, WakeDecrement(t)
  PROVE  LET u == Top(t).thread
             d == Top(t).depth
             s == CountedStack(u, d)
             n == Len(stack[t])
         IN  /\ u \in Threads /\ d \in Nat /\ n \in Nat /\ n > 1 /\ Len(s[t]) = n
             /\ At(t, "wake", "decrement") /\ Top(t) = stack[t][n] /\ s[t][n] = Top(t)
             /\ DOMAIN stack' = Threads /\ \A x \in Threads \ {t} : stack'[x] = s[x]
             /\ IF s[u][d].left = 0 THEN Changed(s[t], stack'[t], [Top(t) EXCEPT !.pc = "post"])
                                     ELSE Left(s[t], stack'[t])
<1> DEFINE u == Top(t).thread
           d == Top(t).depth
           s == CountedStack(u, d)
           n == Len(stack[t])
<1>1. /\ At(t, "wake", "decrement")
      /\ IF s[u][d].left = 0 THEN stack' = [s EXCEPT ![t][Len(s[t])].pc = "post"]
                             ELSE stack' = [s EXCEPT ![t] = Front(s[t])]
  BY DEF WakeDecrement, CountedStack
<1>2. /\ Top(t) \in WakeFrames /\ n \in Nat /\ n # 1 /\ n > 0 /\ Top(t) = stack[t][n]
      /\ n \in 1..n
  BY <1>1, TipKinds
<1>3. u \in Threads /\ d \in Nat
  BY <1>2 DEF WakeFrames
<1>4. /\ DOMAIN s = Threads
      /\ \A x \in Threads :
           /\ Len(s[x]) = Len(stack[x]) /\ s[x] \in Seq(Range(s[x]))
           /\ \A i \in 1..Len(stack[x]) :
                s[x][i] = IF x = u /\ i = d THEN CountedFrame(stack[x][i]) ELSE stack[x][i]
  BY <1>3, CountShape
<1>5. CountedFrame(Top(t)) = Top(t)
  BY <1>2 DEF WakeFrames, CountedFrame
<1> HIDE DEF s, u, d
<1>6. Len(s[t]) = n /\ s[t][n] = Top(t) /\ s[t] \in Seq(Range(s[t]))
  BY <1>2, <1>4, <1>5
<1> DEFINE f == [Top(t) EXCEPT !.pc = "post"]
           r == [s[t] EXCEPT ![n] = f]
           q == Front(s[t])
<1>7. s[u][d].left = 0 => stack' = [s EXCEPT ![t] = r]
  BY <1>1, <1>6
<1>8. ASSUME NEW y, stack' = [s EXCEPT ![t] = y]
      PROVE  DOMAIN stack' = Threads /\ stack'[t] = y /\ \A x \in Threads \ {t} : stack'[x] = s[x]
  BY <1>4, <1>8
<1>9. Changed(s[t], r, f)
  <2> DEFINE S == Range(s[t]) \cup {f}
  <2>1. s[t] \in Seq(S) /\ f \in S
    BY <1>6, SeqLarger
  <2>2. Len(r) = n /\ \A j \in 1..n : r[j] = IF j = n THEN f ELSE s[t][j]
    BY <1>2, <1>6, <2>1, ExceptSeq
  <2> HIDE DEF f, r, n, S
  <2>3. \A j \in 1..(n - 1) : j \in 1..n /\ j # n
    BY <1>2
  <2>4. QED BY <1>2, <1>6, <2>2, <2>3 DEF Changed
<1>10. Left(s[t], q)
  <2> DEFINE S == Range(s[t])
  <2>0. n \in Nat /\ n >= 1 /\ s[t] \in Seq(S) /\ \A i \in 1..n : s[t][i] \in S
    BY <1>2, <1>6
  <2>1. \A i \in 1..(n - 1) : s[t][i] \in S
    BY <2>0
  <2>2. /\ Len(q) = IF 1 <= n - 1 THEN (n - 1) - 1 + 1 ELSE 0
        /\ \A i \in 1..((n - 1) - 1 + 1) : q[i] = s[t][1 + i - 1]
    BY <1>6, <2>0, <2>1, SubSeqProperties DEF Front
  <2> HIDE DEF q, n
  <2>3. QED BY <1>6, <2>0, <2>2 DEF Left
<1> HIDE DEF r, q, f
<1>11. /\ DOMAIN stack' = Threads /\ \A x \in Threads \ {t} : stack'[x] = s[x]
       /\ IF s[u][d].left = 0 THEN Changed(s[t], stack'[t], f) ELSE Left(s[t], stack'[t])
  <2>1. CASE s[u][d].left = 0
    <3>1. stack' = [s EXCEPT ![t] = r]
      BY <1>7, <2>1
    <3>2. QED BY <1>8, <1>9, <2>1, <3>1
  <2>2. CASE s[u][d].left # 0
    <3>1. stack' = [s EXCEPT ![t] = q]
      BY <1>1, <2>2 DEF q
    <3>2. QED BY <1>8, <1>10, <2>2, <3>1
  <2>3. QED BY <2>1, <2>2
<1>12. n > 1
  <2> HIDE DEF n
  <2>1. QED BY <1>2
<1>13. QED BY <1>1, <1>2, <1>3, <1>6, <1>11, <1>12 DEF s, u, d, f

\* A closure counts down.
LEMMA DecrementTypes ==
  ASSUME StacksOK, FramesOK, NEW t \in Threads, WakeDecrement(t), prog' = prog
  PROVE  FramesOK'
<1> DEFINE u == Top(t).thread
           d == Top(t).depth
           s == CountedStack(u, d)
           n == Len(stack[t])
           f == [Top(t) EXCEPT !.pc = "post"]
<1>1. /\ u \in Threads /\ d \in Nat /\ n \in Nat /\ n > 1 /\ Len(s[t]) = n
      /\ At(t, "wake", "decrement") /\ Top(t) = stack[t][n]
      /\ DOMAIN stack' = Threads /\ \A x \in Threads \ {t} : stack'[x] = s[x]
      /\ Changed(s[t], stack'[t], f) \/ Left(s[t], stack'[t])
  BY DecrementShape
<1>2. \A x \in Threads :
        /\ Len(s[x]) = Len(stack[x])
        /\ \A i \in 1..Len(stack[x]) :
             s[x][i] = IF x = u /\ i = d THEN CountedFrame(stack[x][i]) ELSE stack[x][i]
  BY <1>1, CountShape
<1> HIDE DEF s, u, d
<1>3. \A x \in Threads : \A i \in 1..Len(s[x]) : FrameOK(prog, x, i, s[x][i])
  BY <1>2, CountFrame DEF FramesOK
<1>4. FrameOK(prog, t, n, f)
  <2>1. Top(t) \in WakeFrames
    BY <1>1, TipKinds
  <2>2. f \in WakeFrames
    BY <2>1 DEF WakeFrames
  <2> HIDE DEF f, n
  <2>3. n # 1
    BY <1>1
  <2>4. QED BY <2>2, <2>3 DEF FrameOK
<1> HIDE DEF f, n
<1>5. ASSUME NEW i \in 1..Len(stack'[t]) PROVE FrameOK(prog, t, i, stack'[t][i])
  <2>1. CASE Changed(s[t], stack'[t], f)
    <3>1. i \in 1..(n - 1) \/ i = n
      BY <1>1, <2>1 DEF Changed
    <3>2. i \in 1..n
      BY <1>1, <2>1 DEF Changed
    <3>3. QED BY <1>1, <1>3, <1>4, <2>1, <3>1, <3>2 DEF Changed
  <2>2. CASE Left(s[t], stack'[t])
    <3>1. i \in 1..(n - 1) /\ i \in 1..n
      BY <1>1, <2>2 DEF Left
    <3>2. QED BY <1>1, <1>3, <2>2, <3>1 DEF Left
  <2>3. QED BY <1>1, <2>1, <2>2
<1>6. QED BY <1>1, <1>3, <1>5 DEF FramesOK

\* The frame of a new await.
AwaitFrame(t, n) == IF t \in Workers THEN LoopFrame("await", n)
                                     ELSE [LoopFrame("foreign", n) EXCEPT !.pc = "sleep"]

\* The frame of a new await is a loop frame with n values to wait for.
LEMMA AwaitLoop ==
  ASSUME NEW t, NEW n \in Nat, NEW d \in Nat, d # 1
  PROVE  LET g == AwaitFrame(t, n)
         IN  /\ LoopOK(t, d, g) /\ g.is = "loop" /\ g.left = n
             /\ g.kind = IF t \in Workers THEN "await" ELSE "foreign"
             /\ g.pc = IF t \in Workers THEN "keep" ELSE "sleep"
<1>1. CASE t \in Workers
  <2>1. AwaitFrame(t, n) = [is |-> "loop", kind |-> "await", pc |-> "keep", left |-> n]
    BY <1>1 DEF AwaitFrame, LoopFrame
  <2>2. QED BY <1>1, <2>1 DEF LoopOK, LoopFrames, LoopPoints
<1>2. CASE t \notin Workers
  <2>1. AwaitFrame(t, n) = [is |-> "loop", kind |-> "foreign", pc |-> "sleep", left |-> n]
    BY <1>2 DEF AwaitFrame, LoopFrame
  <2>2. QED BY <1>2, <2>1 DEF LoopOK, LoopFrames, LoopPoints
<1>3. QED BY <1>1, <1>2

\* The waiters of a value, to be handed over by a foreign thread.
Handed(q) == [i \in DOMAIN q |-> [item |-> q[i], to |-> AnyWorker]]

\* The waiters of a value make a list of handovers, empty if there are none.
LEMMA HandedFacts ==
  ASSUME NEW q \in Seq(Items)
  PROVE  Handed(q) \in Seq(Handovers) /\ (Handed(q) = <<>> <=> q = <<>>)
<1> DEFINE r == Handed(q)
<1>1. Len(q) \in Nat /\ DOMAIN q = 1..Len(q) /\ \A i \in 1..Len(q) : q[i] \in Items
  BY LenProperties
<1>2. r \in [1..Len(q) -> Handovers]
  BY <1>1 DEF Handovers, Handed
<1>3. r \in Seq(Handovers) /\ DOMAIN r = DOMAIN q
  BY <1>1, <1>2 DEF Seq
<1> HIDE DEF r
<1>4. Len(r) = Len(q)
  BY <1>1, <1>3, LenProperties
<1>5. QED BY <1>3, <1>4, EmptySeq DEF r

\* The calls of a program keep the types.
LEMMA CallTypes ==
  ASSUME StacksOK, TypeInv, NEW t \in Threads,
         CallAddTask(t) \/ CallEmplace(t) \/ CallAndThen(t) \/ CallAwait(t) \/ AwaitRegister(t)
  PROVE  TypeInv'
<1> USE DEF queues, values
<1>s. FramesOK /\ QueuesOK /\ HistoryOK
  BY DEF TypeInv
<1>1. CASE CallAddTask(t)
  <2> DEFINE h == [item |-> TaskItem(Arg(t).task), to |-> Arg(t).to]
             q == <<h>>
             f == [Past(t) EXCEPT !.pc = IF q = <<>> THEN "op" ELSE "add", !.todo = q]
  <2>1. /\ Calls(t, "addTask") /\ SetTop(t, [Past(t) EXCEPT !.pc = "add", !.todo = q])
        /\ added' = added \cup {Arg(t).task}
        /\ UNCHANGED <<prog, queues, doneFlag, values, joined, ran>>
    BY <1>1 DEF CallAddTask
  <2>2. At(t, "prog", "op") /\ Arg(t).task \in Tasks /\ h \in Handovers
    BY <1>s, <2>1, CallAt, ItemMakers DEF Handovers
  <2>3. q \in Seq(Handovers) /\ q # <<>>
    BY <2>2
  <2>4. SetTop(t, f)
    BY <2>1, <2>3
  <2>5. ProgOK(prog, t, Len(stack[t]), f)
    BY <1>s, <2>2, <2>3, GivingFrame
  <2> HIDE DEF f
  <2>6. FramesOK'
    BY <1>s, <2>1, <2>2, <2>4, <2>5, ProgTypes
  <2>7. QueuesOK'
    BY <1>s, <2>1 DEF QueuesOK
  <2>8. HistoryOK'
    BY <1>s, <2>1, <2>2 DEF HistoryOK
  <2>9. QED BY <2>6, <2>7, <2>8 DEF TypeInv
<1>2. CASE CallEmplace(t)
  <2> DEFINE v == Arg(t).value
             q == Handed(waiters[v])
             f == [Past(t) EXCEPT !.pc = IF q = <<>> THEN "op" ELSE "add", !.todo = q]
  <2>1. /\ Calls(t, "emplace") /\ ready' = ready \cup {v}
        /\ waiters' = [waiters EXCEPT ![v] = <<>>]
        /\ IF t \in Workers
           THEN local' = [local EXCEPT ![t] = local[t] \o waiters[v]] /\ SetTop(t, Past(t))
           ELSE /\ local' = local
                /\ SetTop(t, [Past(t) EXCEPT !.pc = IF waiters[v] = <<>> THEN "op" ELSE "add",
                                             !.todo = q])
        /\ UNCHANGED <<prog, ring, spill, taskList, overflow, doneFlag, joined, added, ran>>
    BY <1>2 DEF CallEmplace, Handed
  <2>2. At(t, "prog", "op") /\ v \in Values
    BY <1>s, <2>1, CallAt
  <2>3. waiters[v] \in Seq(Items)
    BY <1>s, <2>2 DEF QueuesOK
  <2>4. q \in Seq(Handovers) /\ (q = <<>> <=> waiters[v] = <<>>)
    BY <2>3, HandedFacts
  <2> HIDE DEF v
  <2>5. FramesOK'
    <3>1. CASE t \in Workers
      <4>1. SetTop(t, [Past(t) EXCEPT !.pc = "op"])
        BY <1>s, <2>1, <2>2, <3>1, PastFrame
      <4>2. ProgOK(prog, t, Len(stack[t]), [Past(t) EXCEPT !.pc = "op"])
        BY <1>s, <2>2, PastFrame
      <4>3. QED BY <1>s, <2>1, <2>2, <4>1, <4>2, ProgTypes
    <3>2. CASE t \notin Workers
      <4>1. SetTop(t, f)
        BY <2>1, <2>4, <3>2
      <4> HIDE DEF q
      <4>2. ProgOK(prog, t, Len(stack[t]), f)
        BY <1>s, <2>2, <2>4, GivingFrame
      <4> HIDE DEF f
      <4>3. QED BY <1>s, <2>1, <2>2, <4>1, <4>2, ProgTypes
    <3>3. QED BY <3>1, <3>2
  <2> HIDE DEF q, f
  <2>6. QueuesOK'
    <3>1. t \in Workers => local[t] \o waiters[v] \in Seq(Items)
      BY <1>s, <2>3, ConcatFacts DEF QueuesOK
    <3>2. local' \in [Workers -> Seq(Items)]
      BY <1>s, <2>1, <3>1 DEF QueuesOK
    <3>3. waiters' \in [Values -> Seq(Items)]
      <4>1. <<>> \in Seq(Items)
        OBVIOUS
      <4>2. QED BY <1>s, <2>1, <4>1 DEF QueuesOK
    <3>4. QED BY <1>s, <2>1, <3>2, <3>3 DEF QueuesOK
  <2>7. HistoryOK'
    BY <1>s, <2>1, <2>2 DEF HistoryOK
  <2>8. QED BY <2>5, <2>6, <2>7 DEF TypeInv
<1>3. CASE CallAndThen(t)
  <2> DEFINE v == Arg(t).value
             it == TaskItem(Arg(t).task)
             f == [Past(t) EXCEPT !.pc = "op"]
  <2>1. /\ Calls(t, "andThen") /\ added' = added \cup {Arg(t).task}
        /\ UNCHANGED <<prog, queues, doneFlag, ready, joined>>
        /\ IF v \in ready
           THEN Run(t, Past(t), it) /\ UNCHANGED waiters
           ELSE /\ waiters' = [waiters EXCEPT ![v] = Append(waiters[v], it)]
                /\ SetTop(t, Past(t)) /\ UNCHANGED ran
    BY <1>3 DEF CallAndThen
  <2>2. At(t, "prog", "op") /\ v \in Values /\ Arg(t).task \in Tasks /\ it \in Items
    BY <1>s, <2>1, CallAt, ItemMakers
  <2>3. Past(t) = f /\ ProgOK(prog, t, Len(stack[t]), f)
    BY <1>s, <2>2, PastFrame
  <2>4. stack[t] # <<>> /\ Len(stack[t]) \in Nat /\ Len(stack[t]) > 0
    BY <1>s, <2>2, ProgAt
  <2> HIDE DEF f, it, v
  <2>5. FramesOK' /\ ran' \in [Tasks -> Nat]
    <3>1. CASE v \in ready
      <4>1. CallWith(t, f, FrameOf(it)) /\ ran' \in [Tasks -> Nat]
        BY <1>s, <2>1, <2>2, <2>3, <3>1, ItemKinds DEF Run, HistoryOK
      <4>2. FrameOK(prog, t, Len(stack[t]) + 1, FrameOf(it))
        BY <2>2, <2>4, RunFrame
      <4>3. QED BY <1>s, <2>1, <2>3, <2>4, <4>1, <4>2, FramesCall DEF FrameOK
    <3>2. CASE v \notin ready
      BY <1>s, <2>1, <2>2, <2>3, <3>2, ProgTypes DEF HistoryOK
    <3>3. QED BY <3>1, <3>2
  <2>6. QueuesOK'
    <3>1. Append(waiters[v], it) \in Seq(Items)
      BY <1>s, <2>2, AppendFacts DEF QueuesOK
    <3>2. waiters' \in [Values -> Seq(Items)]
      BY <1>s, <2>1, <3>1 DEF QueuesOK
    <3>3. QED BY <1>s, <2>1, <3>2 DEF QueuesOK
  <2>7. HistoryOK'
    BY <1>s, <2>1, <2>2, <2>5 DEF HistoryOK
  <2>8. QED BY <2>5, <2>6, <2>7 DEF TypeInv
<1>4. CASE CallAwait(t)
  <2>1. /\ Calls(t, "await")
        /\ SetTop(t, Past(t)) \/ Goto(t, "register")
        /\ UNCHANGED <<prog, queues, doneFlag, values, joined, added, ran>>
    BY <1>4 DEF CallAwait
  <2>2. At(t, "prog", "op")
    BY <1>s, <2>1, CallAt
  <2>3. FramesOK'
    <3>1. CASE SetTop(t, Past(t))
      BY <1>s, <2>1, <2>2, <3>1, PastFrame, ProgTypes
    <3>2. CASE Goto(t, "register")
      <4> DEFINE f == [Top(t) EXCEPT !.pc = "register"]
      <4>1. ProgOK(prog, t, Len(stack[t]), f)
        <5>1. "register" \notin Giving \cup Given /\ "register" \notin Closing
          BY DEF Giving, Given, Closing
        <5>2. QED BY <1>s, <2>1, <2>2, <5>1, PointFrame
      <4>2. SetTop(t, f)
        BY <3>2 DEF Goto
      <4> HIDE DEF f
      <4>3. QED BY <1>s, <2>1, <2>2, <4>1, <4>2, ProgTypes
    <3>3. QED BY <2>1, <3>1, <3>2
  <2>4. QueuesOK'
    BY <1>s, <2>1 DEF QueuesOK
  <2>5. HistoryOK'
    BY <1>s, <2>1 DEF HistoryOK
  <2>6. QED BY <2>3, <2>4, <2>5 DEF TypeInv
<1>5. CASE AwaitRegister(t)
  <2> DEFINE missing == Arg(t).values \ ready
             n == Cardinality(missing)
             f == [Past(t) EXCEPT !.pc = "op"]
             g == AwaitFrame(t, n)
             d == Len(stack[t]) + 1
  <2>1. /\ At(t, "prog", "register") /\ CallWith(t, f, g)
        /\ waiters' = [v \in Values |-> IF v \in missing THEN Append(waiters[v], WakeItem(t, d, v))
                                                         ELSE waiters[v]]
        /\ UNCHANGED <<prog, queues, doneFlag, ready, joined, added, ran>>
    BY <1>5 DEF AwaitRegister, AwaitFrame
  <2>2. n \in Nat
    BY <1>s, <2>1, RegisterFacts
  <2>3. stack[t] # <<>> /\ Len(stack[t]) \in Nat /\ Len(stack[t]) > 0 /\ d \in Nat /\ d # 1
    BY <1>s, <2>1, ProgAt
  <2>4. FrameOK(prog, t, Len(stack[t]), f)
    BY <1>s, <2>1, PastFrame DEF FrameOK
  <2>5. FrameOK(prog, t, d, g)
    BY <2>2, <2>3, AwaitLoop DEF FrameOK
  <2> HIDE DEF f, g, n, missing
  <2>6. FramesOK'
    BY <1>s, <2>1, <2>3, <2>4, <2>5, FramesCall
  <2>7. QueuesOK'
    <3>1. \A v \in Values : Append(waiters[v], WakeItem(t, d, v)) \in Seq(Items)
      BY <1>s, <2>3, ItemMakers, AppendFacts DEF QueuesOK
    <3>2. waiters' \in [Values -> Seq(Items)]
      BY <1>s, <2>1, <3>1 DEF QueuesOK
    <3>3. QED BY <1>s, <2>1, <3>2 DEF QueuesOK
  <2>8. HistoryOK'
    BY <1>s, <2>1 DEF HistoryOK
  <2>9. QED BY <2>6, <2>7, <2>8 DEF TypeInv
<1>6. QED BY <1>1, <1>2, <1>3, <1>4, <1>5

\* The other steps of a program keep the types.
LEMMA EndTypes ==
  ASSUME StacksOK, TypeInv, NEW t \in Threads,
         \/ WakeDecrement(t) \/ WakePost(t) \/ CallShutdown(t) \/ ShutdownFlag(t)
         \/ ShutdownPost(t) \/ ShutdownClear(t) \/ ShutdownJoin(t) \/ Finish(t)
  PROVE  TypeInv'
<1> USE DEF queues, values
<1>s. FramesOK /\ QueuesOK /\ HistoryOK
  BY DEF TypeInv
<1>q. UNCHANGED <<prog, queues, values, added, ran>>
  BY DEF WakeDecrement, WakePost, CallShutdown, ShutdownFlag, ShutdownPost, ShutdownClear,
         ShutdownJoin, Finish
<1>b. doneFlag' \in BOOLEAN /\ joined' \in BOOLEAN
  BY <1>s DEF WakeDecrement, WakePost, CallShutdown, ShutdownFlag, ShutdownPost, ShutdownClear,
              ShutdownJoin, Finish, HistoryOK
<1>1. QueuesOK' /\ HistoryOK'
  BY <1>s, <1>q, <1>b DEF QueuesOK, HistoryOK
<1>2. CASE WakeDecrement(t)
  BY <1>s, <1>q, <1>1, <1>2, DecrementTypes DEF TypeInv
<1>3. CASE WakePost(t) \/ Finish(t)
  <2>1. PICK k, l : At(t, k, l) /\ Return(t)
    BY <1>3 DEF WakePost, Finish
  <2>2. QED BY <1>s, <1>q, <1>1, <2>1, BackTypes DEF TypeInv
<1>4. CASE CallShutdown(t)
  <2> DEFINE f == [Past(t) EXCEPT !.pc = "done"]
             g == LoopFrame("shutdown", 0)
  <2>1. /\ Calls(t, "shutdown")
        /\ SetTop(t, f) \/ CallWith(t, f, g)
    BY <1>4 DEF CallShutdown
  <2>2. t = Main /\ Len(stack[t]) = 1 /\ ProgOK(prog, t, 1, f)
    BY <1>s, <2>1, ShutdownFrame
  <2>3. LoopOK(t, 2, g)
    BY <2>2 DEF LoopOK, LoopFrames, LoopFrame, LoopPoints
  <2>4. stack[t] # <<>> /\ At(t, "prog", "op")
    BY <2>1 DEF Calls, At
  <2> HIDE DEF f, g
  <2>5. FramesOK'
    <3>1. FrameOK(prog, t, Len(stack[t]), f) /\ FrameOK(prog, t, Len(stack[t]) + 1, g)
      BY <2>2, <2>3 DEF FrameOK
    <3>2. QED BY <1>s, <1>q, <2>1, <2>4, <3>1, FramesSet, FramesCall
  <2>6. QED BY <1>1, <2>5 DEF TypeInv
<1>5. CASE ShutdownFlag(t) \/ ShutdownPost(t) \/ ShutdownClear(t) \/ ShutdownJoin(t)
  <2>1. PICK l \in Closing, m \in Closing \cup {"op"} : At(t, "prog", l) /\ Goto(t, m)
    BY <1>5 DEF ShutdownFlag, ShutdownPost, ShutdownClear, ShutdownJoin, Closing
  <2>2. /\ m \notin Giving \cup Given \cup {"register"} /\ m # "spill" /\ m # "take" /\ m # "post"
        /\ (m \in Closing => l \in Closing)
    BY DEF Closing, Giving, Given
  <2> DEFINE f == [Top(t) EXCEPT !.pc = m]
  <2>3. ProgOK(prog, t, Len(stack[t]), f)
    BY <1>s, <2>1, <2>2, PointFrame
  <2>4. SetTop(t, f)
    BY <2>1 DEF Goto
  <2> HIDE DEF f
  <2>5. QED BY <1>s, <1>q, <1>1, <2>1, <2>3, <2>4, ProgTypes DEF TypeInv
<1>6. QED BY <1>2, <1>3, <1>4, <1>5

\* The types hold in the beginning.
LEMMA TypesStart == Init => TypeInv
<1> SUFFICES ASSUME Init PROVE TypeInv
  OBVIOUS
<1>e. <<>> \in Seq(Items) /\ <<>> \in Seq(Handovers) /\ AnyWorker \in Int
  BY DEF AnyWorker
<1>1. QueuesOK /\ HistoryOK
  BY <1>e DEF Init, QueuesOK, HistoryOK
<1>2. ASSUME NEW t \in Threads, NEW d \in 1..Len(stack[t]) PROVE FrameOK(prog, t, d, stack[t][d])
  <2> DEFINE f == IF t \in Clients THEN ProgFrame(t) ELSE LoopFrame("worker", 0)
  <2>1. stack[t] = <<f>>
    BY DEF Init
  <2> HIDE DEF f
  <2>2. d = 1 /\ stack[t][d] = f
    BY <2>1
  <2>3. CASE t \in Clients
    <3>1. f = ProgFrame(t)
      BY <2>3 DEF f
    <3>2. f \in ProgFrames /\ f.pc = "op" /\ f.id = t
      BY <1>e, <2>3, <3>1 DEF ProgFrame, ProgFrames
    <3>3. QED BY <2>2, <2>3, <3>2 DEF FrameOK, ProgOK, Giving, Given, Closing
  <2>4. CASE t \notin Clients
    <3>1. f = LoopFrame("worker", 0)
      BY <2>4 DEF f
    <3>2. f \in LoopFrames /\ f.kind = "worker"
      BY <3>1 DEF LoopFrame, LoopFrames, LoopPoints
    <3>3. QED BY <2>2, <2>4, <3>2 DEF FrameOK, LoopOK
  <2>5. QED BY <2>3, <2>4
<1>3. QED BY <1>1, <1>2 DEF TypeInv, FramesOK

\* And every step keeps them.
LEMMA TypesStep == PoolInv /\ TypeInv /\ [Next]_vars => TypeInv'
<1> SUFFICES ASSUME PoolInv, TypeInv, [Next]_vars PROVE TypeInv'
  OBVIOUS
<1>p. StacksOK /\ PoolTypes
  BY DEF PoolInv
<1>1. CASE UNCHANGED vars
  BY <1>1 DEF vars, queues, values, TypeInv, FramesOK, QueuesOK, HistoryOK
<1>2. ASSUME NEW t \in Threads, Step(t) PROVE TypeInv'
  BY <1>p, <1>2, LoopTypes, AddTypes, CallTypes, EndTypes DEF Step, Execute
<1>3. QED BY <1>1, <1>2 DEF Next, Terminated

\* The items of the lists are what the type invariant of the model says.
LEMMA TypesEnough == PoolInv /\ TypeInv => TypeOK
<1> SUFFICES ASSUME PoolInv, TypeInv PROVE TypeOK
  OBVIOUS
<1>1. \A it \in Items : IsItem(it)
  BY ItemKinds DEF IsItem
<1>2. \A s \in Seq(Items) : \A it \in Range(s) : it \in Items
  BY DEF Range
<1>3. QED BY <1>1, <1>2 DEF PoolInv, PoolTypes, StacksOK, TypeInv, QueuesOK, HistoryOK, TypeOK

-----------------------------------------------------------------------------
(* The frames below the innermost one *)

\* The same frame, but perhaps for numRemaining.
Like(f, g) == /\ g.is = f.is /\ g.pc = f.pc
              /\ f.is = "loop" => g.kind = f.kind
              /\ f.is # "loop" => g = f

\* What every step does to the stacks.
Shaped(t) ==
  /\ stack[t] # <<>> /\ Len(stack[t]) \in Nat /\ Len(stack[t]) > 0
  /\ \A u \in Threads \ {t} : /\ Len(stack'[u]) = Len(stack[u])
                              /\ \A i \in 1..Len(stack[u]) : Like(stack[u][i], stack'[u][i])
  /\ Len(stack'[t]) \in {Len(stack[t]) - 1, Len(stack[t]), Len(stack[t]) + 1}
  /\ \A i \in 1..(Len(stack[t]) - 1) : Like(stack[t][i], stack'[t][i])

\* A step that touches the stack of its own thread only.
LEMMA ShapedMove ==
  ASSUME StacksOK, NEW t \in Threads, stack[t] # <<>>,
         \/ \E f : SetTop(t, f)
         \/ \E f, g : CallWith(t, f, g)
         \/ Return(t)
  PROVE  Shaped(t)
<1>1. Len(stack[t]) \in Nat /\ Len(stack[t]) > 0
  BY StackLen
<1>2. \A f : Like(f, f)
  BY DEF Like
<1>3. ASSUME NEW f, SetTop(t, f) PROVE Shaped(t)
  <2>1. OthersStay(t) /\ Changed(stack[t], stack'[t], f)
    BY <1>3, SetShape
  <2>2. QED BY <1>1, <1>2, <2>1 DEF Shaped, OthersStay, Changed
<1>4. ASSUME NEW f, NEW g, CallWith(t, f, g) PROVE Shaped(t)
  <2>1. OthersStay(t) /\ Entered(stack[t], stack'[t], f, g)
    BY <1>4, CallShape
  <2>2. QED BY <1>1, <1>2, <2>1 DEF Shaped, OthersStay, Entered
<1>5. CASE Return(t)
  <2>1. OthersStay(t) /\ Left(stack[t], stack'[t])
    BY <1>5, ReturnShape
  <2>2. QED BY <1>1, <1>2, <2>1 DEF Shaped, OthersStay, Left
<1>6. QED BY <1>3, <1>4, <1>5

\* The closure of an await changes one more frame.
LEMMA ShapedDecrement ==
  ASSUME StacksOK, FramesOK, NEW t \in Threads, WakeDecrement(t)
  PROVE  /\ Shaped(t) /\ At(t, "wake", "decrement") /\ Len(stack[t]) > 1
         /\ \/ /\ Len(stack'[t]) = Len(stack[t])
               /\ stack'[t][Len(stack[t])] = [Top(t) EXCEPT !.pc = "post"]
            \/ Len(stack'[t]) = Len(stack[t]) - 1
<1> DEFINE u == Top(t).thread
           d == Top(t).depth
           s == CountedStack(u, d)
           n == Len(stack[t])
           f == [Top(t) EXCEPT !.pc = "post"]
<1>1. /\ u \in Threads /\ d \in Nat /\ n \in Nat /\ n > 1 /\ Len(s[t]) = n
      /\ At(t, "wake", "decrement") /\ Top(t) = stack[t][n]
      /\ DOMAIN stack' = Threads /\ \A x \in Threads \ {t} : stack'[x] = s[x]
      /\ Changed(s[t], stack'[t], f) \/ Left(s[t], stack'[t])
  BY DecrementShape
<1>2. \A x \in Threads :
        /\ Len(s[x]) = Len(stack[x])
        /\ \A i \in 1..Len(stack[x]) :
             s[x][i] = IF x = u /\ i = d THEN CountedFrame(stack[x][i]) ELSE stack[x][i]
  BY <1>1, CountShape
<1> HIDE DEF s, u, d, f
<1>3. ASSUME NEW x \in Threads, NEW i \in 1..Len(stack[x]) PROVE Like(stack[x][i], s[x][i])
  <2>1. FrameOK(prog, x, i, stack[x][i])
    BY DEF FramesOK
  <2>2. Like(stack[x][i], CountedFrame(stack[x][i]))
    <3> DEFINE h == stack[x][i]
               g == CountedFrame(stack[x][i])
    <3>1. /\ g.is = h.is /\ g.pc = h.pc /\ (h.is # "loop" => g = h)
          /\ h.is = "loop" => g.kind = h.kind
      BY <2>1, CountFrame
    <3> HIDE DEF g, h
    <3>2. Like(h, g)
      BY <3>1 DEF Like
    <3>3. QED BY <3>2 DEF g, h
  <2>3. QED BY <1>2, <2>2 DEF Like
<1>4. \A i \in 1..(n - 1) : i \in 1..n
  BY <1>1
<1> HIDE DEF n
<1>5. /\ \A i \in 1..(n - 1) : stack'[t][i] = s[t][i]
      /\ \/ Len(stack'[t]) = n /\ stack'[t][n] = f
         \/ Len(stack'[t]) = n - 1
  BY <1>1 DEF Changed, Left
<1>6. stack[t] # <<>>
  BY <1>1 DEF At
<1>7. Shaped(t)
  <2>1. \A i \in 1..(n - 1) : Like(stack[t][i], stack'[t][i])
    BY <1>3, <1>4, <1>5 DEF n
  <2>2. \A x \in Threads \ {t} : /\ Len(stack'[x]) = Len(stack[x])
                                 /\ \A i \in 1..Len(stack[x]) : Like(stack[x][i], stack'[x][i])
    BY <1>1, <1>2, <1>3
  <2>3. QED BY <1>1, <1>5, <1>6, <2>1, <2>2 DEF Shaped, n
<1>8. QED BY <1>1, <1>5, <1>7 DEF f, n

\* Every step.
LEMMA StepShaped ==
  ASSUME StacksOK, FramesOK, NEW t \in Threads, Step(t) PROVE Shaped(t)
<1> DEFINE M == /\ stack[t] # <<>>
                /\ (\E f : SetTop(t, f)) \/ (\E f, g : CallWith(t, f, g)) \/ Return(t)
<1>1. CASE RunItems(t)
  <2>1. M
    BY <1>1 DEF RunItems, KeepRunning, RunLocal, PollAffinity, PollGlobal, SpinStop, PumpSpill,
                PumpOverflow, MarkSuspended, PreSuspendStop, WakeUp, Goto, Run, At
  <2>2. QED BY <2>1, ShapedMove
<1>2. CASE AddTask(t)
  <2>1. M
    BY <1>2 DEF AddTask, AddAffinity, AddSpill, TakeSuspended, AddGlobal, TakeAny, Post,
                AddOverflow, Goto, At
  <2>2. QED BY <2>1, ShapedMove
<1>3. CASE WakeDecrement(t)
  BY <1>3, ShapedDecrement
<1>4. CASE Execute(t) /\ ~ WakeDecrement(t)
  <2>1. M
    BY <1>4 DEF Execute, CallAddTask, CallEmplace, CallAndThen, CallAwait, AwaitRegister,
                WakePost, CallShutdown, ShutdownFlag, ShutdownPost, ShutdownClear, ShutdownJoin,
                Finish, Calls, Goto, Run, At
  <2>2. QED BY <2>1, ShapedMove
<1>5. QED BY <1>1, <1>2, <1>3, <1>4 DEF Step

-----------------------------------------------------------------------------
(* Shutdown *)

\* The points of runItemsImpl after the local list has been found empty.
AfterLocal == LoopPoints \ {"keep", "local"}

\* A worker has nothing in its local list when it looks elsewhere and when it
\* has left.
LocalInv ==
  \A w \in Workers :
    \/ local[w] = <<>>
    \/ ~ Looping(stack[w], AfterLocal) /\ (w # Main => stack[w] # <<>>)

\* The main thread is in shutdown, is past running the items it finds.
Shutting == joined \/ (stack[Main] # <<>> /\ stack[Main][1].pc \in Closing)
Closed == joined \/ (Len(stack[Main]) = 1 /\ stack[Main][1].pc \in Closing)

\* The thread will poll the shared list before it may leave.
Looking(s) == s # <<>> /\ ~ (Looping(s, {"spinStop"}) /\ Tip(s).kind = "worker")

DrainInv ==
  /\ Shutting => \A u \in Foreign : stack[u] = <<>>
  /\ Shutting /\ Len(stack[Main]) > 1 =>
       stack[Main][2].is = "loop" /\ stack[Main][2].kind = "shutdown"
  /\ joined => /\ \A w \in Workers \ {Main} : stack[w] = <<>>
               /\ stack[Main] # <<>> =>
                    Len(stack[Main]) = 1 /\ stack[Main][1].pc = "op"
                                         /\ stack[Main][1].ip > Len(prog[Main])
  /\ Closed => /\ local[Main] = <<>>
               /\ taskList # {} => \E w \in Workers \ {Main} : Looking(stack[w])

\* A step of runItemsImpl: it goes to another point, runs an item or returns.
\* It leaves the loop for the local list only when the list is empty, tests
\* doneFlag only when it has just found the shared list empty, and a worker's
\* first loop and that of shutdown return only after that.
LoopMoved(t) ==
  LET s == stack[t]
      r == stack'[t]
  IN  /\ joined' = joined /\ \A w \in Workers \ {t} : local'[w] = local[w]
      /\ At(t, "loop", Top(t).pc) /\ Top(t).pc \in LoopPoints
      /\ \/ \E f : /\ Changed(s, r, f) /\ f.is = "loop" /\ f.kind = Top(t).kind
                   /\ f.pc \in AfterLocal =>
                        local' = local /\ (Top(t).pc \in AfterLocal \/ local[t] = <<>>)
                   /\ f.pc = "spinStop" => taskList' = {}
         \/ \E f, g : /\ Entered(s, r, f, g) /\ f.is = "loop" /\ f.kind = Top(t).kind
                      /\ g.is # "loop"
         \/ /\ Left(s, r) /\ taskList' = taskList /\ local' = local
            /\ Top(t).kind = "worker" => Top(t).pc = "spinStop"
            /\ Top(t).kind = "shutdown" => taskList = {} /\ Top(t).pc \in AfterLocal

\* Every step of runItemsImpl moves like that.
LEMMA LoopMoves ==
  ASSUME StacksOK, TypeInv, NEW t \in Threads, RunItems(t) PROVE LoopMoved(t)
<1> USE DEF queues, values
<1>s. FramesOK /\ QueuesOK
  BY DEF TypeInv
<1> DEFINE s == stack[t]
           r == stack'[t]
<1>t. PICK l : At(t, "loop", l)
  BY DEF RunItems, KeepRunning, RunLocal, PollAffinity, PollGlobal, SpinStop, PumpSpill,
         PumpOverflow, MarkSuspended, PreSuspendStop, WakeUp
<1>0. /\ s # <<>> /\ At(t, "loop", Top(t).pc) /\ Top(t).pc \in LoopPoints /\ Top(t) \in LoopFrames
  <2>1. LoopOK(t, Len(stack[t]), Top(t)) /\ Top(t).pc = l /\ s # <<>>
    BY <1>s, <1>t, TipKinds
  <2>2. QED BY <1>t, <2>1 DEF LoopOK, LoopFrames
<1>j. joined' = joined
  BY DEF RunItems, KeepRunning, RunLocal, PollAffinity, PollGlobal, SpinStop, PumpSpill,
         PumpOverflow, MarkSuspended, PreSuspendStop, WakeUp
<1>w. \A w \in Workers \ {t} : local'[w] = local[w]
  BY <1>s DEF QueuesOK, RunItems, KeepRunning, RunLocal, PollAffinity, PollGlobal, SpinStop, PumpSpill,
         PumpOverflow, MarkSuspended, PreSuspendStop, WakeUp
<1>g. ASSUME NEW m, Goto(t, m),
             m \in AfterLocal => local' = local /\ (Top(t).pc \in AfterLocal \/ local[t] = <<>>),
             m = "spinStop" => taskList' = {}
      PROVE  LoopMoved(t)
  <2> DEFINE f == [Top(t) EXCEPT !.pc = m]
  <2>1. f.is = "loop" /\ f.kind = Top(t).kind /\ f.pc = m
    BY <1>0 DEF LoopFrames
  <2>2. SetTop(t, f)
    BY <1>g DEF Goto
  <2> HIDE DEF f
  <2>3. Changed(s, r, f)
    BY <1>0, <2>2, SetShape
  <2>4. QED BY <1>0, <1>j, <1>w, <1>g, <2>1, <2>3 DEF LoopMoved
<1>r. ASSUME NEW f, NEW it, Run(t, f, it), f.is = "loop", f.kind = Top(t).kind PROVE LoopMoved(t)
  <2> DEFINE g == FrameOf(it)
  <2>1. g.is # "loop"
    BY DEF FrameOf, ProgFrame, WakeFrame
  <2>2. CallWith(t, f, g)
    BY <1>r DEF Run
  <2> HIDE DEF g
  <2>3. Entered(s, r, f, g)
    BY <1>0, <2>2, CallShape
  <2>4. QED BY <1>0, <1>j, <1>w, <1>r, <2>1, <2>3 DEF LoopMoved
<1>k. ASSUME NEW it, Run(t, [Top(t) EXCEPT !.pc = "keep"], it) PROVE LoopMoved(t)
  <2> DEFINE f == [Top(t) EXCEPT !.pc = "keep"]
  <2>1. f.is = "loop" /\ f.kind = Top(t).kind
    BY <1>0 DEF LoopFrames
  <2> HIDE DEF f
  <2>2. QED BY <1>k, <1>r, <2>1 DEF f
<1>b. ASSUME Return(t), taskList' = taskList, local' = local,
             Top(t).kind = "worker" => Top(t).pc = "spinStop",
             Top(t).kind = "shutdown" => taskList = {} /\ Top(t).pc \in AfterLocal
      PROVE  LoopMoved(t)
  <2>1. Left(s, r)
    BY <1>0, <1>b, ReturnShape
  <2>2. QED BY <1>0, <1>j, <1>w, <1>b, <2>1 DEF LoopMoved
<1>a. /\ "keep" \notin AfterLocal /\ "local" \notin AfterLocal
      /\ \A x \in {"affinity", "global", "spinAffinity", "spinGlobal", "spinStop", "pumpSpill",
                   "pumpOverflow", "mark", "preAffinity", "preGlobal", "preStop", "sleep"} :
           x \in AfterLocal
  BY DEF AfterLocal, LoopPoints
<1>1. CASE KeepRunning(t)
  BY <1>1, <1>a, <1>b, <1>g DEF KeepRunning, EarlyStop
<1>2. CASE RunLocal(t)
  <2>1. CASE local[t] # <<>>
    BY <1>2, <2>1, <1>0, <1>r DEF RunLocal, At
  <2>2. CASE local[t] = <<>>
    BY <1>2, <2>2, <1>g DEF RunLocal
  <2>3. QED BY <2>1, <2>2
<1>3. ASSUME NEW x, NEW m, m # "spinStop", PollAffinity(t, x, m), x \in AfterLocal PROVE LoopMoved(t)
  <2>1. CASE ring[t] # <<>>
    BY <1>3, <2>1, <1>k DEF PollAffinity
  <2>2. CASE ring[t] = <<>>
    <3>1. Goto(t, m) /\ local' = local /\ Top(t).pc = x
      BY <1>3, <2>2 DEF PollAffinity, At
    <3>2. QED BY <1>3, <1>g, <3>1
  <2>3. QED BY <2>1, <2>2
<1>4. ASSUME NEW x, NEW m, PollGlobal(t, x, m), x \in AfterLocal PROVE LoopMoved(t)
  <2>0. Top(t).pc = x /\ local' = local
    BY <1>4 DEF PollGlobal, At
  <2>1. CASE \E it : Run(t, [Top(t) EXCEPT !.pc = "keep"], it)
    BY <2>1, <1>k
  <2>2. CASE taskList = {} /\ taskList' = taskList /\ Return(t) /\ Top(t).kind = "shutdown"
    BY <1>4, <1>b, <2>0, <2>2
  <2>3. CASE taskList = {} /\ taskList' = taskList /\ Goto(t, m)
    BY <1>4, <1>g, <2>0, <2>3
  <2>4. QED BY <1>4, <2>1, <2>2, <2>3 DEF PollGlobal
<1>5. CASE SpinStop(t)
  <2>0. At(t, "loop", "spinStop") /\ UNCHANGED <<taskList, local>> /\ Top(t).pc = "spinStop"
    BY <1>5 DEF SpinStop, At
  <2>1. CASE EarlyStop(Top(t)) \/ LateStop(Top(t))
    BY <1>5, <2>0, <2>1, <1>b DEF SpinStop, EarlyStop, LateStop
  <2>2. CASE ~ (EarlyStop(Top(t)) \/ LateStop(Top(t)))
    BY <1>5, <2>0, <2>2, <1>a, <1>g DEF SpinStop
  <2>3. QED BY <2>1, <2>2
<1>6. CASE PumpSpill(t) \/ PumpOverflow(t)
  <2>1. Goto(t, "keep") \/ (local' = local /\ (Goto(t, "pumpOverflow") \/ Goto(t, "mark")))
    BY <1>6 DEF PumpSpill, PumpOverflow
  <2>2. Top(t).pc \in AfterLocal
    BY <1>6, <1>a DEF PumpSpill, PumpOverflow, At
  <2>3. QED BY <1>a, <1>g, <2>1, <2>2
<1>7. CASE MarkSuspended(t)
  BY <1>7, <1>a, <1>g DEF MarkSuspended, At
<1>8. CASE PreSuspendStop(t)
  <2>0. At(t, "loop", "preStop") /\ UNCHANGED <<taskList, local>> /\ Top(t).pc = "preStop"
    BY <1>8 DEF PreSuspendStop, At
  <2>1. CASE EarlyStop(Top(t))
    BY <1>8, <2>0, <2>1, <1>b DEF PreSuspendStop, EarlyStop
  <2>2. CASE ~ EarlyStop(Top(t))
    BY <1>8, <2>0, <2>2, <1>a, <1>g DEF PreSuspendStop
  <2>3. QED BY <2>1, <2>2
<1>9. CASE WakeUp(t)
  BY <1>9, <1>a, <1>b, <1>g DEF WakeUp
<1>10. QED BY <1>a, <1>1, <1>2, <1>3, <1>4, <1>5, <1>6, <1>7, <1>8, <1>9 DEF RunItems

\* The steps of a program and of the closure of an await, shutdown aside.
Ordinary(t) ==
  \/ AddTask(t) \/ CallAddTask(t) \/ CallEmplace(t) \/ CallAndThen(t) \/ CallAwait(t)
  \/ AwaitRegister(t) \/ WakeDecrement(t) \/ WakePost(t) \/ Finish(t)

\* They leave a worker at the head of its loop if they leave it in one, end
\* the thread of a client only, and do not begin to shut down.
ProgMoved(t) ==
  LET n == Len(stack[t])
      r == stack'[t]
  IN  /\ joined' = joined /\ \A w \in Workers \ {t} : local'[w] = local[w]
      /\ stack[t] # <<>> /\ Top(t).is # "loop" /\ Top(t).pc \notin Closing
      /\ t \in Workers => ~ Looping(r, AfterLocal)
      /\ t \notin Clients => r # <<>>
      /\ Len(r) >= n => r[n].pc \notin Closing

\* By what happens to the stack.
LEMMA ProgMoveSet ==
  ASSUME StacksOK, FramesOK, NEW t \in Threads, stack[t] # <<>>,
         NEW f, SetTop(t, f), f.is = "prog", f.pc \notin Closing
  PROVE  LET r == stack'[t]
         IN  ~ Looping(r, AfterLocal) /\ r # <<>> /\ r[Len(stack[t])].pc \notin Closing
<1>1. Changed(stack[t], stack'[t], f) /\ Len(stack[t]) \in Nat /\ Len(stack[t]) > 0
  BY SetShape, StackLen
<1>2. QED BY <1>1 DEF Changed, Looping, Tip

\* A program that makes a call does not enter the late part of a loop.
LEMMA ProgMoveCall ==
  ASSUME StacksOK, FramesOK, NEW t \in Threads, stack[t] # <<>>,
         NEW f, NEW g, CallWith(t, f, g), f.pc \notin Closing,
         g.is # "loop" \/ g.pc \notin AfterLocal \/ t \notin Workers
  PROVE  LET r == stack'[t]
         IN  (t \in Workers => ~ Looping(r, AfterLocal)) /\ r # <<>> /\ r[Len(stack[t])].pc \notin Closing
<1>1. Entered(stack[t], stack'[t], f, g) /\ Len(stack[t]) \in Nat /\ Len(stack[t]) > 0
  BY CallShape, StackLen
<1>2. QED BY <1>1 DEF Entered, Looping, Tip

\* The first frame of a thread of the pool is its loop.
LEMMA PoolBottom ==
  ASSUME StacksOK, FramesOK, NEW t \in Threads, t \notin Clients, stack[t] # <<>>,
         Top(t).is # "loop"
  PROVE  Len(stack[t]) > 1
<1>1. Len(stack[t]) \in Nat /\ Len(stack[t]) > 0 /\ FrameOK(prog, t, Len(stack[t]), Top(t))
  BY StackLen DEF FramesOK, Top
<1>2. Len(stack[t]) # 1
  <2>1. FrameOK(prog, t, 1, Top(t)) => Top(t) \in LoopFrames
    BY DEF FrameOK, ProgOK, LoopOK
  <2>2. Top(t) \notin LoopFrames
    BY DEF LoopFrames
  <2>3. QED BY <1>1, <2>1, <2>2
<1>3. \A n \in Nat : n > 0 /\ n # 1 => n > 1
  OBVIOUS
<1>4. QED BY <1>1, <1>2, <1>3

\* A program or closure that returns does not end a thread of the pool.
LEMMA ProgMoveBack ==
  ASSUME StacksOK, FramesOK, NEW t \in Threads, stack[t] # <<>>, Top(t).is # "loop",
         Len(stack'[t]) = Len(stack[t]) - 1, Shaped(t), StacksOK'
  PROVE  LET r == stack'[t]
         IN  ~ Looping(r, AfterLocal) /\ (t \notin Clients => r # <<>>) /\ ~ (Len(r) >= Len(stack[t]))
<1> DEFINE n == Len(stack[t])
           r == stack'[t]
<1>1. n \in Nat /\ n > 0 /\ Len(r) = n - 1 /\ \A i \in 1..(n - 1) : Like(stack[t][i], r[i])
  BY DEF Shaped
<1>2. \A i \in 1..(n - 1) : Resting(stack[t][i])
  BY DEF StacksOK, StackOK
<1>3. t \notin Clients => r # <<>>
  BY <1>1, PoolBottom
<1>4. n > 1 => Resting(stack[t][n - 1]) /\ Like(stack[t][n - 1], Tip(r))
  BY <1>1, <1>2 DEF Tip
<1>5. n = 1 => r = <<>>
  <2>1. r \in Seq(Range(r))
    BY DEF StacksOK, StackOK
  <2>2. QED BY <1>1, <2>1, EmptySeq
<1>6. ~ Looping(r, AfterLocal)
  BY <1>1, <1>4, <1>5 DEF Looping, AfterLocal, Resting, Like
<1>7. QED BY <1>1, <1>3, <1>6

\* Every step of addTask and of the calls but shutdown moves like that.
LEMMA ProgMoves ==
  ASSUME StacksOK, TypeInv, NEW t \in Threads, Ordinary(t), StacksOK' PROVE ProgMoved(t)
<1> USE DEF queues, values
<1>s. FramesOK /\ QueuesOK /\ HistoryOK
  BY DEF TypeInv
<1>t. /\ stack[t] # <<>> /\ Top(t).is # "loop" /\ Top(t).pc \notin Closing
  BY DEF Ordinary, AddTask, AddAffinity, AddSpill, TakeSuspended, AddGlobal, TakeAny, Post,
         AddOverflow, CallAddTask, CallEmplace, CallAndThen, CallAwait, AwaitRegister,
         WakeDecrement, WakePost, Finish, Calls, At, Closing
<1>j. joined' = joined /\ \A w \in Workers \ {t} : local'[w] = local[w]
  BY <1>s DEF QueuesOK, Ordinary, AddTask, AddAffinity, AddSpill, TakeSuspended, AddGlobal,
         TakeAny, Post, AddOverflow, CallAddTask, CallEmplace, CallAndThen, CallAwait,
         AwaitRegister, WakeDecrement, WakePost, Finish
<1>h. Shaped(t)
  BY <1>s, StepShaped DEF Ordinary, Step, Execute
<1> DEFINE P == /\ t \in Workers => ~ Looping(stack'[t], AfterLocal)
                /\ t \notin Clients => stack'[t] # <<>>
                /\ Len(stack'[t]) >= Len(stack[t]) => stack'[t][Len(stack[t])].pc \notin Closing
<1>c. \A l \in {"op", "register"} \cup Giving \cup Given : l \notin Closing
  BY DEF Giving, Given, Closing
<1>1. ASSUME NEW f, SetTop(t, f), f.is = "prog", f.pc \notin Closing PROVE P
  BY <1>s, <1>t, <1>1, ProgMoveSet
<1>e. ASSUME NEW f, NEW g, CallWith(t, f, g), f.pc \notin Closing,
             g.is # "loop" \/ g.pc \notin AfterLocal \/ t \notin Workers
      PROVE  P
  BY <1>s, <1>t, <1>e, ProgMoveCall
<1>b. ASSUME Len(stack'[t]) = Len(stack[t]) - 1 PROVE P
  BY <1>s, <1>t, <1>h, <1>b, ProgMoveBack
<1>n. ASSUME NEW f, Len(stack'[t]) = Len(stack[t]), stack'[t][Len(stack[t])] = f,
             f.is # "loop", f.pc \notin Closing
      PROVE  P
  <2>1. Len(stack[t]) \in Nat /\ Len(stack[t]) > 0
    BY StackLen, <1>t
  <2>2. QED BY <1>n, <2>1 DEF Looping, Tip
<1> HIDE DEF P
<1>2. ASSUME AddTask(t) PROVE P
  <2>1. PICK l \in Giving \cup Given : At(t, "prog", l)
    BY <1>2 DEF AddTask, AddAffinity, AddSpill, TakeSuspended, AddGlobal, TakeAny, Post,
                AddOverflow, Giving, Given
  <2>2. Top(t).is = "prog" /\ Top(t) \in ProgFrames
    BY <1>s, <2>1, ProgAt DEF At
  <2>3. CASE \E m \in Giving \cup Given : Goto(t, m)
    <3>1. PICK m \in Giving \cup Given : Goto(t, m)
      BY <2>3
    <3> DEFINE f == [Top(t) EXCEPT !.pc = m]
    <3>2. f.is = "prog" /\ f.pc = m /\ SetTop(t, f)
      BY <2>2, <3>1 DEF ProgFrames, Goto
    <3> HIDE DEF f
    <3>3. QED BY <1>1, <1>c, <3>2
  <2>4. CASE SetTop(t, Added(Top(t)))
    <3> DEFINE f == Added(Top(t))
    <3>1. f.is = "prog" /\ f.pc \in {"op", "add"}
      BY <1>s, <2>1, AddedFrame
    <3> HIDE DEF f
    <3>2. QED BY <1>1, <1>c, <2>4, <3>1 DEF f, Giving
  <2>5. CASE \E w : SetTop(t, [Top(t) EXCEPT !.pc = "post", !.target = w])
    <3>1. PICK w : SetTop(t, [Top(t) EXCEPT !.pc = "post", !.target = w])
      BY <2>5
    <3> DEFINE f == [Top(t) EXCEPT !.pc = "post", !.target = w]
    <3>2. f.is = "prog" /\ f.pc = "post" /\ SetTop(t, f)
      BY <2>2, <3>1 DEF ProgFrames
    <3> HIDE DEF f
    <3>3. QED BY <1>1, <1>c, <3>2 DEF Given
  <2>6. QED BY <1>2, <2>3, <2>4, <2>5 DEF AddTask, AddAffinity, AddSpill, TakeSuspended,
                AddGlobal, TakeAny, Post, AddOverflow, Giving, Given
<1>3. ASSUME CallAddTask(t) \/ CallEmplace(t) PROVE P
  <2>1. At(t, "prog", "op") /\ Top(t) \in ProgFrames
    <3>1. At(t, "prog", "op")
      BY <1>3 DEF CallAddTask, CallEmplace, Calls
    <3>2. QED BY <1>s, <3>1, ProgAt
  <2>2. Past(t) \in ProgFrames /\ Past(t).pc = "op"
    BY <2>1 DEF Past, ProgFrames, At
  <2>3. CASE SetTop(t, Past(t))
    BY <1>1, <1>c, <2>2, <2>3 DEF ProgFrames
  <2>4. CASE \E l \in {"op", "add"} : \E q : SetTop(t, [Past(t) EXCEPT !.pc = l, !.todo = q])
    <3>0. PICK l \in {"op", "add"} : \E q : SetTop(t, [Past(t) EXCEPT !.pc = l, !.todo = q])
      BY <2>4
    <3>1. PICK q : SetTop(t, [Past(t) EXCEPT !.pc = l, !.todo = q])
      BY <3>0
    <3> DEFINE f == [Past(t) EXCEPT !.pc = l, !.todo = q]
    <3>2. f.is = "prog" /\ f.pc = l
      BY <2>2 DEF ProgFrames
    <3> HIDE DEF f
    <3>3. QED BY <1>1, <1>c, <3>1, <3>2 DEF f, Giving
  <2>5. QED BY <1>3, <2>3, <2>4 DEF CallAddTask, CallEmplace
<1>4. ASSUME CallAndThen(t) PROVE P
  <2> DEFINE g == FrameOf(TaskItem(Arg(t).task))
  <2>1. At(t, "prog", "op") /\ Top(t) \in ProgFrames
    <3>1. At(t, "prog", "op")
      BY <1>4 DEF CallAndThen, Calls
    <3>2. QED BY <1>s, <3>1, ProgAt
  <2>2. Past(t) \in ProgFrames /\ Past(t).pc = "op"
    BY <2>1 DEF Past, ProgFrames, At
  <2>3. g.is # "loop"
    BY DEF FrameOf, ProgFrame, WakeFrame
  <2>4. SetTop(t, Past(t)) \/ CallWith(t, Past(t), g)
    BY <1>4 DEF CallAndThen, Run
  <2> HIDE DEF g
  <2>5. CASE SetTop(t, Past(t))
    BY <1>1, <1>c, <2>2, <2>5 DEF ProgFrames
  <2>6. CASE CallWith(t, Past(t), g)
    BY <1>c, <1>e, <2>2, <2>3, <2>6
  <2>7. QED BY <2>4, <2>5, <2>6
<1>5. ASSUME CallAwait(t) PROVE P
  <2>1. At(t, "prog", "op") /\ Top(t) \in ProgFrames
    <3>1. At(t, "prog", "op")
      BY <1>5 DEF CallAwait, Calls
    <3>2. QED BY <1>s, <3>1, ProgAt
  <2>2. Past(t) \in ProgFrames /\ Past(t).pc = "op"
    BY <2>1 DEF Past, ProgFrames, At
  <2> DEFINE f == [Top(t) EXCEPT !.pc = "register"]
  <2>3. f.is = "prog" /\ f.pc = "register"
    BY <2>1 DEF ProgFrames
  <2>4. SetTop(t, Past(t)) \/ SetTop(t, f)
    BY <1>5 DEF CallAwait, Goto
  <2> HIDE DEF f
  <2>5. QED BY <1>1, <1>c, <2>2, <2>3, <2>4 DEF ProgFrames
<1>6. ASSUME AwaitRegister(t) PROVE P
  <2> DEFINE f == [Past(t) EXCEPT !.pc = "op"]
             k == Cardinality(Arg(t).values \ ready)
             g == AwaitFrame(t, k)
  <2>1. At(t, "prog", "register") /\ CallWith(t, f, g)
    BY <1>6 DEF AwaitRegister, AwaitFrame
  <2>2. f.pc = "op"
    BY <1>s, <2>1, PastFrame
  <2>3. g.pc = IF t \in Workers THEN "keep" ELSE "sleep"
    BY <1>s, <2>1, RegisterFacts, AwaitLoop
  <2> HIDE DEF f, g
  <2>4. "keep" \notin AfterLocal
    BY DEF AfterLocal
  <2>5. QED BY <1>c, <1>e, <2>1, <2>2, <2>3, <2>4
<1>7. ASSUME WakeDecrement(t) PROVE P
  <2> DEFINE f == [Top(t) EXCEPT !.pc = "post"]
  <2>1. /\ At(t, "wake", "decrement") /\ Len(stack[t]) > 1
        /\ \/ Len(stack'[t]) = Len(stack[t]) /\ stack'[t][Len(stack[t])] = f
           \/ Len(stack'[t]) = Len(stack[t]) - 1
    BY <1>s, <1>7, ShapedDecrement
  <2>2. f.is # "loop" /\ f.pc = "post"
    <3>1. Top(t) \in WakeFrames
      BY <1>s, <2>1, TipKinds
    <3>2. QED BY <3>1 DEF WakeFrames
  <2> HIDE DEF f
  <2>3. f.pc \notin Closing
    BY <1>c, <2>2 DEF Given
  <2>4. QED BY <1>b, <1>n, <2>1, <2>2, <2>3
<1>8. ASSUME WakePost(t) \/ Finish(t) PROVE P
  <2>1. Return(t)
    BY <1>8 DEF WakePost, Finish
  <2>2. Len(stack'[t]) = Len(stack[t]) - 1
    BY <1>t, <2>1, ReturnShape DEF Left
  <2>3. QED BY <1>b, <2>2
<1>9. P
  BY <1>2, <1>3, <1>4, <1>5, <1>6, <1>7, <1>8 DEF Ordinary
<1>10. QED BY <1>t, <1>j, <1>9 DEF ProgMoved, P

\* The steps of shutdown of a main thread that donates.
ClosingMoved(t) ==
  LET s == stack[t]
      r == stack'[t]
  IN  /\ t = Main /\ Len(s) = 1 /\ s # <<>> /\ UNCHANGED <<prog, taskList, local>>
      /\ ~ Looping(r, AfterLocal) /\ r # <<>>
      /\ \/ /\ Top(t).pc = "op" /\ Top(t).ip <= Len(prog[Main]) /\ joined' = joined
            /\ \A u \in Foreign : stack[u] = <<>>
            /\ Len(r) = 2 /\ r[2].is = "loop" /\ r[2].kind = "shutdown" /\ r[1].pc \in Closing
         \/ Top(t).pc \in Closing /\ joined' = joined /\ Len(r) = 1 /\ r[1].pc \in Closing
         \/ /\ Top(t).pc \in Closing /\ joined' = TRUE
            /\ \A w \in Workers \ {t} : stack[w] = <<>>
            /\ Len(r) = 1 /\ r[1].pc = "op" /\ r[1].ip > Len(prog[Main])

\* Every step of shutdown moves like that.
LEMMA ClosingMoves ==
  ASSUME StacksOK, TypeInv, MainWillDonate, NEW t \in Threads,
         \/ CallShutdown(t) \/ ShutdownFlag(t) \/ ShutdownPost(t) \/ ShutdownClear(t)
         \/ ShutdownJoin(t)
  PROVE  ClosingMoved(t)
<1> USE DEF queues, values
<1>s. FramesOK /\ QueuesOK /\ HistoryOK
  BY DEF TypeInv
<1>u. UNCHANGED <<prog, taskList, local>>
  BY DEF CallShutdown, ShutdownFlag, ShutdownPost, ShutdownClear, ShutdownJoin
<1>1. CASE CallShutdown(t)
  <2> DEFINE f == [Past(t) EXCEPT !.pc = "done"]
             g == LoopFrame("shutdown", 0)
  <2>1. /\ Calls(t, "shutdown") /\ CallWith(t, f, g) /\ joined' = joined
        /\ \A u \in Foreign : stack[u] = <<>>
    BY <1>1 DEF CallShutdown
  <2>2. t = Main /\ Len(stack[t]) = 1 /\ f.pc = "done"
    BY <1>s, <2>1, ShutdownFrame
  <2>3. g.is = "loop" /\ g.kind = "shutdown" /\ g.pc = "keep"
    BY DEF LoopFrame
  <2>4. /\ stack[t] # <<>> /\ Top(t).pc = "op" /\ Top(t).ip <= Len(prog[Main])
    <3>1. At(t, "prog", "op") /\ Top(t).id = Main /\ Top(t).ip <= Len(prog[Top(t).id])
      BY <1>s, <2>1, CallAt DEF Calls
    <3>2. QED BY <3>1 DEF At
  <2> HIDE DEF f, g
  <2>5. Entered(stack[t], stack'[t], f, g)
    BY <2>1, <2>4, CallShape
  <2>6. /\ Len(stack'[t]) = 2 /\ stack'[t][2] = g /\ stack'[t][1] = f /\ stack'[t] # <<>>
    BY <2>2, <2>5 DEF Entered
  <2>7. ~ Looping(stack'[t], AfterLocal)
    BY <2>3, <2>6 DEF Looping, Tip, AfterLocal
  <2>8. QED BY <1>u, <2>1, <2>2, <2>3, <2>4, <2>6, <2>7 DEF ClosingMoved, Closing
<1>2. CASE ShutdownFlag(t) \/ ShutdownPost(t) \/ ShutdownClear(t) \/ ShutdownJoin(t)
  <2>1. PICK l \in Closing, m \in Closing \cup {"op"} : At(t, "prog", l) /\ Goto(t, m)
                 /\ (IF m = "op" THEN joined' = TRUE /\ \A w \in Workers \ {t} : stack[w] = <<>>
                                  ELSE m \in Closing /\ joined' = joined)
    BY <1>2 DEF ShutdownFlag, ShutdownPost, ShutdownClear, ShutdownJoin, Closing
  <2>2. /\ ProgOK(prog, t, Len(stack[t]), Top(t)) /\ Top(t) \in ProgFrames /\ Top(t).pc = l
        /\ stack[t] # <<>>
    BY <1>s, <2>1, ProgAt
  <2>3. t = Main /\ Len(stack[t]) = 1 /\ Top(t).ip > Len(prog[Main])
    BY <2>2 DEF ProgOK
  <2> DEFINE f == [Top(t) EXCEPT !.pc = m]
  <2>4. f.is = "prog" /\ f.pc = m /\ f.ip = Top(t).ip
    BY <2>2 DEF ProgFrames
  <2>5. SetTop(t, f)
    BY <2>1 DEF Goto
  <2> HIDE DEF f
  <2>6. Changed(stack[t], stack'[t], f)
    BY <2>2, <2>5, SetShape
  <2>7. Len(stack'[t]) = 1 /\ stack'[t][1] = f /\ stack'[t] # <<>>
    BY <2>3, <2>6 DEF Changed
  <2>8. ~ Looping(stack'[t], AfterLocal)
    BY <2>4, <2>7 DEF Looping, Tip
  <2>9. QED BY <1>u, <2>1, <2>2, <2>3, <2>4, <2>7, <2>8 DEF ClosingMoved
<1>3. QED BY <1>1, <1>2

\* The threads of a pool whose main thread donates.
LEMMA Donating ==
  ASSUME MainWillDonate
  PROVE  /\ Main \in Workers /\ Main \in Threads /\ Workers \subseteq Threads
         /\ \A w \in Workers : w # Main => w \notin Clients
         /\ \A t \in Threads : t \in Workers \/ t \in Foreign
         /\ \A t \in Foreign : t \notin Workers /\ t # Main /\ t \in Threads
  BY ConfigAssumption DEF Main, Workers, Clients, Threads

\* What a step of another thread leaves as it is.
LEMMA OtherViews ==
  ASSUME StacksOK, StacksOK', NEW t \in Threads, Shaped(t), NEW u \in Threads \ {t}
  PROVE  /\ stack'[u] = <<>> <=> stack[u] = <<>>
         /\ \A L : Looping(stack'[u], L) <=> Looping(stack[u], L)
         /\ Looking(stack'[u]) <=> Looking(stack[u])
<1>1. Len(stack[u]) \in Nat /\ (stack[u] # <<>> <=> Len(stack[u]) > 0)
  BY StackLen
<1>2. stack'[u] \in Seq(Range(stack'[u]))
  BY DEF StacksOK, StackOK
<1>3. Len(stack'[u]) = Len(stack[u]) /\ \A i \in 1..Len(stack[u]) : Like(stack[u][i], stack'[u][i])
  BY DEF Shaped
<1>4. stack'[u] = <<>> <=> stack[u] = <<>>
  BY <1>1, <1>2, <1>3, EmptySeq
<1>5. stack[u] # <<>> => Like(Tip(stack[u]), Tip(stack'[u]))
  BY <1>1, <1>3 DEF Tip
<1>6. \A L : Looping(stack'[u], L) <=> Looping(stack[u], L)
  BY <1>4, <1>5 DEF Looping, Like
<1>7. QED BY <1>4, <1>5, <1>6 DEF Looking, Looping, Like

\* Every step is of one of these kinds.
LEMMA StepMoves ==
  ASSUME StacksOK, StacksOK', TypeInv, MainWillDonate, NEW t \in Threads, Step(t)
  PROVE  /\ Shaped(t) /\ prog' = prog
         /\ \/ LoopMoved(t)
            \/ ProgMoved(t) /\ (Finish(t) \/ Top(t).is # "prog" \/ Top(t).pc # "op"
                                  \/ Top(t).ip <= Len(prog[Top(t).id]))
            \/ ClosingMoved(t)
<1>s. FramesOK
  BY DEF TypeInv
<1>p. prog' = prog
  BY DEF Step, RunItems, KeepRunning, RunLocal, PollAffinity, PollGlobal, SpinStop, PumpSpill,
         PumpOverflow, MarkSuspended, PreSuspendStop, WakeUp, AddTask, AddAffinity, AddSpill,
         TakeSuspended, AddGlobal, TakeAny, Post, AddOverflow, Execute, CallAddTask, CallEmplace,
         CallAndThen, CallAwait, AwaitRegister, WakeDecrement, WakePost, CallShutdown,
         ShutdownFlag, ShutdownPost, ShutdownClear, ShutdownJoin, Finish
<1>1. CASE RunItems(t)
  BY <1>s, <1>p, <1>1, StepShaped, LoopMoves
<1>2. CASE Ordinary(t)
  <2>1. Finish(t) \/ Top(t).is # "prog" \/ Top(t).pc # "op" \/ Top(t).ip <= Len(prog[Top(t).id])
    BY <1>2 DEF Ordinary, AddTask, AddAffinity, AddSpill, TakeSuspended, AddGlobal, TakeAny, Post,
         AddOverflow, CallAddTask, CallEmplace, CallAndThen, CallAwait, AwaitRegister,
         WakeDecrement, WakePost, Calls, At
  <2>2. QED BY <1>s, <1>p, <1>2, <2>1, StepShaped, ProgMoves
<1>3. CASE CallShutdown(t) \/ ShutdownFlag(t) \/ ShutdownPost(t) \/ ShutdownClear(t)
           \/ ShutdownJoin(t)
  BY <1>s, <1>p, <1>3, StepShaped, ClosingMoves
<1>4. QED BY <1>1, <1>2, <1>3 DEF Step, Execute, Ordinary

\* After a return.
LEMMA BackTip ==
  ASSUME StacksOK, StacksOK', NEW t \in Threads, Shaped(t), Len(stack'[t]) = Len(stack[t]) - 1
  PROVE  /\ Len(stack[t]) = 1 => stack'[t] = <<>>
         /\ Len(stack[t]) # 1 => stack'[t] # <<>> /\ Resting(Tip(stack'[t]))
<1> DEFINE n == Len(stack[t])
           r == stack'[t]
<1>1. n \in Nat /\ n > 0 /\ Len(r) = n - 1 /\ \A i \in 1..(n - 1) : Like(stack[t][i], r[i])
  BY DEF Shaped
<1>2. \A i \in 1..(n - 1) : Resting(stack[t][i])
  BY DEF StacksOK, StackOK
<1>3. n = 1 => r = <<>>
  <2>1. r \in Seq(Range(r))
    BY DEF StacksOK, StackOK
  <2>2. QED BY <1>1, <2>1, EmptySeq
<1>4. n # 1 => r # <<>> /\ Resting(stack[t][n - 1]) /\ Like(stack[t][n - 1], Tip(r))
  <2> HIDE DEF n
  <2>1. n # 1 => n - 1 \in 1..(n - 1) /\ Len(r) # 0
    BY <1>1
  <2>2. QED BY <1>1, <1>2, <2>1 DEF Tip
<1>5. QED BY <1>3, <1>4 DEF Resting, Like

\* What a step leaves of its own thread's local list and of its duty to look
\* at the shared list.
LEMMA OwnDuty ==
  ASSUME StacksOK, StacksOK', TypeInv, LocalInv, MainWillDonate, NEW t \in Workers, Step(t)
  PROVE  /\ \/ local'[t] = <<>>
            \/ ~ Looping(stack'[t], AfterLocal) /\ (t # Main => stack'[t] # <<>>)
         /\ t # Main => \/ Looking(stack'[t])
                        \/ taskList' = {}
                        \/ ~ Looking(stack[t]) /\ taskList' = taskList
<1> DEFINE s == stack[t]
           r == stack'[t]
           n == Len(s)
           A == \/ local'[t] = <<>>
                \/ ~ Looping(r, AfterLocal) /\ (t # Main => r # <<>>)
           B == t # Main => \/ Looking(r)
                            \/ taskList' = {}
                            \/ ~ Looking(s) /\ taskList' = taskList
<1>t. t \in Threads /\ (t # Main => t \notin Clients)
  BY Donating
<1>s. FramesOK
  BY DEF TypeInv
<1>0. /\ Shaped(t) /\ s # <<>> /\ n \in Nat /\ n > 0
      /\ LoopMoved(t) \/ ProgMoved(t) \/ ClosingMoved(t)
  BY <1>t, StepMoves DEF Shaped
<1>1. CASE LoopMoved(t)
  <2>1. /\ At(t, "loop", Top(t).pc) /\ Tip(s) = Top(t)
    BY <1>1 DEF LoopMoved, Tip, Top
  <2>2. Looping(s, {Top(t).pc}) /\ LoopOK(t, n, Top(t))
    BY <1>t, <1>s, <2>1, TipKinds DEF At, Looping
  <2>3. Top(t).pc \in AfterLocal => local[t] = <<>>
    BY <2>2 DEF LocalInv, Looping
  <2>4. ASSUME NEW f, Changed(s, r, f), f.is = "loop",
               f.pc \in AfterLocal => local' = local /\ (Top(t).pc \in AfterLocal \/ local[t] = <<>>),
               f.pc = "spinStop" => taskList' = {}
        PROVE  A /\ B
    <3>1. r # <<>> /\ Tip(r) = f
      BY <1>0, <2>4 DEF Changed, Tip
    <3>2. QED BY <2>3, <2>4, <3>1 DEF Looping, Looking
  <2>5. ASSUME NEW f, NEW g, Entered(s, r, f, g), g.is # "loop" PROVE A /\ B
    <3>1. r # <<>> /\ Tip(r) = g
      BY <1>0, <2>5 DEF Entered, Tip
    <3>2. QED BY <2>5, <3>1 DEF Looping, Looking
  <2>6. ASSUME Left(s, r), taskList' = taskList, local' = local,
               Top(t).kind = "worker" => Top(t).pc = "spinStop"
        PROVE  A /\ B
    <3>1. Len(r) = n - 1
      BY <2>6 DEF Left
    <3>2. CASE n = 1
      <4>1. Top(t).kind = "worker" /\ Top(t).pc = "spinStop"
        BY <2>2, <2>6, <3>2 DEF LoopOK
      <4>2. local'[t] = <<>> /\ ~ Looking(s)
        BY <2>1, <2>2, <2>3, <2>6, <4>1 DEF Looking, AfterLocal, LoopPoints
      <4>3. QED BY <2>6, <4>2
    <3>3. CASE n # 1
      <4>1. r # <<>> /\ Resting(Tip(r))
        BY <1>t, <1>0, <3>1, <3>3, BackTip
      <4>2. QED BY <4>1 DEF Resting, Looping, Looking, AfterLocal
    <3>4. QED BY <3>2, <3>3
  <2>7. QED BY <1>1, <2>4, <2>5, <2>6 DEF LoopMoved
<1>2. CASE ProgMoved(t)
  <2>1. ~ Looping(r, AfterLocal) /\ (t # Main => r # <<>>)
    BY <1>2, <1>t DEF ProgMoved
  <2>2. QED BY <2>1 DEF Looking, Looping, AfterLocal, LoopPoints
<1>3. CASE ClosingMoved(t)
  BY <1>3 DEF ClosingMoved
<1>4. QED BY <1>0, <1>1, <1>2, <1>3

\* A worker that looks elsewhere has run its local list to the end.
LEMMA LocalStep ==
  ASSUME StacksOK, StacksOK', TypeInv, LocalInv, MainWillDonate, NEW t \in Threads, Step(t)
  PROVE  LocalInv'
<1>1. Shaped(t) /\ \A w \in Workers \ {t} : local'[w] = local[w]
  BY StepMoves DEF LoopMoved, ProgMoved, ClosingMoved
<1>2. ASSUME NEW w \in Workers, w # t
      PROVE  \/ local'[w] = <<>>
             \/ ~ Looping(stack'[w], AfterLocal) /\ (w # Main => stack'[w] # <<>>)
  <2>1. w \in Threads \ {t}
    BY <1>2, Donating
  <2>2. QED BY <1>1, <1>2, <2>1, OtherViews DEF LocalInv
<1>3. QED BY <1>2, OwnDuty DEF LocalInv

\* A step of a thread other than the main one.
LEMMA DrainOther ==
  ASSUME StacksOK, StacksOK', TypeInv, TypeInv', LocalInv, DrainInv, MainWillDonate,
         NEW t \in Threads, t # Main, Step(t)
  PROVE  DrainInv'
<1> DEFINE s == stack[Main]
           r == stack'[Main]
<1>m. Main \in Workers /\ Main \in Threads /\ Main \in Threads \ {t}
  BY Donating
<1>1. Shaped(t) /\ prog' = prog /\ (LoopMoved(t) \/ ProgMoved(t))
  BY StepMoves DEF ClosingMoved
<1>2. joined' = joined /\ \A w \in Workers \ {t} : local'[w] = local[w]
  BY <1>1 DEF LoopMoved, ProgMoved
<1>3. /\ Len(r) = Len(s) /\ Len(s) \in Nat /\ (r = <<>> <=> s = <<>>)
      /\ (s # <<>> <=> Len(s) > 0)
      /\ \A i \in 1..Len(s) : Like(s[i], r[i])
  BY <1>m, <1>1, OtherViews, StackLen DEF Shaped
<1>4. s # <<>> => /\ r[1].pc = s[1].pc /\ (s[1].is # "loop" => r[1] = s[1])
  BY <1>3 DEF Like
<1>5. Shutting' = Shutting /\ Closed' = Closed
  <2>1. Shutting' <=> Shutting
    BY <1>2, <1>3, <1>4 DEF Shutting
  <2>2. Closed' <=> Closed
    <3>1. Len(s) = 1 => s # <<>>
      BY <1>3
    <3>2. QED BY <1>2, <1>3, <1>4, <3>1 DEF Closed
  <2>3. QED BY <2>1, <2>2 DEF Shutting, Closed
<1>6. Closed => Shutting
  BY <1>3 DEF Closed, Shutting
<1>7. stack[t] # <<>>
  BY <1>1 DEF Shaped
<1>8. Shutting => t \in Workers
  BY <1>7, Donating DEF DrainInv
<1>9. ~ joined
  BY <1>7, <1>8 DEF DrainInv, Shutting
<1>10. ASSUME Shutting, NEW u \in Foreign PROVE stack'[u] = <<>>
  <2>1. u \in Threads \ {t} /\ stack[u] = <<>>
    BY <1>8, <1>10, Donating DEF DrainInv
  <2>2. QED BY <1>1, <2>1, OtherViews
<1>11. ASSUME Shutting, Len(r) > 1 PROVE r[2].is = "loop" /\ r[2].kind = "shutdown"
  <2>1. s[2].is = "loop" /\ s[2].kind = "shutdown" /\ 2 \in 1..Len(s)
    BY <1>3, <1>11 DEF DrainInv
  <2>2. QED BY <1>3, <2>1 DEF Like
<1>12. ASSUME Closed
       PROVE  /\ local'[Main] = <<>>
              /\ taskList' # {} => \E w \in Workers \ {Main} : Looking(stack'[w])
  <2>1. t \in Workers /\ local'[Main] = <<>>
    BY <1>m, <1>2, <1>6, <1>8, <1>12 DEF DrainInv
  <2>2. \/ Looking(stack'[t])
        \/ taskList' = {}
        \/ ~ Looking(stack[t]) /\ taskList' = taskList
    BY <2>1, OwnDuty
  <2>3. CASE ~ Looking(stack[t]) /\ taskList' = taskList /\ taskList' # {}
    <3>1. PICK w \in Workers \ {Main} : Looking(stack[w])
      BY <1>12, <2>3 DEF DrainInv
    <3>2. w \in Threads \ {t}
      BY <2>3, <3>1, Donating
    <3>3. Looking(stack'[w])
      BY <1>1, <3>1, <3>2, OtherViews
    <3>4. QED BY <2>1, <3>3
  <2>4. QED BY <2>1, <2>2, <2>3
<1>13. QED BY <1>2, <1>5, <1>9, <1>10, <1>11, <1>12 DEF DrainInv

\* A step of the main thread.
LEMMA DrainMain ==
  ASSUME StacksOK, StacksOK', TypeInv, TypeInv', LocalInv, DrainInv, MainWillDonate, Step(Main)
  PROVE  DrainInv'
<1> DEFINE s == stack[Main]
           r == stack'[Main]
           n == Len(s)
           T == Top(Main)
<1>m. Main \in Workers /\ Main \in Threads
  BY Donating
<1>s. FramesOK
  BY DEF TypeInv
<1>1. /\ Shaped(Main) /\ prog' = prog
      /\ \/ LoopMoved(Main)
         \/ ProgMoved(Main) /\ (Finish(Main) \/ T.is # "prog" \/ T.pc # "op"
                                  \/ T.ip <= Len(prog[T.id]))
         \/ ClosingMoved(Main)
  BY <1>m, StepMoves
<1>2. /\ s # <<>> /\ n \in Nat /\ n > 0 /\ T = s[n]
      /\ Len(r) \in {n - 1, n, n + 1} /\ \A i \in 1..(n - 1) : Like(s[i], r[i])
  BY <1>1 DEF Shaped, Top
<1>r. r \in Seq(Range(r)) /\ Len(r) \in Nat /\ (r # <<>> <=> Len(r) > 0)
  <2>1. r \in Seq(Range(r))
    BY <1>m DEF StacksOK, StackOK
  <2>2. QED BY <2>1, EmptySeq
<1>f. ASSUME NEW u \in Foreign, stack[u] = <<>> PROVE stack'[u] = <<>>
  <2>1. u \in Threads \ {Main}
    BY Donating
  <2>2. QED BY <1>m, <1>1, <1>f, <2>1, OtherViews
<1>w. ASSUME NEW w \in Workers \ {Main}
      PROVE  /\ stack'[w] = <<>> <=> stack[w] = <<>>
             /\ Looking(stack'[w]) <=> Looking(stack[w])
  <2>1. w \in Threads \ {Main}
    BY Donating
  <2>2. QED BY <1>m, <1>1, <2>1, OtherViews
<1>3. CASE joined
  <2>1. n = 1 /\ s[1].pc = "op" /\ s[1].ip > Len(prog[Main])
    BY <1>2, <1>3 DEF DrainInv
  <2>2. ProgOK(prog, Main, 1, s[1])
    <3>1. FrameOK(prog, Main, 1, s[1])
      BY <1>m, <1>s, <2>1 DEF FramesOK
    <3>2. "op" \notin LoopPoints /\ Main \in Clients
      BY DEF LoopPoints, Clients
    <3>3. QED BY <2>1, <3>1, <3>2 DEF FrameOK, LoopOK, WakeFrames
  <2>3. T.is = "prog" /\ T.id = Main /\ T.ip > Len(prog[Main]) /\ T.pc = "op" /\ T.ip \in Nat
        /\ Len(prog[Main]) \in Nat
    <3>1. At(Main, "prog", "op")
      BY <1>2, <2>1, <2>2 DEF ProgOK, ProgFrames, At
    <3>2. Len(prog[Main]) \in Nat
      BY <1>m, <1>s, <3>1, ProgAt DEF TypeInv
    <3>3. QED BY <1>2, <2>1, <2>2, <3>2 DEF ProgOK, ProgFrames
  <2>4. Finish(Main)
    BY <1>1, <2>3 DEF LoopMoved, At, ClosingMoved, Closing
  <2>5. Left(s, r) /\ UNCHANGED <<taskList, local, joined>>
    BY <1>m, <1>2, <2>4, ReturnShape DEF Finish, queues
  <2>6. r = <<>> /\ Len(r) = 0
    BY <1>r, <2>1, <2>5 DEF Left
  <2>7. Shutting /\ Closed
    BY <1>3 DEF Shutting, Closed
  <2>8. /\ \A u \in Foreign : stack[u] = <<>>
        /\ \A w \in Workers \ {Main} : stack[w] = <<>>
        /\ local[Main] = <<>>
        /\ taskList # {} => \E w \in Workers \ {Main} : Looking(stack[w])
    BY <1>3, <2>7 DEF DrainInv
  <2>9. QED BY <1>f, <1>w, <2>5, <2>6, <2>8 DEF DrainInv
<1>4. CASE ~ joined /\ n = 1 /\ s[1].pc \in Closing
  <2>1. Shutting /\ Closed
    BY <1>2, <1>4 DEF Shutting, Closed
  <2>2. /\ \A u \in Foreign : stack[u] = <<>>
        /\ local[Main] = <<>>
        /\ taskList # {} => \E w \in Workers \ {Main} : Looking(stack[w])
    BY <2>1 DEF DrainInv
  <2>3. ClosingMoved(Main)
    <3>1. T.pc \in Closing
      BY <1>2, <1>4
    <3>2. T.pc \notin LoopPoints
      BY <3>1 DEF Closing, LoopPoints
    <3>3. QED BY <1>1, <3>1, <3>2 DEF LoopMoved, ProgMoved
  <2>4. /\ UNCHANGED <<taskList, local>> /\ Len(r) = 1
        /\ joined' => /\ \A w \in Workers \ {Main} : stack[w] = <<>>
                      /\ r[1].pc = "op" /\ r[1].ip > Len(prog[Main])
    BY <1>2, <1>4, <2>3 DEF ClosingMoved, Closing
  <2>5. QED BY <1>1, <1>f, <1>w, <2>2, <2>4 DEF DrainInv
<1>5. CASE ~ joined /\ n = 1 /\ s[1].pc \notin Closing
  <2>0. T = s[1] /\ Len(r) \in {0, 1, 2}
    BY <1>2, <1>5
  <2>1. CASE ClosingMoved(Main)
    <3>1. /\ ~ joined' /\ \A u \in Foreign : stack[u] = <<>>
          /\ Len(r) = 2 /\ r[2].is = "loop" /\ r[2].kind = "shutdown"
      BY <1>5, <2>0, <2>1 DEF ClosingMoved
    <3>2. QED BY <1>f, <3>1 DEF DrainInv, Closed
  <2>2. CASE LoopMoved(Main)
    <3>1. LoopOK(Main, n, T)
      BY <1>m, <1>s, <2>2, TipKinds DEF LoopMoved
    <3>2. QED BY <1>5, <3>1 DEF LoopOK, Clients
  <2>3. CASE ProgMoved(Main)
    <3>1. ~ joined' /\ (Len(r) >= 1 => r[1].pc \notin Closing)
      BY <1>5, <2>3 DEF ProgMoved
    <3>2. ~ Shutting' /\ ~ Closed'
      BY <1>r, <2>0, <3>1 DEF Shutting, Closed
    <3>3. QED BY <3>1, <3>2 DEF DrainInv
  <2>4. QED BY <1>1, <2>1, <2>2, <2>3
<1>6. CASE ~ joined /\ n # 1
  <2>0. n > 1 /\ n - 1 >= 1 /\ Len(r) >= 1 /\ 1 \in 1..(n - 1) /\ Like(s[1], r[1])
    <3> HIDE DEF n
    <3>1. n > 1 /\ n - 1 >= 1 /\ Len(r) >= 1 /\ 1 \in 1..(n - 1)
      BY <1>2, <1>6
    <3>2. QED BY <1>2, <3>1
  <2>1. ~ joined' /\ (LoopMoved(Main) \/ ProgMoved(Main))
    BY <1>1, <1>6 DEF LoopMoved, ProgMoved, ClosingMoved
  <2>2. Shutting' => Shutting
    BY <1>2, <2>0, <2>1 DEF Shutting, Like
  <2>3. Closed' => Shutting' /\ Len(r) = 1
    BY <1>r, <2>0, <2>1 DEF Shutting, Closed
  <2>4. ASSUME Shutting
        PROVE  /\ \A u \in Foreign : stack'[u] = <<>>
               /\ Len(r) > 1 => r[2].is = "loop" /\ r[2].kind = "shutdown"
               /\ Len(r) = 1 => local'[Main] = <<>> /\ taskList' = {}
    <3>1. /\ \A u \in Foreign : stack[u] = <<>>
          /\ s[2].is = "loop" /\ s[2].kind = "shutdown"
      BY <2>0, <2>4 DEF DrainInv
    <3>2. CASE n = 2
      <4>1. T.is = "loop" /\ T.kind = "shutdown"
        BY <1>2, <3>1, <3>2
      <4>2. LoopMoved(Main)
        BY <2>1, <4>1 DEF ProgMoved
      <4>3. \/ \E f : Changed(s, r, f) /\ f.is = "loop" /\ f.kind = "shutdown"
            \/ \E f, g : Entered(s, r, f, g) /\ f.is = "loop" /\ f.kind = "shutdown"
            \/ Left(s, r) /\ taskList' = {} /\ local' = local /\ T.pc \in AfterLocal
        BY <4>1, <4>2 DEF LoopMoved
      <4>4. CASE Left(s, r) /\ taskList' = {} /\ local' = local /\ T.pc \in AfterLocal
        <5>1. Looping(s, AfterLocal)
          BY <1>2, <4>1, <4>4 DEF Looping, Tip
        <5>2. local[Main] = <<>>
          BY <1>m, <5>1 DEF LocalInv
        <5>3. QED BY <1>f, <3>1, <3>2, <4>4, <5>2 DEF Left
      <4>5. QED BY <1>f, <3>1, <3>2, <4>3, <4>4 DEF Changed, Entered
    <3>3. CASE n # 2
      <4>1. 2 \in 1..(n - 1) /\ Len(r) > 1
        <5> HIDE DEF n
        <5>1. QED BY <1>2, <2>0, <3>3
      <4>2. Like(s[2], r[2])
        BY <1>2, <4>1
      <4>3. QED BY <1>f, <3>1, <4>1, <4>2 DEF Like
    <3>4. QED BY <3>2, <3>3
  <2>5. QED BY <2>1, <2>2, <2>3, <2>4 DEF DrainInv
<1>7. QED BY <1>3, <1>4, <1>5, <1>6

\* In the beginning nothing is shut down and every local list is empty.
LEMMA DrainStarts == Init /\ MainWillDonate => LocalInv /\ DrainInv
<1> SUFFICES ASSUME Init, MainWillDonate PROVE LocalInv /\ DrainInv
  OBVIOUS
<1>1. LocalInv
  BY DEF Init, LocalInv
<1>2. Main \in Threads /\ Main \in Clients
  BY DEF Threads, Clients
<1>3. stack[Main] = <<ProgFrame(Main)>>
  BY <1>2 DEF Init
<1>4. stack[Main][1].pc = "op" /\ ~ joined
  BY <1>3 DEF ProgFrame, Init
<1>5. ~ Shutting /\ ~ Closed
  BY <1>4 DEF Shutting, Closed, Closing
<1>6. QED BY <1>1, <1>4, <1>5 DEF DrainInv

-----------------------------------------------------------------------------
(* Theorems *)

\* The invariant behind the two theorems that follow.
LifeInv == PoolInv /\ TypeInv /\ (MainWillDonate => LocalInv /\ DrainInv)

\* Every step keeps the invariant.
LEMMA LifeStep == LifeInv /\ [Next]_vars => LifeInv'
<1> SUFFICES ASSUME LifeInv, [Next]_vars PROVE LifeInv'
  OBVIOUS
<1>1. PoolInv' /\ TypeInv'
  BY PoolStep, TypesStep DEF LifeInv
<1>2. StacksOK /\ StacksOK'
  BY <1>1 DEF LifeInv, PoolInv
<1>3. ASSUME MainWillDonate PROVE LocalInv' /\ DrainInv'
  <2>0. LocalInv /\ DrainInv
    BY <1>3 DEF LifeInv
  <2>1. CASE UNCHANGED vars
    BY <2>0, <2>1 DEF vars, queues, LocalInv, DrainInv, Shutting, Closed
  <2>2. ASSUME NEW t \in Threads, Step(t) PROVE LocalInv' /\ DrainInv'
    BY <1>1, <1>2, <1>3, <2>0, <2>2, LocalStep, DrainOther, DrainMain DEF LifeInv
  <2>3. QED BY <2>1, <2>2 DEF Next, Terminated
<1>4. QED BY <1>1, <1>3 DEF LifeInv

\* The stacks and queues keep their types, and while a donating main thread
\* shuts the pool down the lists it has emptied stay empty.
THEOREM LifeInvariant == Spec => []LifeInv
<1>1. Init => LifeInv
  BY PoolStarts, TypesStart, DrainStarts DEF LifeInv
<1>2. QED BY <1>1, LifeStep, PTL DEF Spec

\* When the main thread donates and shutdown has joined the workers, no task is
\* left in the shared list or in a local one (the assertions of the destructors
\* at lines 1022 and 409).
THEOREM WorkIsDrained == Spec => []SharedWorkDrained
<1>1. LifeInv => SharedWorkDrained
  <2> SUFFICES ASSUME LifeInv, joined, MainWillDonate
               PROVE  taskList = {} /\ \A w \in Workers : local[w] = <<>>
    BY DEF SharedWorkDrained
  <2>1. LocalInv /\ DrainInv /\ Closed
    BY DEF LifeInv, Closed
  <2>2. local[Main] = <<>> /\ \A w \in Workers \ {Main} : stack[w] = <<>>
    BY <2>1 DEF DrainInv
  <2>3. taskList = {}
    BY <2>1, <2>2 DEF DrainInv, Looking
  <2>4. QED BY <2>1, <2>2, <2>3 DEF LocalInv
<1>2. QED BY <1>1, LifeInvariant, PTL

-----------------------------------------------------------------------------
(* The places of an item *)

\* The items of the lists C and of the shared list.
Among(C, x) == x \in taskList \/ \E k \in C : x \in ToSet(List(k))

\* The step lets the items G go, which waited, and adds F, which did not.
Effect(F, G) ==
  NoneTwice' /\ \A x : Waits(x)' <=> (Waits(x) /\ x \notin G) \/ x \in F

\* The two names for the elements of a sequence agree.
LEMMA RangeIsToSet == \A s : Range(s) = ToSet(s)
  BY DEF Range, ToSet

\* NoneTwice, in terms of the queue lemmas.
LEMMA NoneTwiceMeans ==
  NoneTwice <=>
    \A k \in Lists : /\ Distinct(List(k)) /\ ToSet(List(k)) \cap taskList = {}
                     /\ \A m \in Lists \ {k} : ToSet(List(k)) \cap ToSet(List(m)) = {}
<1>1. \A k \in Lists : Range(List(k)) = ToSet(List(k))
  BY RangeIsToSet
<1>2. QED BY <1>1 DEF NoneTwice, Distinct

\* The same in the next state.
LEMMA NoneTwiceMeansNext ==
  NoneTwice' <=>
    \A k \in Lists : /\ Distinct(List(k)') /\ ToSet(List(k)') \cap taskList' = {}
                     /\ \A m \in Lists \ {k} : ToSet(List(k)') \cap ToSet(List(m)') = {}
<1>1. \A k \in Lists : Range(List(k)') = ToSet(List(k)')
  BY RangeIsToSet
<1>2. QED BY <1>1 DEF NoneTwice, Distinct

\* Waits, in terms of the queue lemmas, in this state and the next.
LEMMA WaitsMeans ==
  /\ \A x : Waits(x) <=> x \in taskList \/ \E k \in Lists : x \in ToSet(List(k))
  /\ \A x : Waits(x)' <=> x \in taskList' \/ \E k \in Lists : x \in ToSet(List(k)')
<1>1. \A s : Range(s) = ToSet(s)
  BY RangeIsToSet
<1>2. QED BY <1>1 DEF Waits

\* The items of the lists C and of the shared list are rearranged.
LEMMA Rearranged ==
  ASSUME NoneTwice, NEW C \in SUBSET Lists, NEW F, NEW G,
         \A k \in Lists \ C : List(k)' = List(k),
         \A x \in F : ~ Waits(x),
         \A k \in C : /\ Distinct(List(k)') /\ ToSet(List(k)') \cap taskList' = {}
                      /\ \A m \in C \ {k} : ToSet(List(k)') \cap ToSet(List(m)') = {},
         \A x \in G : Among(C, x),
         \A x : Among(C, x)' <=> (Among(C, x) /\ x \notin G) \/ x \in F
  PROVE  Effect(F, G)
<1>1. \A k \in Lists : /\ Distinct(List(k)) /\ ToSet(List(k)) \cap taskList = {}
                       /\ \A m \in Lists \ {k} : ToSet(List(k)) \cap ToSet(List(m)) = {}
  BY NoneTwiceMeans
<1>2. /\ \A x : Among(C, x) <=> x \in taskList \/ \E k \in C : x \in ToSet(List(k))
      /\ \A x : Among(C, x)' <=> x \in taskList' \/ \E k \in C : x \in ToSet(List(k)')
  BY DEF Among
<1>3. ASSUME NEW k \in Lists \ C, NEW x \in ToSet(List(k)) PROVE ~ Among(C, x) /\ ~ Among(C, x)'
  <2>1. ~ Among(C, x)
    BY <1>1, <1>2
  <2>2. Waits(x)
    BY WaitsMeans
  <2>3. QED BY <2>1, <2>2
<1>4. \A k \in Lists : /\ Distinct(List(k)') /\ ToSet(List(k)') \cap taskList' = {}
                       /\ \A m \in Lists \ {k} : ToSet(List(k)') \cap ToSet(List(m)') = {}
  <2> SUFFICES ASSUME NEW k \in Lists
               PROVE  /\ Distinct(List(k)') /\ ToSet(List(k)') \cap taskList' = {}
                      /\ \A m \in Lists \ {k} : ToSet(List(k)') \cap ToSet(List(m)') = {}
    OBVIOUS
  <2>1. CASE k \in C
    <3>1. Distinct(List(k)') /\ ToSet(List(k)') \cap taskList' = {}
      BY <2>1
    <3>2. ASSUME NEW m \in Lists \ {k}, NEW x, x \in ToSet(List(k)'), x \in ToSet(List(m)') PROVE FALSE
      <4>1. CASE m \in C
        BY <2>1, <3>2, <4>1
      <4>2. CASE m \notin C
        <5>1. x \in ToSet(List(m)) /\ m \in Lists \ C
          BY <3>2, <4>2
        <5>2. Among(C, x)'
          BY <1>2, <2>1, <3>2
        <5>3. QED BY <1>3, <5>1, <5>2
      <4>3. QED BY <4>1, <4>2
    <3>3. QED BY <3>1, <3>2
  <2>2. CASE k \notin C
    <3>1. k \in Lists \ C /\ List(k)' = List(k)
      BY <2>2
    <3>2. ASSUME NEW x \in ToSet(List(k)) PROVE x \notin taskList'
      BY <1>2, <1>3, <3>1, <3>2
    <3>3. ASSUME NEW m \in Lists \ {k}, NEW x \in ToSet(List(k)), x \in ToSet(List(m)') PROVE FALSE
      <4>1. CASE m \in C
        <5>1. Among(C, x)'
          BY <1>2, <3>3, <4>1
        <5>2. QED BY <1>3, <3>1, <5>1
      <4>2. CASE m \notin C
        <5>1. List(m)' = List(m)
          BY <4>2
        <5>2. QED BY <1>1, <3>3, <5>1
      <4>3. QED BY <4>1, <4>2
    <3>4. QED BY <1>1, <3>1, <3>2, <3>3
  <2>3. QED BY <2>1, <2>2
<1>5. NoneTwice'
  BY <1>4, NoneTwiceMeansNext
<1>6. ASSUME NEW x PROVE Waits(x)' <=> (Waits(x) /\ x \notin G) \/ x \in F
  <2> DEFINE Rest == \E k \in Lists \ C : x \in ToSet(List(k))
  <2>1. Waits(x) <=> Among(C, x) \/ Rest
    BY <1>2, WaitsMeans
  <2>2. Waits(x)' <=> Among(C, x)' \/ Rest
    <3>1. Rest <=> \E k \in Lists \ C : x \in ToSet(List(k)')
      OBVIOUS
    <3> HIDE DEF Rest
    <3>2. QED BY <1>2, <3>1, WaitsMeans
  <2>3. Rest => ~ Among(C, x) /\ ~ Among(C, x)'
    BY <1>3
  <2> HIDE DEF Rest
  <2>4. QED BY <2>1, <2>2, <2>3
<1>7. QED BY <1>5, <1>6 DEF Effect

\* The lists by name.
LEMMA ListNames ==
  /\ \A w \in Workers : /\ <<"local", w>> \in Lists /\ List(<<"local", w>>) = local[w]
                        /\ <<"ring", w>> \in Lists /\ List(<<"ring", w>>) = ring[w]
                        /\ <<"spill", w>> \in Lists /\ List(<<"spill", w>>) = spill[w]
  /\ \A v \in Values : <<"waiters", v>> \in Lists /\ List(<<"waiters", v>>) = waiters[v]
  /\ \A t \in Threads : <<"hand", t>> \in Lists /\ List(<<"hand", t>>) = Hand(t)
  /\ <<"overflow", 0>> \in Lists /\ List(<<"overflow", 0>>) = overflow
  BY DEF Lists, List

\* The same in the next state.
LEMMA ListNamesNext ==
  /\ \A w \in Workers : /\ List(<<"local", w>>)' = local'[w]
                        /\ List(<<"ring", w>>)' = ring'[w]
                        /\ List(<<"spill", w>>)' = spill'[w]
  /\ \A v \in Values : List(<<"waiters", v>>)' = waiters'[v]
  /\ \A t \in Threads : List(<<"hand", t>>)' = Hand(t)'
  /\ List(<<"overflow", 0>>)' = overflow'
  BY DEF List

\* There are no other lists.
LEMMA ListKinds ==
  ASSUME NEW k \in Lists
  PROVE  \/ \E w \in Workers : k = <<"local", w>> \/ k = <<"ring", w>> \/ k = <<"spill", w>>
         \/ \E v \in Values : k = <<"waiters", v>>
         \/ \E t \in Threads : k = <<"hand", t>>
         \/ k = <<"overflow", 0>>
  BY DEF Lists

\* The lists that did not change are the same.
LEMMA ListsStay ==
  ASSUME NEW C,
         \A w \in Workers : /\ <<"local", w>> \in C \/ local'[w] = local[w]
                            /\ <<"ring", w>> \in C \/ ring'[w] = ring[w]
                            /\ <<"spill", w>> \in C \/ spill'[w] = spill[w],
         \A v \in Values : <<"waiters", v>> \in C \/ waiters'[v] = waiters[v],
         \A t \in Threads : <<"hand", t>> \in C \/ Hand(t)' = Hand(t),
         <<"overflow", 0>> \in C \/ overflow' = overflow
  PROVE  \A k \in Lists \ C : List(k)' = List(k)
<1> SUFFICES ASSUME NEW k \in Lists, k \notin C PROVE List(k)' = List(k)
  OBVIOUS
<1>1. CASE \E w \in Workers : k = <<"local", w>>
  BY <1>1, ListNames, ListNamesNext
<1>2. CASE \E w \in Workers : k = <<"ring", w>>
  BY <1>2, ListNames, ListNamesNext
<1>3. CASE \E w \in Workers : k = <<"spill", w>>
  BY <1>3, ListNames, ListNamesNext
<1>4. CASE \E v \in Values : k = <<"waiters", v>>
  BY <1>4, ListNames, ListNamesNext
<1>5. CASE \E t \in Threads : k = <<"hand", t>>
  BY <1>5, ListNames, ListNamesNext
<1>6. CASE k = <<"overflow", 0>>
  BY <1>6, ListNames, ListNamesNext
<1>7. QED BY <1>1, <1>2, <1>3, <1>4, <1>5, <1>6, ListKinds

\* What a thread with stack s has in hand.
ItemsOf(q) == [i \in DOMAIN q |-> q[i].item]
HandOn(s) ==
  IF Looping(s, LoopPoints) \/ s = <<>> THEN <<>>
  ELSE IF Tip(s).is = "prog" /\ Tip(s).pc \in Giving THEN ItemsOf(Tip(s).todo)
  ELSE IF Tip(s).is = "prog" /\ Tip(s).pc \in Given THEN ItemsOf(Tail(Tip(s).todo))
  ELSE IF Tip(s).is = "wake" /\ Tip(s).pc = "decrement"
  THEN << WakeItem(Tip(s).thread, Tip(s).depth, Tip(s).value) >>
  ELSE <<>>

\* What a thread has in hand depends on its stack only.
LEMMA HandIs == \A t : Hand(t) = HandOn(stack[t]) /\ Hand(t)' = HandOn(stack'[t])
<1> SUFFICES ASSUME NEW t PROVE Hand(t) = HandOn(stack[t]) /\ Hand(t)' = HandOn(stack'[t])
  OBVIOUS
<1>1. Hand(t) = HandOn(stack[t])
  BY DEF Hand, HandOn, Top, Tip, Looping, ItemsOf, Giving, Given
<1>2. Hand(t)' = HandOn(stack'[t])
  BY DEF Hand, HandOn, Top, Tip, Looping, ItemsOf, Giving, Given
<1>3. QED BY <1>1, <1>2

\* What that is, by the kind and the point of the innermost frame.
LEMMA HandCases ==
  ASSUME NEW s
  PROVE  /\ s = <<>> => HandOn(s) = <<>>
         /\ s # <<>> /\ Tip(s).is = "loop" => HandOn(s) = <<>>
         /\ s # <<>> /\ Tip(s).is = "prog" /\ Tip(s).pc \in Giving => HandOn(s) = ItemsOf(Tip(s).todo)
         /\ s # <<>> /\ Tip(s).is = "prog" /\ Tip(s).pc \in Given => HandOn(s) = ItemsOf(Tail(Tip(s).todo))
         /\ s # <<>> /\ Tip(s).is = "prog" /\ Tip(s).pc \notin Giving \cup Given => HandOn(s) = <<>>
         /\ s # <<>> /\ Tip(s).is = "wake" /\ Tip(s).pc = "decrement" =>
              HandOn(s) = << WakeItem(Tip(s).thread, Tip(s).depth, Tip(s).value) >>
         /\ s # <<>> /\ Tip(s).is = "wake" /\ Tip(s).pc # "decrement" => HandOn(s) = <<>>
  BY DEF HandOn, Looping, Giving, Given

\* The items of handovers.
LEMMA ItemsFacts ==
  ASSUME NEW q \in Seq(Handovers)
  PROVE  /\ ItemsOf(q) \in Seq(Items) /\ (q = <<>> => ItemsOf(q) = <<>>)
         /\ q # <<>> => /\ ItemsOf(q) # <<>> /\ Head(ItemsOf(q)) = Head(q).item
                        /\ Tail(ItemsOf(q)) = ItemsOf(Tail(q))
<1> DEFINE r == ItemsOf(q)
           n == Len(q)
<1>1. n \in Nat /\ DOMAIN q = 1..n /\ \A i \in 1..n : q[i] \in Handovers
  BY LenProperties, ElementOfSeq
<1>2. DOMAIN r = 1..n /\ \A i \in 1..n : r[i] = q[i].item
  BY <1>1 DEF ItemsOf
<1>3. \A i \in 1..n : r[i] \in Items
  BY <1>1, <1>2 DEF Handovers
<1>4. r = [i \in 1..n |-> r[i]]
  BY <1>1 DEF ItemsOf
<1> HIDE DEF r, n
<1>5. r \in Seq(Items)
  BY <1>1, <1>3, <1>4 DEF Seq
<1>6. Len(r) = n
  BY <1>1, <1>2, <1>5, LenProperties
<1>7. q = <<>> => r = <<>>
  BY <1>1, <1>5, <1>6, EmptySeq DEF n
<1>8. ASSUME q # <<>> PROVE r # <<>> /\ Head(r) = Head(q).item /\ Tail(r) = ItemsOf(Tail(q))
  <2>1. n >= 1
    BY <1>1, <1>8, EmptySeq DEF n
  <2>2. r # <<>>
    BY <1>5, <1>6, <2>1, EmptySeq
  <2> DEFINE u == Tail(q)
             v == Tail(r)
             w == ItemsOf(u)
  <2>3. u \in Seq(Handovers) /\ DOMAIN u = 1..(n - 1) /\ Head(q) = q[1] /\ \A i \in 1..(n - 1) : u[i] = q[i + 1]
    BY <1>8, HeadTailProperties DEF n
  <2>4. v \in Seq(Items) /\ DOMAIN v = 1..(n - 1) /\ Head(r) = r[1] /\ \A i \in 1..(n - 1) : v[i] = r[i + 1]
    BY <1>5, <1>6, <2>2, HeadTailProperties
  <2>5. v = [i \in 1..(n - 1) |-> v[i]]
    <3> HIDE DEF v
    <3>1. v \in [1..Len(v) -> Items]
      BY <2>4
    <3>2. QED BY <2>4, <3>1
  <2>6. w = [i \in 1..(n - 1) |-> u[i].item]
    BY <2>3 DEF ItemsOf
  <2> HIDE DEF u, v, w
  <2>7. \A i \in 1..(n - 1) : i + 1 \in 1..n
    BY <1>1
  <2>8. \A i \in 1..(n - 1) : v[i] = u[i].item
    BY <1>2, <2>3, <2>4, <2>7
  <2>9. v = w
    BY <2>5, <2>6, <2>8
  <2>10. 1 \in 1..n
    BY <1>1, <2>1
  <2>11. QED BY <1>2, <2>2, <2>3, <2>4, <2>9, <2>10 DEF u, v, w
<1>9. QED BY <1>5, <1>7, <1>8 DEF r

\* The waiters of a value, to be handed over.
LEMMA ItemsHanded ==
  ASSUME NEW q \in Seq(Items) PROVE ItemsOf(Handed(q)) = q
<1> DEFINE n == Len(q)
<1>1. n \in Nat /\ q \in [1..n -> Items] /\ q = [i \in 1..n |-> q[i]] /\ DOMAIN q = 1..n
  BY LenProperties
<1> HIDE DEF n
<1>2. DOMAIN Handed(q) = 1..n /\ \A i \in 1..n : Handed(q)[i].item = q[i]
  BY <1>1 DEF Handed
<1>3. ItemsOf(Handed(q)) = [i \in 1..n |-> q[i]]
  BY <1>2 DEF ItemsOf
<1>4. QED BY <1>1, <1>3

\* The item of a single handover.
LEMMA ItemsOne ==
  ASSUME NEW h PROVE ItemsOf(<<h>>) = <<h.item>>
<1>1. DOMAIN <<h>> = {1} /\ <<h>>[1] = h
  OBVIOUS
<1>2. ItemsOf(<<h>>) = [i \in {1} |-> h.item]
  BY <1>1 DEF ItemsOf
<1>3. <<h.item>> = [i \in {1} |-> h.item]
  OBVIOUS
<1>4. QED BY <1>2, <1>3

\* Nobody else's hand changes.
LEMMA HandsStay ==
  ASSUME StacksOK, StacksOK', TypeInv, TypeInv', NEW t \in Threads, Shaped(t), NEW u \in Threads \ {t}
  PROVE  Hand(u)' = Hand(u)
<1>1. Len(stack[u]) \in Nat /\ (stack[u] # <<>> <=> Len(stack[u]) > 0)
  BY StackLen
<1>2. stack'[u] = <<>> <=> stack[u] = <<>>
  BY OtherViews
<1>3. stack[u] # <<>> => Like(Tip(stack[u]), Tip(stack'[u]))
  BY <1>1 DEF Tip, Shaped
<1>4. HandOn(stack'[u]) = HandOn(stack[u])
  <2>1. CASE stack[u] = <<>>
    BY <1>2, <2>1
  <2>2. CASE stack[u] # <<>> /\ Tip(stack[u]).is = "loop"
    BY <1>2, <1>3, <2>2, HandCases DEF Like
  <2>3. CASE stack[u] # <<>> /\ Tip(stack[u]).is # "loop"
    BY <1>2, <1>3, <2>3 DEF Like, HandOn, Looping
  <2>4. QED BY <2>1, <2>2, <2>3
<1>5. QED BY <1>4, HandIs

\* Nothing moves.
LEMMA NoneMoves ==
  ASSUME NoneTwice, \A k \in Lists : List(k)' = List(k), taskList' = taskList
  PROVE  Effect({}, {})
<1> DEFINE C == {}
<1>1. \A k \in C : FALSE
  OBVIOUS
<1>2. C \in SUBSET Lists /\ \A k \in Lists \ C : List(k)' = List(k)
  OBVIOUS
<1>3. \A x : Among(C, x)' <=> Among(C, x)
  BY <1>1 DEF Among
<1> HIDE DEF C
<1>4. QED BY <1>1, <1>2, <1>3, Rearranged

\* Items move between a list and the shared one.
LEMMA OneMoves ==
  ASSUME NoneTwice, NEW a \in Lists, NEW F, NEW G,
         \A k \in Lists \ {a} : List(k)' = List(k),
         \A x \in F : ~ Waits(x),
         G \subseteq ToSet(List(a)) \cup taskList,
         Distinct(List(a)'), ToSet(List(a)') \cap taskList' = {},
         ToSet(List(a)') \cup taskList' = ((ToSet(List(a)) \cup taskList) \ G) \cup F
  PROVE  Effect(F, G)
<1> DEFINE C == {a}
<1>1. C \in SUBSET Lists /\ \A k \in Lists \ C : List(k)' = List(k)
  OBVIOUS
<1>2. \A k \in C : /\ Distinct(List(k)') /\ ToSet(List(k)') \cap taskList' = {}
                   /\ \A m \in C \ {k} : ToSet(List(k)') \cap ToSet(List(m)') = {}
  OBVIOUS
<1>3. /\ \A x : Among(C, x) <=> x \in ToSet(List(a)) \cup taskList
      /\ \A x : Among(C, x)' <=> x \in ToSet(List(a)') \cup taskList'
  BY DEF Among
<1>4. \A x \in G : Among(C, x)
  BY <1>3
<1>5. \A x : Among(C, x)' <=> (Among(C, x) /\ x \notin G) \/ x \in F
  BY <1>3
<1> HIDE DEF C
<1>6. QED BY <1>1, <1>2, <1>4, <1>5, Rearranged

\* Items move between two lists.
LEMMA TwoMove ==
  ASSUME NoneTwice, NEW a \in Lists, NEW b \in Lists, a # b, NEW F, NEW G,
         \A k \in Lists \ {a, b} : List(k)' = List(k), taskList' = taskList,
         \A x \in F : ~ Waits(x),
         G \subseteq ToSet(List(a)) \cup ToSet(List(b)),
         Distinct(List(a)'), Distinct(List(b)'), ToSet(List(a)') \cap ToSet(List(b)') = {},
         ToSet(List(a)') \cup ToSet(List(b)') = ((ToSet(List(a)) \cup ToSet(List(b))) \ G) \cup F
  PROVE  Effect(F, G)
<1> DEFINE C == {a, b}
<1>1. C \in SUBSET Lists /\ \A k \in Lists \ C : List(k)' = List(k)
  OBVIOUS
<1>2. \A x \in ToSet(List(a)') \cup ToSet(List(b)') : x \notin taskList
  <2>1. \A x \in ToSet(List(a)) \cup ToSet(List(b)) : x \notin taskList
    BY NoneTwiceMeans
  <2>2. \A x \in F : x \notin taskList
    BY WaitsMeans
  <2>3. QED BY <2>1, <2>2
<1>3. \A k \in C : /\ Distinct(List(k)') /\ ToSet(List(k)') \cap taskList' = {}
                   /\ \A m \in C \ {k} : ToSet(List(k)') \cap ToSet(List(m)') = {}
  BY <1>2
<1>4. /\ \A x : Among(C, x) <=> x \in ToSet(List(a)) \/ x \in ToSet(List(b)) \/ x \in taskList
      /\ \A x : Among(C, x)' <=> x \in ToSet(List(a)') \/ x \in ToSet(List(b)') \/ x \in taskList'
  BY DEF Among
<1>5. \A x \in G : Among(C, x) /\ x \notin taskList
  <2>1. \A x \in ToSet(List(a)) \cup ToSet(List(b)) : x \notin taskList
    BY NoneTwiceMeans
  <2>2. QED BY <1>4, <2>1
<1>6. \A x : Among(C, x)' <=> (Among(C, x) /\ x \notin G) \/ x \in F
  BY <1>4, <1>5
<1> HIDE DEF C
<1>7. QED BY <1>1, <1>3, <1>5, <1>6, Rearranged

-----------------------------------------------------------------------------
(* runItemsImpl moves items *)

\* What a thread that runs an item it found has in hand.
InHand(it) == IF IsTask(it) THEN <<>> ELSE <<it>>
Spent(it) == IF IsTask(it) THEN {it} ELSE {}

\* An item that is run is spent if it is a task, and in hand if it is a closure.
LEMMA InHandFacts ==
  ASSUME NEW it \in Items
  PROVE  /\ Distinct(InHand(it)) /\ ToSet(InHand(it)) \cup Spent(it) = {it}
         /\ ToSet(InHand(it)) \cap Spent(it) = {}
  BY OneFacts, EmptyQueue DEF InHand, Spent

\* It has the hand empty before, and just a closure after.
LEMMA RunHand ==
  ASSUME StacksOK, TypeInv, NEW t \in Threads, stack[t] # <<>>, NEW f, NEW it \in Items, Run(t, f, it)
  PROVE  Hand(t)' = InHand(it)
<1> DEFINE g == FrameOf(it)
           r == stack'[t]
<1>1. CallWith(t, f, g) /\ Len(stack[t]) \in Nat /\ Len(stack[t]) > 0
  BY StackLen DEF Run
<1>2. IF IsTask(it) THEN g.is = "prog" /\ g.pc = "op"
                    ELSE /\ g.is = "wake" /\ g.pc = "decrement"
                         /\ it = WakeItem(g.thread, g.depth, g.value)
  BY ItemKinds DEF FrameOf, ProgFrame, WakeFrame
<1> HIDE DEF g
<1>3. r # <<>> /\ Tip(r) = g
  BY <1>1, CallShape DEF Entered, Tip
<1>4. "op" \notin Giving \cup Given
  BY DEF Giving, Given
<1>5. HandOn(r) = InHand(it)
  BY <1>2, <1>3, <1>4, HandCases DEF InHand
<1>6. QED BY <1>5, HandIs

\* An item is taken from the front of a list and run.
LEMMA RunFromList ==
  ASSUME StacksOK, StacksOK', TypeInv, TypeInv', NoneTwice, NEW t \in Threads, Shaped(t),
         NEW l, At(t, "loop", l), NEW a \in Lists, a # <<"hand", t>>,
         List(a) \in Seq(Items), List(a) # <<>>, List(a)' = Tail(List(a)),
         NEW f, Run(t, f, Head(List(a))), taskList' = taskList,
         \A k \in Lists \ {a, <<"hand", t>>} : List(k)' = List(k)
  PROVE  Effect({}, Spent(Head(List(a)))) /\ Waits(Head(List(a))) /\ Head(List(a)) \in Items
<1> DEFINE it == Head(List(a))
           q == List(a)
           b == <<"hand", t>>
<1>1. /\ it \in Items /\ Tail(q) \in Seq(Items) /\ ToSet(q) = ToSet(Tail(q)) \cup {it}
      /\ Distinct(q) => Distinct(Tail(q)) /\ it \notin ToSet(Tail(q))
  BY TailFacts
<1>2. Distinct(q)
  BY NoneTwiceMeans
<1>3. b \in Lists /\ List(b) = Hand(t) /\ List(b)' = Hand(t)'
  BY ListNames, ListNamesNext
<1>4. List(b) = <<>>
  <2>1. HandOn(stack[t]) = <<>>
    BY HandCases DEF At, Top, Tip
  <2>2. QED BY <1>3, <2>1, HandIs
<1>5. List(b)' = InHand(it)
  BY <1>1, <1>3, RunHand DEF Shaped
<1>6. Waits(it)
  BY <1>1, WaitsMeans
<1> HIDE DEF it, q, b
<1>7. /\ Distinct(InHand(it)) /\ ToSet(InHand(it)) \cup Spent(it) = {it}
      /\ ToSet(InHand(it)) \cap Spent(it) = {} /\ ToSet(<<>>) = {}
  BY <1>1, InHandFacts, EmptyQueue
<1>8. Effect({}, Spent(it))
  <2>1. /\ List(a)' = Tail(q) /\ List(a) = q /\ a # b /\ \A k \in Lists \ {a, b} : List(k)' = List(k)
    BY DEF q, b
  <2>2. /\ Distinct(List(a)') /\ Distinct(List(b)') /\ ToSet(List(a)') \cap ToSet(List(b)') = {}
    BY <1>1, <1>2, <1>5, <1>7, <2>1
  <2>3. Spent(it) \subseteq ToSet(List(a)) \cup ToSet(List(b))
    BY <1>1, <1>7, <2>1
  <2>4. ToSet(List(a)') \cup ToSet(List(b)') = ((ToSet(List(a)) \cup ToSet(List(b))) \ Spent(it)) \cup {}
    BY <1>1, <1>2, <1>4, <1>5, <1>7, <2>1
  <2>5. QED BY <1>3, <2>1, <2>2, <2>3, <2>4, TwoMove
<1>9. QED BY <1>1, <1>6, <1>8 DEF it, q

\* The same loop at another point.
SameLoop(f, g) == f.is = "loop" /\ g.is = "loop" /\ f.kind = g.kind /\ f.left = g.left

\* A step that keeps its own hand keeps all.
LEMMA AllHandsStay ==
  ASSUME StacksOK, StacksOK', TypeInv, TypeInv', NEW t \in Threads, Shaped(t),
         HandOn(stack'[t]) = HandOn(stack[t])
  PROVE  \A u \in Threads : Hand(u)' = Hand(u)
<1>1. Hand(t)' = Hand(t)
  BY HandIs
<1>2. QED BY <1>1, HandsStay

\* A step that moves no item.
LEMMA StillStep ==
  ASSUME StacksOK, StacksOK', TypeInv, TypeInv', NoneTwice, NEW t \in Threads, Shaped(t),
         HandOn(stack'[t]) = HandOn(stack[t]), UNCHANGED <<queues, waiters>>
  PROVE  Effect({}, {})
<1>1. \A u \in Threads : Hand(u)' = Hand(u)
  BY AllHandsStay
<1>2. \A k \in Lists \ {} : List(k)' = List(k)
  BY <1>1, ListsStay DEF queues
<1>3. QED BY <1>2, NoneMoves DEF queues

\* In its loop a worker has nothing in hand.
LEMMA LoopHands ==
  ASSUME StacksOK, StacksOK', TypeInv, NEW t \in Threads, NEW l, At(t, "loop", l)
  PROVE  /\ HandOn(stack[t]) = <<>>
         /\ \A f : SetTop(t, f) /\ f.is = "loop" => HandOn(stack'[t]) = <<>>
         /\ Return(t) => HandOn(stack'[t]) = <<>>
<1>1. HandOn(stack[t]) = <<>>
  BY HandCases DEF At, Top, Tip
<1>2. stack[t] # <<>> /\ Len(stack[t]) \in Nat /\ Len(stack[t]) > 0
  BY StackLen DEF At
<1>3. ASSUME NEW f, SetTop(t, f), f.is = "loop" PROVE HandOn(stack'[t]) = <<>>
  <2>1. stack'[t] # <<>> /\ Tip(stack'[t]) = f
    BY <1>2, <1>3, SetShape DEF Changed, Tip
  <2>2. QED BY <1>3, <2>1, HandCases
<1>4. ASSUME Return(t) PROVE HandOn(stack'[t]) = <<>>
  <2>1. stack'[t] # <<>> => Resting(Tip(stack'[t]))
    BY <1>2, <1>4, ReturnFacts
  <2>2. "op" \notin Giving \cup Given /\ "done" \notin Giving \cup Given
    BY DEF Giving, Given
  <2>3. QED BY <2>1, <2>2, HandCases DEF Resting
<1>5. QED BY <1>1, <1>3, <1>4

\* What a step of runItemsImpl does to the items and to its frame.
LoopEffect(t) ==
  /\ At(t, "loop", Top(t).pc) /\ Top(t) \in LoopFrames
  /\ UNCHANGED <<prog, ready, waiters, added>>
  /\ \/ \E f : SetTop(t, f) /\ SameLoop(f, Top(t)) /\ Effect({}, {}) /\ ran' = ran
     \/ \E f : \E it \in Items : /\ Run(t, f, it) /\ SameLoop(f, Top(t))
                                 /\ Effect({}, Spent(it)) /\ Waits(it)
     \/ /\ Return(t) /\ Effect({}, {}) /\ ran' = ran
        /\ Awaits(Top(t)) => Top(t).left = 0 \/ WakeUp(t)

\* Every step of runItemsImpl has one of these effects.
LEMMA LoopEffects ==
  ASSUME StacksOK, StacksOK', TypeInv, TypeInv', NoneTwice, NEW t \in Threads, RunItems(t)
  PROVE  LoopEffect(t)
<1> USE DEF queues, values
<1>s. FramesOK /\ QueuesOK
  BY DEF TypeInv
<1>h. Shaped(t)
  BY <1>s, StepShaped DEF Step
<1>t. PICK l : At(t, "loop", l)
  BY DEF RunItems, KeepRunning, RunLocal, PollAffinity, PollGlobal, SpinStop, PumpSpill,
         PumpOverflow, MarkSuspended, PreSuspendStop, WakeUp
<1>0. /\ stack[t] # <<>> /\ At(t, "loop", Top(t).pc) /\ Top(t) \in LoopFrames
  BY <1>s, <1>t, TipKinds DEF LoopOK
<1>u. UNCHANGED <<prog, ready, waiters, added>>
  BY DEF RunItems, KeepRunning, RunLocal, PollAffinity, PollGlobal, SpinStop, PumpSpill,
         PumpOverflow, MarkSuspended, PreSuspendStop, WakeUp
<1>f. ASSUME NEW m
      PROVE  LET f == [Top(t) EXCEPT !.pc = m] IN SameLoop(f, Top(t))
  BY <1>0 DEF LoopFrames, SameLoop
<1>g. ASSUME NEW m, Goto(t, m), Effect({}, {}), ran' = ran PROVE LoopEffect(t)
  <2> DEFINE f == [Top(t) EXCEPT !.pc = m]
  <2>1. SameLoop(f, Top(t)) /\ SetTop(t, f)
    BY <1>f, <1>g DEF Goto
  <2> HIDE DEF f
  <2>2. QED BY <1>0, <1>u, <1>g, <2>1 DEF LoopEffect
<1>k. ASSUME NEW m, Goto(t, m) PROVE HandOn(stack'[t]) = HandOn(stack[t])
  <2> DEFINE f == [Top(t) EXCEPT !.pc = m]
  <2>1. SameLoop(f, Top(t)) /\ SetTop(t, f)
    BY <1>f, <1>k DEF Goto
  <2> HIDE DEF f
  <2>2. QED BY <1>t, <2>1, LoopHands DEF SameLoop
<1>q. ASSUME NEW m, Goto(t, m), UNCHANGED queues, ran' = ran PROVE LoopEffect(t)
  <2>1. Effect({}, {})
    BY <1>h, <1>u, <1>k, <1>q, StillStep
  <2>2. QED BY <1>g, <1>q, <2>1
<1>b. ASSUME Return(t), UNCHANGED queues, ran' = ran, Awaits(Top(t)) => Top(t).left = 0 \/ WakeUp(t)
      PROVE  LoopEffect(t)
  <2>1. HandOn(stack'[t]) = HandOn(stack[t])
    BY <1>t, <1>b, LoopHands
  <2>2. Effect({}, {})
    BY <1>h, <1>u, <1>b, <2>1, StillStep
  <2>3. QED BY <1>0, <1>u, <1>b, <2>2 DEF LoopEffect
<1>o. \A u \in Threads \ {t} : Hand(u)' = Hand(u)
  BY <1>h, HandsStay
<1>1. CASE KeepRunning(t)
  BY <1>1, <1>b, <1>q DEF KeepRunning, EarlyStop
<1>2. CASE RunLocal(t)
  <2>1. CASE local[t] # <<>>
    <3> DEFINE a == <<"local", t>>
    <3>1. t \in Workers /\ local[t] \in Seq(Items)
      BY <1>s, <1>2, LoopOnWorker DEF RunLocal, QueuesOK
    <3>2. /\ Run(t, Top(t), Head(local[t])) /\ local' = [local EXCEPT ![t] = Tail(local[t])]
          /\ UNCHANGED <<ring, spill, taskList, overflow>>
      BY <1>2, <2>1 DEF RunLocal
    <3>3. local'[t] = Tail(local[t]) /\ \A w \in Workers \ {t} : local'[w] = local[w]
      BY <1>s, <3>1, <3>2 DEF QueuesOK
    <3>4. a \in Lists /\ List(a) = local[t] /\ List(a)' = Tail(List(a)) /\ a # <<"hand", t>>
      BY <3>1, <3>3, ListNames, ListNamesNext
    <3>5. \A k \in Lists \ {a, <<"hand", t>>} : List(k)' = List(k)
      <4> DEFINE C == {a, <<"hand", t>>}
      <4>1. /\ \A w \in Workers : <<"local", w>> \in C \/ local'[w] = local[w]
            /\ \A u \in Threads : <<"hand", u>> \in C \/ Hand(u)' = Hand(u)
        BY <1>o, <3>3
      <4> HIDE DEF C
      <4>2. \A k \in Lists \ C : List(k)' = List(k)
        BY <1>u, <3>2, <4>1, ListsStay
      <4>3. QED BY <4>2 DEF C
    <3> HIDE DEF a
    <3>6. Effect({}, Spent(Head(local[t]))) /\ Waits(Head(local[t])) /\ Head(local[t]) \in Items
      BY <1>h, <1>t, <2>1, <3>1, <3>2, <3>4, <3>5, RunFromList
    <3>7. SameLoop(Top(t), Top(t))
      BY <1>0 DEF SameLoop, LoopFrames
    <3>8. QED BY <1>0, <1>u, <3>2, <3>6, <3>7 DEF LoopEffect
  <2>2. CASE local[t] = <<>>
    BY <1>2, <2>2, <1>q DEF RunLocal
  <2>3. QED BY <2>1, <2>2
<1>3. ASSUME NEW x, x # "sleep", NEW m, PollAffinity(t, x, m) PROVE LoopEffect(t)
  <2>1. CASE ring[t] # <<>>
    <3> DEFINE a == <<"ring", t>>
               f == [Top(t) EXCEPT !.pc = "keep"]
    <3>1. t \in Workers /\ ring[t] \in Seq(Items)
      BY <1>s, <1>3, LoopOnWorker DEF PollAffinity, QueuesOK
    <3>2. /\ Run(t, f, Head(ring[t])) /\ ring' = [ring EXCEPT ![t] = Tail(ring[t])]
          /\ UNCHANGED <<local, spill, taskList, overflow>>
      BY <1>3, <2>1 DEF PollAffinity
    <3>3. ring'[t] = Tail(ring[t]) /\ \A w \in Workers \ {t} : ring'[w] = ring[w]
      BY <1>s, <3>1, <3>2 DEF QueuesOK
    <3>4. a \in Lists /\ List(a) = ring[t] /\ List(a)' = Tail(List(a)) /\ a # <<"hand", t>>
      BY <3>1, <3>3, ListNames, ListNamesNext
    <3>5. \A k \in Lists \ {a, <<"hand", t>>} : List(k)' = List(k)
      <4> DEFINE C == {a, <<"hand", t>>}
      <4>1. /\ \A w \in Workers : <<"ring", w>> \in C \/ ring'[w] = ring[w]
            /\ \A u \in Threads : <<"hand", u>> \in C \/ Hand(u)' = Hand(u)
        BY <1>o, <3>3
      <4> HIDE DEF C
      <4>2. \A k \in Lists \ C : List(k)' = List(k)
        BY <1>u, <3>2, <4>1, ListsStay
      <4>3. QED BY <4>2 DEF C
    <3>6. SameLoop(f, Top(t))
      BY <1>f
    <3> HIDE DEF a, f
    <3>7. Effect({}, Spent(Head(ring[t]))) /\ Waits(Head(ring[t])) /\ Head(ring[t]) \in Items
      BY <1>h, <1>t, <2>1, <3>1, <3>2, <3>4, <3>5, RunFromList
    <3>8. QED BY <1>0, <1>u, <3>2, <3>6, <3>7 DEF LoopEffect
  <2>2. CASE ring[t] = <<>>
    BY <1>3, <2>2, <1>q DEF PollAffinity
  <2>3. QED BY <2>1, <2>2
<1>4. ASSUME NEW x, NEW m, PollGlobal(t, x, m) PROVE LoopEffect(t)
  <2> DEFINE f == [Top(t) EXCEPT !.pc = "keep"]
  <2>0. SameLoop(f, Top(t))
    BY <1>f
  <2>1. ASSUME NEW it \in taskList, Run(t, f, it), taskList' = taskList \ {it},
               UNCHANGED <<local, ring, spill, overflow>>
        PROVE  LoopEffect(t)
    <3> DEFINE a == <<"hand", t>>
    <3>1. it \in Items /\ Waits(it)
      BY <1>s, WaitsMeans DEF QueuesOK
    <3>2. a \in Lists /\ List(a) = Hand(t) /\ List(a)' = Hand(t)'
      BY ListNames, ListNamesNext
    <3>3. List(a) = <<>>
      BY <1>t, <3>2, LoopHands, HandIs
    <3> HIDE DEF f
    <3>4. List(a)' = InHand(it)
      BY <1>0, <2>1, <3>1, <3>2, RunHand
    <3>5. \A k \in Lists \ {a} : List(k)' = List(k)
      BY <1>o, <1>u, <2>1, ListsStay
    <3> HIDE DEF a
    <3>6. /\ Distinct(InHand(it)) /\ ToSet(InHand(it)) \cup Spent(it) = {it}
          /\ ToSet(InHand(it)) \cap Spent(it) = {} /\ ToSet(<<>>) = {}
      BY <3>1, InHandFacts, EmptyQueue
    <3>7. /\ Spent(it) \subseteq ToSet(List(a)) \cup taskList
          /\ Distinct(List(a)') /\ ToSet(List(a)') \cap taskList' = {}
          /\ ToSet(List(a)') \cup taskList' = ((ToSet(List(a)) \cup taskList) \ Spent(it)) \cup {}
      BY <2>1, <3>3, <3>4, <3>6
    <3>8. Effect({}, Spent(it))
      BY <3>2, <3>5, <3>7, OneMoves
    <3>9. QED BY <1>0, <1>u, <2>0, <2>1, <3>1, <3>8 DEF LoopEffect
  <2>2. CASE UNCHANGED <<queues, ran>> /\ Return(t) /\ Top(t).kind = "shutdown"
    BY <1>b, <2>2 DEF Awaits
  <2>3. CASE UNCHANGED <<queues, ran>> /\ Goto(t, m)
    BY <1>q, <2>3
  <2> HIDE DEF f
  <2>4. QED BY <1>4, <2>1, <2>2, <2>3 DEF PollGlobal, f
<1>5. CASE SpinStop(t)
  BY <1>5, <1>b, <1>q DEF SpinStop, EarlyStop, LateStop, Awaits
<1>6. CASE PumpSpill(t)
  <2>1. CASE spill[t] # <<>>
    <3> DEFINE a == <<"local", t>>
               b == <<"spill", t>>
               p == local[t]
               q == spill[t]
               r == Reverse(q)
    <3>1. t \in Workers /\ p \in Seq(Items) /\ q \in Seq(Items)
      BY <1>s, <1>6, LoopOnWorker DEF PumpSpill, QueuesOK
    <3>2. /\ local' = [local EXCEPT ![t] = p \o r]
          /\ spill' = [spill EXCEPT ![t] = <<>>]
          /\ Goto(t, "keep") /\ UNCHANGED <<ring, taskList, overflow, ran>>
      BY <1>6, <2>1 DEF PumpSpill
    <3>3. r \in Seq(Items) /\ ToSet(r) = ToSet(q) /\ (Distinct(q) => Distinct(r))
      BY <3>1, ReverseFacts
    <3> HIDE DEF r
    <3>4. /\ local'[t] = p \o r /\ \A w \in Workers \ {t} : local'[w] = local[w]
          /\ spill'[t] = <<>> /\ \A w \in Workers \ {t} : spill'[w] = spill[w]
      BY <1>s, <3>1, <3>2 DEF QueuesOK
    <3>5. /\ a \in Lists /\ List(a) = p /\ List(a)' = p \o r /\ a # b
          /\ b \in Lists /\ List(b) = q /\ List(b)' = <<>>
      BY <3>1, <3>4, ListNames, ListNamesNext
    <3>6. \A u \in Threads : Hand(u)' = Hand(u)
      BY <1>h, <1>k, <3>2, AllHandsStay
    <3>7. \A k \in Lists \ {a, b} : List(k)' = List(k)
      BY <1>u, <3>2, <3>4, <3>6, ListsStay
    <3> HIDE DEF a, b
    <3>8. Distinct(p) /\ Distinct(q) /\ ToSet(p) \cap ToSet(q) = {}
      BY <3>5, NoneTwiceMeans
    <3> HIDE DEF p, q
    <3>9. Distinct(p \o r) /\ ToSet(p \o r) = ToSet(p) \cup ToSet(q) /\ ToSet(<<>>) = {} /\ Distinct(<<>>)
      BY <3>1, <3>3, <3>8, ConcatFacts, EmptyQueue
    <3>10. Effect({}, {})
      <4>1. /\ Distinct(List(a)') /\ Distinct(List(b)') /\ ToSet(List(a)') \cap ToSet(List(b)') = {}
            /\ ToSet(List(a)') \cup ToSet(List(b)') = ((ToSet(List(a)) \cup ToSet(List(b))) \ {}) \cup {}
        BY <3>5, <3>9
      <4>2. QED BY <3>2, <3>5, <3>7, <4>1, TwoMove
    <3>11. QED BY <1>g, <3>2, <3>10
  <2>2. CASE spill[t] = <<>>
    BY <1>6, <2>2, <1>q DEF PumpSpill
  <2>3. QED BY <2>1, <2>2
<1>7. CASE PumpOverflow(t)
  <2>1. CASE overflow # <<>>
    <3> DEFINE a == <<"overflow", 0>>
    <3>1. PICK j \in {0} \cup DOMAIN overflow :
              /\ taskList' = taskList \cup Range(SubSeq(overflow, j + 1, Len(overflow)))
              /\ overflow' = SubSeq(overflow, 1, j)
      BY <1>7, <2>1 DEF PumpOverflow
    <3>2. Goto(t, "keep") /\ UNCHANGED <<local, ring, spill, ran>>
      BY <1>7, <2>1 DEF PumpOverflow
    <3> DEFINE u == SubSeq(overflow, 1, j)
               v == SubSeq(overflow, j + 1, Len(overflow))
    <3>3. a \in Lists /\ List(a) = overflow /\ List(a)' = overflow'
      BY ListNames, ListNamesNext
    <3>4. Distinct(overflow) /\ ToSet(overflow) \cap taskList = {}
      BY <3>3, NoneTwiceMeans
    <3>5. overflow \in Seq(Items) /\ j \in Nat /\ j <= Len(overflow)
      BY <1>s DEF QueuesOK
    <3>6. /\ Distinct(u) /\ ToSet(overflow) = ToSet(u) \cup ToSet(v) /\ ToSet(u) \cap ToSet(v) = {}
      BY <3>4, <3>5, SplitFacts
    <3>7. taskList' = taskList \cup ToSet(v) /\ overflow' = u
      BY <3>1, RangeIsToSet
    <3>8. \A w \in Threads : Hand(w)' = Hand(w)
      BY <1>h, <1>k, <3>2, AllHandsStay
    <3>9. \A k \in Lists \ {a} : List(k)' = List(k)
      BY <1>u, <3>2, <3>8, ListsStay
    <3> HIDE DEF a, u, v
    <3>10. Effect({}, {})
      <4>1. /\ Distinct(List(a)') /\ ToSet(List(a)') \cap taskList' = {}
            /\ ToSet(List(a)') \cup taskList' = ((ToSet(List(a)) \cup taskList) \ {}) \cup {}
        BY <3>3, <3>4, <3>6, <3>7
      <4>2. QED BY <3>3, <3>9, <4>1, OneMoves
    <3>11. QED BY <1>g, <3>2, <3>10
  <2>2. CASE overflow = <<>>
    BY <1>7, <2>2, <1>q DEF PumpOverflow
  <2>3. QED BY <2>1, <2>2
<1>8. CASE MarkSuspended(t)
  BY <1>8, <1>q DEF MarkSuspended
<1>9. CASE PreSuspendStop(t)
  BY <1>9, <1>b, <1>q DEF PreSuspendStop, EarlyStop
<1>10. CASE WakeUp(t)
  <2>1. Return(t) \/ Goto(t, "keep")
    BY <1>10 DEF WakeUp
  <2>2. UNCHANGED <<queues, ran>>
    BY <1>10 DEF WakeUp
  <2>3. QED BY <1>10, <1>b, <1>q, <2>1, <2>2
<1>11. QED BY <1>1, <1>2, <1>3, <1>4, <1>5, <1>6, <1>7, <1>8, <1>9, <1>10 DEF RunItems

-----------------------------------------------------------------------------
(* Tasks are handed over once and run once *)

\* A task that waits or has run has been handed over.
AddedInv == \A a \in Tasks : Waits(TaskItem(a)) \/ ran[a] > 0 => a \in added

\* A program is executed by one frame, and a task's only once it was started.
IsProg(t, d) == d \in 1..Len(stack[t]) /\ stack[t][d].is = "prog"
OneFrame ==
  \A t, u \in Threads : \A d, e \in Nat :
    IsProg(t, d) /\ IsProg(u, e) /\ stack[t][d].id = stack[u][e].id => t = u /\ d = e
StartedInv ==
  \A t \in Threads : \A d \in Nat :
    IsProg(t, d) /\ stack[t][d].id \in Tasks => ran[stack[t][d].id] > 0

\* None of the calls from i on of program x has been made.
Ahead(x, i) == \A j \in DOMAIN prog[x] : j >= i => \A a \in added : ~ Hands(prog[x][j], a)
AheadInv ==
  /\ \A t \in Threads : \A d \in Nat : IsProg(t, d) => Ahead(stack[t][d].id, stack[t][d].ip)
  /\ \A a \in Tasks : ran[a] = 0 => Ahead(a, 1)

TaskInv == NoneTwice /\ TaskConserved /\ AddedInv /\ OneFrame /\ StartedInv /\ AheadInv

\* Every program's frame was there before, not further on, or is the one of a
\* task that starts.
ProgsFrom(t, R) ==
  \A u \in Threads : \A d \in Nat :
    IsProg(u, d)' =>
      LET g == stack'[u][d]
      IN  \/ IsProg(u, d) /\ stack[u][d].id = g.id /\ stack[u][d].ip <= g.ip
          \/ u = t /\ d = Len(stack[t]) + 1 /\ g.id \in R /\ g.ip = 1

\* Thread t makes the call that hands a over.
Handing(t, a) ==
  LET n == Len(stack[t])
      f == stack[t][n]
  IN  /\ IsProg(t, n) /\ f.id \in Tasks \cup Clients
      /\ f.ip \in DOMAIN prog[f.id] /\ Hands(prog[f.id][f.ip], a)
      /\ stack'[t][n].ip > f.ip

\* The tasks H are handed over and the tasks R start.
TasksMove(t, H, R) ==
  /\ H \subseteq Tasks /\ R \subseteq Tasks /\ prog' = prog
  /\ added' = added \cup H
  /\ ran' = [a \in Tasks |-> IF a \in R THEN ran[a] + 1 ELSE ran[a]]
  /\ \A a \in H : Handing(t, a)
  /\ \A b \in R : Waits(TaskItem(b)) \/ b \in H
  /\ \A a \in Tasks : Waits(TaskItem(a))' <=> (Waits(TaskItem(a)) \/ a \in H) /\ a \notin R

\* The counter of a program's frame.
LEMMA FrameIp ==
  ASSUME StacksOK, FramesOK, HistoryOK, NEW t \in Threads, NEW d \in Nat, IsProg(t, d)
  PROVE  /\ stack[t][d].id \in Tasks \cup Clients /\ stack[t][d].ip \in Nat \ {0}
         /\ prog[stack[t][d].id] \in Seq(Call) /\ prog \in Programs
<1>1. FrameOK(prog, t, d, stack[t][d]) /\ stack[t][d].is = "prog"
  BY DEF FramesOK, IsProg
<1>2. stack[t][d] \in ProgFrames
  BY <1>1 DEF FrameOK, ProgOK, LoopOK, LoopFrames, WakeFrames
<1>3. stack[t][d].id \in Tasks \cup Clients /\ stack[t][d].ip \in Nat \ {0}
  BY <1>2 DEF ProgFrames
<1>4. prog \in Programs
  BY DEF HistoryOK
<1>5. prog \in [Tasks \cup Clients -> Seq(Call)]
  BY <1>4, ProgramAssumption
<1>6. QED BY <1>3, <1>4, <1>5

\* The same in the next state, without the program.
LEMMA FrameIpNext ==
  ASSUME FramesOK', NEW t \in Threads, NEW d \in Nat, IsProg(t, d)'
  PROVE  stack'[t][d].id \in Tasks \cup Clients /\ stack'[t][d].ip \in Nat \ {0}
<1>1. FrameOK(prog', t, d, stack'[t][d]) /\ stack'[t][d].is = "prog"
  BY DEF FramesOK, IsProg
<1>2. stack'[t][d] \in ProgFrames
  BY <1>1 DEF FrameOK, ProgOK, LoopOK, LoopFrames, WakeFrames
<1>3. QED BY <1>2 DEF ProgFrames

\* A step that moves the tasks and their programs like that keeps the invariant.
LEMMA TaskStep ==
  ASSUME StacksOK, StacksOK', FramesOK, FramesOK', HistoryOK, HistoryOK', TaskInv, NoneTwice',
         NEW t \in Threads, NEW H, NEW R, TasksMove(t, H, R), ProgsFrom(t, R)
  PROVE  TaskInv'
<1> USE DEF TaskInv
<1>0. /\ prog' = prog /\ prog \in Programs /\ added \subseteq Tasks /\ ran \in [Tasks -> Nat]
      /\ H \subseteq Tasks /\ R \subseteq Tasks /\ added' = added \cup H
  BY DEF HistoryOK, TasksMove
<1>n. Len(stack[t]) \in Nat
  BY StackLen
<1>1. ASSUME NEW a \in H PROVE a \in Tasks /\ a \notin added /\ ~ Waits(TaskItem(a)) /\ ran[a] = 0
  <2> DEFINE n == Len(stack[t])
             f == stack[t][n]
  <2>1. /\ IsProg(t, n) /\ f.ip \in DOMAIN prog[f.id] /\ Hands(prog[f.id][f.ip], a)
    BY DEF TasksMove, Handing
  <2>2. Ahead(f.id, f.ip) /\ f.ip \in Nat
    BY <1>n, <2>1, FrameIp DEF AheadInv
  <2> HIDE DEF n, f
  <2>3. a \notin added
    BY <2>1, <2>2 DEF Ahead
  <2>4. a \in Tasks /\ ran[a] \in Nat
    BY <1>0
  <2>5. QED BY <2>3, <2>4 DEF AddedInv
<1>2. ASSUME NEW a \in R PROVE a \in Tasks /\ ran[a] = 0
  <2>1. a \in Tasks
    BY <1>0
  <2>2. CASE Waits(TaskItem(a))
    BY <2>1, <2>2 DEF AddedInv, TaskConserved
  <2>3. CASE a \in H
    BY <1>1, <2>3
  <2>4. QED BY <2>1, <2>2, <2>3 DEF TasksMove
<1>3. ASSUME NEW a \in Tasks PROVE /\ ran[a] \in Nat /\ ran'[a] = IF a \in R THEN ran[a] + 1 ELSE ran[a]
                                   /\ Waits(TaskItem(a))' <=> (Waits(TaskItem(a)) \/ a \in H) /\ a \notin R
  BY <1>0 DEF TasksMove
<1>4. TaskConserved'
  <2> SUFFICES ASSUME NEW a \in added' PROVE ran'[a] = IF Waits(TaskItem(a))' THEN 0 ELSE 1
    BY DEF TaskConserved
  <2>0. a \in Tasks
    BY <1>0
  <2>1. CASE a \in R
    BY <1>2, <1>3, <2>0, <2>1
  <2>2. CASE a \notin R /\ a \in H
    BY <1>1, <1>3, <2>0, <2>2
  <2>3. CASE a \notin R /\ a \notin H
    <3>1. a \in added
      BY <1>0, <2>3
    <3>2. ran[a] = IF Waits(TaskItem(a)) THEN 0 ELSE 1
      BY <3>1 DEF TaskConserved
    <3>3. QED BY <1>3, <2>0, <2>3, <3>2
  <2>4. QED BY <2>1, <2>2, <2>3
<1>5. AddedInv'
  <2> SUFFICES ASSUME NEW a \in Tasks, Waits(TaskItem(a))' \/ ran'[a] > 0 PROVE a \in added'
    BY DEF AddedInv
  <2>1. CASE a \in H
    BY <1>0, <2>1
  <2>2. CASE a \in R
    BY <1>0, <1>3, <2>2 DEF TasksMove, AddedInv
  <2>3. CASE a \notin H /\ a \notin R
    BY <1>0, <1>3, <2>3 DEF AddedInv
  <2>4. QED BY <2>1, <2>2, <2>3
<1>6. ASSUME NEW u \in Threads, NEW d \in Nat, IsProg(u, d)'
      PROVE  \/ IsProg(u, d) /\ stack[u][d].id = stack'[u][d].id /\ stack[u][d].ip <= stack'[u][d].ip
             \/ u = t /\ d = Len(stack[t]) + 1 /\ stack'[u][d].id \in R /\ stack'[u][d].ip = 1
  BY <1>6 DEF ProgsFrom
<1>7. OneFrame'
  <2> SUFFICES ASSUME NEW u \in Threads, NEW x \in Threads, NEW d \in Nat, NEW e \in Nat,
                      IsProg(u, d)', IsProg(x, e)', stack'[u][d].id = stack'[x][e].id
               PROVE  u = x /\ d = e
    BY DEF OneFrame
  <2>1. CASE /\ IsProg(u, d) /\ stack[u][d].id = stack'[u][d].id
             /\ IsProg(x, e) /\ stack[x][e].id = stack'[x][e].id
    BY <2>1 DEF OneFrame
  <2>2. CASE IsProg(u, d) /\ stack[u][d].id = stack'[u][d].id /\ stack'[x][e].id \in R
    BY <1>2, <2>2 DEF StartedInv
  <2>3. CASE IsProg(x, e) /\ stack[x][e].id = stack'[x][e].id /\ stack'[u][d].id \in R
    BY <1>2, <2>3 DEF StartedInv
  <2>4. CASE u = t /\ d = Len(stack[t]) + 1 /\ x = t /\ e = Len(stack[t]) + 1
    BY <2>4
  <2>5. QED BY <1>6, <2>1, <2>2, <2>3, <2>4
<1>8. StartedInv'
  <2> SUFFICES ASSUME NEW u \in Threads, NEW d \in Nat, IsProg(u, d)', stack'[u][d].id \in Tasks
               PROVE  ran'[stack'[u][d].id] > 0
    BY DEF StartedInv
  <2> DEFINE b == stack'[u][d].id
  <2>1. CASE IsProg(u, d) /\ stack[u][d].id = b
    BY <1>3, <2>1 DEF StartedInv
  <2>2. CASE b \in R
    BY <1>3, <2>2
  <2>3. QED BY <1>6, <2>1, <2>2
<1>9. ASSUME NEW a \in H, NEW x \in Tasks \cup Clients, NEW j \in DOMAIN prog[x], Hands(prog[x][j], a)
      PROVE  LET n == Len(stack[t])
                 f == stack[t][n]
             IN  x = f.id /\ j = f.ip /\ IsProg(t, n) /\ stack'[t][n].ip > f.ip
  <2> DEFINE n == Len(stack[t])
             f == stack[t][n]
  <2>1. /\ IsProg(t, n) /\ f.id \in Tasks \cup Clients /\ f.ip \in DOMAIN prog[f.id]
        /\ Hands(prog[f.id][f.ip], a) /\ stack'[t][n].ip > f.ip /\ a \in Tasks
    BY <1>0 DEF TasksMove, Handing
  <2> HIDE DEF n, f
  <2>2. x = f.id /\ j = f.ip
    BY <1>0, <1>9, <2>1, ProgramAssumption
  <2>3. QED BY <2>1, <2>2 DEF n, f
<1>10. ASSUME NEW u \in Threads, NEW d \in Nat, IsProg(u, d)' PROVE Ahead(stack[u][d].id, stack[u][d].ip)'
  <2> DEFINE x == stack'[u][d].id
             i == stack'[u][d].ip
  <2>0. x \in Tasks \cup Clients /\ i \in Nat
    BY <1>10, FrameIpNext
  <2> SUFFICES ASSUME NEW j \in DOMAIN prog[x], j >= i, NEW a \in added', Hands(prog[x][j], a)
               PROVE  FALSE
    BY <1>0 DEF Ahead
  <2>j. prog[x] \in Seq(Call) /\ j \in Nat
    BY <1>0, <2>0, ProgramAssumption
  <2>1. CASE IsProg(u, d) /\ stack[u][d].id = x /\ stack[u][d].ip <= i
    <3>1. Ahead(x, stack[u][d].ip) /\ stack[u][d].ip \in Nat
      BY <2>1, FrameIp DEF AheadInv
    <3>2. a \notin added
      BY <2>0, <2>1, <2>j, <3>1 DEF Ahead
    <3>3. a \in H
      BY <1>0, <3>2
    <3> DEFINE n == Len(stack[t])
    <3>4. x = stack[t][n].id /\ j = stack[t][n].ip /\ IsProg(t, n) /\ stack'[t][n].ip > stack[t][n].ip
      BY <1>9, <2>0, <3>3
    <3>5. u = t /\ d = n
      BY <1>n, <2>1, <3>4 DEF OneFrame
    <3>6. QED BY <2>0, <2>j, <3>4, <3>5
  <2>2. CASE x \in R /\ i = 1
    <3>1. x \in Tasks /\ ran[x] = 0
      BY <1>2, <2>2
    <3>2. Ahead(x, 1)
      BY <3>1 DEF AheadInv
    <3>3. a \notin added
      BY <2>2, <2>j, <3>2 DEF Ahead
    <3>4. a \in H
      BY <1>0, <3>3
    <3> DEFINE n == Len(stack[t])
    <3>5. x = stack[t][n].id /\ IsProg(t, n)
      BY <1>9, <2>0, <3>4
    <3>6. QED BY <1>n, <3>1, <3>5 DEF StartedInv
  <2>3. QED BY <1>6, <1>10, <2>1, <2>2
<1>11. ASSUME NEW x \in Tasks, ran'[x] = 0 PROVE Ahead(x, 1)'
  <2> SUFFICES ASSUME NEW j \in DOMAIN prog[x], j >= 1, NEW a \in added', Hands(prog[x][j], a)
               PROVE  FALSE
    BY <1>0 DEF Ahead
  <2>1. ran[x] = 0
    BY <1>3, <1>11
  <2>2. a \notin added
    BY <2>1 DEF AheadInv, Ahead
  <2>3. a \in H
    BY <1>0, <2>2
  <2> DEFINE n == Len(stack[t])
  <2>4. x = stack[t][n].id /\ IsProg(t, n)
    BY <1>9, <2>3
  <2>5. QED BY <1>n, <2>1, <2>4 DEF StartedInv
<1>12. AheadInv'
  BY <1>10, <1>11 DEF AheadInv
<1>13. QED BY <1>4, <1>5, <1>7, <1>8, <1>12

-----------------------------------------------------------------------------
(* What a step does to frames, tasks and closures *)

Closures == [thread : Threads, depth : Nat, value : Values]

\* The same frame, perhaps further on.
Keeps(f, g) ==
  /\ g.is = f.is
  /\ f.is = "prog" => g.id = f.id /\ f.ip <= g.ip
  /\ f.is = "loop" => g.kind = f.kind /\ g.left = f.left

\* Thread t goes on in its frame, returns from it or calls another one, which
\* is not an await.
FramesMove(t, R) ==
  LET s == stack[t]
      r == stack'[t]
      n == Len(stack[t])
  IN  /\ s # <<>> /\ OthersStay(t) /\ \A i \in 1..(n - 1) : r[i] = s[i]
      /\ \/ Len(r) = n - 1 /\ (Awaits(s[n]) => s[n].left = 0 \/ WakeUp(t))
         \/ Len(r) = n /\ Keeps(s[n], r[n])
         \/ /\ Len(r) = n + 1 /\ Keeps(s[n], r[n]) /\ ~ Awaits(r[n + 1])
            /\ r[n + 1].is = "prog" => r[n + 1].id \in R /\ r[n + 1].ip = 1
            /\ r[n + 1].is = "wake" => r[n + 1].pc = "decrement"

ClosuresStay == \A it \in Closures : Waits(it)' <=> Waits(it)

\* Values stay ready, and a value loses no waiter before it is.
ValuesMove ==
  /\ ready \subseteq ready'
  /\ \A v \in Values : v \in ready' \/ ToSet(waiters[v]) \subseteq ToSet(waiters'[v])

Moves(t, H, R) ==
  FramesMove(t, R) /\ TasksMove(t, H, R) /\ NoneTwice' /\ ClosuresStay /\ ValuesMove

\* Going on in a frame moves the frames like that.
LEMMA SetFrames ==
  ASSUME StacksOK, NEW t \in Threads, stack[t] # <<>>, NEW f, SetTop(t, f), Keeps(Top(t), f), NEW R
  PROVE  FramesMove(t, R)
<1>1. OthersStay(t) /\ Changed(stack[t], stack'[t], f)
  BY SetShape
<1>2. QED BY <1>1 DEF FramesMove, Changed, Top

\* So does a call that is no await.
LEMMA CallFrames ==
  ASSUME StacksOK, NEW t \in Threads, stack[t] # <<>>, NEW f, NEW g, CallWith(t, f, g),
         Keeps(Top(t), f), NEW R, ~ Awaits(g), g.is = "prog" => g.id \in R /\ g.ip = 1,
         g.is = "wake" => g.pc = "decrement"
  PROVE  FramesMove(t, R)
<1>1. OthersStay(t) /\ Entered(stack[t], stack'[t], f, g)
  BY CallShape
<1>2. QED BY <1>1 DEF FramesMove, Entered, Top

\* So does a return, of an await only if it is over or was woken.
LEMMA ReturnFrames ==
  ASSUME StacksOK, NEW t \in Threads, stack[t] # <<>>, Return(t),
         Awaits(Top(t)) => Top(t).left = 0 \/ WakeUp(t), NEW R
  PROVE  FramesMove(t, R)
<1>1. OthersStay(t) /\ Left(stack[t], stack'[t])
  BY ReturnShape
<1>2. QED BY <1>1 DEF FramesMove, Left, Top

\* The frames of programs among them.
LEMMA FramesOfProgs ==
  ASSUME StacksOK, StacksOK', FramesOK, NEW t \in Threads, NEW R, FramesMove(t, R)
  PROVE  ProgsFrom(t, R)
<1> SUFFICES ASSUME NEW u \in Threads, NEW d \in Nat, IsProg(u, d)'
             PROVE  \/ IsProg(u, d) /\ stack[u][d].id = stack'[u][d].id /\ stack[u][d].ip <= stack'[u][d].ip
                    \/ u = t /\ d = Len(stack[t]) + 1 /\ stack'[u][d].id \in R /\ stack'[u][d].ip = 1
  BY DEF ProgsFrom
<1>0. d \in 1..Len(stack'[u]) /\ stack'[u][d].is = "prog" /\ Len(stack[u]) \in Nat
  BY StackLen DEF IsProg
<1>1. CASE d \in 1..Len(stack[u]) /\ stack'[u][d] = stack[u][d]
  <2>1. IsProg(u, d)
    BY <1>0, <1>1 DEF IsProg
  <2>2. stack[u][d] \in ProgFrames
    <3>1. FrameOK(prog, u, d, stack[u][d]) /\ stack[u][d].is = "prog"
      BY <2>1 DEF FramesOK, IsProg
    <3>2. QED BY <3>1 DEF FrameOK, ProgOK, LoopOK, LoopFrames, WakeFrames
  <2>3. stack[u][d].ip <= stack[u][d].ip
    BY <2>2 DEF ProgFrames
  <2>4. QED BY <1>1, <2>1, <2>3
<1>2. CASE u # t
  BY <1>0, <1>1, <1>2 DEF FramesMove, OthersStay
<1>3. CASE u = t
  <2> DEFINE n == Len(stack[t])
  <2>0. n \in Nat
    BY <1>0, <1>3
  <2>1. CASE d \in 1..(n - 1)
    BY <1>1, <1>3, <2>0, <2>1 DEF FramesMove
  <2>2. CASE d = n
    <3>1. Keeps(stack[t][n], stack'[t][n])
      BY <1>0, <1>3, <2>0, <2>2 DEF FramesMove
    <3>2. QED BY <1>0, <1>3, <2>0, <2>2, <3>1 DEF Keeps, IsProg
  <2>3. CASE d = n + 1
    BY <1>0, <1>3, <2>0, <2>3 DEF FramesMove
  <2>4. d \in 1..(n - 1) \/ d = n \/ d = n + 1
    BY <1>0, <1>3, <2>0 DEF FramesMove
  <2>5. QED BY <2>1, <2>2, <2>3, <2>4
<1>4. QED BY <1>2, <1>3

\* Which items wait, for a step that lets them be.
LEMMA StillItems ==
  ASSUME HistoryOK, NEW t, Effect({}, {}), UNCHANGED <<prog, added, ran>>
  PROVE  TasksMove(t, {}, {}) /\ NoneTwice' /\ ClosuresStay
<1>1. \A x : Waits(x)' <=> Waits(x)
  BY DEF Effect
<1>2. ran = [a \in Tasks |-> ran[a]]
  BY DEF HistoryOK
<1>3. QED BY <1>1, <1>2 DEF TasksMove, ClosuresStay, Effect

\* A closure is not a task.
LEMMA Unlike ==
  /\ \A a : TaskItem(a) \notin Closures
  /\ \A a, b : TaskItem(a) = TaskItem(b) => a = b
  /\ Closures \subseteq Items /\ \A it \in Closures : ~ IsTask(it)
<1>1. \A a : IsTask(TaskItem(a)) /\ TaskItem(a).task = a
  BY DEF TaskItem, IsTask
<1>2. \A it \in Closures : ~ IsTask(it)
  BY DEF Closures, IsTask
<1>3. QED BY <1>1, <1>2 DEF Closures, Items

\* Those of a step that runs an item it found.
LEMMA RunItemsMove ==
  ASSUME HistoryOK, NEW t, NEW f, NEW it \in Items, Effect({}, Spent(it)), Waits(it), Run(t, f, it),
         UNCHANGED <<prog, added>>
  PROVE  LET R == IF IsTask(it) THEN {it.task} ELSE {}
         IN  TasksMove(t, {}, R) /\ NoneTwice' /\ ClosuresStay
<1> DEFINE R == IF IsTask(it) THEN {it.task} ELSE {}
<1>1. /\ IsTask(it) => it.task \in Tasks /\ it = TaskItem(it.task)
      /\ \A x : Waits(x)' <=> Waits(x) /\ x \notin Spent(it)
  BY ItemKinds DEF Effect
<1>2. ran' = [a \in Tasks |-> IF a \in R THEN ran[a] + 1 ELSE ran[a]]
  <2>1. ran \in [Tasks -> Nat]
    BY DEF HistoryOK
  <2>2. CASE IsTask(it)
    BY <1>1, <2>1, <2>2 DEF Run
  <2>3. CASE ~ IsTask(it)
    BY <2>1, <2>3 DEF Run
  <2>4. QED BY <2>2, <2>3
<1>3. \A a \in Tasks : TaskItem(a) \in Spent(it) <=> a \in R
  BY <1>1, Unlike DEF Spent
<1>4. \A x \in Closures : x \notin Spent(it)
  BY Unlike DEF Spent
<1>5. R \subseteq Tasks /\ \A b \in R : Waits(TaskItem(b))
  BY <1>1
<1> HIDE DEF R
<1>6. TasksMove(t, {}, R)
  BY <1>1, <1>2, <1>3, <1>5 DEF TasksMove
<1>7. QED BY <1>1, <1>4, <1>6 DEF ClosuresStay, Effect, R

\* The frame of an item.
LEMMA ItemFrame ==
  ASSUME NEW it \in Items
  PROVE  LET R == IF IsTask(it) THEN {it.task} ELSE {}
             g == FrameOf(it)
         IN  /\ ~ Awaits(g) /\ (g.is = "prog" => g.id \in R /\ g.ip = 1)
             /\ g.is = "wake" => g.pc = "decrement"
  BY ItemKinds DEF FrameOf, ProgFrame, WakeFrame, Awaits

\* runItemsImpl.
LEMMA LoopKeeps ==
  ASSUME StacksOK, StacksOK', TypeInv, TypeInv', NoneTwice, NEW t \in Threads, RunItems(t)
  PROVE  \E H, R : Moves(t, H, R)
<1>1. LoopEffect(t) /\ HistoryOK
  BY LoopEffects DEF TypeInv
<1>2. stack[t] # <<>> /\ UNCHANGED <<prog, ready, waiters, added>>
  BY <1>1 DEF LoopEffect, At
<1>3. ValuesMove
  BY <1>2 DEF ValuesMove
<1>4. ASSUME NEW f, SetTop(t, f), SameLoop(f, Top(t)), Effect({}, {}), ran' = ran
      PROVE  Moves(t, {}, {})
  <2>1. FramesMove(t, {})
    BY <1>2, <1>4, SetFrames DEF SameLoop, Keeps
  <2>2. QED BY <1>1, <1>2, <1>3, <1>4, <2>1, StillItems DEF Moves
<1>5. ASSUME NEW f, NEW it \in Items, Run(t, f, it), SameLoop(f, Top(t)),
             Effect({}, Spent(it)), Waits(it)
      PROVE  \E R : Moves(t, {}, R)
  <2> DEFINE R == IF IsTask(it) THEN {it.task} ELSE {}
             g == FrameOf(it)
  <2>1. /\ ~ Awaits(g) /\ (g.is = "prog" => g.id \in R /\ g.ip = 1) /\ CallWith(t, f, g)
        /\ g.is = "wake" => g.pc = "decrement"
    BY <1>5, ItemFrame DEF Run
  <2>2. Keeps(Top(t), f)
    BY <1>5 DEF SameLoop, Keeps
  <2>3. TasksMove(t, {}, R) /\ NoneTwice' /\ ClosuresStay
    BY <1>1, <1>2, <1>5, RunItemsMove
  <2> HIDE DEF R, g
  <2>4. FramesMove(t, R)
    BY <1>2, <2>1, <2>2, CallFrames
  <2>5. QED BY <1>3, <2>3, <2>4 DEF Moves
<1>6. ASSUME Return(t), Effect({}, {}), ran' = ran, Awaits(Top(t)) => Top(t).left = 0 \/ WakeUp(t)
      PROVE  Moves(t, {}, {})
  <2>1. FramesMove(t, {})
    BY <1>2, <1>6, ReturnFrames
  <2>2. QED BY <1>1, <1>2, <1>3, <1>6, <2>1, StillItems DEF Moves
<1>7. QED BY <1>1, <1>4, <1>5, <1>6 DEF LoopEffect

-----------------------------------------------------------------------------
(* addTask moves the item in hand *)

\* What a thread in addTask has in hand.
LEMMA AddingHand ==
  ASSUME StacksOK, FramesOK, HistoryOK, NEW t \in Threads, NEW l \in Giving \cup Given,
         At(t, "prog", l)
  PROVE  LET h == ItemsOf(Top(t).todo)
         IN  /\ h \in Seq(Items) /\ h # <<>> /\ Head(h) = Adding(t).item /\ Head(h) \in Items
             /\ Hand(t) = IF l \in Giving THEN h ELSE Tail(h)
             /\ \A f : SetTop(t, f) /\ f.is = "prog" /\ f.todo = Top(t).todo =>
                  /\ f.pc \in Giving => Hand(t)' = h
                  /\ f.pc \in Given => Hand(t)' = Tail(h)
             /\ SetTop(t, Added(Top(t))) => Hand(t)' = Tail(h)
<1> DEFINE q == Top(t).todo
           h == ItemsOf(q)
<1>1. /\ q \in Seq(Handovers) /\ q # <<>> /\ Tail(q) \in Seq(Handovers) /\ Adding(t).item \in Items
      /\ stack[t] # <<>> /\ Len(stack[t]) \in Nat /\ Len(stack[t]) > 0 /\ Top(t) = Tip(stack[t])
  BY ProgAt, AddedFrame DEF Tip
<1>2. /\ h \in Seq(Items) /\ h # <<>> /\ Head(h) = Adding(t).item /\ Tail(h) = ItemsOf(Tail(q))
  BY <1>1, ItemsFacts DEF Adding
<1>3. Tail(q) = <<>> => ItemsOf(Tail(q)) = <<>>
  BY <1>1, ItemsFacts
<1>4. Giving \cap Given = {} /\ "op" \notin Giving \cup Given /\ "add" \in Giving
  BY DEF Giving, Given
<1>5. Top(t).is = "prog" /\ Top(t).pc = l
  BY DEF At
<1> HIDE DEF q, h
<1>6. Hand(t) = IF l \in Giving THEN h ELSE Tail(h)
  <2>1. HandOn(stack[t]) = IF l \in Giving THEN ItemsOf(Top(t).todo) ELSE ItemsOf(Tail(Top(t).todo))
    BY <1>1, <1>5, HandCases
  <2>2. QED BY <1>2, <2>1, HandIs DEF h, q
<1>7. ASSUME NEW f, SetTop(t, f), f.is = "prog"
      PROVE  /\ f.pc \in Giving => Hand(t)' = ItemsOf(f.todo)
             /\ f.pc \in Given => Hand(t)' = ItemsOf(Tail(f.todo))
             /\ f.pc \notin Giving \cup Given => Hand(t)' = <<>>
  <2>1. stack'[t] # <<>> /\ Tip(stack'[t]) = f
    BY <1>1, <1>7, SetShape DEF Changed, Tip
  <2>2. QED BY <1>7, <2>1, HandCases, HandIs
<1>8. ASSUME SetTop(t, Added(Top(t))) PROVE Hand(t)' = Tail(h)
  <2> DEFINE f == Added(Top(t))
  <2>1. f.is = "prog" /\ f.todo = Tail(q) /\ f.pc = IF f.todo = <<>> THEN "op" ELSE "add"
    BY AddedFrame DEF q
  <2> HIDE DEF f
  <2>2. SetTop(t, f)
    BY <1>8 DEF f
  <2>3. QED BY <1>2, <1>3, <1>4, <1>7, <2>1, <2>2
<1>9. QED BY <1>1, <1>2, <1>6, <1>7, <1>8 DEF h, q

\* The item in hand goes to the end of list a.
LEMMA GiveTo ==
  ASSUME NoneTwice, NEW t \in Threads, NEW a \in Lists, a # <<"hand", t>>,
         List(a) \in Seq(Items), Hand(t) \in Seq(Items), Hand(t) # <<>>,
         List(a)' = Append(List(a), Head(Hand(t))), Hand(t)' = Tail(Hand(t)),
         taskList' = taskList, \A k \in Lists \ {a, <<"hand", t>>} : List(k)' = List(k)
  PROVE  Effect({}, {})
<1> DEFINE b == <<"hand", t>>
           h == Hand(t)
           q == List(a)
<1>1. b \in Lists /\ List(b) = h /\ List(b)' = Tail(h)
  BY ListNames, ListNamesNext
<1>2. Distinct(q) /\ Distinct(h) /\ ToSet(q) \cap ToSet(h) = {}
  <2>1. Distinct(List(a)) /\ Distinct(List(b)) /\ ToSet(List(a)) \cap ToSet(List(b)) = {}
    BY <1>1, NoneTwiceMeans
  <2>2. QED BY <1>1, <2>1
<1>3. /\ Head(h) \in Items /\ ToSet(h) = ToSet(Tail(h)) \cup {Head(h)}
      /\ Distinct(Tail(h)) /\ Head(h) \notin ToSet(Tail(h))
  BY <1>2, TailFacts
<1> HIDE DEF h, q, b
<1>4. ToSet(Append(q, Head(h))) = ToSet(q) \cup {Head(h)} /\ Distinct(Append(q, Head(h)))
  BY <1>2, <1>3, AppendFacts DEF q
<1>5. List(a)' = Append(q, Head(h)) /\ List(a) = q /\ a # b /\ \A k \in Lists \ {a, b} : List(k)' = List(k)
  BY DEF q, h, b
<1>6. /\ Distinct(List(a)') /\ Distinct(List(b)') /\ ToSet(List(a)') \cap ToSet(List(b)') = {}
      /\ ToSet(List(a)') \cup ToSet(List(b)') = ((ToSet(List(a)) \cup ToSet(List(b))) \ {}) \cup {}
  BY <1>1, <1>2, <1>3, <1>4, <1>5
<1>7. QED BY <1>1, <1>5, <1>6, TwoMove

\* Every step of addTask moves an item from the hand to a list, or wakes.
LEMMA AddKeeps ==
  ASSUME StacksOK, StacksOK', TypeInv, TypeInv', NoneTwice, NEW t \in Threads, AddTask(t)
  PROVE  Moves(t, {}, {})
<1> USE DEF queues, values
<1>s. FramesOK /\ QueuesOK /\ HistoryOK
  BY DEF TypeInv
<1>h. Shaped(t)
  BY <1>s, StepShaped DEF Step
<1>o. \A u \in Threads \ {t} : Hand(u)' = Hand(u)
  BY <1>h, HandsStay
<1>t. PICK l \in Giving \cup Given : At(t, "prog", l)
  BY DEF AddTask, AddAffinity, AddSpill, TakeSuspended, AddGlobal, TakeAny, Post, AddOverflow,
         Giving, Given
<1>u. UNCHANGED <<prog, local, ready, waiters, added, ran>>
  BY DEF AddTask, AddAffinity, AddSpill, TakeSuspended, AddGlobal, TakeAny, Post, AddOverflow
<1>0. /\ stack[t] # <<>> /\ Top(t) \in ProgFrames /\ Top(t).ip \in Nat /\ Top(t).is = "prog" /\ Top(t).pc = l
  BY <1>s, <1>t, ProgAt DEF At
<1> DEFINE h == ItemsOf(Top(t).todo)
           Keeper(f) == f.is = "prog" /\ f.id = Top(t).id /\ f.ip = Top(t).ip
<1>1. /\ h \in Seq(Items) /\ h # <<>> /\ Head(h) = Adding(t).item /\ Head(h) \in Items
      /\ Hand(t) = IF l \in Giving THEN h ELSE Tail(h)
      /\ \A f : SetTop(t, f) /\ f.is = "prog" /\ f.todo = Top(t).todo =>
           /\ f.pc \in Giving => Hand(t)' = h
           /\ f.pc \in Given => Hand(t)' = Tail(h)
      /\ SetTop(t, Added(Top(t))) => Hand(t)' = Tail(h)
  BY <1>s, <1>t, AddingHand
<1>2. Keeper(Added(Top(t)))
  BY <1>s, <1>t, AddedFrame
<1>3. ASSUME NEW m
      PROVE  LET f == [Top(t) EXCEPT !.pc = m] IN Keeper(f) /\ f.pc = m /\ f.todo = Top(t).todo
  BY <1>0 DEF ProgFrames
<1>4. ASSUME NEW w
      PROVE  LET f == [Top(t) EXCEPT !.pc = "post", !.target = w]
             IN  Keeper(f) /\ f.pc = "post" /\ f.todo = Top(t).todo
  BY <1>0 DEF ProgFrames
<1> HIDE DEF h
<1>5. ASSUME NEW f, SetTop(t, f), Keeper(f), Effect({}, {}) PROVE Moves(t, {}, {})
  <2>1. Keeps(Top(t), f)
    BY <1>0, <1>5 DEF Keeps
  <2>2. FramesMove(t, {})
    BY <1>0, <1>5, <2>1, SetFrames
  <2>3. TasksMove(t, {}, {}) /\ NoneTwice' /\ ClosuresStay
    BY <1>s, <1>u, <1>5, StillItems
  <2>4. QED BY <1>u, <2>2, <2>3 DEF Moves, ValuesMove
<1>6. ASSUME NEW f, SetTop(t, f), Keeper(f), Hand(t)' = Hand(t), UNCHANGED queues PROVE Moves(t, {}, {})
  <2>1. HandOn(stack'[t]) = HandOn(stack[t])
    BY <1>6, HandIs
  <2>2. Effect({}, {})
    BY <1>h, <1>u, <1>6, <2>1, StillStep
  <2> HIDE DEF Keeper
  <2>3. QED BY <1>5, <1>6, <2>2
<1>7. ASSUME NEW m, Goto(t, m)
      PROVE  \E f : /\ SetTop(t, f) /\ Keeper(f)
                    /\ m \in Giving => Hand(t)' = h
                    /\ m \in Given => Hand(t)' = Tail(h)
  <2> DEFINE f == [Top(t) EXCEPT !.pc = m]
  <2>1. SetTop(t, f) /\ Keeper(f) /\ f.pc = m /\ f.todo = Top(t).todo
    BY <1>3, <1>7 DEF Goto
  <2> HIDE DEF f
  <2>2. QED BY <1>1, <2>1
<1> HIDE DEF Keeper
<1>8. CASE AddAffinity(t)
  <2>0. PICK w : w = Adding(t).to
    OBVIOUS
  <2> DEFINE a == <<"ring", w>>
             C == {a, <<"hand", t>>}
  <2>1. l \in Giving /\ w \in Workers /\ ring[w] \in Seq(Items) /\ UNCHANGED <<spill, taskList, overflow>>
    <3>1. At(t, "prog", "add") /\ "add" \in Giving
      BY <1>8 DEF AddAffinity, Giving
    <3>2. w \in Workers
      BY <1>s, <3>1, <1>8, <2>0, AddedFrame DEF AddAffinity
    <3>3. l = "add"
      BY <1>0, <3>1 DEF At
    <3>4. QED BY <1>s, <1>8, <3>1, <3>2, <3>3 DEF AddAffinity, QueuesOK
  <2>2. CASE Len(ring[w]) < RingSize
    <3>1. ring' = [ring EXCEPT ![w] = Append(ring[w], Head(h))] /\ Goto(t, "take")
      BY <1>1, <1>8, <2>0, <2>2 DEF AddAffinity
    <3>2. PICK f : SetTop(t, f) /\ Keeper(f) /\ Hand(t)' = Tail(h)
      BY <1>7, <3>1 DEF Given
    <3>3. ring'[w] = Append(ring[w], Head(h)) /\ \A x \in Workers \ {w} : ring'[x] = ring[x]
      BY <1>s, <2>1, <3>1 DEF QueuesOK
    <3>4. a \in Lists /\ List(a) = ring[w] /\ List(a)' = ring'[w] /\ a # <<"hand", t>>
      BY <2>1, ListNames, ListNamesNext
    <3>5. /\ \A x \in Workers : <<"ring", x>> \in C \/ ring'[x] = ring[x]
          /\ \A u \in Threads : <<"hand", u>> \in C \/ Hand(u)' = Hand(u)
      BY <1>o, <3>3
    <3> HIDE DEF C
    <3>6. \A k \in Lists \ C : List(k)' = List(k)
      BY <1>u, <2>1, <3>5, ListsStay
    <3>7. Effect({}, {})
      <4>1. \A k \in Lists \ {a, <<"hand", t>>} : List(k)' = List(k)
        BY <3>6 DEF C
      <4> HIDE DEF a
      <4>2. QED BY <1>1, <2>1, <3>2, <3>3, <3>4, <4>1, GiveTo
    <3>8. QED BY <1>5, <3>2, <3>7
  <2>3. CASE ~ (Len(ring[w]) < RingSize)
    <3>1. Goto(t, "spill") /\ UNCHANGED queues
      BY <1>8, <2>0, <2>1, <2>3, <1>u DEF AddAffinity
    <3>2. PICK f : SetTop(t, f) /\ Keeper(f) /\ Hand(t)' = h
      BY <1>7, <3>1 DEF Giving
    <3>3. QED BY <1>1, <1>6, <2>1, <3>1, <3>2
  <2>4. QED BY <2>2, <2>3
<1>9. CASE AddSpill(t)
  <2>0. PICK w : w = Adding(t).to
    OBVIOUS
  <2> DEFINE a == <<"spill", w>>
             C == {a, <<"hand", t>>}
  <2>1. l \in Giving /\ w \in Workers /\ spill[w] \in Seq(Items) /\ UNCHANGED <<ring, taskList, overflow>>
    <3>1. At(t, "prog", "spill") /\ "spill" \in Giving
      BY <1>9 DEF AddSpill, Giving
    <3>2. w \in Workers
      BY <1>s, <2>0, <3>1, ProgAt DEF ProgOK, Adding
    <3>3. l = "spill"
      BY <1>0, <3>1 DEF At
    <3>4. QED BY <1>s, <1>9, <3>1, <3>2, <3>3 DEF AddSpill, QueuesOK
  <2>2. spill' = [spill EXCEPT ![w] = Append(spill[w], Head(h))] /\ Goto(t, "take")
    BY <1>1, <1>9, <2>0 DEF AddSpill
  <2>3. PICK f : SetTop(t, f) /\ Keeper(f) /\ Hand(t)' = Tail(h)
    BY <1>7, <2>2 DEF Given
  <2>4. spill'[w] = Append(spill[w], Head(h)) /\ \A x \in Workers \ {w} : spill'[x] = spill[x]
    BY <1>s, <2>1, <2>2 DEF QueuesOK
  <2>5. a \in Lists /\ List(a) = spill[w] /\ List(a)' = spill'[w] /\ a # <<"hand", t>>
    BY <2>1, ListNames, ListNamesNext
  <2>6. /\ \A x \in Workers : <<"spill", x>> \in C \/ spill'[x] = spill[x]
        /\ \A u \in Threads : <<"hand", u>> \in C \/ Hand(u)' = Hand(u)
    BY <1>o, <2>4
  <2> HIDE DEF C
  <2>7. \A k \in Lists \ C : List(k)' = List(k)
    BY <1>u, <2>1, <2>6, ListsStay
  <2>8. Effect({}, {})
    <3>1. \A k \in Lists \ {a, <<"hand", t>>} : List(k)' = List(k)
      BY <2>7 DEF C
    <3> HIDE DEF a
    <3>2. QED BY <1>1, <2>1, <2>3, <2>4, <2>5, <3>1, GiveTo
  <2>9. QED BY <1>5, <2>3, <2>8
<1>10. CASE AddOverflow(t)
  <2> DEFINE a == <<"overflow", 0>>
             C == {a, <<"hand", t>>}
  <2>1. /\ l \in Giving /\ overflow \in Seq(Items) /\ UNCHANGED <<ring, spill, taskList>>
        /\ overflow' = Append(overflow, Head(h)) /\ SetTop(t, Added(Top(t)))
    <3>1. At(t, "prog", "overflow") /\ "overflow" \in Giving
      BY <1>10 DEF AddOverflow, Giving
    <3>2. l = "overflow"
      BY <1>0, <3>1 DEF At
    <3>3. QED BY <1>s, <1>1, <1>10, <3>1, <3>2 DEF AddOverflow, QueuesOK
  <2>2. a \in Lists /\ List(a) = overflow /\ List(a)' = overflow' /\ a # <<"hand", t>>
    BY ListNames, ListNamesNext
  <2>3. /\ \A u \in Threads : <<"hand", u>> \in C \/ Hand(u)' = Hand(u)
        /\ <<"overflow", 0>> \in C
    BY <1>o
  <2> HIDE DEF C
  <2>4. \A k \in Lists \ C : List(k)' = List(k)
    BY <1>u, <2>1, <2>3, ListsStay
  <2>5. Effect({}, {})
    <3>1. \A k \in Lists \ {a, <<"hand", t>>} : List(k)' = List(k)
      BY <2>4 DEF C
    <3> HIDE DEF a
    <3>2. QED BY <1>1, <2>1, <2>2, <3>1, GiveTo
  <2>6. QED BY <1>2, <1>5, <2>1, <2>5
<1>11. CASE AddGlobal(t)
  <2>1. l \in Giving /\ UNCHANGED <<ring, spill, overflow>>
    <3>1. At(t, "prog", "add") /\ "add" \in Giving
      BY <1>11 DEF AddGlobal, Giving
    <3>2. QED BY <1>0, <1>11, <3>1 DEF AddGlobal, At
  <2>2. CASE taskList' = taskList \cup {Adding(t).item} /\ Goto(t, "takeAny")
    <3> DEFINE a == <<"hand", t>>
    <3>1. PICK f : SetTop(t, f) /\ Keeper(f) /\ Hand(t)' = Tail(h)
      BY <1>7, <2>2 DEF Given
    <3>2. a \in Lists /\ List(a) = h /\ List(a)' = Tail(h)
      BY <1>1, <2>1, <3>1, ListNames, ListNamesNext
    <3>3. \A k \in Lists \ {a} : List(k)' = List(k)
      BY <1>o, <1>u, <2>1, ListsStay
    <3> HIDE DEF a
    <3>4. Distinct(h) /\ ToSet(h) \cap taskList = {}
      BY <3>2, NoneTwiceMeans
    <3>5. /\ ToSet(h) = ToSet(Tail(h)) \cup {Head(h)}
          /\ Distinct(Tail(h)) /\ Head(h) \notin ToSet(Tail(h))
      BY <1>1, <3>4, TailFacts
    <3>6. taskList' = taskList \cup {Head(h)}
      BY <1>1, <2>2
    <3>7. /\ Distinct(List(a)') /\ ToSet(List(a)') \cap taskList' = {}
          /\ ToSet(List(a)') \cup taskList' = ((ToSet(List(a)) \cup taskList) \ {}) \cup {}
      BY <3>2, <3>4, <3>5, <3>6
    <3>8. Effect({}, {})
      BY <3>2, <3>3, <3>7, OneMoves
    <3>9. QED BY <1>5, <3>1, <3>8
  <2>3. CASE Goto(t, "overflow") /\ taskList' = taskList
    <3>1. PICK f : SetTop(t, f) /\ Keeper(f) /\ Hand(t)' = h
      BY <1>7, <2>3 DEF Giving
    <3>2. QED BY <1>1, <1>6, <1>u, <2>1, <2>3, <3>1
  <2>4. QED BY <1>11, <2>2, <2>3 DEF AddGlobal
<1>12. CASE TakeSuspended(t) \/ TakeAny(t) \/ Post(t)
  <2>1. UNCHANGED queues /\ l \notin Giving
    BY <1>0, <1>12 DEF TakeSuspended, TakeAny, Post, At, Giving
  <2>2. CASE SetTop(t, Added(Top(t)))
    BY <1>1, <1>2, <1>6, <2>1, <2>2
  <2>3. ASSUME NEW w, SetTop(t, [Top(t) EXCEPT !.pc = "post", !.target = w]) PROVE Moves(t, {}, {})
    <3> DEFINE f == [Top(t) EXCEPT !.pc = "post", !.target = w]
    <3>1. Keeper(f) /\ f.pc = "post" /\ f.todo = Top(t).todo /\ SetTop(t, f)
      BY <1>4, <2>3
    <3> HIDE DEF f
    <3>2. Hand(t)' = Tail(h)
      BY <1>1, <3>1 DEF Keeper, Given
    <3>3. QED BY <1>1, <1>6, <2>1, <3>1, <3>2
  <2>4. \/ SetTop(t, Added(Top(t)))
        \/ \E w : SetTop(t, [Top(t) EXCEPT !.pc = "post", !.target = w])
    BY <1>12 DEF TakeSuspended, TakeAny, Post
  <2>5. QED BY <2>2, <2>3, <2>4
<1>13. QED BY <1>8, <1>9, <1>10, <1>11, <1>12 DEF AddTask

-----------------------------------------------------------------------------
(* The calls of a program *)

\* A thread that is not in addTask, nor about to count, has nothing in hand.
Idle(s) == s # <<>> => \/ Tip(s).is = "loop"
                       \/ Tip(s).is = "prog" /\ Tip(s).pc \notin Giving \cup Given
                       \/ Tip(s).is = "wake" /\ Tip(s).pc = "post"

\* Such a thread has an empty hand.
LEMMA IdleHand ==
  ASSUME NEW s, Idle(s) PROVE HandOn(s) = <<>>
  BY HandCases DEF Idle

\* A step from one idle point to another.
LEMMA IdleStep ==
  ASSUME StacksOK, StacksOK', TypeInv, TypeInv', NoneTwice, NEW t \in Threads, Shaped(t),
         Idle(stack[t]), Idle(stack'[t]), UNCHANGED <<queues, waiters>>
  PROVE  Effect({}, {})
  BY IdleHand, StillStep

\* After a return, or a step or call to an idle point, a thread is idle.
LEMMA IdleAfter ==
  ASSUME StacksOK, NEW t \in Threads, stack[t] # <<>>
  PROVE  /\ Return(t) => Idle(stack'[t])
         /\ \A f : SetTop(t, f) /\ f.is = "prog" /\ f.pc \notin Giving \cup Given => Idle(stack'[t])
         /\ \A f, g : CallWith(t, f, g) =>
              \/ Idle(stack'[t])
              \/ g.is # "loop" /\ ~ (g.is = "prog" /\ g.pc \notin Giving \cup Given)
<1>0. Len(stack[t]) \in Nat /\ Len(stack[t]) > 0
  BY StackLen
<1>1. ASSUME Return(t) PROVE Idle(stack'[t])
  <2>1. stack'[t] # <<>> => Resting(Tip(stack'[t]))
    BY <1>1, ReturnFacts
  <2>2. QED BY <2>1 DEF Resting, Idle, Giving, Given
<1>2. ASSUME NEW f, SetTop(t, f), f.is = "prog", f.pc \notin Giving \cup Given PROVE Idle(stack'[t])
  <2>1. Tip(stack'[t]) = f
    BY <1>0, <1>2, SetShape DEF Changed, Tip
  <2>2. QED BY <1>2, <2>1 DEF Idle
<1>3. ASSUME NEW f, NEW g, CallWith(t, f, g),
             g.is = "loop" \/ (g.is = "prog" /\ g.pc \notin Giving \cup Given)
      PROVE  Idle(stack'[t])
  <2>1. Tip(stack'[t]) = g
    BY <1>0, <1>3, CallShape DEF Entered, Tip
  <2>2. QED BY <1>3, <2>1 DEF Idle
<1>4. QED BY <1>1, <1>2, <1>3

\* The task of the call is new to the queue.
LEMMA Fresh ==
  ASSUME StacksOK, FramesOK, HistoryOK, AheadInv, AddedInv, NEW t \in Threads,
         NEW o \in {"addTask", "andThen"}, Calls(t, o)
  PROVE  LET a == Arg(t).task
         IN  a \in Tasks /\ a \notin added /\ ~ Waits(TaskItem(a)) /\ Hands(Arg(t), a)
<1> DEFINE a == Arg(t).task
           n == Len(stack[t])
           f == Top(t)
<1>1. /\ At(t, "prog", "op") /\ Arg(t).op = o /\ f.ip \in DOMAIN prog[f.id] /\ a \in Tasks
  BY CallAt
<1>2. n \in Nat /\ n > 0 /\ f = stack[t][n] /\ f.ip \in Nat
  BY <1>1, ProgAt
<1>3. IsProg(t, n)
  BY <1>1, <1>2 DEF IsProg, At
<1>4. Ahead(f.id, f.ip)
  BY <1>2, <1>3 DEF AheadInv
<1>5. Hands(Arg(t), a)
  BY <1>1 DEF Hands
<1>6. a \notin added
  <2> HIDE DEF a, f
  <2>1. f.ip >= f.ip
    BY <1>2
  <2>2. ~ (a \in added /\ Hands(prog[f.id][f.ip], a))
    BY <1>1, <1>4, <2>1 DEF Ahead
  <2>3. QED BY <1>5, <2>2 DEF Arg, f
<1>7. QED BY <1>1, <1>5, <1>6 DEF AddedInv

\* It is handed over by the call.
LEMMA Hander ==
  ASSUME StacksOK, StacksOK', FramesOK, HistoryOK, NEW t \in Threads, NEW o, Calls(t, o),
         NEW a, Hands(Arg(t), a), NEW f, f.is = "prog", f.ip = Top(t).ip + 1,
         Len(stack'[t]) \in {Len(stack[t]), Len(stack[t]) + 1}, stack'[t][Len(stack[t])] = f
  PROVE  Handing(t, a)
<1> DEFINE n == Len(stack[t])
<1>1. /\ At(t, "prog", "op") /\ Top(t).ip \in DOMAIN prog[Top(t).id]
  BY CallAt
<1>2. n \in Nat /\ n > 0 /\ Top(t) = stack[t][n] /\ Top(t).ip \in Nat /\ Top(t).id \in Tasks \cup Clients
  BY <1>1, ProgAt
<1>3. IsProg(t, n)
  BY <1>1, <1>2 DEF IsProg, At
<1>4. stack'[t][n].ip > Top(t).ip
  BY <1>2
<1>5. QED BY <1>1, <1>2, <1>3, <1>4 DEF Handing, Arg

\* A task that is handed over is added and waits from then on.
LEMMA HandedItems ==
  ASSUME HistoryOK, NEW t, NEW a \in Tasks, Effect({TaskItem(a)}, {}), Handing(t, a),
         added' = added \cup {a}, UNCHANGED <<prog, ran>>
  PROVE  TasksMove(t, {a}, {}) /\ NoneTwice' /\ ClosuresStay
<1>1. \A x : Waits(x)' <=> Waits(x) \/ x = TaskItem(a)
  BY DEF Effect
<1>2. ran' = [b \in Tasks |-> IF b \in {} THEN ran[b] + 1 ELSE ran[b]]
  BY DEF HistoryOK
<1>3. \A b \in Tasks : TaskItem(b) = TaskItem(a) <=> b = a
  BY Unlike
<1>4. ClosuresStay
  BY <1>1, Unlike DEF ClosuresStay
<1>5. TasksMove(t, {a}, {})
  BY <1>1, <1>2, <1>3 DEF TasksMove
<1>6. QED BY <1>4, <1>5 DEF Effect

\* addTask begins: the task is in hand.
LEMMA AddBegins ==
  ASSUME StacksOK, StacksOK', TypeInv, TypeInv', TaskInv, NEW t \in Threads, CallAddTask(t)
  PROVE  \E H, R : Moves(t, H, R)
<1> USE DEF queues, values
<1>s. FramesOK /\ QueuesOK /\ HistoryOK
  BY DEF TypeInv
<1>h. Shaped(t)
  BY <1>s, StepShaped DEF Step, Execute
<1>t. Calls(t, "addTask") /\ At(t, "prog", "op")
  BY DEF CallAddTask, Calls
<1>0. PICK b : b = Arg(t).task
  OBVIOUS
<1> DEFINE hd == [item |-> TaskItem(b), to |-> Arg(t).to]
           q == <<hd>>
           f == [Past(t) EXCEPT !.pc = IF q = <<>> THEN "op" ELSE "add", !.todo = q]
           a == <<"hand", t>>
<1>1. b \in Tasks /\ b \notin added /\ ~ Waits(TaskItem(b)) /\ Hands(Arg(t), b) /\ Arg(t).to \in Workers \cup {AnyWorker}
  BY <1>s, <1>t, <1>0, Fresh, CallAt DEF TaskInv
<1>2. hd \in Handovers /\ hd.item = TaskItem(b)
  BY <1>1, ItemMakers DEF Handovers
<1>q. q \in Seq(Handovers) /\ q # <<>>
  BY <1>2
<1>3. SetTop(t, f) /\ added' = added \cup {b} /\ UNCHANGED <<prog, queues, ready, waiters, ran>>
  BY <1>0, <1>q DEF CallAddTask
<1> HIDE DEF q
<1>4. /\ f.is = "prog" /\ f.todo = q /\ f.pc = "add" /\ f.id = Top(t).id /\ f.ip = Top(t).ip + 1
  <2>1. /\ f.is = "prog" /\ f.todo = q /\ f.pc = IF q = <<>> THEN "op" ELSE "add"
        /\ f.id = Top(t).id /\ f.ip = Top(t).ip + 1
    BY <1>s, <1>t, <1>q, GivingFrame, Zenon
  <2> HIDE DEF f
  <2>2. QED BY <1>q, <2>1
<1> HIDE DEF hd
<1> HIDE DEF f
<1>5. /\ stack[t] # <<>> /\ Len(stack[t]) \in Nat /\ Len(stack[t]) > 0 /\ Top(t).ip \in Nat /\ Top(t).is = "prog"
      /\ Top(t) = Tip(stack[t]) /\ Top(t).pc = "op"
  BY <1>s, <1>t, ProgAt DEF At, Tip
<1>6. Len(stack'[t]) = Len(stack[t]) /\ stack'[t][Len(stack[t])] = f /\ stack'[t] # <<>> /\ Tip(stack'[t]) = f
  BY <1>3, <1>5, SetShape DEF Changed, Tip
<1>7. Hand(t) = <<>> /\ Hand(t)' = << TaskItem(b) >>
  <2>1. Idle(stack[t])
    BY <1>5 DEF Idle, Giving, Given
  <2>2. HandOn(stack'[t]) = ItemsOf(<<hd>>)
    BY <1>4, <1>6, HandCases DEF Giving, q
  <2>3. QED BY <1>2, <2>1, <2>2, IdleHand, HandIs, ItemsOne
<1>8. a \in Lists /\ List(a) = <<>> /\ List(a)' = << TaskItem(b) >>
  BY <1>7, ListNames, ListNamesNext
<1>9. \A k \in Lists \ {a} : List(k)' = List(k)
  <2>1. \A u \in Threads \ {t} : Hand(u)' = Hand(u)
    BY <1>h, HandsStay
  <2>2. QED BY <1>3, <2>1, ListsStay
<1> HIDE DEF a
<1>10. Effect({TaskItem(b)}, {})
  <2>1. ToSet(List(a)) = {} /\ ToSet(List(a)') = {TaskItem(b)} /\ Distinct(List(a)')
    BY <1>8, EmptyQueue, OneFacts
  <2>2. TaskItem(b) \notin taskList
    BY <1>1, WaitsMeans
  <2>3. /\ ToSet(List(a)') \cap taskList' = {} /\ \A x \in {TaskItem(b)} : ~ Waits(x)
        /\ ToSet(List(a)') \cup taskList' = ((ToSet(List(a)) \cup taskList) \ {}) \cup {TaskItem(b)}
    BY <1>1, <1>3, <2>1, <2>2
  <2>4. QED BY <1>8, <1>9, <2>1, <2>3, OneMoves DEF TaskInv
<1>11. Handing(t, b)
  BY <1>s, <1>t, <1>1, <1>4, <1>6, Hander
<1>12. FramesMove(t, {})
  BY <1>3, <1>4, <1>5, SetFrames DEF Keeps
<1>13. TasksMove(t, {b}, {}) /\ NoneTwice' /\ ClosuresStay
  BY <1>s, <1>1, <1>3, <1>10, <1>11, HandedItems
<1>14. QED BY <1>3, <1>12, <1>13 DEF Moves, ValuesMove

\* The waiters of an emplaced value go to the worker's list or into the hand.
LEMMA EmplaceKeeps ==
  ASSUME StacksOK, StacksOK', TypeInv, TypeInv', NoneTwice, NEW t \in Threads, CallEmplace(t)
  PROVE  Moves(t, {}, {})
<1> USE DEF queues, values
<1>s. FramesOK /\ QueuesOK /\ HistoryOK
  BY DEF TypeInv
<1>h. Shaped(t)
  BY <1>s, StepShaped DEF Step, Execute
<1>t. Calls(t, "emplace") /\ At(t, "prog", "op")
  BY DEF CallEmplace, Calls
<1>0. PICK v : v = Arg(t).value
  OBVIOUS
<1> DEFINE q == waiters[v]
           p == Handed(q)
           f == [Past(t) EXCEPT !.pc = IF p = <<>> THEN "op" ELSE "add", !.todo = p]
           a == <<"waiters", v>>
<1>1. v \in Values /\ q \in Seq(Items)
  BY <1>s, <1>t, <1>0, CallAt DEF QueuesOK
<1>2. /\ ready' = ready \cup {v} /\ waiters' = [waiters EXCEPT ![v] = <<>>]
      /\ UNCHANGED <<prog, ring, spill, taskList, overflow, added, ran>>
      /\ IF t \in Workers THEN local' = [local EXCEPT ![t] = @ \o q] /\ SetTop(t, Past(t))
         ELSE /\ SetTop(t, [Past(t) EXCEPT !.pc = IF q = <<>> THEN "op" ELSE "add", !.todo = p])
              /\ local' = local
  BY <1>0 DEF CallEmplace, Handed
<1>3. waiters'[v] = <<>> /\ \A x \in Values \ {v} : waiters'[x] = waiters[x]
  BY <1>s, <1>1, <1>2 DEF QueuesOK
<1>4. ValuesMove
  BY <1>2, <1>3 DEF ValuesMove
<1>5. /\ stack[t] # <<>> /\ Len(stack[t]) \in Nat /\ Len(stack[t]) > 0 /\ Top(t).ip \in Nat /\ Top(t).is = "prog"
      /\ Top(t) = Tip(stack[t]) /\ Top(t).pc = "op"
  BY <1>s, <1>t, ProgAt DEF At, Tip
<1>6. Idle(stack[t]) /\ Hand(t) = <<>>
  <2>1. Idle(stack[t])
    BY <1>5 DEF Idle, Giving, Given
  <2>2. QED BY <2>1, IdleHand, HandIs
<1>o. \A u \in Threads \ {t} : Hand(u)' = Hand(u)
  BY <1>h, HandsStay
<1>7. a \in Lists /\ List(a) = q /\ List(a)' = <<>>
  BY <1>1, <1>3, ListNames, ListNamesNext
<1>8. ASSUME NEW g, SetTop(t, g), g.is = "prog", g.id = Top(t).id, g.ip = Top(t).ip + 1, Effect({}, {})
      PROVE  Moves(t, {}, {})
  <2>1. Keeps(Top(t), g)
    BY <1>5, <1>8 DEF Keeps
  <2>2. FramesMove(t, {})
    BY <1>5, <1>8, <2>1, SetFrames
  <2>3. QED BY <1>s, <1>2, <1>4, <1>8, <2>2, StillItems DEF Moves
<1>9. CASE t \in Workers
  <2> DEFINE b == <<"local", t>>
             g == [Past(t) EXCEPT !.pc = "op"]
             l == local[t]
             C == {a, b}
  <2>1. /\ SetTop(t, g) /\ g.is = "prog" /\ g.id = Top(t).id /\ g.ip = Top(t).ip + 1 /\ g.pc = "op"
    BY <1>s, <1>t, <1>2, <1>9, PastFrame
  <2> HIDE DEF g
  <2>2. Hand(t)' = Hand(t)
    <3>1. Idle(stack'[t])
      BY <1>5, <2>1, IdleAfter DEF Giving, Given
    <3>2. QED BY <1>6, <3>1, IdleHand, HandIs
  <2>3. /\ local'[t] = l \o q /\ l \in Seq(Items) /\ \A w \in Workers \ {t} : local'[w] = local[w]
    BY <1>s, <1>2, <1>9 DEF QueuesOK
  <2>4. b \in Lists /\ List(b) = l /\ List(b)' = l \o q /\ a # b
    BY <1>9, <2>3, ListNames, ListNamesNext
  <2>5. /\ \A w \in Workers : <<"local", w>> \in C \/ local'[w] = local[w]
        /\ \A x \in Values : <<"waiters", x>> \in C \/ waiters'[x] = waiters[x]
        /\ \A u \in Threads : Hand(u)' = Hand(u)
    BY <1>3, <1>o, <2>2, <2>3
  <2> HIDE DEF C
  <2>6. \A k \in Lists \ C : List(k)' = List(k)
    BY <1>2, <2>5, ListsStay
  <2> HIDE DEF a, b
  <2>7. \A k \in Lists \ {a, b} : List(k)' = List(k)
    BY <2>6 DEF C
  <2>8. Distinct(q) /\ Distinct(l) /\ ToSet(q) \cap ToSet(l) = {}
    <3>1. Distinct(List(a)) /\ Distinct(List(b)) /\ ToSet(List(a)) \cap ToSet(List(b)) = {}
      BY <1>7, <2>4, NoneTwiceMeans
    <3>2. QED BY <1>7, <2>4, <3>1
  <2> HIDE DEF q, l
  <2>9. Distinct(l \o q) /\ ToSet(l \o q) = ToSet(l) \cup ToSet(q) /\ ToSet(<<>>) = {} /\ Distinct(<<>>)
    BY <1>1, <2>3, <2>8, ConcatFacts, EmptyQueue
  <2>10. Effect({}, {})
    <3>1. /\ Distinct(List(a)') /\ Distinct(List(b)') /\ ToSet(List(a)') \cap ToSet(List(b)') = {}
          /\ ToSet(List(a)') \cup ToSet(List(b)') = ((ToSet(List(a)) \cup ToSet(List(b))) \ {}) \cup {}
      BY <1>7, <2>4, <2>9
    <3>2. QED BY <1>2, <1>7, <2>4, <2>7, <3>1, TwoMove
  <2>11. QED BY <1>8, <2>1, <2>10
<1>10. CASE t \notin Workers
  <2> DEFINE b == <<"hand", t>>
             C == {a, b}
  <2>1. p \in Seq(Handovers) /\ (p = <<>> <=> q = <<>>) /\ ItemsOf(p) = q
    BY <1>1, HandedFacts, ItemsHanded
  <2>2. SetTop(t, f) /\ local' = local
    BY <1>2, <1>10, <2>1
  <2> HIDE DEF p
  <2>3. /\ f.is = "prog" /\ f.todo = p /\ f.pc = IF p = <<>> THEN "op" ELSE "add"
        /\ f.id = Top(t).id /\ f.ip = Top(t).ip + 1
    BY <1>s, <1>t, <2>1, GivingFrame, Zenon
  <2> HIDE DEF f
  <2>4. Hand(t)' = q
    <3>1. stack'[t] # <<>> /\ Tip(stack'[t]) = f
      BY <1>5, <2>2, SetShape DEF Changed, Tip
    <3>2. HandOn(stack'[t]) = q
      <4>1. CASE p = <<>>
        <5>1. HandOn(stack'[t]) = <<>>
          BY <2>3, <3>1, <4>1, HandCases DEF Giving, Given
        <5>2. QED BY <2>1, <4>1, <5>1
      <4>2. CASE p # <<>>
        <5>1. HandOn(stack'[t]) = ItemsOf(p)
          BY <2>3, <3>1, <4>2, HandCases DEF Giving
        <5>2. QED BY <2>1, <5>1
      <4>3. QED BY <4>1, <4>2
    <3>3. QED BY <3>2, HandIs
  <2>5. b \in Lists /\ List(b) = <<>> /\ List(b)' = q /\ a # b
    BY <1>6, <2>4, ListNames, ListNamesNext
  <2>6. /\ \A x \in Values : <<"waiters", x>> \in C \/ waiters'[x] = waiters[x]
        /\ \A u \in Threads : <<"hand", u>> \in C \/ Hand(u)' = Hand(u)
    BY <1>3, <1>o
  <2> HIDE DEF C
  <2>7. \A k \in Lists \ C : List(k)' = List(k)
    BY <1>2, <2>2, <2>6, ListsStay
  <2> HIDE DEF a, b
  <2>8. \A k \in Lists \ {a, b} : List(k)' = List(k)
    BY <2>7 DEF C
  <2>9. Effect({}, {})
    <3>1. Distinct(List(a)) /\ ToSet(<<>>) = {} /\ Distinct(<<>>)
      BY <1>7, NoneTwiceMeans, EmptyQueue
    <3>2. /\ Distinct(List(a)') /\ Distinct(List(b)') /\ ToSet(List(a)') \cap ToSet(List(b)') = {}
          /\ ToSet(List(a)') \cup ToSet(List(b)') = ((ToSet(List(a)) \cup ToSet(List(b))) \ {}) \cup {}
      BY <1>7, <2>5, <3>1
    <3>3. QED BY <1>2, <1>7, <2>5, <2>8, <3>2, TwoMove
  <2>10. QED BY <1>8, <2>2, <2>3, <2>9
<1>11. QED BY <1>9, <1>10

\* andThen registers the task with the value, or runs it.
LEMMA AndThenKeeps ==
  ASSUME StacksOK, StacksOK', TypeInv, TypeInv', TaskInv, NEW t \in Threads, CallAndThen(t)
  PROVE  \E H, R : Moves(t, H, R)
<1> USE DEF queues, values
<1>s. FramesOK /\ QueuesOK /\ HistoryOK /\ NoneTwice
  BY DEF TypeInv, TaskInv
<1>h. Shaped(t)
  BY <1>s, StepShaped DEF Step, Execute
<1>t. Calls(t, "andThen") /\ At(t, "prog", "op")
  BY DEF CallAndThen, Calls
<1>0. PICK b, v : b = Arg(t).task /\ v = Arg(t).value
  OBVIOUS
<1> DEFINE it == TaskItem(b)
           f == [Past(t) EXCEPT !.pc = "op"]
<1>1. /\ b \in Tasks /\ b \notin added /\ ~ Waits(it) /\ Hands(Arg(t), b) /\ v \in Values
      /\ waiters[v] \in Seq(Items) /\ it \in Items /\ IsTask(it) /\ it.task = b
  BY <1>s, <1>t, <1>0, Fresh, CallAt, ItemMakers DEF TaskInv, QueuesOK
<1>2. /\ Past(t) = f /\ f.is = "prog" /\ f.pc = "op" /\ f.id = Top(t).id /\ f.ip = Top(t).ip + 1
  BY <1>s, <1>t, PastFrame
<1>3. /\ added' = added \cup {b} /\ UNCHANGED <<prog, queues, ready>>
      /\ IF v \in ready THEN Run(t, f, it) /\ waiters' = waiters
         ELSE /\ waiters' = [waiters EXCEPT ![v] = Append(@, it)] /\ SetTop(t, f) /\ ran' = ran
  BY <1>0, <1>2 DEF CallAndThen
<1> HIDE DEF f, it
<1>5. /\ stack[t] # <<>> /\ Len(stack[t]) \in Nat /\ Len(stack[t]) > 0 /\ Top(t).ip \in Nat /\ Top(t).is = "prog"
      /\ Top(t) = Tip(stack[t]) /\ Top(t).pc = "op"
  BY <1>s, <1>t, ProgAt DEF At, Tip
<1>6. Idle(stack[t]) /\ Keeps(Top(t), f)
  BY <1>2, <1>5 DEF Idle, Giving, Given, Keeps
<1>7. CASE v \in ready
  <2> DEFINE g == FrameOf(it)
  <2>1. Run(t, f, it) /\ waiters' = waiters /\ CallWith(t, f, g)
    BY <1>3, <1>7 DEF Run
  <2>2. g.is = "prog" /\ g.pc = "op" /\ g.id = b /\ g.ip = 1 /\ ~ Awaits(g)
    BY <1>1 DEF FrameOf, ProgFrame, Awaits
  <2> HIDE DEF g
  <2>3. Idle(stack'[t])
    BY <1>5, <2>1, <2>2, IdleAfter DEF Giving, Given
  <2>4. Effect({}, {})
    BY <1>s, <1>h, <1>3, <1>6, <2>1, <2>3, IdleStep
  <2>5. Len(stack'[t]) = Len(stack[t]) + 1 /\ stack'[t][Len(stack[t])] = f
    BY <1>5, <2>1, CallShape DEF Entered
  <2>6. Handing(t, b)
    BY <1>s, <1>t, <1>1, <1>2, <2>5, Hander
  <2>7. FramesMove(t, {b})
    BY <1>5, <1>6, <2>1, <2>2, CallFrames
  <2>8. TasksMove(t, {b}, {b}) /\ ClosuresStay
    <3>1. \A x : Waits(x)' <=> Waits(x)
      BY <2>4 DEF Effect
    <3>2. ran' = [a \in Tasks |-> IF a \in {b} THEN ran[a] + 1 ELSE ran[a]]
      <4>1. ran' = [ran EXCEPT ![b] = @ + 1] /\ ran \in [Tasks -> Nat]
        BY <1>s, <1>1, <2>1 DEF Run, HistoryOK
      <4>2. QED BY <1>1, <4>1
    <3>3. \A a \in Tasks : Waits(TaskItem(a))' <=> (Waits(TaskItem(a)) \/ a \in {b}) /\ a \notin {b}
      BY <1>1, <3>1 DEF it
    <3>4. QED BY <1>1, <1>3, <2>6, <3>1, <3>2, <3>3 DEF TasksMove, ClosuresStay
  <2>9. ValuesMove
    BY <1>3, <2>1 DEF ValuesMove
  <2>10. QED BY <2>4, <2>7, <2>8, <2>9 DEF Moves, Effect
<1>8. CASE v \notin ready
  <2> DEFINE a == <<"waiters", v>>
             q == waiters[v]
  <2>1. /\ waiters' = [waiters EXCEPT ![v] = Append(@, it)] /\ SetTop(t, f) /\ ran' = ran
    BY <1>3, <1>8
  <2>2. waiters'[v] = Append(q, it) /\ \A x \in Values \ {v} : waiters'[x] = waiters[x]
    BY <1>s, <1>1, <2>1 DEF QueuesOK
  <2>3. \A u \in Threads : Hand(u)' = Hand(u)
    <3>1. Idle(stack'[t])
      BY <1>2, <1>5, <2>1, IdleAfter DEF Giving, Given
    <3>2. HandOn(stack'[t]) = HandOn(stack[t])
      BY <1>6, <3>1, IdleHand
    <3>3. QED BY <1>h, <3>2, AllHandsStay
  <2>4. a \in Lists /\ List(a) = q /\ List(a)' = Append(q, it)
    BY <1>1, <2>2, ListNames, ListNamesNext
  <2>5. \A k \in Lists \ {a} : List(k)' = List(k)
    <3> DEFINE C == {a}
    <3>1. \A x \in Values : <<"waiters", x>> \in C \/ waiters'[x] = waiters[x]
      BY <2>2
    <3> HIDE DEF C
    <3>2. \A k \in Lists \ C : List(k)' = List(k)
      BY <1>3, <2>3, <3>1, ListsStay
    <3>3. QED BY <3>2 DEF C
  <2> HIDE DEF a
  <2>6. Distinct(q) /\ it \notin ToSet(q) /\ it \notin taskList /\ ToSet(q) \cap taskList = {}
    <3>1. Distinct(List(a)) /\ ToSet(List(a)) \cap taskList = {}
      BY <1>s, <2>4, NoneTwiceMeans
    <3>2. it \notin ToSet(List(a)) /\ it \notin taskList
      BY <1>1, <2>4, WaitsMeans
    <3>3. QED BY <2>4, <3>1, <3>2
  <2>7. ToSet(Append(q, it)) = ToSet(q) \cup {it} /\ Distinct(Append(q, it))
    BY <1>1, <2>6, AppendFacts
  <2> HIDE DEF q
  <2>8. Effect({it}, {})
    <3>1. /\ Distinct(List(a)') /\ ToSet(List(a)') \cap taskList' = {} /\ \A x \in {it} : ~ Waits(x)
          /\ ToSet(List(a)') \cup taskList' = ((ToSet(List(a)) \cup taskList) \ {}) \cup {it}
      BY <1>1, <1>3, <2>4, <2>6, <2>7
    <3>2. QED BY <1>s, <2>4, <2>5, <3>1, OneMoves
  <2>9. Len(stack'[t]) = Len(stack[t]) /\ stack'[t][Len(stack[t])] = f
    BY <1>5, <2>1, SetShape DEF Changed
  <2>10. Handing(t, b)
    BY <1>s, <1>t, <1>1, <1>2, <2>9, Hander
  <2>11. FramesMove(t, {})
    BY <1>5, <1>6, <2>1, SetFrames
  <2>12. TasksMove(t, {b}, {}) /\ NoneTwice' /\ ClosuresStay
    BY <1>s, <1>1, <1>3, <2>1, <2>8, <2>10, HandedItems DEF it
  <2>13. ValuesMove
    BY <1>3, <2>2, <2>7 DEF ValuesMove, q
  <2>14. QED BY <2>11, <2>12, <2>13 DEF Moves
<1>9. QED BY <1>7, <1>8

\* The steps that move no item.
LEMMA QuietKeeps ==
  ASSUME StacksOK, StacksOK', TypeInv, TypeInv', NoneTwice, NEW t \in Threads,
         \/ CallAwait(t) \/ WakePost(t) \/ CallShutdown(t) \/ ShutdownFlag(t) \/ ShutdownPost(t)
         \/ ShutdownClear(t) \/ ShutdownJoin(t) \/ Finish(t)
  PROVE  Moves(t, {}, {})
<1> USE DEF queues, values
<1>s. FramesOK /\ QueuesOK /\ HistoryOK
  BY DEF TypeInv
<1>h. Shaped(t)
  BY <1>s, StepShaped DEF Step, Execute
<1>u. UNCHANGED <<prog, queues, values, added, ran>>
  BY DEF CallAwait, WakePost, CallShutdown, ShutdownFlag, ShutdownPost, ShutdownClear,
         ShutdownJoin, Finish
<1>1. ASSUME FramesMove(t, {}), Idle(stack[t]), Idle(stack'[t]) PROVE Moves(t, {}, {})
  <2>1. Effect({}, {})
    BY <1>h, <1>u, <1>1, IdleStep
  <2>2. QED BY <1>s, <1>u, <1>1, <2>1, StillItems DEF Moves, ValuesMove
<1>2. ASSUME NEW l, l \notin Giving \cup Given, At(t, "prog", l)
      PROVE  /\ stack[t] # <<>> /\ Top(t).ip \in Nat /\ Top(t).is = "prog" /\ Idle(stack[t])
             /\ Top(t) \in ProgFrames /\ ~ Awaits(Top(t))
  <2>1. stack[t] # <<>> /\ Top(t) \in ProgFrames /\ Top(t).ip \in Nat /\ Top(t).is = "prog" /\ Top(t).pc = l /\ Top(t) = Tip(stack[t])
    BY <1>s, <1>2, ProgAt DEF At, Tip
  <2>2. QED BY <1>2, <2>1 DEF Idle, Awaits
<1>3. ASSUME NEW l, l \notin Giving \cup Given, At(t, "prog", l), NEW f, SetTop(t, f), f.is = "prog",
             f.pc \notin Giving \cup Given, f.id = Top(t).id, f.ip \in {Top(t).ip, Top(t).ip + 1}
      PROVE  Moves(t, {}, {})
  <2>1. Keeps(Top(t), f)
    BY <1>2, <1>3 DEF Keeps
  <2>2. FramesMove(t, {}) /\ Idle(stack[t]) /\ Idle(stack'[t])
    BY <1>2, <1>3, <2>1, SetFrames, IdleAfter
  <2>3. QED BY <1>1, <2>2
<1>4. CASE WakePost(t) \/ Finish(t)
  <2>1. /\ stack[t] # <<>> /\ Return(t) /\ Idle(stack[t]) /\ ~ Awaits(Top(t))
    <3>1. CASE WakePost(t)
      BY <3>1 DEF WakePost, At, Idle, Top, Tip, Awaits
    <3>2. CASE Finish(t)
      BY <1>2, <3>2 DEF Finish, Giving, Given
    <3>3. QED BY <1>4, <3>1, <3>2
  <2>2. FramesMove(t, {}) /\ Idle(stack'[t])
    BY <2>1, ReturnFrames, IdleAfter
  <2>3. QED BY <1>1, <2>1, <2>2
<1>5. ASSUME NEW l, l \notin Giving \cup Given, At(t, "prog", l), NEW m, m \notin Giving \cup Given, Goto(t, m)
      PROVE  Moves(t, {}, {})
  <2> DEFINE f == [Top(t) EXCEPT !.pc = m]
  <2>1. SetTop(t, f) /\ f.is = "prog" /\ f.pc = m /\ f.id = Top(t).id /\ f.ip = Top(t).ip
    BY <1>2, <1>5 DEF Goto, ProgFrames
  <2> HIDE DEF f
  <2>2. QED BY <1>3, <1>5, <2>1
<1>6. CASE ShutdownFlag(t) \/ ShutdownPost(t) \/ ShutdownClear(t) \/ ShutdownJoin(t)
  <2>1. PICK l, m : l \notin Giving \cup Given /\ At(t, "prog", l) /\ m \notin Giving \cup Given /\ Goto(t, m)
    BY <1>6 DEF ShutdownFlag, ShutdownPost, ShutdownClear, ShutdownJoin, Giving, Given
  <2>2. QED BY <1>5, <2>1
<1>7. CASE CallAwait(t)
  <2>1. At(t, "prog", "op") /\ "op" \notin Giving \cup Given /\ "register" \notin Giving \cup Given
    BY <1>7 DEF CallAwait, Calls, Giving, Given
  <2>2. CASE Goto(t, "register")
    BY <1>5, <2>1, <2>2
  <2>3. CASE SetTop(t, Past(t))
    <3> DEFINE f == [Past(t) EXCEPT !.pc = "op"]
    <3>1. /\ SetTop(t, f) /\ f.is = "prog" /\ f.id = Top(t).id /\ f.ip = Top(t).ip + 1 /\ f.pc = "op"
      BY <1>s, <2>1, <2>3, PastFrame
    <3> HIDE DEF f
    <3>2. QED BY <1>3, <2>1, <3>1
  <2>4. QED BY <1>7, <2>2, <2>3 DEF CallAwait
<1>8. CASE CallShutdown(t)
  <2> DEFINE f == [Past(t) EXCEPT !.pc = "done"]
             g == LoopFrame("shutdown", 0)
  <2>1. At(t, "prog", "op") /\ Calls(t, "shutdown") /\ (SetTop(t, f) \/ CallWith(t, f, g))
    BY <1>8 DEF CallShutdown, Calls
  <2>2. f.is = "prog" /\ f.pc = "done" /\ f.id = Top(t).id /\ f.ip = Top(t).ip + 1
    BY <1>s, <2>1, ShutdownFrame
  <2>3. g.is = "loop" /\ ~ Awaits(g)
    BY DEF LoopFrame, Awaits
  <2>4. "op" \notin Giving \cup Given /\ "done" \notin Giving \cup Given
    BY DEF Giving, Given
  <2> HIDE DEF f, g
  <2>5. CASE SetTop(t, f)
    BY <1>3, <2>1, <2>2, <2>4, <2>5
  <2>6. CASE CallWith(t, f, g)
    <3>1. stack[t] # <<>> /\ Top(t).ip \in Nat /\ Top(t).is = "prog" /\ Idle(stack[t])
      BY <1>2, <2>1, <2>4
    <3>2. Keeps(Top(t), f)
      BY <2>2, <3>1 DEF Keeps
    <3>3. FramesMove(t, {}) /\ Idle(stack'[t])
      BY <2>3, <2>6, <3>1, <3>2, CallFrames, IdleAfter
    <3>4. QED BY <1>1, <3>1, <3>3
  <2>7. QED BY <2>1, <2>5, <2>6
<1>9. QED BY <1>4, <1>6, <1>7, <1>8

-----------------------------------------------------------------------------
(* Awaits *)

IsAwait(t, d) == d \in 1..Len(stack[t]) /\ Awaits(stack[t][d])

\* The values whose closure for the await at depth d of t's stack has not run.
Pending(t, d) == {v \in Values : Waits(WakeItem(t, d, v))}
Without(t, d, G) == {v \in Pending(t, d) : WakeItem(t, d, v) \notin G}

\* A closure that waits has its await, and numRemaining counts them.
ClosureInv == \A it \in Closures : Waits(it) => IsAwait(it.thread, it.depth)
CountInv ==
  \A t \in Threads : \A d \in Nat :
    IsAwait(t, d) => stack[t][d].left = Cardinality(Pending(t, d))

\* Below the frame of an await is the program that made the call, and a value it
\* names is ready or has the closure among its waiters.
AwaitOK(t, d) ==
  /\ d > 1 /\ IsProg(t, d - 1)
  /\ LET f == stack[t][d - 1]
         call == prog[f.id][f.ip - 1]
     IN  /\ f.ip - 1 \in DOMAIN prog[f.id] /\ call.op = "await"
         /\ \A v \in call.values : v \in ready \/ WakeItem(t, d, v) \in ToSet(waiters[v])
ReadyInv == \A t \in Threads : \A d \in Nat : IsAwait(t, d) => AwaitOK(t, d)

AwaitInv == ClosureInv /\ CountInv /\ ReadyInv

\* Closures are what WakeItem makes, one for each thread, depth and value.
LEMMA ClosureMakers ==
  /\ \A t \in Threads, d \in Nat, v \in Values : WakeItem(t, d, v) \in Closures
  /\ \A it \in Closures : /\ it = WakeItem(it.thread, it.depth, it.value)
                          /\ it.thread \in Threads /\ it.depth \in Nat /\ it.value \in Values
  /\ \A t, d, v : /\ WakeItem(t, d, v).thread = t /\ WakeItem(t, d, v).depth = d
                  /\ WakeItem(t, d, v).value = v
  /\ \A t, d, v, u, e, w : WakeItem(t, d, v) = WakeItem(u, e, w) => t = u /\ d = e /\ v = w
<1>1. \A t, d, v : /\ WakeItem(t, d, v).thread = t /\ WakeItem(t, d, v).depth = d
                   /\ WakeItem(t, d, v).value = v
  BY DEF WakeItem
<1>2. /\ \A t \in Threads, d \in Nat, v \in Values : WakeItem(t, d, v) \in Closures
      /\ \A it \in Closures : /\ it = WakeItem(it.thread, it.depth, it.value)
                              /\ it.thread \in Threads /\ it.depth \in Nat /\ it.value \in Values
  BY DEF Closures, WakeItem
<1>3. ASSUME NEW t, NEW d, NEW v, NEW u, NEW e, NEW w, WakeItem(t, d, v) = WakeItem(u, e, w)
      PROVE  t = u /\ d = e /\ v = w
  BY <1>1, <1>3
<1>4. QED BY <1>1, <1>2, <1>3

\* Finitely many closures of an await wait; none if there are zero.
LEMMA PendingFinite ==
  /\ \A t, d : /\ Pending(t, d) \subseteq Values /\ IsFiniteSet(Pending(t, d))
               /\ Cardinality(Pending(t, d)) \in Nat
               /\ Cardinality(Pending(t, d)) = 0 => Pending(t, d) = {}
<1> SUFFICES ASSUME NEW t, NEW d
             PROVE  /\ Pending(t, d) \subseteq Values /\ IsFiniteSet(Pending(t, d))
                    /\ Cardinality(Pending(t, d)) \in Nat
                    /\ Cardinality(Pending(t, d)) = 0 => Pending(t, d) = {}
  OBVIOUS
<1>1. Pending(t, d) \subseteq Values
  BY DEF Pending
<1>2. IsFiniteSet(Pending(t, d))
  BY <1>1, ConfigAssumption, FS_Subset
<1>3. QED BY <1>1, <1>2, FS_CardinalityType, FS_EmptySet

\* Thread t, with n frames, registers closures for the values M, for an await it
\* calls, and runs the closures G.
AwaitsMove(t, n, M, G) ==
  /\ \A u \in Threads, d \in Nat, v \in Values :
       Waits(WakeItem(u, d, v))' <=>
         \/ Waits(WakeItem(u, d, v)) /\ WakeItem(u, d, v) \notin G
         \/ u = t /\ d = n + 1 /\ v \in M
  /\ \A u \in Threads, d \in Nat : IsAwait(u, d) =>
       IF IsAwait(u, d)' THEN stack'[u][d].left = Cardinality(Without(u, d, G))
                         ELSE stack[u][d].left = 0
  /\ \A u \in Threads, d \in Nat : IsAwait(u, d)' =>
       \/ IsAwait(u, d)
       \/ u = t /\ d = n + 1 /\ stack'[u][d].left = Cardinality(M) /\ AwaitOK(u, d)'
  /\ M # {} => IsAwait(t, n + 1)'

\* The invariant survives it.
LEMMA AwaitStep ==
  ASSUME StacksOK, StacksOK', FramesOK, NEW t \in Threads, Shaped(t), prog' = prog, ValuesMove, AwaitInv,
         HistoryOK, HistoryOK', NEW n, n = Len(stack[t]), NEW M \in SUBSET Values, NEW G,
         AwaitsMove(t, n, M, G)
  PROVE  AwaitInv'
<1> USE DEF AwaitInv, AwaitsMove
<1>n. n \in Nat /\ ~ IsAwait(t, n + 1)
  BY StackLen DEF IsAwait
<1>1. ClosureInv'
  <2> SUFFICES ASSUME NEW it \in Closures, Waits(it)' PROVE IsAwait(it.thread, it.depth)'
    BY DEF ClosureInv
  <2>0. PICK u \in Threads, d \in Nat, v \in Values : it = WakeItem(u, d, v) /\ it.thread = u /\ it.depth = d
    BY ClosureMakers
  <2>1. CASE u = t /\ d = n + 1 /\ v \in M
    BY <2>0, <2>1
  <2>2. CASE Waits(it)
    <3>1. IsAwait(u, d)
      BY <2>0, <2>2 DEF ClosureInv
    <3>2. v \in Pending(u, d)
      BY <2>0, <2>2 DEF Pending
    <3>3. stack[u][d].left # 0
      BY <3>1, <3>2, PendingFinite DEF CountInv
    <3>4. QED BY <2>0, <3>1, <3>3
  <2>3. QED BY <2>0, <2>1, <2>2
<1>2. CountInv'
  <2> SUFFICES ASSUME NEW u \in Threads, NEW d \in Nat, IsAwait(u, d)'
               PROVE  stack'[u][d].left = Cardinality(Pending(u, d)')
    BY DEF CountInv
  <2>1. CASE IsAwait(u, d)
    <3>1. ~ (u = t /\ d = n + 1)
      BY <1>n, <2>1
    <3>2. Pending(u, d)' = Without(u, d, G)
      BY <3>1 DEF Pending, Without
    <3>3. QED BY <2>1, <3>2
  <2>2. CASE ~ IsAwait(u, d)
    <3>1. u = t /\ d = n + 1 /\ stack'[u][d].left = Cardinality(M)
      BY <2>2
    <3>2. \A v \in Values : ~ Waits(WakeItem(u, d, v))
      BY <2>2, ClosureMakers DEF ClosureInv
    <3>3. Pending(u, d)' = M
      BY <3>1, <3>2 DEF Pending
    <3>4. QED BY <3>1, <3>3
  <2>3. QED BY <2>1, <2>2
<1>3. ReadyInv'
  <2> SUFFICES ASSUME NEW u \in Threads, NEW d \in Nat, IsAwait(u, d)' PROVE AwaitOK(u, d)'
    BY DEF ReadyInv
  <2>1. CASE ~ IsAwait(u, d)
    BY <2>1
  <2>2. CASE IsAwait(u, d)
    <3> DEFINE f == stack[u][d - 1]
               call == prog[f.id][f.ip - 1]
    <3>1. /\ d > 1 /\ IsProg(u, d - 1) /\ f.ip - 1 \in DOMAIN prog[f.id] /\ call.op = "await"
          /\ \A v \in call.values : v \in ready \/ WakeItem(u, d, v) \in ToSet(waiters[v])
      BY <2>2 DEF ReadyInv, AwaitOK
    <3>2. d \in 1..Len(stack[u]) /\ d \in 1..Len(stack'[u]) /\ f.is = "prog" /\ Len(stack[u]) \in Nat /\ Len(stack'[u]) \in Nat
      <4>1. d \in 1..Len(stack'[u])
        BY DEF IsAwait
      <4>2. Len(stack'[u]) \in Nat
        BY <4>1
      <4>3. QED BY <2>2, <3>1, <4>1, <4>2, StackLen DEF IsAwait, IsProg
    <3>3. Like(f, stack'[u][d - 1])
      <4>1. CASE u # t
        <5>1. d - 1 \in 1..Len(stack[u])
          BY <3>1, <3>2
        <5>2. QED BY <4>1, <5>1 DEF Shaped
      <4>2. CASE u = t
        <5>1. d - 1 \in 1..(Len(stack[t]) - 1)
          BY <3>1, <3>2, <4>2
        <5>2. QED BY <4>2, <5>1 DEF Shaped
      <4>3. QED BY <4>1, <4>2
    <3>4. stack'[u][d - 1] = f
      BY <3>2, <3>3 DEF Like
    <3>5. call.values \subseteq Values
      <4>1. f.id \in Tasks \cup Clients /\ prog[f.id] \in Seq(Call)
        BY <3>1, FrameIp
      <4>2. call \in Call
        BY <3>1, <4>1, ElementOfSeq, LenProperties
      <4>3. QED BY <3>1, <4>2 DEF Call
    <3>6. IsProg(u, d - 1)'
      BY <3>1, <3>2, <3>4 DEF IsProg
    <3>7. \A v \in call.values : v \in ready' \/ WakeItem(u, d, v) \in ToSet(waiters'[v])
      BY <3>1, <3>5 DEF ValuesMove
    <3>8. QED BY <3>1, <3>4, <3>6, <3>7 DEF AwaitOK
  <2>3. QED BY <2>1, <2>2
<1>4. QED BY <1>1, <1>2, <1>3

\* The steps that leave the closures alone.
LEMMA MovesAwaits ==
  ASSUME StacksOK, StacksOK', FramesOK, HistoryOK, HistoryOK', AwaitInv,
         NEW t \in Threads, Shaped(t), NEW H, NEW R, Moves(t, H, R),
         Len(stack'[t]) = Len(stack[t]) - 1 /\ Awaits(Top(t)) => Top(t).left = 0
  PROVE  AwaitInv'
<1>0. PICK n : n = Len(stack[t])
  OBVIOUS
<1> DEFINE s == stack[t]
           r == stack'[t]
<1>1. /\ n \in Nat /\ OthersStay(t) /\ Top(t) = s[n] /\ \A i \in 1..(n - 1) : r[i] = s[i]
      /\ Len(r) \in {n - 1, n, n + 1} /\ (Len(r) >= n => Keeps(s[n], r[n]))
      /\ Len(r) = n + 1 => ~ Awaits(r[n + 1])
  <2>1. n \in Nat
    BY <1>0, StackLen
  <2>2. QED BY <1>0, <2>1 DEF Moves, FramesMove, Top
<1>2. ValuesMove /\ prog' = prog /\ ClosuresStay
  BY DEF Moves, TasksMove
<1>3. ASSUME NEW u \in Threads, NEW d \in Nat
      PROVE  /\ IsAwait(u, d)' => IsAwait(u, d) /\ stack'[u][d].left = stack[u][d].left
             /\ IsAwait(u, d) /\ ~ IsAwait(u, d)' => stack[u][d].left = 0
  <2>1. CASE u # t
    BY <1>1, <2>1 DEF OthersStay, IsAwait
  <2>2. CASE u = t
    <3>1. CASE d \in 1..(n - 1)
      BY <1>0, <1>1, <2>2, <3>1 DEF IsAwait
    <3>2. CASE d = n
      <4>1. CASE Len(r) = n - 1
        BY <1>0, <1>1, <2>2, <3>2, <4>1 DEF IsAwait
      <4>2. CASE Len(r) >= n
        <5>1. Keeps(s[n], r[n])
          BY <1>1, <4>2
        <5>2. (Awaits(r[n]) <=> Awaits(s[n])) /\ (Awaits(s[n]) => r[n].left = s[n].left)
          BY <5>1 DEF Keeps, Awaits
        <5>3. d \in 1..Len(r) <=> d \in 1..Len(s)
          BY <1>0, <1>1, <3>2, <4>2
        <5>4. QED BY <2>2, <3>2, <5>2, <5>3 DEF IsAwait
      <4>3. QED BY <1>1, <4>1, <4>2
    <3>3. CASE d \notin 1..n
      <4>1. ~ IsAwait(u, d)
        BY <1>0, <2>2, <3>3 DEF IsAwait
      <4>2. ~ IsAwait(u, d)'
        BY <1>1, <2>2, <3>3 DEF IsAwait
      <4>3. QED BY <4>1, <4>2
    <3>4. d \in 1..(n - 1) \/ d = n \/ d \notin 1..n
      BY <1>1
    <3>5. QED BY <3>1, <3>2, <3>3, <3>4
  <2>3. QED BY <2>1, <2>2
<1>4. \A u \in Threads, d \in Nat, v \in Values :
        Waits(WakeItem(u, d, v))' <=>
          \/ Waits(WakeItem(u, d, v)) /\ WakeItem(u, d, v) \notin {}
          \/ u = t /\ d = n + 1 /\ v \in {}
  BY <1>2, ClosureMakers DEF ClosuresStay
<1>5. ASSUME NEW u \in Threads, NEW d \in Nat, IsAwait(u, d)
      PROVE  IF IsAwait(u, d)'
             THEN stack'[u][d].left = Cardinality(Without(u, d, {}))
             ELSE stack[u][d].left = 0
  <2>1. Without(u, d, {}) = Pending(u, d)
    BY DEF Without
  <2>2. stack[u][d].left = Cardinality(Pending(u, d))
    BY <1>5 DEF AwaitInv, CountInv
  <2>3. QED BY <1>3, <1>5, <2>1, <2>2
<1>6. \A u \in Threads, d \in Nat : IsAwait(u, d)' => IsAwait(u, d)
  BY <1>3
<1> HIDE DEF s, r
<1>7. AwaitsMove(t, n, {}, {})
  BY <1>4, <1>5, <1>6 DEF AwaitsMove
<1>8. QED BY <1>0, <1>2, <1>7, AwaitStep

\* A step that starts and adds no task, and leaves them where they wait.
LEMMA StillTasks ==
  ASSUME HistoryOK, NEW t, \A a \in Tasks : Waits(TaskItem(a))' <=> Waits(TaskItem(a)),
         UNCHANGED <<prog, added, ran>>
  PROVE  TasksMove(t, {}, {})
<1>1. ran = [a \in Tasks |-> ran[a]]
  BY DEF HistoryOK
<1>2. QED BY <1>1 DEF TasksMove

\* Running no closure leaves those that wait.
LEMMA WithoutNone == \A t, d : Without(t, d, {}) = Pending(t, d)
  BY DEF Without

\* The closures of the await at depth d, for the values M.
ClosuresOf(t, d, M) == {WakeItem(t, d, v) : v \in M}

\* They were added to the lists of the values.
Registered(t, d, M) ==
  /\ Effect(ClosuresOf(t, d, M), {})
  /\ \A v \in M : v \in Values /\ WakeItem(t, d, v) \in ToSet(waiters'[v])
  /\ \A v \in Values : ToSet(waiters[v]) \subseteq ToSet(waiters'[v])

\* The closures of an await go to the lists of the values it misses.
LEMMA RegisterItems ==
  ASSUME StacksOK, StacksOK', TypeInv, TypeInv', NoneTwice, ClosureInv, NEW t \in Threads, AwaitRegister(t),
         NEW n, n = Len(stack[t]), NEW M, M = Arg(t).values \ ready
  PROVE  Registered(t, n + 1, M)
<1> USE DEF queues, values
<1>s. FramesOK /\ QueuesOK /\ HistoryOK
  BY DEF TypeInv
<1>h. Shaped(t)
  BY <1>s, StepShaped DEF Step, Execute
<1>t. At(t, "prog", "register") /\ UNCHANGED <<queues, ready>>
  BY DEF AwaitRegister
<1>1. M \subseteq Values /\ n \in Nat
  BY <1>s, <1>t, RegisterFacts, StackLen
<1> DEFINE W(v) == WakeItem(t, n + 1, v)
           F == {W(v) : v \in M}
           C == {<<"waiters", v>> : v \in M}
<1>2. waiters' = [v \in Values |-> IF v \in M THEN Append(waiters[v], W(v)) ELSE waiters[v]]
  BY DEF AwaitRegister
<1>3. \A v \in M : W(v) \in Items /\ ~ Waits(W(v)) /\ W(v) \in Closures
  <2> SUFFICES ASSUME NEW v \in M PROVE W(v) \in Items /\ ~ Waits(W(v)) /\ W(v) \in Closures
    OBVIOUS
  <2>1. W(v) \in Closures /\ W(v).thread = t /\ W(v).depth = n + 1
    BY <1>1, ClosureMakers
  <2>2. ~ IsAwait(t, n + 1)
    BY <1>1 DEF IsAwait
  <2>3. QED BY <2>1, <2>2, Unlike DEF ClosureInv
<1>4. \A v, w : W(v) = W(w) => v = w
  BY ClosureMakers
<1> HIDE DEF W
<1>5. ASSUME NEW v \in M
      PROVE  LET k == <<"waiters", v>>
             IN  /\ k \in Lists /\ List(k) = waiters[v] /\ ToSet(List(k)') = ToSet(List(k)) \cup {W(v)}
                 /\ Distinct(List(k)') /\ ToSet(List(k)) \cap taskList = {}
                 /\ \A w \in M : W(w) \notin ToSet(List(k))
  <2> DEFINE k == <<"waiters", v>>
  <2>1. k \in Lists /\ List(k) = waiters[v] /\ List(k)' = waiters'[v] /\ waiters[v] \in Seq(Items)
    BY <1>s, <1>1, ListNames, ListNamesNext DEF QueuesOK
  <2>2. waiters'[v] = Append(waiters[v], W(v))
    BY <1>1, <1>2
  <2> HIDE DEF k
  <2>3. Distinct(List(k)) /\ ToSet(List(k)) \cap taskList = {}
    BY <2>1, NoneTwiceMeans
  <2>4. \A w \in M : W(w) \notin ToSet(List(k))
    BY <1>3, <2>1, WaitsMeans
  <2>5. ToSet(waiters'[v]) = ToSet(waiters[v]) \cup {W(v)} /\ Distinct(waiters'[v])
    BY <1>3, <2>1, <2>2, <2>3, <2>4, AppendFacts
  <2>6. QED BY <2>1, <2>3, <2>4, <2>5 DEF k
<1>6. \A k \in Lists \ C : List(k)' = List(k)
  <2>1. \A x \in Values : <<"waiters", x>> \in C \/ waiters'[x] = waiters[x]
    BY <1>2
  <2>2. \A u \in Threads : Hand(u)' = Hand(u)
    <3>1. stack[t] # <<>> /\ Idle(stack[t])
      BY <1>t DEF At, Idle, Top, Tip, Giving, Given
    <3>2. PICK f, g : CallWith(t, f, g) /\ g.is = "loop"
      BY DEF AwaitRegister, LoopFrame
    <3>3. Idle(stack'[t])
      BY <3>1, <3>2, IdleAfter
    <3>4. QED BY <1>h, <3>1, <3>3, IdleHand, AllHandsStay
  <2> HIDE DEF C
  <2>3. QED BY <1>t, <2>1, <2>2, ListsStay
<1>7. C \in SUBSET Lists
  BY <1>5
<1>8. \A x \in F : ~ Waits(x) /\ x \notin taskList
  BY <1>3, WaitsMeans
<1>9. \A k \in C : /\ Distinct(List(k)') /\ ToSet(List(k)') \cap taskList' = {}
                   /\ \A m \in C \ {k} : ToSet(List(k)') \cap ToSet(List(m)') = {}
  <2> SUFFICES ASSUME NEW v \in M
               PROVE  LET k == <<"waiters", v>>
                      IN  /\ Distinct(List(k)') /\ ToSet(List(k)') \cap taskList' = {}
                          /\ \A w \in M : w # v => ToSet(List(k)') \cap ToSet(List(<<"waiters", w>>)') = {}
    OBVIOUS
  <2> DEFINE k == <<"waiters", v>>
  <2>1. Distinct(List(k)') /\ ToSet(List(k)') \cap taskList' = {}
    <3>1. W(v) \notin taskList
      BY <1>8
    <3>2. QED BY <1>t, <1>5, <3>1
  <2>2. ASSUME NEW w \in M, w # v PROVE ToSet(List(k)') \cap ToSet(List(<<"waiters", w>>)') = {}
    <3> DEFINE m == <<"waiters", w>>
    <3>1. m \in Lists \ {k} /\ k \in Lists
      BY <1>5, <2>2
    <3>2. ToSet(List(k)) \cap ToSet(List(m)) = {}
      <4> HIDE DEF k, m
      <4>1. QED BY <3>1, NoneTwiceMeans
    <3>3. W(v) # W(w)
      BY <1>4, <2>2
    <3>4. /\ ToSet(List(k)') = ToSet(List(k)) \cup {W(v)} /\ W(w) \notin ToSet(List(k))
          /\ ToSet(List(m)') = ToSet(List(m)) \cup {W(w)} /\ W(v) \notin ToSet(List(m))
      BY <1>5
    <3> HIDE DEF k, m
    <3>5. ToSet(List(k)') \cap ToSet(List(m)') = {}
      BY <3>2, <3>3, <3>4
    <3>6. QED BY <3>5 DEF m
  <2>3. QED BY <2>1, <2>2
<1>10. \A x : Among(C, x)' <=> (Among(C, x) /\ x \notin {}) \/ x \in F
  <2> SUFFICES ASSUME NEW x PROVE Among(C, x)' <=> Among(C, x) \/ x \in F
    OBVIOUS
  <2>1. Among(C, x) <=> x \in taskList \/ \E v \in M : x \in ToSet(List(<<"waiters", v>>))
    BY DEF Among
  <2>2. Among(C, x)' <=> x \in taskList' \/ \E v \in M : x \in ToSet(List(<<"waiters", v>>)')
    BY DEF Among
  <2>3. \A v \in M : x \in ToSet(List(<<"waiters", v>>)') <=> x \in ToSet(List(<<"waiters", v>>)) \/ x = W(v)
    BY <1>5
  <2>4. QED BY <1>t, <2>1, <2>2, <2>3
<1>11. Effect(F, {})
  <2>0. PICK D, H : D = C /\ H = F
    OBVIOUS
  <2>1. D \in SUBSET Lists /\ \A k \in Lists \ D : List(k)' = List(k)
    BY <1>6, <1>7, <2>0
  <2>2. \A x \in H : ~ Waits(x)
    BY <1>8, <2>0
  <2>3. \A k \in D : /\ Distinct(List(k)') /\ ToSet(List(k)') \cap taskList' = {}
                   /\ \A m \in D \ {k} : ToSet(List(k)') \cap ToSet(List(m)') = {}
    BY <1>9, <2>0
  <2>4. \A x : Among(D, x)' <=> (Among(D, x) /\ x \notin {}) \/ x \in H
    BY <1>10, <2>0
  <2> HIDE DEF C, F
  <2>5. \A x \in {} : Among(D, x)
    OBVIOUS
  <2>6. Effect(H, {})
    BY <2>1, <2>2, <2>3, <2>4, <2>5, Rearranged
  <2>7. QED BY <2>0, <2>6
<1> HIDE DEF C, F
<1>12. \A v \in Values : waiters'[v] = IF v \in M THEN Append(waiters[v], W(v)) ELSE waiters[v]
  BY <1>2
<1>13. \A v \in M : ToSet(waiters'[v]) = ToSet(waiters[v]) \cup {W(v)} /\ v \in Values
  <2> SUFFICES ASSUME NEW v \in M PROVE ToSet(waiters'[v]) = ToSet(waiters[v]) \cup {W(v)} /\ v \in Values
    OBVIOUS
  <2>1. v \in Values /\ waiters[v] \in Seq(Items) /\ W(v) \in Items /\ waiters'[v] = Append(waiters[v], W(v))
    BY <1>s, <1>1, <1>3, <1>12 DEF QueuesOK
  <2>2. QED BY <2>1, AppendFacts
<1>14. F = ClosuresOf(t, n + 1, M)
  BY DEF F, W, ClosuresOf
<1>15. QED BY <1>11, <1>12, <1>13, <1>14 DEF W, Registered

\* Registering the closures of an await keeps both invariants.
LEMMA RegisterStep ==
  ASSUME StacksOK, StacksOK', TypeInv, TypeInv', TaskInv, AwaitInv, NEW t \in Threads, AwaitRegister(t)
  PROVE  TaskInv' /\ AwaitInv'
<1> USE DEF queues, values
<1>s. FramesOK /\ QueuesOK /\ HistoryOK /\ FramesOK' /\ HistoryOK' /\ NoneTwice /\ ClosureInv
  BY DEF TypeInv, TaskInv, AwaitInv
<1>h. Shaped(t)
  BY <1>s, StepShaped DEF Step, Execute
<1>t. At(t, "prog", "register") /\ UNCHANGED <<prog, queues, ready, added, ran>>
  BY DEF AwaitRegister
<1>0. PICK n, M, c : n = Len(stack[t]) /\ M = Arg(t).values \ ready /\ c = Cardinality(M)
  OBVIOUS
<1> DEFINE W(v) == WakeItem(t, n + 1, v)
           F == ClosuresOf(t, n + 1, M)
           f == [Past(t) EXCEPT !.pc = "op"]
           g == AwaitFrame(t, c)
           r == stack'[t]
<1>1. /\ M \in SUBSET Values /\ n \in Nat /\ n > 0 /\ Top(t) = stack[t][n] /\ Top(t).is = "prog" /\ c \in Nat
      /\ Arg(t).op = "await" /\ Top(t).ip \in DOMAIN prog[Top(t).id] /\ Top(t).ip \in Nat /\ stack[t] # <<>>
  BY <1>s, <1>t, <1>0, RegisterFacts, ProgAt DEF At
<1>2. f.is = "prog" /\ f.id = Top(t).id /\ f.ip = Top(t).ip + 1
  BY <1>s, <1>t, PastFrame
<1>3. g.is = "loop" /\ g.left = c /\ Awaits(g)
  <2>1. c \in Nat /\ 2 \in Nat /\ 2 # 1
    BY <1>1
  <2>2. g.is = "loop" /\ g.left = c /\ (g.kind = "await" \/ g.kind = "foreign")
    BY <2>1, AwaitLoop
  <2> HIDE DEF g
  <2>3. QED BY <2>2 DEF Awaits
<1>4. CallWith(t, f, g)
  BY <1>0 DEF AwaitRegister, AwaitFrame
<1> HIDE DEF f, g
<1>5. OthersStay(t) /\ Len(r) = n + 1 /\ r[n + 1] = g /\ r[n] = f /\ \A i \in 1..(n - 1) : r[i] = stack[t][i]
  BY <1>0, <1>1, <1>4, CallShape DEF Entered
<1>6. /\ Effect(F, {})
      /\ \A v \in M : v \in Values /\ W(v) \in ToSet(waiters'[v])
      /\ \A v \in Values : ToSet(waiters[v]) \subseteq ToSet(waiters'[v])
  <2>1. Registered(t, n + 1, M)
    BY <1>s, <1>0, RegisterItems
  <2>2. QED BY <2>1 DEF Registered
<1>7. \A x : Waits(x)' <=> Waits(x) \/ x \in F
  BY <1>6 DEF Effect
<1>8. TasksMove(t, {}, {})
  <2>1. \A a \in Tasks : TaskItem(a) \notin F
    <3>1. \A v \in M : W(v) \in Closures
      BY <1>1, <1>6, ClosureMakers
    <3>2. QED BY <3>1, Unlike DEF ClosuresOf
  <2> HIDE DEF F
  <2>2. QED BY <1>s, <1>t, <1>7, <2>1, StillTasks
<1>9. ProgsFrom(t, {})
  <2> SUFFICES ASSUME NEW u \in Threads, NEW d \in Nat, IsProg(u, d)'
               PROVE  IsProg(u, d) /\ stack[u][d].id = stack'[u][d].id /\ stack[u][d].ip <= stack'[u][d].ip
    BY DEF ProgsFrom
  <2>1. d \in 1..Len(stack'[u]) /\ stack'[u][d].is = "prog"
    BY DEF IsProg
  <2>2. CASE d \in 1..Len(stack[u]) /\ stack'[u][d] = stack[u][d]
    <3>1. IsProg(u, d)
      BY <2>1, <2>2 DEF IsProg
    <3>2. stack[u][d].ip \in Nat
      BY <1>s, <3>1, FrameIp
    <3>3. QED BY <2>2, <3>1, <3>2
  <2>3. CASE u # t
    BY <1>5, <2>1, <2>2, <2>3 DEF OthersStay
  <2>4. CASE u = t /\ d = n
    BY <1>0, <1>1, <1>2, <1>5, <2>4 DEF IsProg
  <2>5. CASE u = t /\ d # n
    <3>1. d # n + 1
      BY <1>3, <1>5, <2>1, <2>5
    <3>2. d \in 1..(n - 1)
      BY <1>1, <1>5, <2>1, <2>5, <3>1
    <3>3. QED BY <1>0, <1>1, <1>5, <2>2, <2>5, <3>2
  <2>6. QED BY <2>3, <2>4, <2>5
<1>10. TaskInv'
  BY <1>s, <1>6, <1>8, <1>9, TaskStep DEF Effect
<1>11. ASSUME NEW u \in Threads, NEW d \in Nat
       PROVE  /\ IsAwait(u, d) => IsAwait(u, d)' /\ stack'[u][d].left = stack[u][d].left
              /\ IsAwait(u, d)' => IsAwait(u, d) \/ (u = t /\ d = n + 1)
  <2>1. CASE u # t
    BY <1>5, <2>1 DEF OthersStay, IsAwait
  <2>2. CASE u = t /\ d \in 1..(n - 1)
    BY <1>0, <1>1, <1>5, <2>2 DEF IsAwait
  <2>3. CASE u = t /\ d = n
    BY <1>0, <1>1, <1>2, <1>5, <2>3 DEF IsAwait, Awaits
  <2>4. CASE u = t /\ d \notin 1..n
    BY <1>0, <1>1, <1>5, <2>4 DEF IsAwait
  <2>5. QED BY <1>1, <2>1, <2>2, <2>3, <2>4
<1>12. AwaitOK(t, n + 1)'
  <2>1. IsProg(t, n)'
    BY <1>1, <1>2, <1>5 DEF IsProg
  <2>2. stack'[t][(n + 1) - 1] = f /\ n + 1 > 1 /\ (n + 1) - 1 = n
    BY <1>1, <1>5
  <2>3. f.ip - 1 = Top(t).ip
    BY <1>1, <1>2
  <2>4. prog'[f.id][f.ip - 1] = Arg(t) /\ f.ip - 1 \in DOMAIN prog'[f.id]
    BY <1>t, <1>1, <1>2, <2>3 DEF Arg
  <2>5. \A v \in Arg(t).values : v \in ready' \/ WakeItem(t, n + 1, v) \in ToSet(waiters'[v])
    BY <1>t, <1>0, <1>6
  <2>6. QED BY <1>1, <2>1, <2>2, <2>4, <2>5 DEF AwaitOK
<1>13. IsAwait(t, n + 1)' /\ stack'[t][n + 1].left = Cardinality(M)
  BY <1>0, <1>1, <1>3, <1>5 DEF IsAwait
<1>14. AwaitsMove(t, n, M, {})
  <2>1. \A u \in Threads, d \in Nat, v \in Values :
          Waits(WakeItem(u, d, v))' <=>
            \/ Waits(WakeItem(u, d, v)) /\ WakeItem(u, d, v) \notin {}
            \/ u = t /\ d = n + 1 /\ v \in M
    <3> SUFFICES ASSUME NEW u \in Threads, NEW d \in Nat, NEW v \in Values
                 PROVE  Waits(WakeItem(u, d, v))' <=> Waits(WakeItem(u, d, v)) \/ (u = t /\ d = n + 1 /\ v \in M)
      OBVIOUS
    <3>1. WakeItem(u, d, v) \in F <=> (u = t /\ d = n + 1 /\ v \in M)
      <4>1. ASSUME WakeItem(u, d, v) \in F PROVE u = t /\ d = n + 1 /\ v \in M
        <5>1. PICK w \in M : WakeItem(u, d, v) = WakeItem(t, n + 1, w)
          BY <4>1 DEF ClosuresOf
        <5>2. QED BY <5>1, ClosureMakers
      <4>2. QED BY <4>1 DEF ClosuresOf
    <3> HIDE DEF F
    <3>2. QED BY <1>7, <3>1
  <2>2. \A u \in Threads, d \in Nat : IsAwait(u, d) =>
          IF IsAwait(u, d)' THEN stack'[u][d].left = Cardinality(Without(u, d, {}))
                            ELSE stack[u][d].left = 0
    BY <1>11, WithoutNone DEF AwaitInv, CountInv
  <2>3. \A u \in Threads, d \in Nat : IsAwait(u, d)' =>
          \/ IsAwait(u, d)
          \/ u = t /\ d = n + 1 /\ stack'[u][d].left = Cardinality(M) /\ AwaitOK(u, d)'
    BY <1>11, <1>12, <1>13
  <2>4. QED BY <1>13, <2>1, <2>2, <2>3 DEF AwaitsMove
<1>15. ValuesMove
  BY <1>t, <1>6 DEF ValuesMove
<1>16. AwaitInv'
  BY <1>s, <1>h, <1>t, <1>0, <1>1, <1>14, <1>15, AwaitStep
<1>17. QED BY <1>10, <1>16

\* The frames when thread t, with n frames, has counted down for the await at
\* depth d of u's stack.
Counted(t, n, u, d) ==
  /\ \A x \in Threads, i \in Nat : x # t \/ i # n =>
       /\ i \in 1..Len(stack'[x]) <=> i \in 1..Len(stack[x])
       /\ i \in 1..Len(stack[x]) =>
            stack'[x][i] = IF x = u /\ i = d THEN CountedFrame(stack[x][i]) ELSE stack[x][i]
  /\ n \in 1..Len(stack'[t]) => stack'[t][n].is = "wake"
  /\ Len(stack'[t]) <= n
  /\ Idle(stack'[t])

\* WakeDecrement does that.
LEMMA CountsDown ==
  ASSUME StacksOK, StacksOK', FramesOK, NEW t \in Threads, WakeDecrement(t),
         NEW n, n = Len(stack[t]), NEW u, u = Top(t).thread, NEW d, d = Top(t).depth
  PROVE  Counted(t, n, u, d) /\ n \in Nat /\ n > 1 /\ Top(t) = stack[t][n]
<1>0. PICK s, f, l : s = CountedStack(u, d) /\ f = [Top(t) EXCEPT !.pc = "post"] /\ l = CountedStack(u, d)[u][d].left
  OBVIOUS
<1>1. /\ u \in Threads /\ d \in Nat /\ n \in Nat /\ n > 1 /\ Len(s[t]) = n
      /\ At(t, "wake", "decrement") /\ Top(t) = stack[t][n]
      /\ \A x \in Threads \ {t} : stack'[x] = s[x]
      /\ Changed(s[t], stack'[t], f) \/ Left(s[t], stack'[t])
  BY <1>0, DecrementShape
<1>2. \A x \in Threads :
        /\ Len(s[x]) = Len(stack[x])
        /\ \A i \in 1..Len(stack[x]) :
             s[x][i] = IF x = u /\ i = d THEN CountedFrame(stack[x][i]) ELSE stack[x][i]
  BY <1>0, <1>1, CountShape
<1>3. Top(t) \in WakeFrames
  BY <1>1, TipKinds
<1>4. f.is = "wake" /\ f.pc = "post"
  BY <1>0, <1>3 DEF WakeFrames
<1>5. /\ Len(stack'[t]) \in {n - 1, n} /\ (Len(stack'[t]) = n => stack'[t][n] = f)
      /\ \A i \in 1..(n - 1) : stack'[t][i] = s[t][i]
  BY <1>1 DEF Changed, Left
<1>6. ASSUME NEW x \in Threads, NEW i \in Nat, x # t \/ i # n
      PROVE  /\ i \in 1..Len(stack'[x]) <=> i \in 1..Len(stack[x])
             /\ i \in 1..Len(stack[x]) =>
                  stack'[x][i] = IF x = u /\ i = d THEN CountedFrame(stack[x][i]) ELSE stack[x][i]
  <2>1. CASE x # t
    BY <1>1, <1>2, <2>1
  <2>2. CASE x = t /\ i # n
    <3>1. Len(stack[t]) = n
      OBVIOUS
    <3>2. i \in 1..Len(stack'[x]) <=> i \in 1..n
      BY <1>1, <1>5, <2>2
    <3>3. ASSUME i \in 1..n PROVE stack'[t][i] = s[t][i]
      <4>1. i \in 1..(n - 1)
        BY <1>1, <2>2, <3>3
      <4>2. QED BY <1>5, <4>1
    <3>4. QED BY <1>2, <2>2, <3>1, <3>2, <3>3
  <2>3. QED BY <1>6, <2>1, <2>2
<1>7. Idle(stack'[t])
  <2>1. CASE Len(stack'[t]) = n
    BY <1>4, <1>5, <2>1 DEF Idle, Tip
  <2>2. CASE Len(stack'[t]) = n - 1
    <3>1. Resting(stack[t][n - 1])
      <4>1. StackOK(t, stack[t]) /\ n - 1 \in 1..(Len(stack[t]) - 1)
        BY <1>1 DEF StacksOK
      <4>2. QED BY <4>1 DEF StackOK
    <3>2. Tip(stack'[t]) = stack'[t][n - 1]
      BY <2>2 DEF Tip
    <3>3. Like(stack[t][n - 1], stack'[t][n - 1])
      <4>1. Shaped(t)
        BY ShapedDecrement
      <4>2. \A i \in 1..(n - 1) : Like(stack[t][i], stack'[t][i])
        BY <4>1 DEF Shaped
      <4>3. n - 1 \in 1..(n - 1)
        BY <1>1
      <4>4. QED BY <4>2, <4>3
    <3>4. QED BY <3>1, <3>2, <3>3 DEF Like, Resting, Idle, Giving, Given
  <2>3. QED BY <1>5, <2>1, <2>2
<1>8. QED BY <1>1, <1>4, <1>5, <1>6, <1>7 DEF Counted

\* The closure it runs.
ClosureRun(t) == WakeItem(Top(t).thread, Top(t).depth, Top(t).value)

\* The closure is gone then, and nothing else has moved.
LEMMA DecrementItems ==
  ASSUME StacksOK, StacksOK', TypeInv, TypeInv', NoneTwice, NEW t \in Threads, WakeDecrement(t), Shaped(t),
         Idle(stack'[t]), NEW it, it = ClosureRun(t)
  PROVE  Effect({}, {it}) /\ Waits(it)
<1> USE DEF queues, values
<1>1. At(t, "wake", "decrement") /\ UNCHANGED <<queues, waiters>>
  BY DEF WakeDecrement
<1>2. Hand(t) = <<it>> /\ Hand(t)' = <<>>
  BY <1>1, HandIs, HandCases, IdleHand DEF At, Top, Tip, ClosureRun
<1>3. PICK a : a = <<"hand", t>>
  OBVIOUS
<1>4. a \in Lists /\ List(a) = <<it>> /\ List(a)' = <<>>
  BY <1>2, <1>3, ListNames, ListNamesNext
<1>5. \A k \in Lists \ {a} : List(k)' = List(k)
  <2>1. \A x \in Threads : <<"hand", x>> \in {a} \/ Hand(x)' = Hand(x)
    BY <1>3, HandsStay
  <2>2. QED BY <1>1, <2>1, ListsStay
<1>6. ToSet(List(a)) = {it} /\ ToSet(List(a)') = {} /\ Distinct(List(a)')
  BY <1>4 DEF ToSet, Distinct
<1>7. {it} \cap taskList = {} /\ Waits(it)
  BY <1>4, <1>6, NoneTwiceMeans, WaitsMeans
<1>8. taskList' = taskList
  BY <1>1
<1>9. /\ {it} \subseteq ToSet(List(a)) \cup taskList /\ ToSet(List(a)') \cap taskList' = {}
      /\ ToSet(List(a)') \cup taskList' = ((ToSet(List(a)) \cup taskList) \ {it}) \cup {}
  BY <1>6, <1>7, <1>8
<1>10. \A x \in {} : ~ Waits(x)
  OBVIOUS
<1>11. Effect({}, {it})
  BY <1>4, <1>5, <1>6, <1>9, <1>10, OneMoves
<1>12. QED BY <1>7, <1>11

\* Counting down.
LEMMA DecrementStep ==
  ASSUME StacksOK, StacksOK', TypeInv, TypeInv', TaskInv, AwaitInv, NEW t \in Threads, WakeDecrement(t)
  PROVE  TaskInv' /\ AwaitInv'
<1> USE DEF queues, values
<1>s. FramesOK /\ QueuesOK /\ HistoryOK /\ FramesOK' /\ HistoryOK' /\ NoneTwice /\ ClosureInv /\ CountInv
  BY DEF TypeInv, TaskInv, AwaitInv
<1>h. Shaped(t)
  BY <1>s, ShapedDecrement
<1>t. At(t, "wake", "decrement") /\ UNCHANGED <<prog, queues, ready, waiters, added, ran>>
  BY DEF WakeDecrement
<1>0. PICK n, u, d, v, it : /\ n = Len(stack[t]) /\ u = Top(t).thread /\ d = Top(t).depth /\ v = Top(t).value
                            /\ it = ClosureRun(t)
  OBVIOUS
<1>1. Counted(t, n, u, d) /\ n \in Nat /\ n > 1 /\ Top(t) = stack[t][n]
  BY <1>s, <1>0, CountsDown
<1>2. u \in Threads /\ d \in Nat /\ v \in Values /\ it \in Closures /\ it = WakeItem(u, d, v)
  <2>1. Top(t) \in WakeFrames
    BY <1>s, <1>t, TipKinds
  <2>2. u \in Threads /\ d \in Nat /\ v \in Values
    BY <1>0, <2>1 DEF WakeFrames
  <2>3. QED BY <1>0, <2>2, ClosureMakers DEF ClosureRun
<1>3. Effect({}, {it}) /\ Waits(it)
  <2>1. Idle(stack'[t])
    BY <1>1 DEF Counted
  <2>2. QED BY <1>s, <1>h, <1>0, <2>1, DecrementItems
<1>4. IsAwait(u, d)
  <2>1. it.thread = u /\ it.depth = d
    BY <1>2, ClosureMakers
  <2>2. IsAwait(it.thread, it.depth)
    BY <1>s, <1>2, <1>3 DEF ClosureInv
  <2>3. QED BY <2>1, <2>2
<1>5. \A x : Waits(x)' <=> Waits(x) /\ x # it
  BY <1>3 DEF Effect
<1>6. TasksMove(t, {}, {})
  <2>1. \A a \in Tasks : TaskItem(a) # it
    BY <1>2, Unlike
  <2>2. QED BY <1>s, <1>t, <1>5, <2>1, StillTasks
<1>7. Awaits(stack[u][d]) /\ d \in 1..Len(stack[u]) /\ ~ (u = t /\ d = n)
  BY <1>t, <1>1, <1>4 DEF IsAwait, Awaits, At
<1>8. ASSUME NEW x \in Threads, NEW i \in Nat
      PROVE  /\ IsProg(x, i)' => IsProg(x, i) /\ stack'[x][i] = stack[x][i]
             /\ IsAwait(x, i)' <=> IsAwait(x, i)
             /\ IsAwait(x, i) => stack'[x][i].left = IF x = u /\ i = d THEN stack[x][i].left - 1
                                                                       ELSE stack[x][i].left
  <2>1. CASE x = t /\ i = n
    <3>1. ~ IsAwait(x, i) /\ ~ IsAwait(x, i)' /\ ~ IsProg(x, i)'
      BY <1>t, <1>0, <1>1, <2>1 DEF IsAwait, Awaits, IsProg, Counted, At
    <3>2. QED BY <3>1
  <2>2. CASE x = u /\ i = d
    <3>1. /\ i \in 1..Len(stack'[x]) <=> i \in 1..Len(stack[x])
          /\ stack'[x][i] = CountedFrame(stack[x][i])
      BY <1>1, <1>7, <2>2 DEF Counted
    <3>2. FrameOK(prog, x, i, stack[x][i]) /\ stack[x][i].is = "loop"
      BY <1>s, <1>7, <2>2 DEF FramesOK, Awaits
    <3>3. /\ stack'[x][i].is = "loop" /\ stack'[x][i].kind = stack[x][i].kind
          /\ stack'[x][i].left = stack[x][i].left - 1
      <4> DEFINE g == CountedFrame(stack[x][i])
      <4>1. g.is = "loop" /\ g.kind = stack[x][i].kind /\ g.left = stack[x][i].left - 1
        BY <3>2, CountFrame
      <4> HIDE DEF g
      <4>2. QED BY <3>1, <4>1 DEF g
    <3>4. QED BY <2>2, <3>1, <3>2, <3>3 DEF IsAwait, Awaits, IsProg
  <2>3. CASE ~ (x = t /\ i = n) /\ ~ (x = u /\ i = d)
    <3>1. /\ i \in 1..Len(stack'[x]) <=> i \in 1..Len(stack[x])
          /\ i \in 1..Len(stack[x]) => stack'[x][i] = stack[x][i]
      BY <1>1, <2>3 DEF Counted
    <3>2. QED BY <2>3, <3>1 DEF IsAwait, IsProg
  <2>4. QED BY <2>1, <2>2, <2>3
<1>9. ProgsFrom(t, {})
  <2> SUFFICES ASSUME NEW x \in Threads, NEW i \in Nat, IsProg(x, i)'
               PROVE  IsProg(x, i) /\ stack[x][i].id = stack'[x][i].id /\ stack[x][i].ip <= stack'[x][i].ip
    BY DEF ProgsFrom
  <2>1. IsProg(x, i) /\ stack'[x][i] = stack[x][i]
    BY <1>8
  <2>2. stack[x][i].ip \in Nat
    BY <1>s, <2>1, FrameIp
  <2>3. QED BY <2>1, <2>2
<1>10. TaskInv'
  BY <1>s, <1>3, <1>6, <1>9, TaskStep DEF Effect
<1>11. ASSUME NEW x \in Threads, NEW i \in Nat, IsAwait(x, i)
       PROVE  stack'[x][i].left = Cardinality(Without(x, i, {it}))
  <2>1. stack[x][i].left = Cardinality(Pending(x, i))
    BY <1>s, <1>11 DEF CountInv
  <2>2. CASE x = u /\ i = d
    <3>1. Without(x, i, {it}) = Pending(x, i) \ {v} /\ v \in Pending(x, i)
      BY <1>2, <1>3, <2>2, ClosureMakers DEF Without, Pending
    <3>2. IsFiniteSet(Pending(x, i)) /\ Cardinality(Pending(x, i)) \in Nat
      BY PendingFinite
    <3>3. Cardinality(Pending(x, i) \ {v}) = Cardinality(Pending(x, i)) - 1
      BY <3>1, <3>2, FS_RemoveElement
    <3>4. QED BY <1>8, <1>11, <2>1, <2>2, <3>1, <3>3
  <2>3. CASE ~ (x = u /\ i = d)
    <3>1. \A w : WakeItem(x, i, w) # it
      BY <1>2, <2>3, ClosureMakers
    <3>2. Without(x, i, {it}) = Pending(x, i)
      BY <3>1 DEF Without
    <3>3. QED BY <1>8, <1>11, <2>1, <2>3, <3>2
  <2>4. QED BY <2>2, <2>3
<1>12. AwaitsMove(t, n, {}, {it})
  <2>1. \A x \in Threads, i \in Nat, w \in Values :
          Waits(WakeItem(x, i, w))' <=>
            \/ Waits(WakeItem(x, i, w)) /\ WakeItem(x, i, w) \notin {it}
            \/ x = t /\ i = n + 1 /\ w \in {}
    BY <1>5
  <2>2. \A x \in Threads, i \in Nat : IsAwait(x, i)' <=> IsAwait(x, i)
    BY <1>8
  <2>3. QED BY <1>11, <2>1, <2>2 DEF AwaitsMove
<1>13. ValuesMove
  BY <1>t DEF ValuesMove
<1>14. AwaitInv'
  BY <1>s, <1>h, <1>t, <1>0, <1>1, <1>12, <1>13, AwaitStep
<1>15. QED BY <1>10, <1>14

-----------------------------------------------------------------------------
(* The semaphore of a foreign await *)

PostsTo(s, t) == Waking(s) /\ Tip(s).thread = t
Unposted(t) == \A x \in Threads : ~ PostsTo(stack[x], t)
PostedBy(x, t) == PostsTo(stack[x], t) /\ \A y \in Threads \ {x} : ~ PostsTo(stack[y], t)

\* The thread sleeps in an await that has nothing left to wait for.
AwaitOver(s) == Looping(s, {"sleep"}) /\ Tip(s).left = 0

\* The semaphore of a thread that is no worker is posted once, when its await is
\* over.
SemaOK(t) ==
  \/ sema[t] = 0 /\ Unposted(t)
  \/ AwaitOver(stack[t]) /\ sema[t] = 1 /\ Unposted(t)
  \/ AwaitOver(stack[t]) /\ sema[t] = 0 /\ \E x \in Threads : PostedBy(x, t)
SemaInv == \A t \in Threads \ Workers : SemaOK(t)

\* A step that posts nobody and is not taken by a sleeping thread.
LEMMA SemaQuiet ==
  ASSUME SemaInv, NEW t \in Threads, OthersStay(t), ~ Waking(stack'[t]),
         t \in Workers \/ ~ Looping(stack[t], {"sleep"}),
         \A u \in Threads \ Workers : sema'[u] = sema[u]
  PROVE  SemaInv'
<1> SUFFICES ASSUME NEW u \in Threads \ Workers PROVE SemaOK(u)'
  BY DEF SemaInv
<1>1. \A x \in Threads : PostsTo(stack'[x], u) => PostsTo(stack[x], u)
  BY DEF OthersStay, PostsTo
<1>2. SemaOK(u) /\ sema'[u] = sema[u]
  BY DEF SemaInv
<1>3. Unposted(u) => Unposted(u)'
  BY <1>1 DEF Unposted
<1>4. CASE u = t
  BY <1>2, <1>3, <1>4 DEF SemaOK, AwaitOver
<1>5. CASE u # t
  <2>1. stack'[u] = stack[u]
    BY <1>5 DEF OthersStay
  <2>2. ASSUME NEW x \in Threads, PostedBy(x, u) PROVE PostedBy(x, u)' \/ Unposted(u)'
    BY <1>1, <2>2 DEF PostedBy, Unposted
  <2>3. QED BY <1>2, <1>3, <2>1, <2>2 DEF SemaOK
<1>6. QED BY <1>4, <1>5

\* A step by which thread t goes on, returns or calls, but does not post.
LEMMA MovesQuiet ==
  ASSUME StacksOK, StacksOK', NEW t \in Threads, Shaped(t), NEW R, FramesMove(t, R),
         Top(t).is # "wake" \/ Return(t)
  PROVE  OthersStay(t) /\ ~ Waking(stack'[t])
<1>0. PICK n, r : n = Len(stack[t]) /\ r = stack'[t]
  OBVIOUS
<1>1. /\ n \in Nat /\ OthersStay(t) /\ stack[t] # <<>> /\ Top(t) = stack[t][n]
      /\ \/ Len(r) = n - 1
         \/ Len(r) = n /\ r[n].is = stack[t][n].is
         \/ Len(r) = n + 1 /\ (r[n + 1].is = "wake" => r[n + 1].pc = "decrement")
  BY <1>0, StackLen DEF FramesMove, Keeps, Top
<1>2. CASE Len(r) = n - 1
  <2>1. r = <<>> \/ Resting(Tip(r))
    BY <1>0, <1>2, BackTip
  <2>2. QED BY <1>0, <1>1, <2>1 DEF Resting, Waking
<1>3. CASE Len(r) = n /\ r[n].is = stack[t][n].is
  <2>1. CASE Top(t).is # "wake"
    BY <1>0, <1>1, <1>3, <2>1 DEF Waking, Tip
  <2>2. CASE Return(t)
    <3>1. Len(r) = n - 1
      BY <1>0, <1>1, <2>2, ReturnShape DEF Left
    <3>2. QED BY <1>1, <1>3, <3>1
  <2>3. QED BY <2>1, <2>2
<1>4. CASE Len(r) = n + 1 /\ (r[n + 1].is = "wake" => r[n + 1].pc = "decrement")
  BY <1>0, <1>1, <1>4 DEF Waking, Tip
<1>5. QED BY <1>1, <1>2, <1>3, <1>4

\* A wait returns: the await of a foreign thread has nothing left to wait for.
LEMMA SemaWakeUp ==
  ASSUME StacksOK, StacksOK', FramesOK, PoolTypes, SemaInv, NEW t \in Threads, WakeUp(t),
         OthersStay(t), ~ Waking(stack'[t])
  PROVE  SemaInv' /\ (Len(stack'[t]) = Len(stack[t]) - 1 => Top(t).left = 0)
<1>1. /\ At(t, "loop", "sleep") /\ sema[t] > 0 /\ sema' = [sema EXCEPT ![t] = @ - 1]
      /\ IF Top(t).kind = "foreign" THEN Return(t) ELSE Goto(t, "keep")
  BY DEF WakeUp
<1>2. /\ stack[t] # <<>> /\ OnThread(t, Top(t)) /\ Top(t).is = "loop" /\ sema \in [Threads -> Nat]
      /\ Top(t) = Tip(stack[t])
  BY <1>1, TopFacts DEF At, PoolTypes, Top, Tip
<1>3. CASE t \in Workers
  <2>1. Goto(t, "keep")
    BY <1>1, <1>2, <1>3 DEF OnThread
  <2>2. Len(stack'[t]) = Len(stack[t]) /\ Len(stack[t]) \in Nat
    BY <1>2, <2>1, SetShape, StackLen DEF Goto, Changed
  <2>3. \A u \in Threads \ Workers : sema'[u] = sema[u]
    BY <1>1, <1>2, <1>3
  <2>4. SemaInv'
    BY <1>3, <2>3, SemaQuiet
  <2>5. QED BY <2>2, <2>4
<1>4. CASE t \notin Workers
  <2>1. AwaitOver(stack[t]) /\ sema[t] = 1 /\ Unposted(t)
    BY <1>1, <1>4 DEF SemaInv, SemaOK
  <2>2. Top(t).left = 0
    BY <1>2, <2>1 DEF AwaitOver
  <2>3. sema'[t] = 0 /\ \A u \in Threads \ {t} : sema'[u] = sema[u] /\ stack'[u] = stack[u]
    BY <1>1, <1>2, <2>1 DEF OthersStay
  <2>4. ~ Waking(stack[t])
    BY <1>2 DEF Waking
  <2>5. \A x \in Threads : \A u : PostsTo(stack'[x], u) <=> PostsTo(stack[x], u)
    BY <2>3, <2>4 DEF PostsTo
  <2>6. \A u \in Threads : /\ Unposted(u)' <=> Unposted(u)
                          /\ \A x \in Threads : PostedBy(x, u)' <=> PostedBy(x, u)
    BY <2>5 DEF Unposted, PostedBy
  <2>7. \A u \in Threads \ Workers : SemaOK(u)'
    BY <2>1, <2>3, <2>6 DEF SemaInv, SemaOK
  <2>8. QED BY <2>2, <2>7 DEF SemaInv
<1>5. QED BY <1>3, <1>4

\* The closure of an await posts.
LEMMA SemaPost ==
  ASSUME StacksOK, FramesOK, PoolTypes, SemaInv, NEW t \in Threads, WakePost(t),
         OthersStay(t), ~ Waking(stack'[t])
  PROVE  SemaInv'
<1>0. PICK u : u = Top(t).thread
  OBVIOUS
<1>1. At(t, "wake", "post") /\ sema' = [sema EXCEPT ![u] = @ + 1] /\ sema \in [Threads -> Nat]
  BY <1>0 DEF WakePost, PoolTypes
<1>2. u \in Threads
  <2>1. Top(t) \in WakeFrames
    BY <1>1, TipKinds
  <2>2. QED BY <1>0, <2>1 DEF WakeFrames
<1>3. PostsTo(stack[t], u) /\ ~ Looping(stack[t], {"sleep"})
  BY <1>0, <1>1 DEF PostsTo, Waking, At, Top, Tip, Looping
<1>4. CASE u \in Workers
  <2>1. \A x \in Threads \ Workers : sema'[x] = sema[x]
    BY <1>1, <1>4
  <2>2. QED BY <1>3, <2>1, SemaQuiet
<1>5. CASE u \notin Workers
  <2>1. AwaitOver(stack[u]) /\ sema[u] = 0 /\ PostedBy(t, u)
    BY <1>2, <1>3, <1>5 DEF SemaInv, SemaOK, Unposted, PostedBy
  <2>2. u # t /\ stack'[u] = stack[u] /\ sema'[u] = 1
    BY <1>1, <1>2, <1>3, <2>1 DEF AwaitOver, OthersStay
  <2>3. \A x \in Threads : \A y : PostsTo(stack'[x], y) <=> PostsTo(stack[x], y) /\ x # t
    BY DEF OthersStay, PostsTo
  <2>4. SemaOK(u)'
    BY <2>1, <2>2, <2>3 DEF SemaOK, PostedBy, Unposted
  <2>5. ASSUME NEW x \in Threads \ Workers, x # u PROVE SemaOK(x)'
    <3>1. sema'[x] = sema[x] /\ SemaOK(x)
      BY <1>1, <2>5 DEF SemaInv
    <3>2. ~ PostsTo(stack[t], x)
      BY <1>0, <1>3, <2>5 DEF PostsTo
    <3>3. \A y \in Threads : PostsTo(stack'[y], x) <=> PostsTo(stack[y], x)
      BY <2>3, <3>2
    <3>4. AwaitOver(stack[x]) => stack'[x] = stack[x]
      BY <1>3 DEF AwaitOver, OthersStay
    <3>5. /\ Unposted(x)' <=> Unposted(x)
          /\ \A y \in Threads : PostedBy(y, x)' <=> PostedBy(y, x)
      BY <3>3 DEF Unposted, PostedBy
    <3>6. QED BY <3>1, <3>4, <3>5 DEF SemaOK
  <2>6. QED BY <2>4, <2>5 DEF SemaInv
<1>6. QED BY <1>4, <1>5

\* A foreign thread begins an await.
LEMMA SemaRegister ==
  ASSUME StacksOK, TypeInv, PoolTypes, SemaInv, NEW t \in Threads, AwaitRegister(t)
  PROVE  SemaInv'
<1>s. FramesOK /\ HistoryOK
  BY DEF TypeInv
<1>0. PICK c : c = Cardinality(Arg(t).values \ ready)
  OBVIOUS
<1> DEFINE f == [Past(t) EXCEPT !.pc = "op"]
           g == AwaitFrame(t, c)
<1>1. /\ At(t, "prog", "register") /\ CallWith(t, f, g) /\ sema \in [Threads -> Nat]
      /\ sema' = [sema EXCEPT ![t] = IF c = 0 THEN @ + 1 ELSE @]
  BY <1>0 DEF AwaitRegister, AwaitFrame, PoolTypes
<1>2. c \in Nat /\ stack[t] # <<>> /\ Len(stack[t]) \in Nat
  BY <1>s, <1>0, <1>1, RegisterFacts, StackLen DEF At
<1>3. g.is = "loop" /\ g.left = c /\ (t \notin Workers => g.pc = "sleep")
  <2>1. PICK d \in Nat : d # 1
    OBVIOUS
  <2>2. QED BY <1>2, <2>1, AwaitLoop
<1> HIDE DEF f, g
<1>4. OthersStay(t) /\ Tip(stack'[t]) = g /\ stack'[t] # <<>>
  <2>1. OthersStay(t) /\ Entered(stack[t], stack'[t], f, g)
    BY <1>1, <1>2, CallShape
  <2>2. Len(stack'[t]) = Len(stack[t]) + 1 /\ stack'[t][Len(stack[t]) + 1] = g
    BY <2>1 DEF Entered
  <2>3. stack'[t] # <<>>
    BY <1>2, <2>2
  <2>4. QED BY <2>1, <2>2, <2>3 DEF Tip
<1>5. ~ Looping(stack[t], {"sleep"}) /\ ~ Waking(stack'[t]) /\ ~ Waking(stack[t])
  BY <1>1, <1>3, <1>4 DEF Looping, Waking, At, Top, Tip
<1>6. CASE t \in Workers
  <2>1. \A u \in Threads \ Workers : sema'[u] = sema[u]
    BY <1>1, <1>6
  <2>2. QED BY <1>4, <1>5, <2>1, SemaQuiet
<1>7. CASE t \notin Workers
  <2>1. sema[t] = 0 /\ Unposted(t)
    BY <1>5, <1>7 DEF SemaInv, SemaOK, AwaitOver
  <2>2. \A x \in Threads : \A u : PostsTo(stack'[x], u) <=> PostsTo(stack[x], u)
    BY <1>4, <1>5 DEF PostsTo, OthersStay
  <2>3. \A u \in Threads : /\ Unposted(u)' <=> Unposted(u)
                          /\ \A x \in Threads : PostedBy(x, u)' <=> PostedBy(x, u)
    BY <2>2 DEF Unposted, PostedBy
  <2>4. SemaOK(t)'
    <3>1. sema'[t] = IF c = 0 THEN 1 ELSE 0
      BY <1>1, <2>1
    <3>2. c = 0 => AwaitOver(stack'[t])
      BY <1>3, <1>4, <1>7 DEF AwaitOver, Looping
    <3>3. QED BY <2>1, <2>3, <3>1, <3>2 DEF SemaOK
  <2>5. \A u \in Threads \ {t} : sema'[u] = sema[u] /\ stack'[u] = stack[u]
    BY <1>1, <1>4 DEF OthersStay
  <2>6. ASSUME NEW u \in Threads \ Workers, u # t PROVE SemaOK(u)'
    <3>1. SemaOK(u) /\ sema'[u] = sema[u] /\ stack'[u] = stack[u]
      BY <2>5, <2>6 DEF SemaInv
    <3>2. QED BY <2>3, <3>1 DEF SemaOK
  <2>7. QED BY <2>4, <2>6 DEF SemaInv
<1>8. QED BY <1>6, <1>7

\* The closure that counts down posts only when nothing is left.
LEMMA LastPosts ==
  ASSUME StacksOK, StacksOK', FramesOK, NEW t \in Threads, WakeDecrement(t), Waking(stack'[t]),
         NEW u, u = Top(t).thread, NEW d, d = Top(t).depth, IsAwait(u, d)
  PROVE  Tip(stack'[t]).thread = u /\ stack'[u][d].left = 0
<1>0. PICK n, s, f : n = Len(stack[t]) /\ s = CountedStack(u, d) /\ f = [Top(t) EXCEPT !.pc = "post"]
  OBVIOUS
<1>1. /\ u \in Threads /\ d \in Nat /\ n \in Nat /\ n > 1 /\ Len(s[t]) = n
      /\ At(t, "wake", "decrement") /\ Top(t) = stack[t][n]
      /\ IF s[u][d].left = 0 THEN Changed(s[t], stack'[t], f) ELSE Left(s[t], stack'[t])
  BY <1>0, DecrementShape
<1>2. s[u][d].left = 0 /\ Changed(s[t], stack'[t], f)
  <2>1. ASSUME Left(s[t], stack'[t]) PROVE FALSE
    <3>1. Len(stack'[t]) = Len(stack[t]) - 1 /\ Shaped(t)
      BY <1>0, <1>1, <2>1, ShapedDecrement DEF Left
    <3>2. stack'[t] = <<>> \/ Resting(Tip(stack'[t]))
      BY <3>1, BackTip
    <3>3. QED BY <3>2 DEF Waking, Resting
  <2>2. QED BY <1>1, <2>1
<1>3. Tip(stack'[t]).thread = u
  <2>1. Top(t) \in WakeFrames
    BY <1>1, TipKinds
  <2>2. f.thread = u
    BY <1>0, <2>1 DEF WakeFrames
  <2>3. Tip(stack'[t]) = f
    BY <1>1, <1>2 DEF Changed, Tip
  <2>4. QED BY <2>2, <2>3
<1>4. s[u][d] = CountedFrame(stack[u][d])
  BY <1>0, <1>1, CountShape DEF IsAwait
<1>5. stack'[u][d] = CountedFrame(stack[u][d])
  <2>1. Counted(t, n, u, d)
    BY <1>0, CountsDown
  <2>2. ~ (u = t /\ d = n)
    BY <1>1 DEF IsAwait, Awaits, At
  <2>3. QED BY <1>1, <2>1, <2>2 DEF Counted, IsAwait
<1>6. QED BY <1>2, <1>3, <1>4, <1>5

\* Counting down: the last closure posts the semaphore of an await that is over.
LEMMA SemaDecrement ==
  ASSUME StacksOK, StacksOK', TypeInv, TypeInv', NoneTwice, ClosureInv, CountInv, SemaInv,
         NEW t \in Threads, WakeDecrement(t)
  PROVE  SemaInv'
<1>s. FramesOK
  BY DEF TypeInv
<1>h. Shaped(t)
  BY <1>s, ShapedDecrement
<1>t. At(t, "wake", "decrement") /\ sema' = sema
  BY DEF WakeDecrement
<1>0. PICK n, u, d, v, it : /\ n = Len(stack[t]) /\ u = Top(t).thread /\ d = Top(t).depth /\ v = Top(t).value
                            /\ it = ClosureRun(t)
  OBVIOUS
<1>1. Counted(t, n, u, d) /\ n \in Nat /\ n > 1 /\ Top(t) = stack[t][n]
  BY <1>s, <1>0, CountsDown
<1>2. u \in Threads /\ d \in Nat /\ v \in Values /\ it \in Closures /\ it = WakeItem(u, d, v)
  <2>1. Top(t) \in WakeFrames
    BY <1>s, <1>t, TipKinds
  <2>2. u \in Threads /\ d \in Nat /\ v \in Values
    BY <1>0, <2>1 DEF WakeFrames
  <2>3. QED BY <1>0, <2>2, ClosureMakers DEF ClosureRun
<1>3. Waits(it)
  <2>1. Idle(stack'[t])
    BY <1>1 DEF Counted
  <2>2. QED BY <1>h, <1>0, <2>1, DecrementItems
<1>4. IsAwait(u, d)
  <2>1. it.thread = u /\ it.depth = d
    BY <1>2, ClosureMakers
  <2>2. IsAwait(it.thread, it.depth)
    BY <1>2, <1>3 DEF ClosureInv
  <2>3. QED BY <2>1, <2>2
<1>5. stack[u][d].left # 0
  <2>1. v \in Pending(u, d) /\ stack[u][d].left = Cardinality(Pending(u, d))
    BY <1>2, <1>3, <1>4 DEF Pending, CountInv
  <2>2. QED BY <2>1, PendingFinite
<1>6. /\ ~ Waking(stack[t]) /\ ~ AwaitOver(stack[t])
      /\ Waking(stack'[t]) => Tip(stack'[t]).thread = u /\ stack'[u][d].left = 0
  BY <1>s, <1>t, <1>0, <1>4, LastPosts DEF At, Top, Tip, Waking, AwaitOver, Looping
<1>7. ASSUME NEW y \in Threads \ {t}, NEW x PROVE PostsTo(stack'[y], x) <=> PostsTo(stack[y], x)
  <2>1. Len(stack[y]) \in Nat /\ (stack[y] # <<>> <=> Len(stack[y]) > 0)
    BY StackLen
  <2>2. stack'[y] = <<>> <=> stack[y] = <<>>
    BY <1>h, OtherViews
  <2>3. Len(stack'[y]) = Len(stack[y]) /\ \A i \in 1..Len(stack[y]) : Like(stack[y][i], stack'[y][i])
    BY <1>h DEF Shaped
  <2>4. stack[y] # <<>> => Like(Tip(stack[y]), Tip(stack'[y]))
    BY <2>1, <2>3 DEF Tip
  <2>5. QED BY <2>2, <2>4 DEF PostsTo, Waking, Like
<1>8. ASSUME NEW x \in Threads \ {u} 
      PROVE  /\ \A y \in Threads : PostsTo(stack'[y], x) <=> PostsTo(stack[y], x)
             /\ Unposted(x)' <=> Unposted(x)
             /\ \A y \in Threads : PostedBy(y, x)' <=> PostedBy(y, x)
  <2>1. ~ PostsTo(stack'[t], x) /\ ~ PostsTo(stack[t], x)
    BY <1>6, <1>8 DEF PostsTo
  <2>2. \A y \in Threads : PostsTo(stack'[y], x) <=> PostsTo(stack[y], x)
    BY <1>7, <2>1
  <2>3. QED BY <2>2 DEF Unposted, PostedBy
<1>9. ASSUME NEW x \in Threads \ Workers, x # u PROVE SemaOK(x)'
  <2>1. SemaOK(x)
    BY DEF SemaInv
  <2>2. AwaitOver(stack[x]) => AwaitOver(stack'[x])
    <3>1. CASE x = t
      BY <1>6, <3>1
    <3>2. CASE x # t
      <4> SUFFICES ASSUME AwaitOver(stack[x]) PROVE AwaitOver(stack'[x])
        OBVIOUS
      <4>1. Len(stack[x]) \in Nat /\ Len(stack[x]) > 0 /\ Len(stack'[x]) = Len(stack[x])
        BY <1>h, <3>2, StackLen DEF AwaitOver, Looping, Shaped
      <4>2. stack'[x][Len(stack[x])] = stack[x][Len(stack[x])]
        BY <1>1, <1>9, <3>2, <4>1 DEF Counted
      <4>3. stack'[x] # <<>>
        BY <1>h, <3>2, OtherViews DEF AwaitOver, Looping
      <4>4. QED BY <4>1, <4>2, <4>3 DEF AwaitOver, Looping, Tip
    <3>3. QED BY <3>1, <3>2
  <2>3. QED BY <1>t, <1>8, <1>9, <2>1, <2>2 DEF SemaOK
<1>10. ASSUME u \notin Workers PROVE SemaOK(u)'
  <2>1. /\ Len(stack[u]) \in Nat /\ d \in 1..Len(stack[u]) /\ stack[u] # <<>>
        /\ stack[u][d].is = "loop"
    BY <1>2, <1>4, StackLen DEF IsAwait, Awaits
  <2>2. stack[u][d].pc = "sleep"
    BY <1>2, <1>10, <2>1 DEF StacksOK, StackOK, OnThread
  <2>3. d = Len(stack[u])
    <3>1. \A i \in 1..(Len(stack[u]) - 1) : Resting(stack[u][i])
      BY <1>2 DEF StacksOK, StackOK
    <3>2. ~ Resting(stack[u][d])
      BY <2>1, <2>2 DEF Resting
    <3>3. d \notin 1..(Len(stack[u]) - 1)
      BY <3>1, <3>2
    <3>4. QED BY <2>1, <3>3
  <2>4. u # t
    BY <1>t, <1>0, <1>1, <2>1, <2>3 DEF At
  <2>5. sema[u] = 0 /\ Unposted(u)
    BY <1>2, <1>5, <1>10, <2>3 DEF SemaInv, SemaOK, AwaitOver, Tip
  <2>6. \A y \in Threads \ {t} : ~ PostsTo(stack'[y], u)
    BY <1>7, <2>5 DEF Unposted
  <2>7. CASE Waking(stack'[t])
    <3>1. PostedBy(t, u)'
      BY <1>6, <2>6, <2>7 DEF PostedBy, PostsTo
    <3>2. stack'[u] # <<>> /\ Len(stack'[u]) = d /\ Looping(stack'[u], {"sleep"})
      <4>1. Looping(stack[u], {"sleep"})
        BY <2>1, <2>2, <2>3 DEF Looping, Tip
      <4>2. Looping(stack'[u], {"sleep"}) /\ stack'[u] # <<>>
        BY <1>h, <1>2, <2>1, <2>4, <4>1, OtherViews
      <4>3. QED BY <1>h, <1>2, <2>3, <2>4, <4>2 DEF Shaped
    <3>3. AwaitOver(stack'[u])
      BY <1>6, <2>7, <3>2 DEF AwaitOver, Tip
    <3>4. QED BY <1>t, <2>5, <3>1, <3>3 DEF SemaOK
  <2>8. CASE ~ Waking(stack'[t])
    <3>1. Unposted(u)'
      BY <2>6, <2>8 DEF Unposted, PostsTo
    <3>2. QED BY <1>t, <2>5, <3>1 DEF SemaOK
  <2>9. QED BY <2>7, <2>8
<1>11. QED BY <1>9, <1>10 DEF SemaInv

-----------------------------------------------------------------------------
(* All steps together *)

\* The steps that touch no semaphore of a foreign thread.
LEMMA SemaStays ==
  ASSUME StacksOK, FramesOK, PoolTypes, NEW t \in Threads, Step(t),
         ~ WakeUp(t), ~ AwaitRegister(t), ~ WakeDecrement(t), ~ WakePost(t)
  PROVE  /\ stack[t] # <<>> /\ Top(t).is # "wake" /\ ~ Looping(stack[t], {"sleep"})
         /\ \A u \in Threads \ Workers : sema'[u] = sema[u]
<1>1. CASE RunItems(t)
  <2>0. \/ At(t, "loop", "keep") \/ At(t, "loop", "local") \/ At(t, "loop", "affinity")
        \/ At(t, "loop", "global") \/ At(t, "loop", "spinAffinity") \/ At(t, "loop", "spinGlobal")
        \/ At(t, "loop", "spinStop") \/ At(t, "loop", "pumpSpill") \/ At(t, "loop", "pumpOverflow")
        \/ At(t, "loop", "mark") \/ At(t, "loop", "preAffinity") \/ At(t, "loop", "preGlobal")
        \/ At(t, "loop", "preStop")
    BY <1>1 DEF RunItems, KeepRunning, RunLocal, PollAffinity, PollGlobal, SpinStop, PumpSpill,
                PumpOverflow, MarkSuspended, PreSuspendStop
  <2>1. PICK l : At(t, "loop", l) /\ l # "sleep"
    BY <2>0
  <2>2. sema' = sema
    BY <1>1 DEF RunItems, KeepRunning, RunLocal, PollAffinity, PollGlobal, SpinStop, PumpSpill,
                PumpOverflow, MarkSuspended, PreSuspendStop
  <2>3. QED BY <2>1, <2>2 DEF At, Looping, Top, Tip
<1>2. CASE AddTask(t) \/ (Execute(t) /\ ~ AwaitRegister(t) /\ ~ WakeDecrement(t) /\ ~ WakePost(t))
  <2>1. PICK l : At(t, "prog", l)
    BY <1>2 DEF AddTask, AddAffinity, AddSpill, TakeSuspended, AddGlobal, TakeAny, Post, AddOverflow,
                Execute, CallAddTask, CallEmplace, CallAndThen, CallAwait, CallShutdown, ShutdownFlag,
                ShutdownPost, ShutdownClear, ShutdownJoin, Finish, Calls
  <2>2. \A u \in Threads \ Workers : sema'[u] = sema[u]
    <3>1. CASE Post(t)
      <4>1. At(t, "prog", "post")
        BY <3>1 DEF Post
      <4>2. Top(t).target \in Workers
        BY <4>1, TipKinds DEF ProgOK
      <4>3. QED BY <3>1, <4>2 DEF Post, PoolTypes
    <3>2. CASE ShutdownPost(t)
      BY <3>2 DEF ShutdownPost
    <3>3. CASE ~ Post(t) /\ ~ ShutdownPost(t)
      BY <1>2, <3>3 DEF AddTask, AddAffinity, AddSpill, TakeSuspended, AddGlobal, TakeAny, AddOverflow,
                Execute, CallAddTask, CallEmplace, CallAndThen, CallAwait, CallShutdown, ShutdownFlag,
                ShutdownClear, ShutdownJoin, Finish
    <3>4. QED BY <3>1, <3>2, <3>3
  <2>3. QED BY <2>1, <2>2 DEF At, Looping, Top, Tip
<1>3. QED BY <1>1, <1>2 DEF Step

\* The steps that register or run no closure.
LEMMA MovesStep ==
  ASSUME PoolInv, PoolInv', TypeInv, TypeInv', TaskInv, AwaitInv, SemaInv, NEW t \in Threads, Step(t),
         Shaped(t), NEW H, NEW R, Moves(t, H, R), ~ AwaitRegister(t), ~ WakeDecrement(t)
  PROVE  TaskInv' /\ AwaitInv' /\ SemaInv'
<1>s. StacksOK /\ StacksOK' /\ PoolTypes /\ FramesOK /\ FramesOK' /\ HistoryOK /\ HistoryOK'
  BY DEF PoolInv, TypeInv
<1>1. FramesMove(t, R) /\ TasksMove(t, H, R) /\ NoneTwice'
  BY DEF Moves
<1>2. TaskInv'
  <2>1. ProgsFrom(t, R)
    BY <1>s, <1>1, FramesOfProgs
  <2>2. QED BY <1>s, <1>1, <2>1, TaskStep
<1>3. CASE WakeUp(t)
  <2>1. Top(t).is # "wake"
    BY <1>3 DEF WakeUp, At
  <2>2. OthersStay(t) /\ ~ Waking(stack'[t])
    BY <1>s, <1>1, <2>1, MovesQuiet
  <2>3. SemaInv' /\ (Len(stack'[t]) = Len(stack[t]) - 1 => Top(t).left = 0)
    BY <1>s, <1>3, <2>2, SemaWakeUp
  <2>4. AwaitInv'
    BY <1>s, <2>3, MovesAwaits
  <2>5. QED BY <1>2, <2>3, <2>4
<1>4. CASE ~ WakeUp(t)
  <2>1. Len(stack'[t]) = Len(stack[t]) - 1 /\ Awaits(Top(t)) => Top(t).left = 0
    <3>1. Len(stack[t]) \in Nat
      BY <1>s, StackLen
    <3>2. QED BY <1>1, <1>4, <3>1 DEF FramesMove, Top
  <2>2. AwaitInv'
    BY <1>s, <2>1, MovesAwaits
  <2>3. SemaInv'
    <3>1. CASE WakePost(t)
      <4>1. Return(t)
        BY <3>1 DEF WakePost
      <4>2. OthersStay(t) /\ ~ Waking(stack'[t])
        BY <1>s, <1>1, <4>1, MovesQuiet
      <4>3. QED BY <1>s, <3>1, <4>2, SemaPost
    <3>2. CASE ~ WakePost(t)
      <4>1. /\ Top(t).is # "wake" /\ ~ Looping(stack[t], {"sleep"})
            /\ \A u \in Threads \ Workers : sema'[u] = sema[u]
        BY <1>s, <1>4, <3>2, SemaStays
      <4>2. OthersStay(t) /\ ~ Waking(stack'[t])
        BY <1>s, <1>1, <4>1, MovesQuiet
      <4>3. QED BY <4>1, <4>2, SemaQuiet
    <3>3. QED BY <3>1, <3>2
  <2>4. QED BY <1>2, <2>2, <2>3
<1>5. QED BY <1>3, <1>4

\* Every step.
LEMMA WorkMoves ==
  ASSUME PoolInv, PoolInv', TypeInv, TypeInv', TaskInv, AwaitInv, SemaInv, NEW t \in Threads, Step(t)
  PROVE  TaskInv' /\ AwaitInv' /\ SemaInv'
<1>s. /\ StacksOK /\ StacksOK' /\ PoolTypes /\ FramesOK /\ NoneTwice
      /\ ClosureInv /\ CountInv
  BY DEF PoolInv, TypeInv, TaskInv, AwaitInv
<1>1. Shaped(t)
  BY <1>s, StepShaped
<1>2. CASE AwaitRegister(t)
  BY <1>s, <1>2, RegisterStep, SemaRegister
<1>3. CASE WakeDecrement(t)
  BY <1>s, <1>3, DecrementStep, SemaDecrement
<1>4. CASE ~ AwaitRegister(t) /\ ~ WakeDecrement(t)
  <2>1. \E H, R : Moves(t, H, R)
    <3>1. CASE RunItems(t)
      BY <1>s, <3>1, LoopKeeps
    <3>2. CASE AddTask(t)
      BY <1>s, <3>2, AddKeeps
    <3>3. CASE CallAddTask(t)
      BY <1>s, <3>3, AddBegins
    <3>4. CASE CallEmplace(t)
      BY <1>s, <3>4, EmplaceKeeps
    <3>5. CASE CallAndThen(t)
      BY <1>s, <3>5, AndThenKeeps
    <3>6. CASE \/ CallAwait(t) \/ WakePost(t) \/ CallShutdown(t) \/ ShutdownFlag(t) \/ ShutdownPost(t)
               \/ ShutdownClear(t) \/ ShutdownJoin(t) \/ Finish(t)
      BY <1>s, <3>6, QuietKeeps
    <3>7. QED BY <1>4, <3>1, <3>2, <3>3, <3>4, <3>5, <3>6 DEF Step, Execute
  <2>2. PICK H, R : Moves(t, H, R)
    BY <2>1
  <2>3. QED BY <1>1, <1>4, <2>2, MovesStep
<1>5. QED BY <1>2, <1>3, <1>4

\* A step that changes nothing.
LEMMA WorkStutters ==
  ASSUME TaskInv, AwaitInv, SemaInv, UNCHANGED vars PROVE TaskInv' /\ AwaitInv' /\ SemaInv'
<1> USE DEF queues, values
<1>1. UNCHANGED <<prog, stack, local, ring, spill, taskList, overflow, sema, ready, waiters, added, ran>>
  BY DEF vars
<1>2. \A k \in Lists : List(k)' = List(k)
  <2>1. \A t \in Threads : Hand(t)' = Hand(t)
    BY <1>1, HandIs
  <2>2. \A k \in Lists \ {} : List(k)' = List(k)
    BY <1>1, <2>1, ListsStay
  <2>3. QED BY <2>2
<1>3. NoneTwice'
  BY <1>1, <1>2, NoneTwiceMeans, NoneTwiceMeansNext DEF TaskInv
<1>4. \A x : Waits(x)' <=> Waits(x)
  BY <1>1, <1>2, WaitsMeans
<1>5. TaskInv'
  <2>1. \A t, d : IsProg(t, d)' <=> IsProg(t, d)
    BY <1>1 DEF IsProg
  <2>2. TaskConserved' /\ AddedInv'
    BY <1>1, <1>4 DEF TaskInv, TaskConserved, AddedInv
  <2>3. OneFrame' /\ StartedInv'
    BY <1>1, <2>1 DEF TaskInv, OneFrame, StartedInv
  <2>4. AheadInv'
    BY <1>1, <2>1 DEF TaskInv, AheadInv, Ahead
  <2>5. QED BY <1>3, <2>2, <2>3, <2>4 DEF TaskInv
<1>6. AwaitInv'
  <2>1. \A t, d : /\ IsAwait(t, d)' <=> IsAwait(t, d)
                  /\ Pending(t, d)' = Pending(t, d)
    BY <1>1, <1>4 DEF IsAwait, Pending
  <2>2. \A t, d : AwaitOK(t, d)' <=> AwaitOK(t, d)
    BY <1>1 DEF AwaitOK, IsProg
  <2>3. QED BY <1>1, <1>4, <2>1, <2>2 DEF AwaitInv, ClosureInv, CountInv, ReadyInv
<1>7. SemaInv'
  BY <1>1 DEF SemaInv, SemaOK, AwaitOver, Unposted, PostedBy
<1>8. QED BY <1>5, <1>6, <1>7

\* At the start nothing waits and nobody has been called.
LEMMA WorkStarts == Init => TaskInv /\ AwaitInv /\ SemaInv
<1> SUFFICES ASSUME Init PROVE TaskInv /\ AwaitInv /\ SemaInv
  OBVIOUS
<1>1. ASSUME NEW t \in Threads
      PROVE  /\ stack[t] # <<>> /\ Len(stack[t]) = 1 /\ Tip(stack[t]) = stack[t][1]
             /\ \/ t \in Clients /\ stack[t][1].is = "prog" /\ stack[t][1].id = t /\ stack[t][1].pc = "op"
                \/ stack[t][1].is = "loop" /\ stack[t][1].kind = "worker" /\ stack[t][1].pc = "keep"
  BY DEF Init, ProgFrame, LoopFrame, Tip
<1>2. \A t \in Threads : Hand(t) = <<>>
  <2> SUFFICES ASSUME NEW t \in Threads PROVE Hand(t) = <<>>
    OBVIOUS
  <2>1. Idle(stack[t])
    BY <1>1 DEF Idle, Giving, Given
  <2>2. QED BY <2>1, IdleHand, HandIs
<1>3. \A k \in Lists : List(k) = <<>>
  <2> SUFFICES ASSUME NEW k \in Lists PROVE List(k) = <<>>
    OBVIOUS
  <2>1. QED BY <1>2, ListKinds, ListNames DEF Init
<1>4. ToSet(<<>>) = {} /\ Distinct(<<>>)
  BY DEF ToSet, Distinct
<1>5. NoneTwice /\ \A x : ~ Waits(x)
  BY <1>3, <1>4, NoneTwiceMeans, WaitsMeans DEF Init
<1>6. \A t \in Threads, d \in Nat : /\ IsProg(t, d) => d = 1 /\ stack[t][d].id = t /\ t \in Clients
                                    /\ ~ IsAwait(t, d)
  BY <1>1 DEF IsProg, IsAwait, Awaits
<1>7. TaskInv
  <2>1. TaskConserved /\ AddedInv /\ AheadInv
    BY <1>5 DEF Init, TaskConserved, AddedInv, AheadInv, Ahead
  <2>2. OneFrame
    BY <1>6 DEF OneFrame
  <2>3. StartedInv
    BY <1>6, ProgramAssumption DEF StartedInv
  <2>4. QED BY <1>5, <2>1, <2>2, <2>3 DEF TaskInv
<1>8. AwaitInv
  BY <1>5, <1>6 DEF AwaitInv, ClosureInv, CountInv, ReadyInv, Closures
<1>9. SemaInv
  <2>1. \A t \in Threads : ~ Waking(stack[t]) /\ sema[t] = 0
    BY <1>1 DEF Waking, Init
  <2>2. QED BY <2>1 DEF SemaInv, SemaOK, Unposted, PostsTo
<1>10. QED BY <1>7, <1>8, <1>9

\* The inductive invariant of conservation.
WorkInv == PoolInv /\ TypeInv /\ TaskInv /\ AwaitInv /\ SemaInv

\* Every step keeps the invariant.
LEMMA WorkStep == WorkInv /\ [Next]_vars => WorkInv'
<1> SUFFICES ASSUME WorkInv, [Next]_vars PROVE WorkInv'
  OBVIOUS
<1>1. PoolInv' /\ TypeInv'
  BY PoolStep, TypesStep DEF WorkInv
<1>2. CASE UNCHANGED vars
  BY <1>1, <1>2, WorkStutters DEF WorkInv
<1>3. ASSUME NEW t \in Threads, Step(t) PROVE WorkInv'
  BY <1>1, <1>3, WorkMoves DEF WorkInv
<1>4. QED BY <1>2, <1>3 DEF Next, Terminated

\* All of it holds at all times: the wake-up invariant and the types, every task
\* in one place until it is run, every await counting its closures, and the
\* semaphore of a foreign await posted once, when the await is over.
THEOREM WorkInvariant == Spec => []WorkInv
<1>1. Init => WorkInv
  BY PoolStarts, TypesStart, WorkStarts DEF WorkInv
<1>2. QED BY <1>1, WorkStep, PTL DEF Spec

\* An await that counts to zero has its values.
LEMMA CountsRight == WorkInv => AwaitCounts
<1> SUFFICES ASSUME WorkInv, NEW t \in Threads, NEW d \in DOMAIN stack[t], Awaits(stack[t][d])
             PROVE  /\ stack[t][d].left = Cardinality(Pending(t, d))
                    /\ stack[t][d].left = 0 =>
                         prog[stack[t][d - 1].id][stack[t][d - 1].ip - 1].values \subseteq ready
  BY DEF AwaitCounts, Pending
<1>s. StacksOK /\ FramesOK /\ HistoryOK /\ CountInv /\ ReadyInv
  BY DEF WorkInv, PoolInv, TypeInv, AwaitInv
<1>1. d \in Nat /\ d \in 1..Len(stack[t]) /\ IsAwait(t, d)
  BY <1>s, StackLen DEF IsAwait
<1>2. stack[t][d].left = Cardinality(Pending(t, d)) /\ AwaitOK(t, d)
  BY <1>s, <1>1 DEF CountInv, ReadyInv
<1>3. ASSUME stack[t][d].left = 0
      PROVE  prog[stack[t][d - 1].id][stack[t][d - 1].ip - 1].values \subseteq ready
  <2>0. PICK f, i, call : /\ f = stack[t][d - 1] /\ i = f.ip - 1 /\ call = prog[f.id][i]
    OBVIOUS
  <2>1. /\ d - 1 \in Nat /\ IsProg(t, d - 1) /\ i \in DOMAIN prog[f.id] /\ call.op = "await"
        /\ \A v \in call.values : v \in ready \/ WakeItem(t, d, v) \in ToSet(waiters[v])
    BY <1>1, <1>2, <2>0 DEF AwaitOK
  <2>2. Pending(t, d) = {}
    BY <1>2, <1>3, PendingFinite
  <2>3. call.values \subseteq Values
    <3>1. prog[f.id] \in Seq(Call)
      BY <1>s, <2>0, <2>1, FrameIp
    <3>2. call \in Call
      BY <2>0, <2>1, <3>1
    <3>3. QED BY <2>1, <3>2 DEF Call
  <2>4. ASSUME NEW v \in call.values PROVE v \in ready
    <3>1. v \in Values /\ (v \in ready \/ WakeItem(t, d, v) \in ToSet(waiters[v]))
      BY <2>1, <2>3
    <3>2. WakeItem(t, d, v) \in ToSet(waiters[v]) => v \in Pending(t, d)
      BY <3>1, ListNames, WaitsMeans DEF Pending
    <3>3. QED BY <2>2, <3>1, <3>2
  <2>5. QED BY <2>0, <2>4
<1>4. QED BY <1>2, <1>3

\* No task and no closure of an await is lost or duplicated, whatever list it
\* passes through: each is in one place, a task that was added waits or has run
\* once, and numRemaining of every await is the number of its closures that have
\* not run.
THEOREM WorkIsConserved == Spec => []WorkConserved
<1>1. WorkInv => WorkConserved
  BY TypesEnough, CountsRight DEF WorkInv, TaskInv, WorkConserved
<1>2. QED BY <1>1, WorkInvariant, PTL

=============================================================================
