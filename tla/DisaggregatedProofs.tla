------------------------ MODULE DisaggregatedProofs ------------------------
(***************************************************************************)
(* Proofs that the two nodes of disaggregated serving keep their books,    *)
(* that both ends of a running transfer keep their blocks, that the        *)
(* prefill node never takes a full pool for a fatal one and that a request *)
(* gets one final result, for any number of requests, blocks and replicas  *)
(* and every configuration.                                                *)
(*                                                                         *)
(* The inductive invariant follows a request through the stages of its     *)
(* prefill: it is in at most one of them, so it is answered at most once   *)
(* (PipeInv).  To that come what the decode node knows of it (LiveInv),    *)
(* that the destination blocks that travel with it are still the ones it   *)
(* owns (DstInv), who holds blocks of the prefill node (HeldInv) and how   *)
(* many final results it can have had (FinalInv).                          *)
(***************************************************************************)
EXTENDS Disaggregated, FiniteSetTheorems, SequenceTheorems, Lemmas, TLAPS

\* The requests of the messages of one type, and that there is one message of
\* that type for each.
Ids(q, type) == {q[i].id : i \in {k \in DOMAIN q : q[k].type = type}}
Once(q, type) ==
  \A i, j \in DOMAIN q : q[i].type = type /\ q[j].type = type /\ q[i].id = q[j].id => i = j

Message == [type : {"metadata", "prefill", "cancel", "response"}, id : Requests,
            dst : SUBSET DecodeBlocks]
Context == [id : Requests, dst : SUBSET DecodeBlocks]
TransferRecord == [dst : SUBSET DecodeBlocks, replica : Replicas, done : BOOLEAN]

-----------------------------------------------------------------------------
(* The inductive invariant *)

\* The stages of a request's prefill.
Pend == ToSet(pending)
Asks == Ids(d2p, "prefill")
Ces == ToSet(pce)
Bat == ToSet(pbatch)
Prev == ToSet(pprev)
Out == ToSet(out)
Posted == DOMAIN xfer
Answers == Ids(p2d, "response")
Contexts == {c.id : c \in reply}
Started == {r \in Requests : api[r] # "new"}

\* The stages of the prefill node.
OnPrefill == Ces \cup Bat \cup Prev \cup Out

\* No request is in two stages.
StagesInv ==
  /\ Pend \cap (Asks \cup OnPrefill \cup Posted) = {}
  /\ Asks \cap (OnPrefill \cup Posted) = {}
  /\ OnPrefill \cap Posted = {}
  /\ Ces \cap (Bat \cup Prev \cup Out) = {}
  /\ Bat \cap (Prev \cup Out) = {}
  /\ Prev \cap Out = {}
  /\ Pend \cup Asks \cup OnPrefill \cup Posted \subseteq Started

\* No request is twice in one stage.
QueuesInv ==
  /\ Distinct(pending) /\ Distinct(pce) /\ Distinct(pbatch) /\ Distinct(pprev) /\ Distinct(out)
  /\ Once(d2p, "prefill") /\ Once(p2d, "response")

\* A posted transfer is answered once; the prefill node knows where to send
\* what it works on.
AnswersInv ==
  /\ accepted \subseteq Posted /\ Answers \subseteq Posted /\ Answers \cap accepted = {}
  /\ Contexts = OnPrefill

PipeInv == StagesInv /\ QueuesInv /\ AnswersInv

\* The decode node: pending, in flight or decoding.
LiveInv ==
  /\ InFlight \cap tg = {} /\ Pend \cap (InFlight \cup tg) = {}
  /\ InFlight \cup tg \subseteq Started
  /\ CountsMatch /\ BlocksOwnedOnce

\* The destination of a request in flight, wherever it is written down, is what
\* the request owns.
DstInv ==
  /\ \A m \in ToSet(d2p) : m.type = "prefill" /\ m.id \in InFlight => m.dst = own[m.id]
  /\ \A c \in reply : c.id \in InFlight => c.dst = own[c.id]
  /\ \A r \in Posted \cap InFlight : xfer[r].dst = own[r]

\* A running transfer whose response was taken is in phase "transfer".
PhaseInv ==
  /\ \A r \in Requests : phase[r] = "transfer" => r \in accepted
  /\ \A r \in Requests : phase[r] = "await" => r \notin accepted
  /\ ~mode.ttl => \A r \in Writing \cap accepted : phase[r] = "transfer"

\* Who holds blocks of the prefill node.
HeldInv ==
  /\ \A r \in Requests : pheld[r] > 0 <=> r \in Bat \cup Prev \cup Out \cup active
  /\ Writing \subseteq active /\ active \subseteq Posted
  /\ pcP # "reply" => out = <<>> /\ first = Prev
  /\ pcP = "reply" => first = IF mode.overlap THEN Out ELSE {}
  /\ ~mode.overlap => pprev = <<>>

\* A request whose end has not been decided yet.
Open == Pend \cup (InFlight \ cancelled) \cup tg \cup (Requests \ Started)
Gone == {r \in Requests : api[r] = "gone"}

\* Final results that were sent: one with the first token of a short request,
\* and one when the end was decided.
FinalInv ==
  /\ cancelQ \subseteq Gone /\ cancelled \subseteq Gone \ cancelQ
  /\ cancelled \subseteq accepted /\ cancelled \cap tg = {}
  /\ \A r \in Requests : r \in Open /\ r \notin Short \cap accepted => finals[r] = 0
  /\ \A r \in Requests : r \in Open \/ r \notin Short \cap accepted => finals[r] <= 1
  /\ \A r \in Requests : finals[r] <= 2

DisaggInv ==
  TypeOK /\ PipeInv /\ LiveInv /\ DstInv /\ PhaseInv /\ HeldInv /\ FinalInv

-----------------------------------------------------------------------------
(* Queues *)

\* The empty queue.
LEMMA EmptyFacts ==
  /\ ToSet(<<>>) = {} /\ Distinct(<<>>)
  /\ \A type : Ids(<<>>, type) = {} /\ Once(<<>>, type)
<1>1. DOMAIN <<>> = {}
  OBVIOUS
<1>2. QED BY <1>1 DEF ToSet, Distinct, Ids, Once

\* Sending a message.
LEMMA SendFacts ==
  ASSUME NEW q \in Seq(Message), NEW m \in Message, NEW type
  PROVE  /\ Append(q, m) \in Seq(Message) /\ ToSet(Append(q, m)) = ToSet(q) \cup {m}
         /\ m.type = type => Ids(Append(q, m), type) = Ids(q, type) \cup {m.id}
         /\ m.type # type => Ids(Append(q, m), type) = Ids(q, type)
         /\ Once(q, type) /\ (m.type = type => m.id \notin Ids(q, type))
              => Once(Append(q, m), type)
<1> DEFINE n == Len(q)
           t == Append(q, m)
<1>1. /\ n \in Nat /\ DOMAIN q = 1..n /\ DOMAIN t = 1..(n + 1) /\ t[n + 1] = m
      /\ \A i \in 1..n : t[i] = q[i]
  BY AppendProperties
<1>a. t \in Seq(Message) /\ ToSet(t) = ToSet(q) \cup {m}
  BY AppendFacts
<1> HIDE DEF n, t
<1>2. \A i \in 1..(n + 1) : i \in 1..n \/ i = n + 1
  BY <1>1
<1>3. (\A i \in 1..n : i \in 1..(n + 1)) /\ n + 1 \in 1..(n + 1)
  BY <1>1
<1>5. ASSUME m.type = type PROVE Ids(t, type) = Ids(q, type) \cup {m.id}
  BY <1>1, <1>2, <1>3, <1>5 DEF Ids
<1>6. ASSUME m.type # type PROVE Ids(t, type) = Ids(q, type)
  BY <1>1, <1>2, <1>3, <1>6 DEF Ids
<1>7. ASSUME Once(q, type), m.type = type => m.id \notin Ids(q, type) PROVE Once(t, type)
  <2>1. \A i \in 1..n : t[i].type = type /\ m.type = type => t[i].id # m.id
    BY <1>1, <1>7 DEF Ids
  <2>2. \A i, j \in 1..n : t[i].type = type /\ t[j].type = type /\ t[i].id = t[j].id => i = j
    BY <1>1, <1>7 DEF Once
  <2>3. QED BY <1>1, <1>2, <2>1, <2>2 DEF Once
<1>8. QED BY <1>a, <1>5, <1>6, <1>7 DEF t

\* Receiving a message.
LEMMA ReceiveFacts ==
  ASSUME NEW q \in Seq(Message), q # <<>>, NEW type
  PROVE  /\ Head(q) \in Message /\ Tail(q) \in Seq(Message)
         /\ ToSet(q) = ToSet(Tail(q)) \cup {Head(q)}
         /\ Head(q).type = type => Ids(q, type) = Ids(Tail(q), type) \cup {Head(q).id}
         /\ Head(q).type # type => Ids(Tail(q), type) = Ids(q, type)
         /\ Once(q, type) => /\ Once(Tail(q), type)
                             /\ Head(q).type = type => Head(q).id \notin Ids(Tail(q), type)
<1> DEFINE n == Len(q)
           t == Tail(q)
           h == Head(q)
<1>1. /\ n \in Nat /\ n >= 1 /\ DOMAIN q = 1..n /\ DOMAIN t = 1..(n - 1)
      /\ h = q[1] /\ \A i \in 1..(n - 1) : t[i] = q[i + 1]
  BY HeadTailProperties
<1>a. h \in Message /\ t \in Seq(Message) /\ ToSet(q) = ToSet(t) \cup {h}
  BY TailFacts
<1> HIDE DEF n, t, h
<1>2. \A i \in 1..(n - 1) : i + 1 \in 1..n /\ i + 1 # 1
  BY <1>1
<1>4. 1 \in 1..n
  BY <1>1
<1>e. \A s, x : x \in Ids(s, type) <=> \E e \in ToSet(s) : e.type = type /\ e.id = x
  BY DEF Ids, ToSet
<1>5. ASSUME h.type = type PROVE Ids(q, type) = Ids(t, type) \cup {h.id}
  BY <1>a, <1>e, <1>5
<1>6. ASSUME h.type # type PROVE Ids(t, type) = Ids(q, type)
  <2>1. \A e \in ToSet(q) : e.type = type => e \in ToSet(t)
    BY <1>a, <1>6
  <2>2. ToSet(t) \subseteq ToSet(q)
    BY <1>a
  <2>3. \A x \in Ids(q, type) : x \in Ids(t, type)
    BY <1>e, <2>1
  <2>4. \A x \in Ids(t, type) : x \in Ids(q, type)
    BY <1>e, <2>2
  <2>5. QED BY <2>3, <2>4
<1>7. ASSUME Once(q, type)
      PROVE  Once(t, type) /\ (h.type = type => h.id \notin Ids(t, type))
  <2>1. \A i, j \in 1..(n - 1) : t[i].type = type /\ t[j].type = type /\ t[i].id = t[j].id
                                => i + 1 = j + 1
    <3>1. SUFFICES ASSUME NEW i \in 1..(n - 1), NEW j \in 1..(n - 1),
                          t[i].type = type, t[j].type = type, t[i].id = t[j].id
                   PROVE  i + 1 = j + 1
      OBVIOUS
    <3>2. i + 1 \in DOMAIN q /\ j + 1 \in DOMAIN q /\ t[i] = q[i + 1] /\ t[j] = q[j + 1]
      BY <1>1, <1>2, <3>1
    <3>3. QED BY <1>7, <3>1, <3>2 DEF Once
  <2>2. \A i, j \in 1..(n - 1) : i + 1 = j + 1 => i = j
    BY <1>1
  <2>3. \A i \in 1..(n - 1) : t[i].type = type /\ h.type = type => t[i].id # h.id
    BY <1>1, <1>2, <1>4, <1>7 DEF Once
  <2>4. QED BY <1>1, <2>1, <2>2, <2>3 DEF Once, Ids
<1>8. QED BY <1>a, <1>5, <1>6, <1>7 DEF t, h

-----------------------------------------------------------------------------
(* The stages of a request: PipeInv *)

\* The types of the queues.
LEMMA QueueTypes ==
  ASSUME TypeOK
  PROVE  /\ pending \in Seq(Requests) /\ pce \in Seq(Requests) /\ pbatch \in Seq(Requests)
         /\ pprev \in Seq(Requests) /\ out \in Seq(Requests)
         /\ d2p \in Seq(Message) /\ p2d \in Seq(Message)
BY DEF TypeOK, Message

\* A final result leaves the clients that are gone, and those that have not come,
\* alone.
LEMMA FinalFacts ==
  ASSUME TypeOK, NEW S, Final(S)
  PROVE  /\ Started' = Started /\ Gone' = Gone
         /\ api' \in [Requests -> {"new", "open", "gone", "ended"}]
         /\ finals' \in [Requests -> Nat]
         /\ \A r \in Requests : finals'[r] = IF r \in S THEN finals[r] + 1 ELSE finals[r]
<1>1. api \in [Requests -> {"new", "open", "gone", "ended"}] /\ finals \in [Requests -> Nat]
  BY DEF TypeOK
<1>2. \A r \in Requests : api'[r] = IF r \in S /\ api[r] = "open" THEN "ended" ELSE api[r]
  BY DEF Final
<1>3. api' \in [Requests -> {"new", "open", "gone", "ended"}] /\ finals' \in [Requests -> Nat]
  BY <1>1 DEF Final
<1>4. Started' = Started /\ Gone' = Gone
  BY <1>1, <1>2 DEF Started, Gone
<1>5. QED BY <1>1, <1>3, <1>4 DEF Final

\* Steps that move no request from one stage to another.
LEMMA PipeSame ==
  ASSUME PipeInv, Started' = Started, Posted' = Posted, Asks' = Asks, Once(d2p', "prefill"),
         UNCHANGED <<pending, pce, pbatch, pprev, out, reply, accepted, p2d>>
  PROVE  PipeInv'
<1>1. Pend' = Pend /\ Ces' = Ces /\ Bat' = Bat /\ Prev' = Prev /\ Out' = Out
      /\ Answers' = Answers /\ Contexts' = Contexts
  BY DEF Pend, Ces, Bat, Prev, Out, Answers, Contexts
<1>2. OnPrefill' = OnPrefill
  BY <1>1 DEF OnPrefill
<1>3. StagesInv'
  BY <1>1, <1>2 DEF PipeInv, StagesInv
<1>4. QueuesInv'
  BY DEF PipeInv, QueuesInv
<1>5. AnswersInv'
  BY <1>1, <1>2 DEF PipeInv, AnswersInv
<1>6. QED BY <1>3, <1>4, <1>5 DEF PipeInv

\* A new request becomes pending.
LEMMA PipeSubmit == ASSUME TypeOK, PipeInv, NEW r \in Requests, Submit(r) PROVE PipeInv'
<1>a. /\ api[r] = "new" /\ api' = [api EXCEPT ![r] = "open"] /\ pending' = Append(pending, r)
      /\ UNCHANGED <<d2p, p2d, xfer, pce, pbatch, pprev, out, reply, accepted>>
  BY DEF Submit, net, prefill
<1>1. Started' = Started \cup {r} /\ r \notin Started
  <2>1. api \in [Requests -> {"new", "open", "gone", "ended"}]
    BY DEF TypeOK
  <2>2. QED BY <1>a, <2>1 DEF Started
<1>2. /\ Asks' = Asks /\ Ces' = Ces /\ Bat' = Bat /\ Prev' = Prev /\ Out' = Out /\ Posted' = Posted
      /\ Answers' = Answers /\ Contexts' = Contexts /\ OnPrefill' = OnPrefill
  BY <1>a DEF Asks, Ces, Bat, Prev, Out, Posted, Answers, Contexts, OnPrefill
<1>3. r \notin Pend /\ r \notin Asks /\ r \notin OnPrefill /\ r \notin Posted
  BY <1>1 DEF PipeInv, StagesInv
<1>4. Pend' = Pend \cup {r} /\ Distinct(pending')
  <2>1. pending \in Seq(Requests) /\ Distinct(pending) /\ r \notin ToSet(pending)
    BY <1>3, QueueTypes DEF PipeInv, QueuesInv, Pend
  <2>2. ToSet(pending') = ToSet(pending) \cup {r} /\ Distinct(pending')
    BY <1>a, <2>1, AppendFacts
  <2>3. QED BY <2>2 DEF Pend
<1>5. StagesInv'
  BY <1>1, <1>2, <1>3, <1>4 DEF PipeInv, StagesInv
<1>6. QueuesInv'
  BY <1>a, <1>4 DEF PipeInv, QueuesInv
<1>7. AnswersInv'
  BY <1>a, <1>2 DEF PipeInv, AnswersInv
<1>8. QED BY <1>5, <1>6, <1>7 DEF PipeInv

\* A reply is taken from the network, and perhaps accepted.
LEMMA PipeAnswer ==
  ASSUME TypeOK, PipeInv, p2d # <<>>, p2d' = Tail(p2d), Started' = Started,
         \/ accepted' = accepted
         \/ Head(p2d).type = "response" /\ accepted' = accepted \cup {Head(p2d).id},
         UNCHANGED <<pending, d2p, xfer, pce, pbatch, pprev, out, reply>>
  PROVE  PipeInv'
<1>1. /\ Pend' = Pend /\ Asks' = Asks /\ Ces' = Ces /\ Bat' = Bat /\ Prev' = Prev /\ Out' = Out
      /\ Posted' = Posted /\ Contexts' = Contexts /\ OnPrefill' = OnPrefill
  BY DEF Pend, Asks, Ces, Bat, Prev, Out, Posted, Contexts, OnPrefill
<1>2. /\ Head(p2d).type = "response" => Answers = Answers' \cup {Head(p2d).id}
      /\ Head(p2d).type # "response" => Answers' = Answers
      /\ Once(p2d', "response")
      /\ Head(p2d).type = "response" => Head(p2d).id \notin Answers'
  <2>1. p2d \in Seq(Message) /\ Once(p2d, "response")
    BY QueueTypes DEF PipeInv, QueuesInv
  <2>2. QED BY <2>1, ReceiveFacts DEF Answers
<1>3. StagesInv'
  BY <1>1 DEF PipeInv, StagesInv
<1>4. QueuesInv'
  BY <1>2 DEF PipeInv, QueuesInv
<1>5. AnswersInv'
  BY <1>1, <1>2 DEF PipeInv, AnswersInv
<1>6. QED BY <1>3, <1>4, <1>5 DEF PipeInv

\* A pending request is sent to the prefill node.
LEMMA PipeReserve == ASSUME TypeOK, PipeInv, NEW r \in Requests, Reserve(r),
                            own'[r] \in SUBSET DecodeBlocks
                     PROVE  PipeInv'
<1> DEFINE q == IF dconn = "none" THEN Append(d2p, Msg("metadata", r, {})) ELSE d2p
           m == Msg("prefill", r, own'[r])
<1>a. /\ pending # <<>> /\ r = Head(pending) /\ pending' = Tail(pending) /\ d2p' = Append(q, m)
      /\ UNCHANGED <<api, p2d, xfer, pce, pbatch, pprev, out, reply, accepted>>
  BY DEF Reserve, MayReserve, client, prefill
<1>1. /\ Started' = Started /\ Ces' = Ces /\ Bat' = Bat /\ Prev' = Prev /\ Out' = Out
      /\ Posted' = Posted /\ Answers' = Answers /\ Contexts' = Contexts /\ OnPrefill' = OnPrefill
  BY <1>a DEF Started, Ces, Bat, Prev, Out, Posted, Answers, Contexts, OnPrefill
<1>2. Pend = Pend' \cup {r} /\ r \notin Pend' /\ Distinct(pending')
  <2>1. pending \in Seq(Requests) /\ Distinct(pending)
    BY QueueTypes DEF PipeInv, QueuesInv
  <2>2. QED BY <1>a, <2>1, TailFacts DEF Pend
<1>3. r \notin Asks
  BY <1>2 DEF PipeInv, StagesInv
<1>4. Asks' = Asks \cup {r} /\ Once(d2p', "prefill")
  <2>1. d2p \in Seq(Message) /\ Once(d2p, "prefill")
    BY QueueTypes DEF PipeInv, QueuesInv
  <2>2. Msg("metadata", r, {}) \in Message /\ Msg("metadata", r, {}).type = "metadata"
    BY DEF Msg, Message
  <2>3. m \in Message /\ m.type = "prefill" /\ m.id = r
    BY DEF Msg, Message
  <2> HIDE DEF m
  <2>4. q \in Seq(Message) /\ Ids(q, "prefill") = Asks /\ Once(q, "prefill")
    <3>1. CASE dconn = "none"
      <4>1. q = Append(d2p, Msg("metadata", r, {}))
        BY <3>1
      <4>2. QED BY <2>1, <2>2, <4>1, SendFacts DEF Asks
    <3>2. CASE dconn # "none"
      BY <2>1, <3>2 DEF Asks
    <3>3. QED BY <3>1, <3>2
  <2> HIDE DEF q
  <2>5. r \notin Ids(q, "prefill")
    BY <1>3, <2>4
  <2>6. Ids(Append(q, m), "prefill") = Ids(q, "prefill") \cup {r} /\ Once(Append(q, m), "prefill")
    BY <2>3, <2>4, <2>5, SendFacts
  <2>7. Ids(d2p', "prefill") = Asks \cup {r} /\ Once(d2p', "prefill")
    BY <1>a, <2>4, <2>6
  <2>8. QED BY <2>7 DEF Asks
<1>5. StagesInv'
  BY <1>1, <1>2, <1>3, <1>4 DEF PipeInv, StagesInv
<1>6. QueuesInv'
  BY <1>a, <1>2, <1>4 DEF PipeInv, QueuesInv
<1>7. AnswersInv'
  BY <1>a, <1>1 DEF PipeInv, AnswersInv
<1>8. QED BY <1>5, <1>6, <1>7 DEF PipeInv

\* A request to cancel is no request to prefill.
LEMMA CancelSent ==
  ASSUME TypeOK, PipeInv,
         d2p' = d2p \/ \E r \in Requests : d2p' = Append(d2p, Msg("cancel", r, {}))
  PROVE  /\ Asks' = Asks /\ Once(d2p', "prefill") /\ d2p' \in Seq(Message)
         /\ \A m \in ToSet(d2p') : m.type = "prefill" => m \in ToSet(d2p)
<1>1. d2p \in Seq(Message) /\ Once(d2p, "prefill")
  BY QueueTypes DEF PipeInv, QueuesInv
<1>2. CASE d2p' = d2p
  BY <1>1, <1>2 DEF Asks
<1>3. ASSUME NEW r \in Requests, d2p' = Append(d2p, Msg("cancel", r, {}))
      PROVE  /\ Asks' = Asks /\ Once(d2p', "prefill") /\ d2p' \in Seq(Message)
             /\ \A m \in ToSet(d2p') : m.type = "prefill" => m \in ToSet(d2p)
  <2> DEFINE m == Msg("cancel", r, {})
  <2>1. m \in Message /\ m.type = "cancel"
    BY DEF Msg, Message
  <2> HIDE DEF m
  <2>2. /\ Append(d2p, m) \in Seq(Message) /\ ToSet(Append(d2p, m)) = ToSet(d2p) \cup {m}
        /\ Ids(Append(d2p, m), "prefill") = Ids(d2p, "prefill") /\ Once(Append(d2p, m), "prefill")
    BY <1>1, <2>1, SendFacts
  <2>3. d2p' = Append(d2p, m)
    BY <1>3 DEF m
  <2>4. Asks' = Asks
    BY <2>2, <2>3 DEF Asks
  <2>5. QED BY <2>1, <2>2, <2>3, <2>4
<1>4. QED BY <1>2, <1>3

\* The prefill node receives a message.
LEMMA PipeRecv == ASSUME TypeOK, PipeInv, RecvRequest PROVE PipeInv'
<1> DEFINE m == Head(d2p)
<1>a. /\ d2p # <<>> /\ d2p' = Tail(d2p)
      /\ UNCHANGED <<api, pending, xfer, pbatch, pprev, out, accepted>>
      /\ \/ m.type = "metadata" /\ p2d' = Append(p2d, m) /\ UNCHANGED <<pce, reply>>
         \/ m.type = "cancel" /\ UNCHANGED <<pce, reply, p2d>>
         \/ /\ m.type = "prefill" /\ pce' = Append(pce, m.id)
            /\ reply' = reply \cup {[id |-> m.id, dst |-> m.dst]} /\ UNCHANGED p2d
  BY DEF RecvRequest, client, decode
<1>1. /\ Started' = Started /\ Pend' = Pend /\ Bat' = Bat /\ Prev' = Prev /\ Out' = Out
      /\ Posted' = Posted
  BY <1>a DEF Started, Pend, Bat, Prev, Out, Posted
<1>q. d2p \in Seq(Message) /\ Once(d2p, "prefill") /\ p2d \in Seq(Message) /\ Once(p2d, "response")
      /\ pce \in Seq(Requests) /\ Distinct(pce)
  BY QueueTypes DEF PipeInv, QueuesInv
<1>2. /\ m \in Message
      /\ m.type = "prefill" => Asks = Asks' \cup {m.id} /\ m.id \notin Asks'
      /\ m.type # "prefill" => Asks' = Asks
      /\ Once(d2p', "prefill")
  BY <1>a, <1>q, ReceiveFacts DEF Asks
<1> HIDE DEF m
<1>3. Answers' = Answers /\ Once(p2d', "response")
  <2>1. CASE m.type = "metadata" /\ p2d' = Append(p2d, m)
    <3>1. m.type # "response"
      BY <2>1
    <3>2. Ids(Append(p2d, m), "response") = Ids(p2d, "response")
          /\ Once(Append(p2d, m), "response")
      BY <1>q, <1>2, <3>1, SendFacts
    <3>3. QED BY <2>1, <3>2 DEF Answers
  <2>2. CASE p2d' = p2d
    BY <1>q, <2>2 DEF Answers
  <2>3. QED BY <1>a, <2>1, <2>2
<1>4. CASE m.type # "prefill"
  <2>1. Ces' = Ces /\ Contexts' = Contexts /\ Asks' = Asks /\ UNCHANGED pce
    BY <1>a, <1>2, <1>4 DEF Ces, Contexts
  <2>2. OnPrefill' = OnPrefill
    BY <1>1, <2>1 DEF OnPrefill
  <2>3. StagesInv'
    BY <1>1, <2>1, <2>2 DEF PipeInv, StagesInv
  <2>4. QueuesInv'
    BY <1>a, <1>2, <1>3, <2>1 DEF PipeInv, QueuesInv
  <2>5. AnswersInv'
    BY <1>a, <1>1, <1>3, <2>1, <2>2 DEF PipeInv, AnswersInv
  <2>6. QED BY <2>3, <2>4, <2>5 DEF PipeInv
<1>5. CASE m.type = "prefill"
  <2> DEFINE r == m.id
  <2>1. r \in Requests
    BY <1>2 DEF Message
  <2>2. Asks = Asks' \cup {r} /\ r \notin Asks'
    BY <1>2, <1>5
  <2>3. pce' = Append(pce, r) /\ reply' = reply \cup {[id |-> r, dst |-> m.dst]}
    BY <1>a, <1>5
  <2> HIDE DEF r
  <2>4. r \notin Pend /\ r \notin OnPrefill /\ r \notin Posted /\ r \notin Ces
    BY <2>2 DEF PipeInv, StagesInv, OnPrefill
  <2>5. Ces' = Ces \cup {r} /\ Distinct(pce')
    <3>1. ToSet(Append(pce, r)) = ToSet(pce) \cup {r} /\ Distinct(Append(pce, r))
      BY <1>q, <2>1, <2>4, AppendFacts DEF Ces
    <3>2. QED BY <2>3, <3>1 DEF Ces
  <2>6. Contexts' = Contexts \cup {r}
    <3>1. [id |-> r, dst |-> m.dst].id = r
      OBVIOUS
    <3>2. QED BY <2>3, <3>1 DEF Contexts
  <2>7. OnPrefill' = OnPrefill \cup {r}
    BY <1>1, <2>5 DEF OnPrefill
  <2>8. StagesInv'
    <3>1. Bat \cup Prev \cup Out \subseteq OnPrefill
      BY DEF OnPrefill
    <3>2. QED BY <1>1, <2>2, <2>4, <2>5, <2>7, <3>1 DEF PipeInv, StagesInv
  <2>9. QueuesInv'
    BY <1>a, <1>2, <1>3, <2>5 DEF PipeInv, QueuesInv
  <2>10. AnswersInv'
    BY <1>a, <1>1, <1>3, <2>6, <2>7 DEF PipeInv, AnswersInv
  <2>11. QED BY <2>8, <2>9, <2>10 DEF PipeInv
<1>6. QED BY <1>4, <1>5

\* A prompt moves from the queue to the batch.
LEMMA PipeAdmit == ASSUME TypeOK, PipeInv, NEW r \in Requests, PrefillAdmit(r) PROVE PipeInv'
<1>a. /\ pce # <<>> /\ r = Head(pce) /\ pce' = Tail(pce) /\ pbatch' = Append(pbatch, r)
      /\ UNCHANGED <<api, pending, d2p, p2d, xfer, pprev, out, reply, accepted>>
  BY DEF PrefillAdmit, client, decode, net
<1>1. /\ Started' = Started /\ Pend' = Pend /\ Asks' = Asks /\ Prev' = Prev /\ Out' = Out
      /\ Posted' = Posted /\ Answers' = Answers /\ Contexts' = Contexts
  BY <1>a DEF Started, Pend, Asks, Prev, Out, Posted, Answers, Contexts
<1>q. pce \in Seq(Requests) /\ Distinct(pce) /\ pbatch \in Seq(Requests) /\ Distinct(pbatch)
  BY QueueTypes DEF PipeInv, QueuesInv
<1>2. Ces = Ces' \cup {r} /\ r \notin Ces' /\ Distinct(pce')
  BY <1>a, <1>q, TailFacts DEF Ces
<1>3. r \notin Bat /\ r \notin Prev /\ r \notin Out
  BY <1>2 DEF PipeInv, StagesInv
<1>4. Bat' = Bat \cup {r} /\ Distinct(pbatch')
  <2>1. ToSet(Append(pbatch, r)) = ToSet(pbatch) \cup {r} /\ Distinct(Append(pbatch, r))
    BY <1>q, <1>3, AppendFacts DEF Bat
  <2>2. QED BY <1>a, <2>1 DEF Bat
<1>5. OnPrefill' = OnPrefill
  BY <1>1, <1>2, <1>4 DEF OnPrefill
<1>6. StagesInv'
  BY <1>1, <1>2, <1>3, <1>4, <1>5 DEF PipeInv, StagesInv
<1>7. QueuesInv'
  BY <1>a, <1>2, <1>4 DEF PipeInv, QueuesInv
<1>8. AnswersInv'
  BY <1>a, <1>1, <1>5 DEF PipeInv, AnswersInv
<1>9. QED BY <1>6, <1>7, <1>8 DEF PipeInv

\* The batch is executed.
LEMMA PipeRun == ASSUME TypeOK, PipeInv, HeldInv, PrefillRun PROVE PipeInv'
<1>a. /\ pcP = "run" /\ pbatch' = <<>>
      /\ \/ pbatch = <<>> /\ UNCHANGED <<pprev, out>>
         \/ out' = pprev /\ pprev' = pbatch
         \/ ~mode.overlap /\ out' = pbatch /\ UNCHANGED pprev
      /\ UNCHANGED <<api, pending, d2p, p2d, xfer, pce, reply, accepted>>
  BY DEF PrefillRun, client, decode, net
<1>0. out = <<>> /\ Out = {} /\ (~mode.overlap => pprev = <<>> /\ Prev = {})
  BY <1>a, EmptyFacts DEF HeldInv, Out, Prev
<1>1. /\ Started' = Started /\ Pend' = Pend /\ Asks' = Asks /\ Ces' = Ces
      /\ Posted' = Posted /\ Answers' = Answers /\ Contexts' = Contexts
  BY <1>a DEF Started, Pend, Asks, Ces, Posted, Answers, Contexts
<1>2. Bat' = {} /\ Distinct(pbatch') /\ (pbatch = <<>> => Bat = {})
  BY <1>a, EmptyFacts DEF Bat
<1>3. /\ \/ Bat = {} /\ Prev' = Prev /\ Out' = Out
         \/ Out' = Prev /\ Prev' = Bat
         \/ Prev = {} /\ Out' = Bat /\ Prev' = Prev
      /\ Distinct(pprev') /\ Distinct(out')
  <2>q. Distinct(pbatch) /\ Distinct(pprev) /\ Distinct(out)
    BY DEF PipeInv, QueuesInv
  <2>1. CASE pbatch = <<>> /\ UNCHANGED <<pprev, out>>
    BY <1>2, <2>1, <2>q DEF Prev, Out
  <2>2. CASE out' = pprev /\ pprev' = pbatch
    BY <2>2, <2>q DEF Prev, Out, Bat
  <2>3. CASE ~mode.overlap /\ out' = pbatch /\ UNCHANGED pprev
    BY <1>0, <2>3, <2>q DEF Prev, Out, Bat
  <2>4. QED BY <1>a, <2>1, <2>2, <2>3
<1>4. OnPrefill' = OnPrefill
  BY <1>0, <1>1, <1>2, <1>3 DEF OnPrefill
<1>5. StagesInv'
  BY <1>0, <1>1, <1>2, <1>3, <1>4 DEF PipeInv, StagesInv
<1>6. QueuesInv'
  BY <1>a, <1>2, <1>3 DEF PipeInv, QueuesInv
<1>7. AnswersInv'
  BY <1>a, <1>1, <1>4 DEF PipeInv, AnswersInv
<1>8. QED BY <1>5, <1>6, <1>7 DEF PipeInv

\* A response of the batch is always sent on.
LEMMA ReplyDue ==
  ASSUME TypeOK, HeldInv, NEW r \in Requests, PrefillReply(r) PROVE Initiate(r) /\ r \in Out
<1>1. r \in Out
  <2>1. out \in Seq(Requests) /\ out # <<>> /\ r = Head(out)
    BY QueueTypes DEF PrefillReply
  <2>2. QED BY <2>1, TailFacts DEF Out
<1>2. mode.overlap => r \in first
  BY <1>1 DEF PrefillReply, HeldInv
<1>3. QED BY <1>1, <1>2 DEF PrefillReply

\* The first response is dropped, or its transfer is posted and answered.
LEMMA PipeReply ==
  ASSUME TypeOK, PipeInv, HeldInv, NEW r \in Requests, PrefillReply(r) PROVE PipeInv'
<1>a. /\ out # <<>> /\ r = Head(out) /\ out' = Tail(out)
      /\ UNCHANGED <<api, pending, d2p, pce, pbatch, pprev, accepted>>
  BY DEF PrefillReply, client, decode
<1>b. /\ reply' = {c \in reply : c.id # r}
      /\ \/ UNCHANGED <<xfer, p2d>>
         \/ DOMAIN xfer' = DOMAIN xfer \cup {r} /\ p2d' = Append(p2d, Msg("response", r, {}))
  BY ReplyDue DEF Initiate
<1>1. /\ Started' = Started /\ Pend' = Pend /\ Asks' = Asks /\ Ces' = Ces /\ Bat' = Bat
      /\ Prev' = Prev
  BY <1>a DEF Started, Pend, Asks, Ces, Bat, Prev
<1>q. out \in Seq(Requests) /\ Distinct(out) /\ p2d \in Seq(Message) /\ Once(p2d, "response")
  BY QueueTypes DEF PipeInv, QueuesInv
<1>2. Out = Out' \cup {r} /\ r \notin Out' /\ Distinct(out')
  BY <1>a, <1>q, TailFacts DEF Out
<1>3. /\ r \notin Ces /\ r \notin Bat /\ r \notin Prev /\ r \notin Posted /\ r \notin Pend
      /\ r \notin Asks /\ r \in Started
  BY <1>2 DEF PipeInv, StagesInv, OnPrefill
<1>4. OnPrefill = OnPrefill' \cup {r} /\ r \notin OnPrefill'
  BY <1>1, <1>2, <1>3 DEF OnPrefill
<1>5. Contexts' = Contexts \ {r}
  BY <1>b DEF Contexts
<1>6. CASE UNCHANGED <<xfer, p2d>>
  <2>1. Posted' = Posted /\ Answers' = Answers
    BY <1>6 DEF Posted, Answers
  <2>2. StagesInv'
    BY <1>1, <1>2, <1>3, <1>4, <2>1 DEF PipeInv, StagesInv
  <2>3. QueuesInv'
    BY <1>a, <1>2, <1>6 DEF PipeInv, QueuesInv
  <2>4. AnswersInv'
    BY <1>a, <1>4, <1>5, <2>1 DEF PipeInv, AnswersInv
  <2>5. QED BY <2>2, <2>3, <2>4 DEF PipeInv
<1>7. CASE DOMAIN xfer' = DOMAIN xfer \cup {r} /\ p2d' = Append(p2d, Msg("response", r, {}))
  <2> DEFINE m == Msg("response", r, {})
  <2>1. m \in Message /\ m.type = "response" /\ m.id = r
    BY DEF Msg, Message
  <2>2. p2d' = Append(p2d, m)
    BY <1>7
  <2> HIDE DEF m
  <2>3. r \notin Ids(p2d, "response") /\ r \notin accepted
    BY <1>3 DEF PipeInv, AnswersInv, Answers
  <2>4. Ids(Append(p2d, m), "response") = Ids(p2d, "response") \cup {r}
        /\ Once(Append(p2d, m), "response")
    BY <1>q, <2>1, <2>3, SendFacts
  <2>5. Posted' = Posted \cup {r} /\ Answers' = Answers \cup {r} /\ Once(p2d', "response")
    BY <1>7, <2>2, <2>4 DEF Posted, Answers
  <2>6. StagesInv'
    BY <1>1, <1>2, <1>3, <1>4, <2>5 DEF PipeInv, StagesInv
  <2>7. QueuesInv'
    BY <1>a, <1>2, <2>5 DEF PipeInv, QueuesInv
  <2>8. AnswersInv'
    BY <1>a, <1>4, <1>5, <2>3, <2>5 DEF PipeInv, AnswersInv
  <2>9. QED BY <2>6, <2>7, <2>8 DEF PipeInv
<1>8. QED BY <1>b, <1>6, <1>7

-----------------------------------------------------------------------------
(* The decode node: LiveInv *)

\* The requests of a replica that are in flight.
Flying(p) == {r \in InFlight : replica[r] = p}

\* The types of the decode node's variables.
LEMMA DecodeTypes ==
  ASSUME TypeOK
  PROVE  /\ phase \in [Requests -> {"none", "await", "transfer"}]
         /\ replica \in [Requests -> Replicas] /\ own \in [Requests -> SUBSET DecodeBlocks]
         /\ dfree \in [Replicas -> SUBSET DecodeBlocks] /\ inPrefill \in [Replicas -> Nat]
         /\ tg \subseteq Requests /\ InFlight \subseteq Requests
         /\ IsFiniteSet(InFlight) /\ IsFiniteSet(tg)
<1>1. tg \subseteq Requests
  BY DEF TypeOK
<1>2. InFlight \subseteq Requests
  BY DEF InFlight
<1>3. IsFiniteSet(InFlight) /\ IsFiniteSet(tg)
  BY <1>1, <1>2, SizeAssumption, FS_Subset
<1>4. QED BY <1>1, <1>2, <1>3 DEF TypeOK

\* What BlocksOwnedOnce says of a single block.
LEMMA FreeBlocks ==
  ASSUME NEW o \in [Requests -> SUBSET DecodeBlocks], NEW f \in [Replicas -> SUBSET DecodeBlocks],
         NEW at
  PROVE  (\A p \in Replicas :
            f[p] = DecodeBlocks \ UNION {o[r] : r \in {x \in Requests : at[x] = p}})
         <=> (\A p \in Replicas, b \in DecodeBlocks :
                b \in f[p] <=> \A x \in Requests : at[x] = p => b \notin o[x])
<1> DEFINE U(p) == UNION {o[r] : r \in {x \in Requests : at[x] = p}}
<1>1. \A p, b : b \in U(p) <=> \E x \in Requests : at[x] = p /\ b \in o[x]
  OBVIOUS
<1> HIDE DEF U
<1>2. ASSUME NEW p \in Replicas
      PROVE  f[p] = DecodeBlocks \ U(p) <=>
               \A b \in DecodeBlocks :
                 b \in f[p] <=> \A x \in Requests : at[x] = p => b \notin o[x]
  <2>1. f[p] \subseteq DecodeBlocks
    OBVIOUS
  <2>2. QED BY <1>1, <2>1
<1>3. QED BY <1>2 DEF U

\* Requests leave self.requests.
LEMMA ForgetFacts ==
  ASSUME TypeOK, CountsMatch, NEW S, S \subseteq InFlight, Forget(S), replica' = replica
  PROVE  /\ InFlight' = InFlight \ S /\ CountsMatch'
         /\ phase' \in [Requests -> {"none", "await", "transfer"}]
         /\ \A r \in Requests : phase'[r] = IF r \in S THEN "none" ELSE phase[r]
         /\ inPrefill' \in [Replicas -> Nat]
<1>t. /\ phase \in [Requests -> {"none", "await", "transfer"}] /\ inPrefill \in [Replicas -> Nat]
      /\ IsFiniteSet(InFlight)
  BY DecodeTypes
<1>1. \A r \in Requests : phase'[r] = IF r \in S THEN "none" ELSE phase[r]
  BY DEF Forget
<1>2. phase' \in [Requests -> {"none", "await", "transfer"}]
  BY <1>t DEF Forget
<1>3. InFlight' = InFlight \ S
  BY <1>1 DEF InFlight
<1>4. ASSUME NEW p \in Replicas
      PROVE  inPrefill'[p] \in Nat /\ inPrefill'[p] = Cardinality(Flying(p)')
  <2> DEFINE A == Flying(p)
             B == {r \in S : replica[r] = p}
  <2>1. A \subseteq InFlight /\ B \subseteq A
    BY DEF Flying
  <2>2. Flying(p)' = A \ B
    BY <1>3 DEF Flying
  <2>3. inPrefill[p] = Cardinality(A)
    BY DEF CountsMatch, Flying
  <2>4. inPrefill'[p] = inPrefill[p] - Cardinality(B)
    BY DEF Forget
  <2> HIDE DEF A, B
  <2>5. IsFiniteSet(A) /\ A \cap B = B
    BY <1>t, <2>1, FS_Subset
  <2>6. IsFiniteSet(A \ B) /\ Cardinality(A \ B) = Cardinality(A) - Cardinality(B)
    BY <2>5, FS_Difference
  <2>7. Cardinality(A \ B) \in Nat
    BY <2>6, FS_CardinalityType
  <2>8. QED BY <2>2, <2>3, <2>4, <2>6, <2>7
<1>5. CountsMatch'
  BY <1>4 DEF CountsMatch, Flying
<1>6. inPrefill' \in [Replicas -> Nat]
  <2>1. inPrefill' = [p \in Replicas |-> inPrefill'[p]]
    BY DEF Forget
  <2>2. QED BY <1>4, <2>1
<1>7. QED BY <1>1, <1>2, <1>3, <1>5, <1>6

\* The blocks of some requests go back to their pools.
LEMMA ReleaseFacts ==
  ASSUME TypeOK, BlocksOwnedOnce, NEW S, S \subseteq Requests, ReleaseDecode(S),
         replica' = replica, (InFlight \cup tg)' = (InFlight \cup tg) \ S
  PROVE  /\ BlocksOwnedOnce'
         /\ own' \in [Requests -> SUBSET DecodeBlocks]
         /\ dfree' \in [Replicas -> SUBSET DecodeBlocks]
         /\ \A r \in Requests : own'[r] = IF r \in S THEN {} ELSE own[r]
<1>t. own \in [Requests -> SUBSET DecodeBlocks] /\ dfree \in [Replicas -> SUBSET DecodeBlocks]
  BY DecodeTypes
<1>1. \A r \in Requests : own'[r] = IF r \in S THEN {} ELSE own[r]
  BY DEF ReleaseDecode
<1>2. own' \in [Requests -> SUBSET DecodeBlocks]
  BY <1>t DEF ReleaseDecode
<1>3. \A p \in Replicas : \A b : b \in dfree'[p] <=>
         b \in dfree[p] \/ \E r \in S : replica[r] = p /\ b \in own[r]
  BY DEF ReleaseDecode
<1>4. dfree' \in [Replicas -> SUBSET DecodeBlocks]
  <2>1. \A p \in Replicas : dfree'[p] \subseteq DecodeBlocks
    BY <1>t, <1>3
  <2>2. dfree' = [p \in Replicas |-> dfree'[p]]
    BY DEF ReleaseDecode
  <2>3. QED BY <2>1, <2>2
<1>5. \A r \in Requests : own'[r] # {} <=> r \in (InFlight \cup tg)'
  BY <1>1 DEF BlocksOwnedOnce
<1>6. \A r, s \in Requests : r # s /\ replica'[r] = replica'[s] => own'[r] \cap own'[s] = {}
  BY <1>1 DEF BlocksOwnedOnce
<1>7. \A p \in Replicas, b \in DecodeBlocks :
        b \in dfree[p] <=> \A x \in Requests : replica[x] = p => b \notin own[x]
  BY <1>t, FreeBlocks DEF BlocksOwnedOnce
<1>8. ASSUME NEW p \in Replicas, NEW b \in DecodeBlocks
      PROVE  b \in dfree'[p] <=> \A x \in Requests : replica'[x] = p => b \notin own'[x]
  <2>1. ASSUME b \in dfree'[p], NEW x \in Requests, replica[x] = p, b \in own'[x] PROVE FALSE
    <3>1. x \notin S /\ b \in own[x]
      BY <1>1, <2>1
    <3>2. b \notin dfree[p]
      BY <1>7, <2>1, <3>1
    <3>3. PICK r \in S : replica[r] = p /\ b \in own[r]
      BY <1>3, <2>1, <3>2
    <3>4. QED BY <2>1, <3>1, <3>3 DEF BlocksOwnedOnce
  <2>2. ASSUME \A x \in Requests : replica[x] = p => b \notin own'[x] PROVE b \in dfree'[p]
    <3>1. CASE \E r \in S : replica[r] = p /\ b \in own[r]
      BY <1>3, <3>1
    <3>2. CASE \A r \in S : replica[r] = p => b \notin own[r]
      <4>1. \A x \in Requests : replica[x] = p => b \notin own[x]
        BY <1>1, <2>2, <3>2
      <4>2. QED BY <1>3, <1>7, <4>1
    <3>3. QED BY <3>1, <3>2
  <2>3. QED BY <2>1, <2>2
<1>9. \A p \in Replicas :
        dfree'[p] = DecodeBlocks \ UNION {own'[r] : r \in {x \in Requests : replica'[x] = p}}
  <2>1. (\A p \in Replicas :
           dfree'[p] = DecodeBlocks \ UNION {own'[r] : r \in {x \in Requests : replica'[x] = p}})
        <=> (\A p \in Replicas, b \in DecodeBlocks :
               b \in dfree'[p] <=> \A x \in Requests : replica'[x] = p => b \notin own'[x])
    BY <1>2, <1>4, FreeBlocks
  <2>2. QED BY <1>8, <2>1
<1>10. BlocksOwnedOnce'
  BY <1>5, <1>6, <1>9 DEF BlocksOwnedOnce
<1>11. QED BY <1>1, <1>2, <1>4, <1>10

\* The replica with the fewest requests exists.
LEMMA NextReplicaType == ASSUME TypeOK PROVE NextReplica \in Replicas
<1> DEFINE L == [p \in Replicas |-> Load(p)]
           T == {L[p] : p \in Replicas}
<1>1. ASSUME NEW p \in Replicas PROVE Load(p) \in Nat
  <2> DEFINE D == {r \in tg : replica[r] = p}
  <2>1. IsFiniteSet(D)
    BY DecodeTypes, FS_Subset
  <2>2. Cardinality(D) \in Nat
    BY <2>1, FS_CardinalityType
  <2>3. inPrefill[p] \in Nat
    BY DecodeTypes
  <2>4. Load(p) = Cardinality(D) + inPrefill[p]
    BY DEF Load
  <2> HIDE DEF D
  <2>5. QED BY <2>2, <2>3, <2>4
<1>2. T \in SUBSET Nat /\ T # {}
  BY <1>1, SizeAssumption
<1>3. PICK m \in T : \A y \in T : m <= y
  BY <1>2, Least
<1> DEFINE P == {p \in Replicas : L[p] = m}
<1>4. P \in SUBSET Nat /\ P # {}
  BY SizeAssumption
<1>5. PICK p \in P : \A q \in P : p <= q
  BY <1>4, Least
<1>6. ASSUME NEW q \in Replicas PROVE Load(p) < Load(q) \/ (Load(p) = Load(q) /\ p <= q)
  <2>1. Load(p) = m /\ m <= Load(q) /\ (Load(q) = m => p <= q)
    BY <1>3, <1>5
  <2>2. m \in Nat /\ Load(q) \in Nat
    BY <1>1, <1>2, <1>3
  <2>3. QED BY <2>1, <2>2
<1>7. QED BY <1>5, <1>6 DEF NextReplica

\* What Reserve does: some free blocks of some replica go to the first pending
\* request.
LEMMA ReserveFacts ==
  ASSUME TypeOK, LiveInv, NEW r \in Requests, Reserve(r)
  PROVE  /\ r \in Pend /\ r \notin InFlight /\ r \notin tg
         /\ InFlight' = InFlight \cup {r} /\ tg' = tg /\ CountsMatch' /\ BlocksOwnedOnce'
         /\ phase' = [phase EXCEPT ![r] = "await"]
         /\ phase' \in [Requests -> {"none", "await", "transfer"}]
         /\ own' \in [Requests -> SUBSET DecodeBlocks] /\ dfree' \in [Replicas -> SUBSET DecodeBlocks]
         /\ \A x \in Requests : x # r => own'[x] = own[x]
         /\ replica' \in [Requests -> Replicas] /\ inPrefill' \in [Replicas -> Nat]
<1>t. /\ phase \in [Requests -> {"none", "await", "transfer"}]
      /\ replica \in [Requests -> Replicas] /\ own \in [Requests -> SUBSET DecodeBlocks]
      /\ dfree \in [Replicas -> SUBSET DecodeBlocks] /\ inPrefill \in [Replicas -> Nat]
      /\ IsFiniteSet(InFlight)
  BY DecodeTypes
<1>1. r \in Pend
  <2>1. pending \in Seq(Requests) /\ pending # <<>> /\ r = Head(pending)
    BY QueueTypes DEF Reserve, MayReserve
  <2>2. QED BY <2>1, TailFacts DEF Pend
<1>2. r \notin InFlight /\ r \notin tg /\ own[r] = {}
  BY <1>1 DEF LiveInv, BlocksOwnedOnce
<1>p. PICK p \in {NextReplica} :
        /\ Cardinality(dfree[p]) >= Need[r]
        /\ \E bs \in {CHOOSE S \in kSubset(Need[r], dfree[p]) : TRUE} :
             own' = [own EXCEPT ![r] = bs] /\ dfree' = [dfree EXCEPT ![p] = @ \ bs]
        /\ replica' = [replica EXCEPT ![r] = p]
        /\ inPrefill' = [inPrefill EXCEPT ![p] = @ + 1]
  BY DEF Reserve
<1>b. PICK bs \in {CHOOSE S \in kSubset(Need[r], dfree[p]) : TRUE} :
        own' = [own EXCEPT ![r] = bs] /\ dfree' = [dfree EXCEPT ![p] = @ \ bs]
  BY <1>p
<1>3. p \in Replicas
  BY NextReplicaType
<1>4. /\ Cardinality(dfree[p]) >= Need[r]
      /\ own' = [own EXCEPT ![r] = bs] /\ dfree' = [dfree EXCEPT ![p] = dfree[p] \ bs]
      /\ replica' = [replica EXCEPT ![r] = p]
      /\ inPrefill' = [inPrefill EXCEPT ![p] = inPrefill[p] + 1]
      /\ phase' = [phase EXCEPT ![r] = "await"] /\ tg' = tg
  BY <1>p, <1>b DEF Reserve
<1>5. bs \subseteq dfree[p] /\ bs # {}
  <2>1. IsFiniteSet(dfree[p])
    <3>1. dfree[p] \in SUBSET DecodeBlocks
      BY <1>3, <1>t
    <3>2. QED BY <3>1, SizeAssumption, FS_Subset
  <2>2. Need[r] \in Nat /\ Need[r] # 0
    BY SizeAssumption
  <2>3. Cardinality(dfree[p]) \in Nat
    BY <2>1, FS_CardinalityType
  <2>4. kSubset(Need[r], dfree[p]) # {}
    <3>1. Need[r] <= Cardinality(dfree[p])
      BY <1>4, <2>2, <2>3
    <3>2. QED BY <2>1, <2>2, <3>1, SubsetOfSize
  <2>5. bs \in kSubset(Need[r], dfree[p])
    BY <2>4
  <2>6. bs \subseteq dfree[p] /\ Cardinality(bs) = Need[r]
    BY <2>5 DEF kSubset
  <2>7. bs # {}
    BY <2>2, <2>6, FS_EmptySet
  <2>8. QED BY <2>6, <2>7
<1>6. InFlight' = InFlight \cup {r}
  BY <1>4, <1>t DEF InFlight
<1>7. CountsMatch'
  <2>1. SUFFICES ASSUME NEW q \in Replicas PROVE inPrefill'[q] = Cardinality(Flying(q)')
    BY DEF CountsMatch, Flying
  <2>2. inPrefill[q] = Cardinality(Flying(q)) /\ inPrefill[q] \in Nat
    BY <1>t DEF LiveInv, CountsMatch, Flying
  <2>3. r \notin Flying(q) /\ IsFiniteSet(Flying(q))
    BY <1>2, <1>t, FS_Subset DEF Flying
  <2>4. CASE q = p
    <3>1. Flying(q)' = Flying(q) \cup {r}
      BY <1>2, <1>4, <1>6, <1>t, <2>4 DEF Flying
    <3>2. Cardinality(Flying(q) \cup {r}) = Cardinality(Flying(q)) + 1
      BY <2>3, FS_AddElement
    <3>3. inPrefill'[q] = inPrefill[q] + 1
      BY <1>4, <1>t, <2>4
    <3>4. QED BY <2>2, <3>1, <3>2, <3>3
  <2>5. CASE q # p
    <3>1. Flying(q)' = Flying(q)
      BY <1>2, <1>4, <1>6, <1>t, <2>5 DEF Flying
    <3>2. inPrefill'[q] = inPrefill[q]
      BY <1>4, <1>t, <2>5
    <3>3. QED BY <2>2, <3>1, <3>2
  <2>6. QED BY <2>4, <2>5
<1>8. /\ own' \in [Requests -> SUBSET DecodeBlocks] /\ dfree' \in [Replicas -> SUBSET DecodeBlocks]
      /\ replica' \in [Requests -> Replicas]
      /\ phase' \in [Requests -> {"none", "await", "transfer"}]
  <2>1. bs \in SUBSET DecodeBlocks /\ dfree[p] \ bs \in SUBSET DecodeBlocks
    BY <1>3, <1>5, <1>t
  <2>2. QED BY <1>3, <1>4, <1>t, <2>1
<1>9. inPrefill' \in [Replicas -> Nat]
  <2>1. inPrefill[p] + 1 \in Nat
    BY <1>3, <1>t
  <2>2. QED BY <1>4, <1>t, <2>1
<1>10. BlocksOwnedOnce'
  <2>1. /\ own'[r] = bs /\ replica'[r] = p
        /\ \A x \in Requests : x # r => own'[x] = own[x] /\ replica'[x] = replica[x]
    BY <1>4, <1>t
  <2>2. dfree'[p] = dfree[p] \ bs /\ \A q \in Replicas : q # p => dfree'[q] = dfree[q]
    BY <1>3, <1>4, <1>t
  <2>3. \A q \in Replicas, b \in DecodeBlocks :
          b \in dfree[q] <=> \A x \in Requests : replica[x] = q => b \notin own[x]
    BY <1>t, FreeBlocks DEF LiveInv, BlocksOwnedOnce
  <2>4. \A x \in Requests : own'[x] # {} <=> x \in (InFlight \cup tg)'
    BY <1>2, <1>4, <1>5, <1>6, <2>1 DEF LiveInv, BlocksOwnedOnce
  <2>5. bs \subseteq DecodeBlocks
    BY <1>3, <1>5, <1>t
  <2>6. \A x \in Requests : replica[x] = p => own[x] \cap bs = {}
    BY <1>3, <1>5, <2>3, <2>5
  <2>7. \A x, y \in Requests : x # y /\ replica'[x] = replica'[y] => own'[x] \cap own'[y] = {}
    BY <2>1, <2>6 DEF LiveInv, BlocksOwnedOnce
  <2>8. ASSUME NEW q \in Replicas, NEW b \in DecodeBlocks
        PROVE  b \in dfree'[q] <=> \A x \in Requests : replica'[x] = q => b \notin own'[x]
    <3>1. CASE q # p
      <4>1. \A x \in Requests : replica'[x] = q /\ x # r <=> replica[x] = q /\ x # r
        BY <2>1
      <4>2. (\A x \in Requests : replica'[x] = q => b \notin own'[x]) <=>
            (\A x \in Requests : replica[x] = q => b \notin own[x])
        BY <1>2, <2>1, <3>1
      <4>3. QED BY <2>2, <2>3, <3>1, <4>2
    <3>2. CASE q = p
      <4>1. (\A x \in Requests : replica'[x] = q => b \notin own'[x]) <=>
            (\A x \in Requests : replica[x] = q => b \notin own[x]) /\ b \notin bs
        BY <1>2, <2>1, <3>2
      <4>2. QED BY <2>2, <2>3, <3>2, <4>1
    <3>3. QED BY <3>1, <3>2
  <2>9. \A q \in Replicas :
          dfree'[q] = DecodeBlocks \ UNION {own'[x] : x \in {y \in Requests : replica'[y] = q}}
    <3>1. (\A q \in Replicas :
             dfree'[q] = DecodeBlocks \ UNION {own'[x] : x \in {y \in Requests : replica'[y] = q}})
          <=> (\A q \in Replicas, b \in DecodeBlocks :
                 b \in dfree'[q] <=> \A x \in Requests : replica'[x] = q => b \notin own'[x])
      BY <1>8, FreeBlocks
    <3>2. QED BY <2>8, <3>1
  <2>10. QED BY <2>4, <2>7, <2>9 DEF BlocksOwnedOnce
<1>11. \A x \in Requests : x # r => own'[x] = own[x]
  BY <1>4, <1>t
<1>12. QED BY <1>1, <1>2, <1>4, <1>6, <1>7, <1>8, <1>9, <1>10, <1>11

\* A step of the decode node in which the requests F leave self.requests and the
\* blocks of the requests R are released; it may pass requests of F on to decoding.
Leaves(F, R) ==
  /\ F \subseteq InFlight /\ R \subseteq Requests
  /\ Forget(F) \/ (F = {} /\ UNCHANGED <<phase, inPrefill>>)
  /\ ReleaseDecode(R) \/ (R = {} /\ UNCHANGED <<own, dfree>>)
  /\ tg' \subseteq tg \cup F
  /\ (InFlight \ F) \cup tg' = (InFlight \cup tg) \ R
  /\ UNCHANGED <<replica, pending, xfer, reply, accepted, mode>>
  /\ Started' = Started

\* Such a step keeps the books of the decode node.
LEMMA LeavesLive ==
  ASSUME TypeOK, LiveInv, NEW F, NEW R, Leaves(F, R)
  PROVE  /\ LiveInv' /\ InFlight' = InFlight \ F
         /\ phase' \in [Requests -> {"none", "await", "transfer"}]
         /\ \A r \in Requests : phase'[r] = IF r \in F THEN "none" ELSE phase[r]
         /\ inPrefill' \in [Replicas -> Nat]
         /\ own' \in [Requests -> SUBSET DecodeBlocks]
         /\ dfree' \in [Replicas -> SUBSET DecodeBlocks]
         /\ \A r \in Requests : own'[r] = IF r \in R THEN {} ELSE own[r]
<1>t. /\ phase \in [Requests -> {"none", "await", "transfer"}] /\ inPrefill \in [Replicas -> Nat]
      /\ own \in [Requests -> SUBSET DecodeBlocks] /\ dfree \in [Replicas -> SUBSET DecodeBlocks]
  BY DecodeTypes
<1>a. /\ F \subseteq InFlight /\ R \subseteq Requests /\ tg' \subseteq tg \cup F
      /\ (InFlight \ F) \cup tg' = (InFlight \cup tg) \ R
      /\ replica' = replica /\ pending' = pending /\ Started' = Started
  BY DEF Leaves
<1>1. /\ InFlight' = InFlight \ F /\ CountsMatch'
      /\ phase' \in [Requests -> {"none", "await", "transfer"}]
      /\ \A r \in Requests : phase'[r] = IF r \in F THEN "none" ELSE phase[r]
      /\ inPrefill' \in [Replicas -> Nat]
  <2>1. CASE Forget(F)
    BY <1>a, <2>1, ForgetFacts DEF LiveInv
  <2>2. CASE F = {} /\ UNCHANGED <<phase, inPrefill>>
    <3>1. InFlight' = InFlight
      BY <2>2 DEF InFlight
    <3>2. CountsMatch'
      BY <1>a, <2>2, <3>1 DEF LiveInv, CountsMatch
    <3>3. QED BY <1>t, <2>2, <3>1, <3>2
  <2>3. QED BY <2>1, <2>2 DEF Leaves
<1>2. (InFlight \cup tg)' = (InFlight \cup tg) \ R
  BY <1>a, <1>1
<1>3. /\ BlocksOwnedOnce'
      /\ own' \in [Requests -> SUBSET DecodeBlocks] /\ dfree' \in [Replicas -> SUBSET DecodeBlocks]
      /\ \A r \in Requests : own'[r] = IF r \in R THEN {} ELSE own[r]
  <2>1. CASE ReleaseDecode(R)
    BY <1>a, <1>2, <2>1, ReleaseFacts DEF LiveInv
  <2>2. CASE R = {} /\ UNCHANGED <<own, dfree>>
    <3>1. (InFlight \cup tg)' = InFlight \cup tg
      BY <1>2, <2>2
    <3>2. BlocksOwnedOnce'
      <4>1. \A r \in Requests : own'[r] # {} <=> r \in (InFlight \cup tg)'
        BY <2>2, <3>1 DEF LiveInv, BlocksOwnedOnce
      <4>2. QED BY <1>a, <2>2, <4>1 DEF LiveInv, BlocksOwnedOnce
    <3>3. QED BY <1>t, <2>2, <3>2
  <2>3. QED BY <2>1, <2>2 DEF Leaves
<1>4. Pend' = Pend
  BY <1>a DEF Pend
<1>5. InFlight' \cap tg' = {} /\ Pend' \cap (InFlight' \cup tg') = {}
      /\ InFlight' \cup tg' \subseteq Started'
  BY <1>1, <1>a, <1>4 DEF LiveInv
<1>6. LiveInv'
  BY <1>1, <1>3, <1>5 DEF LiveInv
<1>7. QED BY <1>1, <1>3, <1>6

\* Such a step leaves the blocks of the requests in flight alone.
LEMMA LeavesDst ==
  ASSUME TypeOK, LiveInv, DstInv, NEW F, NEW R, Leaves(F, R),
         \A m \in ToSet(d2p') : m.type = "prefill" => m \in ToSet(d2p)
  PROVE  DstInv'
<1>1. InFlight' = InFlight \ F /\ \A r \in Requests : own'[r] = IF r \in R THEN {} ELSE own[r]
  BY LeavesLive
<1>2. \A r \in InFlight' : r \in InFlight /\ r \notin R /\ r \in Requests
  BY <1>1 DEF Leaves, InFlight
<1>3. \A r \in InFlight' : r \in InFlight /\ own'[r] = own[r]
  BY <1>1, <1>2
<1>4. reply' = reply /\ xfer' = xfer /\ Posted' = Posted
  BY DEF Leaves, Posted
<1>5. \A m \in ToSet(d2p') : m.type = "prefill" /\ m.id \in InFlight' => m.dst = own'[m.id]
  BY <1>3 DEF DstInv
<1>6. \A c \in reply' : c.id \in InFlight' => c.dst = own'[c.id]
  BY <1>3, <1>4 DEF DstInv
<1>7. \A r \in Posted' \cap InFlight' : xfer'[r].dst = own'[r]
  BY <1>3, <1>4 DEF DstInv
<1>8. QED BY <1>5, <1>6, <1>7 DEF DstInv

\* Such a step keeps PhaseInv if no running transfer leaves before its time to live.
LEMMA LeavesPhase ==
  ASSUME TypeOK, LiveInv, PhaseInv, NEW F, NEW R, Leaves(F, R),
         mode.ttl \/ F \cap Writing \cap accepted = {}
  PROVE  PhaseInv'
<1>1. \A r \in Requests : phase'[r] = IF r \in F THEN "none" ELSE phase[r]
  BY LeavesLive
<1>2. xfer' = xfer /\ accepted' = accepted /\ mode' = mode /\ Writing' = Writing
  BY DEF Leaves, Writing
<1>3. accepted \subseteq Requests
  BY DEF TypeOK
<1>4. (\A r \in Requests : phase'[r] = "transfer" => r \in accepted')
      /\ (\A r \in Requests : phase'[r] = "await" => r \notin accepted')
  BY <1>1, <1>2 DEF PhaseInv
<1>5. ASSUME ~mode'.ttl PROVE \A r \in Writing' \cap accepted' : phase'[r] = "transfer"
  BY <1>1, <1>2, <1>3, <1>5 DEF PhaseInv
<1>6. QED BY <1>4, <1>5 DEF PhaseInv

\* Final results go to requests whose end had not been decided and now is.
LEMMA FinalTold ==
  ASSUME TypeOK, FinalInv, NEW T, T \subseteq Open, T \cap Open' = {}, Open' \subseteq Open,
         Final(T) \/ (T = {} /\ UNCHANGED <<api, finals>>), accepted' = accepted,
         cancelQ' \subseteq Gone', cancelled' \subseteq Gone' \ cancelQ',
         cancelled' \subseteq accepted', cancelled' \cap tg' = {}
  PROVE  FinalInv'
<1>t. finals \in [Requests -> Nat]
  BY DEF TypeOK
<1>1. \A r \in Requests : finals'[r] = IF r \in T THEN finals[r] + 1 ELSE finals[r]
  <2>1. CASE Final(T)
    BY <2>1, FinalFacts
  <2>2. CASE T = {} /\ UNCHANGED <<api, finals>>
    BY <2>2
  <2>3. QED BY <2>1, <2>2
<1> DEFINE A == Short \cap accepted
<1>2. Short \cap accepted' = A
  OBVIOUS
<1>3. ASSUME NEW r \in Requests
      PROVE  /\ r \in Open' /\ r \notin A => finals'[r] = 0
             /\ r \in Open' \/ r \notin A => finals'[r] <= 1
             /\ finals'[r] <= 2
  <2>1. /\ finals[r] \in Nat /\ finals[r] <= 2 /\ (r \in Open /\ r \notin A => finals[r] = 0)
        /\ (r \in Open \/ r \notin A => finals[r] <= 1)
    BY <1>t DEF FinalInv
  <2> HIDE DEF A
  <2>2. CASE r \in T
    <3>1. r \in Open /\ r \notin Open' /\ finals'[r] = finals[r] + 1
      BY <1>1, <2>2
    <3>2. QED BY <2>1, <3>1
  <2>3. CASE r \notin T
    <3>1. finals'[r] = finals[r] /\ (r \in Open' => r \in Open)
      BY <1>1, <2>3
    <3>2. QED BY <2>1, <3>1
  <2>4. QED BY <2>2, <2>3
<1>4. QED BY <1>2, <1>3 DEF FinalInv

-----------------------------------------------------------------------------
(* The steps of the decode node *)

\* The invariant without the types.
Rest == PipeInv /\ LiveInv /\ DstInv /\ PhaseInv /\ HeldInv /\ FinalInv

\* HeldInv is about the prefill node.
LEMMA HeldSame ==
  ASSUME HeldInv, UNCHANGED <<pheld, pbatch, pprev, out, active, first, pcP, mode>>,
         Writing' \subseteq Writing, Posted' = Posted
  PROVE  HeldInv'
<1>1. Bat' = Bat /\ Prev' = Prev /\ Out' = Out
  BY DEF Bat, Prev, Out
<1>2. QED BY <1>1 DEF HeldInv

\* A request leaves, with at most one message to the prefill node and a final
\* result for those whose end is decided.
LEMMA LeavesRest ==
  ASSUME TypeOK, Rest, NEW F, NEW R, NEW T, Leaves(F, R),
         d2p' = d2p \/ \E r \in Requests : d2p' = Append(d2p, Msg("cancel", r, {})),
         mode.ttl \/ F \cap Writing \cap accepted = {},
         UNCHANGED <<pce, pbatch, pprev, out, p2d, pheld, active, first, pcP>>,
         T \subseteq Open, T \cap Open' = {}, Open' \subseteq Open,
         Final(T) \/ (T = {} /\ UNCHANGED <<api, finals>>),
         cancelQ' \subseteq Gone', cancelled' \subseteq Gone' \ cancelQ',
         cancelled' \subseteq accepted, cancelled' \cap tg' = {}
  PROVE  Rest'
<1>r. PipeInv /\ LiveInv /\ DstInv /\ PhaseInv /\ HeldInv /\ FinalInv
  BY DEF Rest
<1>a. UNCHANGED <<pending, reply, accepted, xfer, mode>> /\ Started' = Started /\ Posted' = Posted
      /\ Writing' = Writing
  BY DEF Leaves, Posted, Writing
<1>d. /\ Asks' = Asks /\ Once(d2p', "prefill")
      /\ \A m \in ToSet(d2p') : m.type = "prefill" => m \in ToSet(d2p)
  BY <1>r, CancelSent
<1>1. PipeInv'
  BY <1>r, <1>a, <1>d, PipeSame
<1>2. LiveInv'
  BY <1>r, LeavesLive
<1>3. DstInv'
  BY <1>r, <1>d, LeavesDst
<1>4. PhaseInv'
  BY <1>r, LeavesPhase
<1>5. HeldInv'
  BY <1>r, <1>a, HeldSame
<1>6. FinalInv'
  BY <1>r, <1>a, FinalTold
<1>7. QED BY <1>1, <1>2, <1>3, <1>4, <1>5, <1>6 DEF Rest

\* The sets that describe a request.
LEMMA RestSets ==
  ASSUME TypeOK, Rest
  PROVE  /\ InFlight \cap tg = {} /\ Pend \cap (InFlight \cup tg) = {}
         /\ InFlight \cup tg \subseteq Started /\ InFlight \cup tg \subseteq Requests
         /\ cancelQ \subseteq Gone /\ cancelled \subseteq Gone \ cancelQ
         /\ cancelled \subseteq accepted /\ cancelled \cap tg = {}
         /\ Pend \cap Posted = {} /\ accepted \subseteq Posted
BY DecodeTypes DEF Rest, LiveInv, FinalInv, PipeInv, StagesInv, AnswersInv

\* A request expires.
LEMMA EvictRest == ASSUME TypeOK, Rest, NEW r \in Requests, Evict(r) PROVE Rest'
<1> DEFINE T == IF r \in cancelled THEN {} ELSE {r}
<1>a. /\ mode.ttl /\ r \in InFlight /\ Forget({r}) /\ ReleaseDecode({r})
      /\ UNCHANGED <<mode, cancelQ, pending, cancelled, replica, tg, accepted, p2d, xfer, pcP>>
      /\ UNCHANGED <<reply, pce, pbatch, pprev, out, first, active, pheld>>
  BY DEF Evict, prefill
<1>b. /\ d2p' = d2p \/ d2p' = Append(d2p, Msg("cancel", r, {}))
      /\ Final(T) \/ (T = {} /\ UNCHANGED <<api, finals>>)
  BY DEF Evict
<1> HIDE DEF T
<1>c. Started' = Started /\ Gone' = Gone
  <2>1. CASE Final(T)
    BY <2>1, FinalFacts
  <2>2. CASE UNCHANGED <<api, finals>>
    BY <2>2 DEF Started, Gone
  <2>3. QED BY <1>b, <2>1, <2>2
<1>1. Leaves({r}, {r})
  BY <1>a, <1>c, RestSets DEF Leaves
<1>2. InFlight' = InFlight \ {r} /\ Pend' = Pend
  BY <1>1, <1>a, LeavesLive DEF Rest, Pend
<1>3. T \subseteq Open /\ T \cap Open' = {} /\ Open' \subseteq Open
  BY <1>a, <1>c, <1>2, RestSets DEF T, Open
<1>4. /\ cancelQ' \subseteq Gone' /\ cancelled' \subseteq Gone' \ cancelQ'
      /\ cancelled' \subseteq accepted /\ cancelled' \cap tg' = {}
  BY <1>a, <1>c, RestSets
<1>5. QED BY <1>a, <1>b, <1>1, <1>3, <1>4, LeavesRest

\* A cancellation is handled.
LEMMA CancelRest == ASSUME TypeOK, Rest, NEW r \in Requests, HandleCancel(r) PROVE Rest'
<1>a. /\ r \in cancelQ /\ cancelQ' = cancelQ \ {r}
      /\ UNCHANGED <<mode, pending, replica, accepted, p2d, xfer, pcP>>
      /\ UNCHANGED <<reply, pce, pbatch, pprev, out, first, active, pheld>>
  BY DEF HandleCancel, prefill
<1>s. /\ InFlight \cap tg = {} /\ Pend \cap (InFlight \cup tg) = {}
      /\ InFlight \cup tg \subseteq Started /\ InFlight \cup tg \subseteq Requests
      /\ cancelQ \subseteq Gone /\ cancelled \subseteq Gone \ cancelQ
      /\ cancelled \subseteq accepted /\ cancelled \cap tg = {}
  BY RestSets
<1>n. r \notin cancelled /\ r \in Gone
  BY <1>a, <1>s
<1>1. CASE r \in tg /\ tg' = tg \ {r} /\ ReleaseDecode({r}) /\ Final({r})
           /\ UNCHANGED <<phase, inPrefill, cancelled, d2p>>
  <2>1. Started' = Started /\ Gone' = Gone
    BY <1>1, FinalFacts
  <2>2. Leaves({}, {r})
    BY <1>a, <1>s, <1>1, <2>1 DEF Leaves
  <2>3. InFlight' = InFlight /\ Pend' = Pend
    BY <1>1, <1>a DEF InFlight, Pend
  <2>4. {r} \subseteq Open /\ {r} \cap Open' = {} /\ Open' \subseteq Open
    BY <1>1, <1>s, <2>1, <2>3 DEF Open
  <2>5. /\ cancelQ' \subseteq Gone' /\ cancelled' \subseteq Gone' \ cancelQ'
        /\ cancelled' \subseteq accepted /\ cancelled' \cap tg' = {}
    BY <1>1, <1>a, <1>s, <2>1
  <2>6. QED BY <1>a, <1>1, <2>2, <2>4, <2>5, LeavesRest
<1>2. CASE phase[r] = "transfer" /\ cancelled' = cancelled \cup {r} /\ Final({r})
           /\ d2p' = Append(d2p, Msg("cancel", r, {}))
           /\ UNCHANGED <<phase, inPrefill, own, dfree, tg>>
  <2>1. Started' = Started /\ Gone' = Gone
    BY <1>2, FinalFacts
  <2>2. Leaves({}, {})
    BY <1>a, <1>s, <1>2, <2>1 DEF Leaves
  <2>3. InFlight' = InFlight /\ Pend' = Pend /\ r \in InFlight /\ r \in accepted
    BY <1>2, <1>a DEF InFlight, Pend, Rest, PhaseInv
  <2>4. {r} \subseteq Open /\ {r} \cap Open' = {} /\ Open' \subseteq Open
    BY <1>2, <1>s, <1>n, <2>1, <2>3 DEF Open
  <2>5. /\ cancelQ' \subseteq Gone' /\ cancelled' \subseteq Gone' \ cancelQ'
        /\ cancelled' \subseteq accepted /\ cancelled' \cap tg' = {}
    BY <1>2, <1>a, <1>s, <1>n, <2>1, <2>3
  <2>6. QED BY <1>a, <1>2, <2>2, <2>4, <2>5, LeavesRest
<1>3. CASE phase[r] = "await" /\ Forget({r}) /\ ReleaseDecode({r}) /\ Final({r})
           /\ d2p' = Append(d2p, Msg("cancel", r, {})) /\ UNCHANGED <<cancelled, tg>>
  <2>1. Started' = Started /\ Gone' = Gone
    BY <1>3, FinalFacts
  <2>2. r \in InFlight /\ r \notin accepted
    BY <1>3 DEF InFlight, Rest, PhaseInv
  <2>3. Leaves({r}, {r})
    BY <1>a, <1>s, <1>3, <2>1, <2>2 DEF Leaves
  <2>4. InFlight' = InFlight \ {r} /\ Pend' = Pend
    BY <1>a, <2>3, LeavesLive DEF Rest, Pend
  <2>5. {r} \subseteq Open /\ {r} \cap Open' = {} /\ Open' \subseteq Open
    BY <1>3, <1>s, <1>n, <2>1, <2>2, <2>4 DEF Open
  <2>6. /\ cancelQ' \subseteq Gone' /\ cancelled' \subseteq Gone' \ cancelQ'
        /\ cancelled' \subseteq accepted /\ cancelled' \cap tg' = {}
    BY <1>3, <1>a, <1>s, <2>1
  <2>7. {r} \cap Writing \cap accepted = {}
    BY <2>2
  <2>8. QED BY <1>a, <1>3, <2>3, <2>5, <2>6, <2>7, LeavesRest
<1>4. CASE UNCHANGED <<phase, inPrefill, cancelled, own, dfree, tg, d2p, api, finals>>
  <2>1. Started' = Started /\ Gone' = Gone
    BY <1>4 DEF Started, Gone
  <2>2. Leaves({}, {})
    BY <1>a, <1>s, <1>4, <2>1 DEF Leaves
  <2>3. InFlight' = InFlight /\ Pend' = Pend
    BY <1>4, <1>a DEF InFlight, Pend
  <2>4. {} \subseteq Open /\ {} \cap Open' = {} /\ Open' \subseteq Open
    BY <1>4, <2>1, <2>3 DEF Open
  <2>5. /\ cancelQ' \subseteq Gone' /\ cancelled' \subseteq Gone' \ cancelQ'
        /\ cancelled' \subseteq accepted /\ cancelled' \cap tg' = {}
    BY <1>4, <1>a, <1>s, <2>1
  <2>6. QED BY <1>a, <1>4, <2>2, <2>4, <2>5, LeavesRest
<1>5. QED BY <1>1, <1>2, <1>3, <1>4 DEF HandleCancel

\* Transfers that have landed are passed on to decoding, or released.
LEMMA CheckRest == ASSUME TypeOK, Rest, CheckTransfers PROVE Rest'
<1> DEFINE S == {r \in Requests : phase[r] = "transfer" /\ Landed(r)}
<1>a. /\ Forget(S) /\ ReleaseDecode(S \cap cancelled) /\ tg' = tg \cup (S \ cancelled)
      /\ UNCHANGED <<mode, api, finals, cancelQ, pending, cancelled, replica, accepted>>
      /\ UNCHANGED <<d2p, p2d, xfer, pcP, reply, pce, pbatch, pprev, out, first, active, pheld>>
  BY DEF CheckTransfers, client, net, prefill
<1>s. /\ InFlight \cap tg = {} /\ Pend \cap (InFlight \cup tg) = {}
      /\ InFlight \cup tg \subseteq Started /\ InFlight \cup tg \subseteq Requests
      /\ cancelQ \subseteq Gone /\ cancelled \subseteq Gone \ cancelQ
      /\ cancelled \subseteq accepted /\ cancelled \cap tg = {}
  BY RestSets
<1>1. S \subseteq InFlight /\ S \cap Writing = {}
  BY DEF InFlight, Landed, Writing
<1> HIDE DEF S
<1>2. Started' = Started /\ Gone' = Gone
  BY <1>a DEF Started, Gone
<1>3. Leaves(S, S \cap cancelled)
  BY <1>a, <1>s, <1>1, <1>2 DEF Leaves
<1>4. InFlight' = InFlight \ S /\ Pend' = Pend
  BY <1>a, <1>3, LeavesLive DEF Rest, Pend
<1>5. {} \subseteq Open /\ {} \cap Open' = {} /\ Open' \subseteq Open
  BY <1>a, <1>s, <1>1, <1>2, <1>4 DEF Open
<1>6. /\ cancelQ' \subseteq Gone' /\ cancelled' \subseteq Gone' \ cancelQ'
      /\ cancelled' \subseteq accepted /\ cancelled' \cap tg' = {}
  BY <1>a, <1>s, <1>2
<1>7. S \cap Writing \cap accepted = {}
  BY <1>1
<1>8. QED BY <1>a, <1>3, <1>5, <1>6, <1>7, LeavesRest

\* Requests end with their last token.
LEMMA DecodeRest == ASSUME TypeOK, Rest, DecodeRun PROVE Rest'
<1>a. UNCHANGED <<mode, cancelQ, pending, phase, cancelled, replica, inPrefill, accepted>>
      /\ UNCHANGED <<d2p, p2d, xfer, pcP, reply, pce, pbatch, pprev, out, first, active, pheld>>
  BY DEF DecodeRun, net, prefill
<1>b. PICK done \in SUBSET tg : tg' = tg \ done /\ ReleaseDecode(done) /\ Final(done)
  BY DEF DecodeRun
<1>s. /\ InFlight \cap tg = {} /\ Pend \cap (InFlight \cup tg) = {}
      /\ InFlight \cup tg \subseteq Started /\ InFlight \cup tg \subseteq Requests
      /\ cancelQ \subseteq Gone /\ cancelled \subseteq Gone \ cancelQ
      /\ cancelled \subseteq accepted /\ cancelled \cap tg = {}
  BY RestSets
<1>1. Started' = Started /\ Gone' = Gone
  BY <1>b, FinalFacts
<1>2. Leaves({}, done)
  BY <1>a, <1>b, <1>s, <1>1 DEF Leaves
<1>3. InFlight' = InFlight /\ Pend' = Pend
  BY <1>a DEF InFlight, Pend
<1>4. done \subseteq Open /\ done \cap Open' = {} /\ Open' \subseteq Open
  BY <1>a, <1>b, <1>s, <1>1, <1>3 DEF Open
<1>5. /\ cancelQ' \subseteq Gone' /\ cancelled' \subseteq Gone' \ cancelQ'
      /\ cancelled' \subseteq accepted /\ cancelled' \cap tg' = {}
  BY <1>a, <1>b, <1>s, <1>1
<1>6. QED BY <1>a, <1>b, <1>2, <1>4, <1>5, LeavesRest

\* LiveInv is about the decode node.
LEMMA LiveSame ==
  ASSUME LiveInv, UNCHANGED <<phase, tg, pending, own, replica, dfree, inPrefill>>,
         Started' = Started
  PROVE  LiveInv'
<1>1. InFlight' = InFlight /\ Pend' = Pend
  BY DEF InFlight, Pend
<1>2. CountsMatch' /\ BlocksOwnedOnce'
  BY <1>1 DEF LiveInv, CountsMatch, BlocksOwnedOnce
<1>3. QED BY <1>1, <1>2 DEF LiveInv

\* DstInv is kept by steps that write no destination down.
LEMMA DstSame ==
  ASSUME DstInv, InFlight' = InFlight, own' = own, reply' = reply, Posted' = Posted,
         \A m \in ToSet(d2p') : m.type = "prefill" => m \in ToSet(d2p),
         \A r \in Posted : xfer'[r].dst = xfer[r].dst
  PROVE  DstInv'
<1>1. \A m \in ToSet(d2p') : m.type = "prefill" /\ m.id \in InFlight' => m.dst = own'[m.id]
  BY DEF DstInv
<1>2. \A c \in reply' : c.id \in InFlight' => c.dst = own'[c.id]
  BY DEF DstInv
<1>3. \A r \in Posted' \cap InFlight' : xfer'[r].dst = own'[r]
  BY DEF DstInv
<1>4. QED BY <1>1, <1>2, <1>3 DEF DstInv

\* PhaseInv is kept by steps that post no accepted transfer.
LEMMA PhaseSame ==
  ASSUME PhaseInv, UNCHANGED <<phase, accepted, mode>>, Writing' \cap accepted \subseteq Writing
  PROVE  PhaseInv'
BY DEF PhaseInv

\* FinalInv is about the clients and the decode node.
LEMMA FinalSame ==
  ASSUME FinalInv, UNCHANGED <<finals, accepted, cancelled, tg, cancelQ>>, Open' = Open,
         Gone' = Gone
  PROVE  FinalInv'
BY DEF FinalInv

\* A step that only moves the phases of the loops on.
LEMMA PhasesOnly ==
  ASSUME TypeOK, Rest, HeldInv', mode' = mode, UNCHANGED <<client, decode, net>>,
         UNCHANGED <<reply, pce, pbatch, pprev, out>>
  PROVE  Rest'
<1>r. PipeInv /\ LiveInv /\ DstInv /\ PhaseInv /\ HeldInv /\ FinalInv
  BY DEF Rest
<1>a. UNCHANGED <<api, finals, cancelQ, pending, phase, cancelled, replica, own, dfree>>
      /\ UNCHANGED <<inPrefill, tg, accepted, d2p, p2d, xfer>>
  BY DEF client, decode, net
<1>1. /\ Started' = Started /\ Gone' = Gone /\ InFlight' = InFlight /\ Posted' = Posted
      /\ Asks' = Asks /\ Writing' = Writing /\ Pend' = Pend
  BY <1>a DEF Started, Gone, InFlight, Posted, Asks, Writing, Pend
<1>2. Open' = Open
  BY <1>a, <1>1 DEF Open
<1>o. Once(d2p', "prefill")
  BY <1>r, <1>a DEF PipeInv, QueuesInv
<1>3. PipeInv'
  BY <1>r, <1>a, <1>1, <1>o, PipeSame
<1>4. LiveInv'
  BY <1>r, <1>a, <1>1, LiveSame
<1>5. DstInv'
  BY <1>r, <1>a, <1>1, DstSame
<1>6. PhaseInv'
  BY <1>r, <1>a, <1>1, PhaseSame
<1>7. FinalInv'
  BY <1>r, <1>a, <1>1, <1>2, FinalSame
<1>8. QED BY <1>3, <1>4, <1>5, <1>6, <1>7 DEF Rest

\* A request comes.
LEMMA SubmitRest == ASSUME TypeOK, Rest, NEW r \in Requests, Submit(r) PROVE Rest'
<1>r. PipeInv /\ LiveInv /\ DstInv /\ PhaseInv /\ HeldInv /\ FinalInv
  BY DEF Rest
<1>a. /\ api[r] = "new" /\ api' = [api EXCEPT ![r] = "open"] /\ pending' = Append(pending, r)
      /\ UNCHANGED <<mode, finals, cancelQ, phase, cancelled, replica, own, dfree, inPrefill>>
      /\ UNCHANGED <<tg, accepted, d2p, p2d, xfer, pcP>>
      /\ UNCHANGED <<reply, pbatch, pprev, out, first, active, pheld>>
  BY DEF Submit, net, prefill
<1>1. Started' = Started \cup {r} /\ r \notin Started /\ Gone' = Gone
  <2>1. api \in [Requests -> {"new", "open", "gone", "ended"}]
    BY DEF TypeOK
  <2>2. QED BY <1>a, <2>1 DEF Started, Gone
<1>2. InFlight' = InFlight /\ Posted' = Posted /\ Writing' = Writing
  BY <1>a DEF InFlight, Posted, Writing
<1>3. Pend' = Pend \cup {r}
  <2>1. pending \in Seq(Requests)
    BY QueueTypes
  <2>2. ToSet(pending') = ToSet(pending) \cup {r}
    BY <1>a, <2>1, AppendFacts
  <2>3. QED BY <2>2 DEF Pend
<1>4. PipeInv'
  BY <1>r, PipeSubmit
<1>5. LiveInv'
  <2>1. CountsMatch' /\ BlocksOwnedOnce'
    BY <1>r, <1>a, <1>2 DEF LiveInv, CountsMatch, BlocksOwnedOnce
  <2>2. QED BY <1>r, <1>a, <1>1, <1>2, <1>3, <2>1 DEF LiveInv
<1>6. DstInv'
  BY <1>r, <1>a, <1>2, DstSame
<1>7. PhaseInv'
  BY <1>r, <1>a, <1>2, PhaseSame
<1>8. HeldInv'
  BY <1>r, <1>a, <1>2, HeldSame
<1>9. FinalInv'
  <2>1. Open' = Open
    BY <1>a, <1>1, <1>2, <1>3 DEF Open
  <2>2. QED BY <1>r, <1>a, <1>1, <2>1, FinalSame
<1>10. QED BY <1>4, <1>5, <1>6, <1>7, <1>8, <1>9 DEF Rest

\* A client goes away.
LEMMA AbandonRest == ASSUME TypeOK, Rest, NEW r \in Requests, Abandon(r) PROVE Rest'
<1>r. PipeInv /\ LiveInv /\ DstInv /\ PhaseInv /\ HeldInv /\ FinalInv
  BY DEF Rest
<1>a. /\ api[r] = "open" /\ api' = [api EXCEPT ![r] = "gone"] /\ cancelQ' = cancelQ \cup {r}
      /\ UNCHANGED <<mode, finals, pending, phase, cancelled, replica, own, dfree, inPrefill>>
      /\ UNCHANGED <<tg, accepted, d2p, p2d, xfer, pcP>>
      /\ UNCHANGED <<reply, pce, pbatch, pprev, out, first, active, pheld>>
  BY DEF Abandon, decode, net, prefill
<1>1. Started' = Started /\ Gone' = Gone \cup {r} /\ r \notin Gone
  <2>1. api \in [Requests -> {"new", "open", "gone", "ended"}]
    BY DEF TypeOK
  <2>2. QED BY <1>a, <2>1 DEF Started, Gone
<1>2. /\ InFlight' = InFlight /\ Posted' = Posted /\ Writing' = Writing /\ Pend' = Pend
      /\ Asks' = Asks
  BY <1>a DEF InFlight, Posted, Writing, Pend, Asks
<1>3. Once(d2p', "prefill")
  BY <1>r, <1>a DEF PipeInv, QueuesInv
<1>4. PipeInv'
  BY <1>r, <1>a, <1>1, <1>2, <1>3, PipeSame
<1>5. LiveInv'
  BY <1>r, <1>a, <1>1, LiveSame
<1>6. DstInv'
  BY <1>r, <1>a, <1>2, DstSame
<1>7. PhaseInv'
  BY <1>r, <1>a, <1>2, PhaseSame
<1>8. HeldInv'
  BY <1>r, <1>a, <1>2, HeldSame
<1>9. FinalInv'
  <2>1. Open' = Open
    BY <1>a, <1>1, <1>2 DEF Open
  <2>2. QED BY <1>r, <1>a, <1>1, <2>1 DEF FinalInv
<1>10. QED BY <1>4, <1>5, <1>6, <1>7, <1>8, <1>9 DEF Rest

\* The decode node takes a reply from the network.
LEMMA RecvReplyRest == ASSUME TypeOK, Rest, RecvReply PROVE Rest'
<1>r. PipeInv /\ LiveInv /\ DstInv /\ PhaseInv /\ HeldInv /\ FinalInv
  BY DEF Rest
<1> DEFINE m == Head(p2d)
           r == m.id
<1>a. /\ p2d # <<>> /\ p2d' = Tail(p2d)
      /\ UNCHANGED <<mode, cancelQ, pending, cancelled, replica, own, dfree, inPrefill, tg>>
      /\ UNCHANGED <<d2p, xfer, pcP>>
      /\ UNCHANGED <<reply, pce, pbatch, pprev, out, first, active, pheld>>
  BY DEF RecvReply, prefill
<1>b. \/ UNCHANGED <<phase, accepted, api, finals>>
      \/ /\ m.type = "response" /\ phase[r] # "none"
         /\ phase' = [phase EXCEPT ![r] = "transfer"]
         /\ accepted' = accepted \cup {r} /\ Final({r} \cap Short)
  BY DEF RecvReply
<1>c. m.type = "response" => r \in Requests /\ r \in Answers /\ r \notin accepted /\ r \in Posted
  <2>1. p2d \in Seq(Message)
    BY QueueTypes
  <2>2. m \in Message /\ (m.type = "response" => r \in Answers)
    BY <1>a, <2>1, ReceiveFacts DEF Answers
  <2>3. r \in Requests
    BY <2>2 DEF Message
  <2>4. QED BY <1>r, <2>2, <2>3 DEF PipeInv, AnswersInv
<1> HIDE DEF r
<1>d. Posted' = Posted /\ Writing' = Writing /\ Pend' = Pend
  BY <1>a DEF Posted, Writing, Pend
<1>t. phase \in [Requests -> {"none", "await", "transfer"}] /\ finals \in [Requests -> Nat]
  BY DEF TypeOK
<1>1. Started' = Started /\ Gone' = Gone /\ InFlight' = InFlight
  <2>1. CASE UNCHANGED <<phase, accepted, api, finals>>
    BY <2>1 DEF Started, Gone, InFlight
  <2>2. CASE /\ m.type = "response" /\ phase[r] # "none"
             /\ phase' = [phase EXCEPT ![r] = "transfer"]
             /\ accepted' = accepted \cup {r} /\ Final({r} \cap Short)
    <3>1. Started' = Started /\ Gone' = Gone
      BY <2>2, FinalFacts
    <3>2. InFlight' = InFlight
      BY <1>c, <1>t, <2>2 DEF InFlight
    <3>3. QED BY <3>1, <3>2
  <2>3. QED BY <1>b, <2>1, <2>2
<1>2. PipeInv'
  <2>1. \/ accepted' = accepted
        \/ Head(p2d).type = "response" /\ accepted' = accepted \cup {Head(p2d).id}
    BY <1>b DEF r
  <2>2. QED BY <1>r, <1>a, <1>1, <2>1, PipeAnswer
<1>3. LiveInv'
  <2>1. CountsMatch' /\ BlocksOwnedOnce'
    BY <1>r, <1>a, <1>1 DEF LiveInv, CountsMatch, BlocksOwnedOnce
  <2>2. QED BY <1>r, <1>a, <1>d, <1>1, <2>1 DEF LiveInv
<1>4. DstInv'
  BY <1>r, <1>a, <1>d, <1>1, DstSame
<1>5. HeldInv'
  BY <1>r, <1>a, <1>d, HeldSame
<1>6. PhaseInv' /\ FinalInv'
  <2>1. CASE UNCHANGED <<phase, accepted, api, finals>>
    <3>1. Open' = Open
      BY <1>a, <1>d, <1>1 DEF Open
    <3>2. PhaseInv'
      BY <1>r, <1>a, <1>d, <2>1, PhaseSame
    <3>3. FinalInv'
      BY <1>r, <1>a, <1>1, <2>1, <3>1, FinalSame
    <3>4. QED BY <3>2, <3>3
  <2>2. CASE /\ m.type = "response" /\ phase[r] # "none"
             /\ phase' = [phase EXCEPT ![r] = "transfer"]
             /\ accepted' = accepted \cup {r} /\ Final({r} \cap Short)
    <3>1. phase'[r] = "transfer" /\ \A x \in Requests : x # r => phase'[x] = phase[x]
      BY <1>c, <1>t, <2>2
    <3>2. accepted' \subseteq Requests
      BY <1>c, <2>2 DEF TypeOK
    <3>3. PhaseInv'
      <4>1. (\A x \in Requests : phase'[x] = "transfer" => x \in accepted')
            /\ (\A x \in Requests : phase'[x] = "await" => x \notin accepted')
        BY <1>r, <2>2, <3>1 DEF PhaseInv
      <4>2. ASSUME ~mode'.ttl, NEW x \in Writing' \cap accepted' PROVE phase'[x] = "transfer"
        BY <1>r, <1>a, <1>d, <2>2, <3>1, <3>2, <4>2 DEF PhaseInv
      <4>3. QED BY <4>1, <4>2 DEF PhaseInv
    <3>4. Open' = Open
      BY <1>a, <1>d, <1>1 DEF Open
    <3>5. r \in Open /\ r \in InFlight /\ r \notin cancelled
      BY <1>r, <1>c, <2>2 DEF Open, InFlight, FinalInv
    <3>6. finals[r] = 0
      BY <1>r, <1>c, <2>2, <3>5 DEF FinalInv
    <3>7. \A x \in Requests : finals'[x] = IF x \in {r} \cap Short THEN finals[x] + 1 ELSE finals[x]
      BY <2>2, FinalFacts
    <3>8. (r \in Short => finals'[r] = 1) /\ (r \notin Short => finals'[r] = 0)
          /\ \A x \in Requests : x # r => finals'[x] = finals[x]
      <4>1. finals[r] + 1 = 1
        BY <3>6
      <4>2. QED BY <1>c, <2>2, <3>6, <3>7, <4>1
    <3>9. \A x \in Requests :
            /\ x \in Open' /\ x \notin Short \cap accepted' => finals'[x] = 0
            /\ x \in Open' \/ x \notin Short \cap accepted' => finals'[x] <= 1
            /\ finals'[x] <= 2
      <4>1. SUFFICES ASSUME NEW x \in Requests
                     PROVE  /\ x \in Open' /\ x \notin Short \cap accepted' => finals'[x] = 0
                            /\ x \in Open' \/ x \notin Short \cap accepted' => finals'[x] <= 1
                            /\ finals'[x] <= 2
        OBVIOUS
      <4>2. CASE x = r
        BY <1>c, <2>2, <3>8, <4>2
      <4>3. CASE x # r
        BY <1>r, <2>2, <3>4, <3>8, <4>3 DEF FinalInv
      <4>4. QED BY <4>2, <4>3
    <3>10. FinalInv'
      BY <1>r, <1>a, <1>1, <2>2, <3>9 DEF FinalInv
    <3>11. QED BY <3>3, <3>10
  <2>3. QED BY <1>b, <2>1, <2>2
<1>7. QED BY <1>2, <1>3, <1>4, <1>5, <1>6 DEF Rest

\* A pending request gets its blocks and is sent to the prefill node.
LEMMA ReserveRest == ASSUME TypeOK, Rest, NEW r \in Requests, Reserve(r) PROVE Rest'
<1>r. PipeInv /\ LiveInv /\ DstInv /\ PhaseInv /\ HeldInv /\ FinalInv
  BY DEF Rest
<1>a. /\ pending # <<>> /\ r = Head(pending) /\ pending' = Tail(pending)
      /\ d2p' = Append(IF dconn = "none" THEN Append(d2p, Msg("metadata", r, {})) ELSE d2p,
                       Msg("prefill", r, own'[r]))
      /\ UNCHANGED <<mode, api, finals, cancelQ, cancelled, tg, accepted, p2d, xfer, pcP>>
      /\ UNCHANGED <<reply, pce, pbatch, pprev, out, first, active, pheld>>
  BY DEF Reserve, MayReserve, client, prefill
<1>f. /\ r \in Pend /\ r \notin InFlight /\ r \notin tg
      /\ InFlight' = InFlight \cup {r} /\ CountsMatch' /\ BlocksOwnedOnce'
      /\ phase' = [phase EXCEPT ![r] = "await"]
      /\ own' \in [Requests -> SUBSET DecodeBlocks]
      /\ \A x \in Requests : x # r => own'[x] = own[x]
  BY <1>r, ReserveFacts
<1>t. phase \in [Requests -> {"none", "await", "transfer"}]
  BY DEF TypeOK
<1>1. /\ Started' = Started /\ Gone' = Gone /\ Posted' = Posted /\ Writing' = Writing
      /\ Contexts' = Contexts
  BY <1>a DEF Started, Gone, Posted, Writing, Contexts
<1>2. Pend = Pend' \cup {r} /\ r \notin Pend'
  <2>1. pending \in Seq(Requests) /\ Distinct(pending)
    BY <1>r, QueueTypes DEF PipeInv, QueuesInv
  <2>2. QED BY <1>a, <2>1, TailFacts DEF Pend
<1>3. r \notin Posted /\ r \notin Contexts /\ r \notin Asks /\ r \in Started /\ r \notin accepted
      /\ r \notin cancelled
  BY <1>r, <1>f DEF PipeInv, StagesInv, AnswersInv, FinalInv
<1>4. PipeInv'
  <2>1. own'[r] \in SUBSET DecodeBlocks
    BY <1>f
  <2>2. QED BY <1>r, <2>1, PipeReserve
<1>5. LiveInv'
  BY <1>r, <1>a, <1>f, <1>1, <1>2, <1>3 DEF LiveInv
<1>6. DstInv'
  <2> DEFINE q == IF dconn = "none" THEN Append(d2p, Msg("metadata", r, {})) ELSE d2p
             n == Msg("prefill", r, own'[r])
             h == Msg("metadata", r, {})
  <2>1. d2p \in Seq(Message)
    BY QueueTypes
  <2>2. h \in Message /\ h.type = "metadata"
    BY DEF Msg, Message
  <2>3. n \in Message /\ n.id = r /\ n.dst = own'[r]
    BY <1>f DEF Msg, Message
  <2>4. d2p' = Append(q, n)
    BY <1>a
  <2>5. q \in Seq(Message) /\ (ToSet(q) = ToSet(d2p) \/ ToSet(q) = ToSet(d2p) \cup {h})
    <3>1. Append(d2p, h) \in Seq(Message) /\ ToSet(Append(d2p, h)) = ToSet(d2p) \cup {h}
      <4> HIDE DEF h
      <4>1. QED BY <2>1, <2>2, SendFacts
    <3>2. q = d2p \/ q = Append(d2p, h)
      OBVIOUS
    <3> HIDE DEF q, h
    <3>3. QED BY <2>1, <3>1, <3>2
  <2> HIDE DEF q, n, h
  <2>6. ToSet(d2p') = ToSet(q) \cup {n}
    BY <2>3, <2>4, <2>5, SendFacts
  <2>7. ASSUME NEW m \in ToSet(d2p'), m.type = "prefill", m.id \in InFlight'
        PROVE  m.dst = own'[m.id]
    <3>1. CASE m = n
      BY <2>3, <3>1
    <3>2. CASE m \in ToSet(d2p)
      <4>1. m.id \in Asks
        BY <2>7, <3>2 DEF Asks, Ids, ToSet
      <4>2. m.id # r /\ m.id \in InFlight /\ m.id \in Requests
        BY <1>3, <1>f, <2>7, <4>1 DEF InFlight
      <4>3. m.dst = own[m.id]
        BY <1>r, <2>7, <3>2, <4>2 DEF DstInv
      <4>4. QED BY <1>f, <4>2, <4>3
    <3>3. QED BY <2>2, <2>5, <2>6, <2>7, <3>1, <3>2
  <2>8. ASSUME NEW c \in reply', c.id \in InFlight' PROVE c.dst = own'[c.id]
    <3>1. c \in reply /\ c.id \in Contexts
      BY <1>a, <2>8 DEF Contexts
    <3>2. c.id # r /\ c.id \in InFlight /\ c.id \in Requests
      BY <1>3, <1>f, <2>8, <3>1 DEF InFlight
    <3>3. QED BY <1>r, <1>f, <3>1, <3>2 DEF DstInv
  <2>9. ASSUME NEW x \in Posted' \cap InFlight' PROVE xfer'[x].dst = own'[x]
    <3>1. x # r /\ x \in InFlight /\ x \in Requests /\ x \in Posted
      BY <1>1, <1>3, <1>f, <2>9 DEF InFlight
    <3>2. QED BY <1>r, <1>a, <1>f, <3>1 DEF DstInv
  <2>10. QED BY <2>7, <2>8, <2>9 DEF DstInv
<1>7. PhaseInv'
  <2>1. phase'[r] = "await" /\ \A x \in Requests : x # r => phase'[x] = phase[x]
    BY <1>f, <1>t
  <2>2. accepted \subseteq Requests
    BY DEF TypeOK
  <2>3. (\A x \in Requests : phase'[x] = "transfer" => x \in accepted')
        /\ (\A x \in Requests : phase'[x] = "await" => x \notin accepted')
    BY <1>r, <1>a, <1>3, <2>1 DEF PhaseInv
  <2>4. ASSUME ~mode'.ttl, NEW x \in Writing' \cap accepted' PROVE phase'[x] = "transfer"
    BY <1>r, <1>a, <1>1, <1>3, <2>1, <2>2, <2>4 DEF PhaseInv
  <2>5. QED BY <2>3, <2>4 DEF PhaseInv
<1>8. HeldInv'
  BY <1>r, <1>a, <1>1, HeldSame
<1>9. FinalInv'
  <2>1. Open' = Open
    BY <1>a, <1>f, <1>1, <1>2, <1>3 DEF Open
  <2>2. QED BY <1>r, <1>a, <1>1, <2>1, FinalSame
<1>10. QED BY <1>4, <1>5, <1>6, <1>7, <1>8, <1>9 DEF Rest

-----------------------------------------------------------------------------
(* The steps of the network and of the prefill node *)

\* A step that the decode node and its clients do not see.
LEMMA Unseen ==
  ASSUME LiveInv, FinalInv, UNCHANGED <<client, decode>>
  PROVE  /\ LiveInv' /\ FinalInv' /\ Started' = Started /\ InFlight' = InFlight
         /\ UNCHANGED <<api, pending, phase, own, replica, accepted>>
<1>1. /\ UNCHANGED <<api, finals, cancelQ, pending, phase, cancelled, replica, own, dfree>>
      /\ UNCHANGED <<inPrefill, tg, accepted>>
  BY DEF client, decode
<1>2. Started' = Started /\ Gone' = Gone /\ InFlight' = InFlight /\ Pend' = Pend
  BY <1>1 DEF Started, Gone, InFlight, Pend
<1>3. Open' = Open
  BY <1>1, <1>2 DEF Open
<1>4. LiveInv'
  BY <1>1, <1>2, LiveSame
<1>5. FinalInv'
  BY <1>1, <1>2, <1>3, FinalSame
<1>6. QED BY <1>1, <1>2, <1>4, <1>5

\* A transfer lands.
LEMMA LandsRest == ASSUME TypeOK, Rest, NEW r \in Requests, TransferLands(r) PROVE Rest'
<1>r. PipeInv /\ LiveInv /\ DstInv /\ PhaseInv /\ HeldInv /\ FinalInv
  BY DEF Rest
<1>a. /\ r \in Posted /\ xfer' = [xfer EXCEPT ![r].done = TRUE]
      /\ UNCHANGED <<client, decode>> /\ UNCHANGED <<mode, d2p, p2d, pcP>>
      /\ UNCHANGED <<reply, pce, pbatch, pprev, out, first, active, pheld>>
  BY DEF TransferLands, prefill, Posted
<1>u. /\ LiveInv' /\ FinalInv' /\ Started' = Started /\ InFlight' = InFlight
      /\ UNCHANGED <<api, pending, phase, own, replica, accepted>>
  BY <1>r, <1>a, Unseen
<1>x. xfer \in [Posted -> TransferRecord]
  BY DEF TypeOK, Posted, TransferRecord
<1>1. Posted' = Posted /\ \A x \in Posted : x # r => xfer'[x] = xfer[x]
  BY <1>a DEF Posted
<1>2. xfer'[r].dst = xfer[r].dst /\ xfer'[r].done
  <2>1. xfer[r] \in TransferRecord
    BY <1>a, <1>x
  <2>2. xfer'[r] = [xfer[r] EXCEPT !.done = TRUE]
    BY <1>a DEF Posted
  <2>3. QED BY <2>1, <2>2 DEF TransferRecord
<1>3. Writing' \subseteq Writing
  BY <1>1, <1>2 DEF Writing, Posted
<1>4. Asks' = Asks /\ Once(d2p', "prefill")
  BY <1>r, <1>a DEF Asks, PipeInv, QueuesInv
<1>5. PipeInv'
  BY <1>r, <1>a, <1>u, <1>1, <1>4, PipeSame
<1>6. DstInv'
  BY <1>r, <1>a, <1>u, <1>1, <1>2, DstSame
<1>7. PhaseInv'
  BY <1>r, <1>a, <1>u, <1>3, PhaseSame
<1>8. HeldInv'
  BY <1>r, <1>a, <1>1, <1>3, HeldSame
<1>9. QED BY <1>u, <1>5, <1>6, <1>7, <1>8 DEF Rest

\* A reply is lost.
LEMMA LoseRest == ASSUME TypeOK, Rest, LoseReply PROVE Rest'
<1>r. PipeInv /\ LiveInv /\ DstInv /\ PhaseInv /\ HeldInv /\ FinalInv
  BY DEF Rest
<1>a. /\ p2d # <<>> /\ p2d' = Tail(p2d)
      /\ UNCHANGED <<client, decode>> /\ UNCHANGED <<mode, d2p, xfer, pcP>>
      /\ UNCHANGED <<reply, pce, pbatch, pprev, out, first, active, pheld>>
  BY DEF LoseReply, prefill
<1>u. /\ LiveInv' /\ FinalInv' /\ Started' = Started /\ InFlight' = InFlight
      /\ UNCHANGED <<api, pending, phase, own, replica, accepted>>
  BY <1>r, <1>a, Unseen
<1>1. Posted' = Posted /\ Writing' = Writing
  BY <1>a DEF Posted, Writing
<1>2. PipeInv'
  BY <1>r, <1>a, <1>u, PipeAnswer
<1>3. DstInv'
  BY <1>r, <1>a, <1>u, <1>1, DstSame
<1>4. PhaseInv'
  BY <1>r, <1>a, <1>u, <1>1, PhaseSame
<1>5. HeldInv'
  BY <1>r, <1>a, <1>1, HeldSame
<1>6. QED BY <1>u, <1>2, <1>3, <1>4, <1>5 DEF Rest

\* The prefill node receives a message.
LEMMA RecvRest == ASSUME TypeOK, Rest, RecvRequest PROVE Rest'
<1>r. PipeInv /\ LiveInv /\ DstInv /\ PhaseInv /\ HeldInv /\ FinalInv
  BY DEF Rest
<1> DEFINE m == Head(d2p)
<1>a. /\ d2p # <<>> /\ d2p' = Tail(d2p)
      /\ UNCHANGED <<client, decode>> /\ UNCHANGED <<mode, xfer, pcP>>
      /\ UNCHANGED <<pbatch, pprev, out, first, active, pheld>>
      /\ \/ reply' = reply
         \/ m.type = "prefill" /\ reply' = reply \cup {[id |-> m.id, dst |-> m.dst]}
  BY DEF RecvRequest
<1>u. /\ LiveInv' /\ FinalInv' /\ Started' = Started /\ InFlight' = InFlight
      /\ UNCHANGED <<api, pending, phase, own, replica, accepted>>
  BY <1>r, <1>a, Unseen
<1>1. Posted' = Posted /\ Writing' = Writing
  BY <1>a DEF Posted, Writing
<1>2. PipeInv'
  BY <1>r, PipeRecv
<1>3. DstInv'
  <2>1. ToSet(d2p) = ToSet(d2p') \cup {m}
    <3>1. d2p \in Seq(Message)
      BY QueueTypes
    <3>2. QED BY <1>a, <3>1, ReceiveFacts
  <2>2. m.type = "prefill" /\ m.id \in InFlight => m.dst = own[m.id]
    BY <1>r, <2>1 DEF DstInv
  <2> HIDE DEF m
  <2>3. \A c \in reply' : c.id \in InFlight' => c.dst = own'[c.id]
    <3>1. CASE reply' = reply
      BY <1>r, <1>u, <3>1 DEF DstInv
    <3>2. CASE m.type = "prefill" /\ reply' = reply \cup {[id |-> m.id, dst |-> m.dst]}
      <4> DEFINE e == [id |-> m.id, dst |-> m.dst]
      <4>1. e.id = m.id /\ e.dst = m.dst /\ reply' = reply \cup {e}
        BY <3>2
      <4> HIDE DEF e
      <4>2. QED BY <1>r, <1>u, <2>2, <3>2, <4>1 DEF DstInv
    <3>3. QED BY <1>a, <3>1, <3>2
  <2>4. \A x \in ToSet(d2p') : x.type = "prefill" /\ x.id \in InFlight' => x.dst = own'[x.id]
    BY <1>r, <1>u, <2>1 DEF DstInv
  <2>5. \A x \in Posted' \cap InFlight' : xfer'[x].dst = own'[x]
    BY <1>r, <1>a, <1>u, <1>1 DEF DstInv
  <2>6. QED BY <2>3, <2>4, <2>5 DEF DstInv
<1>4. PhaseInv'
  BY <1>r, <1>a, <1>u, <1>1, PhaseSame
<1>5. HeldInv'
  BY <1>r, <1>a, <1>1, HeldSame
<1>6. QED BY <1>u, <1>2, <1>3, <1>4, <1>5 DEF Rest

\* The steps that only end a phase of a loop.
LEMMA PhaseEndRest ==
  ASSUME TypeOK, Rest,
         \/ RecvRepliesDone \/ EvictDone \/ ReserveDone \/ CancelsDone
         \/ RecvRequestsDone \/ PrefillBuilt \/ RepliesDone
  PROVE  Rest'
<1>h. HeldInv
  BY DEF Rest
<1>1. CASE RecvRepliesDone \/ EvictDone \/ ReserveDone \/ CancelsDone
  <2>1. UNCHANGED <<client, decode, net>> /\ UNCHANGED <<mode, pcP, xfer>>
        /\ UNCHANGED <<reply, pce, pbatch, pprev, out, first, active, pheld>>
    BY <1>1 DEF RecvRepliesDone, EvictDone, ReserveDone, CancelsDone, net, prefill
  <2>2. Posted' = Posted /\ Writing' = Writing
    BY <2>1 DEF Posted, Writing
  <2>3. HeldInv'
    BY <1>h, <2>1, <2>2, HeldSame
  <2>4. QED BY <2>1, <2>3, PhasesOnly
<1>2. CASE RecvRequestsDone \/ PrefillBuilt
  <2>1. UNCHANGED <<client, decode, net>> /\ UNCHANGED <<mode, xfer>>
        /\ UNCHANGED <<reply, pce, pbatch, pprev, out, first, active, pheld>>
        /\ pcP # "reply" /\ pcP' # "reply"
    BY <1>2 DEF RecvRequestsDone, PrefillBuilt, net, prefill
  <2>2. Posted' = Posted /\ Writing' = Writing /\ Bat' = Bat /\ Prev' = Prev /\ Out' = Out
    BY <2>1 DEF Posted, Writing, Bat, Prev, Out
  <2>3. HeldInv'
    BY <1>h, <2>1, <2>2 DEF HeldInv
  <2>4. QED BY <2>1, <2>3, PhasesOnly
<1>3. CASE RepliesDone
  <2>1. UNCHANGED <<client, decode, net>> /\ UNCHANGED <<mode, xfer>>
        /\ UNCHANGED <<reply, pce, pbatch, pprev, out, active, pheld>>
        /\ pcP = "reply" /\ pcP' = "recv" /\ out = <<>> /\ first' = first \cup Prev
    BY <1>3 DEF RepliesDone, net, Prev
  <2>2. Posted' = Posted /\ Writing' = Writing /\ Bat' = Bat /\ Prev' = Prev /\ Out' = Out
    BY <2>1 DEF Posted, Writing, Bat, Prev, Out
  <2>3. first = {}
    BY <1>h, <2>1, EmptyFacts DEF HeldInv, Out
  <2>4. HeldInv'
    BY <1>h, <2>1, <2>2, <2>3 DEF HeldInv
  <2>5. QED BY <2>1, <2>4, PhasesOnly
<1>4. QED BY <1>1, <1>2, <1>3

\* A step of the prefill node in which no message and no transfer is sent.
LEMMA PrefillOnly ==
  ASSUME TypeOK, Rest, PipeInv', HeldInv', UNCHANGED <<client, decode, net>>,
         UNCHANGED <<mode, reply>>
  PROVE  Rest'
<1>r. PipeInv /\ LiveInv /\ DstInv /\ PhaseInv /\ HeldInv /\ FinalInv
  BY DEF Rest
<1>a. UNCHANGED <<d2p, p2d, xfer>>
  BY DEF net
<1>u. /\ LiveInv' /\ FinalInv' /\ Started' = Started /\ InFlight' = InFlight
      /\ UNCHANGED <<api, pending, phase, own, replica, accepted>>
  BY <1>r, Unseen
<1>1. Posted' = Posted /\ Writing' = Writing
  BY <1>a DEF Posted, Writing
<1>2. DstInv'
  BY <1>r, <1>a, <1>u, <1>1, DstSame
<1>3. PhaseInv'
  BY <1>r, <1>u, <1>1, PhaseSame
<1>4. QED BY <1>u, <1>2, <1>3 DEF Rest

\* Landed transfers give their source blocks back.
LEMMA CleanupRest == ASSUME TypeOK, Rest, CleanupTransfers PROVE Rest'
<1>r. PipeInv /\ HeldInv
  BY DEF Rest
<1> DEFINE S == {r \in active : Landed(r)}
<1>a. /\ active' = active \ S /\ ReleasePrefill(S) /\ pcP = "clean" /\ pcP' = "build"
      /\ UNCHANGED <<client, decode, net>> /\ UNCHANGED <<mode, xfer, d2p, p2d>>
      /\ UNCHANGED <<reply, pce, pbatch, pprev, out, first>>
      /\ UNCHANGED <<api, pending, accepted>>
  BY DEF CleanupTransfers, net, client, decode
<1>1. S \cap Writing = {} /\ S \subseteq active
  BY DEF Landed, Writing
<1> HIDE DEF S
<1>2. /\ Posted' = Posted /\ Writing' = Writing /\ Bat' = Bat /\ Prev' = Prev /\ Out' = Out
      /\ Started' = Started /\ Asks' = Asks
  BY <1>a DEF Posted, Writing, Bat, Prev, Out, Started, Asks
<1>3. PipeInv'
  <2>1. Once(d2p', "prefill")
    BY <1>r, <1>a DEF PipeInv, QueuesInv
  <2>2. QED BY <1>r, <1>a, <1>2, <2>1, PipeSame
<1>4. active \cap (Bat \cup Prev \cup Out) = {}
  BY <1>r DEF PipeInv, StagesInv, OnPrefill, HeldInv
<1>5. \A r \in Requests : pheld'[r] > 0 <=> r \in Bat' \cup Prev' \cup Out' \cup active'
  <2>1. \A r \in Requests : pheld'[r] = IF r \in S THEN 0 ELSE pheld[r]
    BY <1>a DEF ReleasePrefill
  <2>2. ~(0 > 0)
    OBVIOUS
  <2>3. SUFFICES ASSUME NEW r \in Requests
                 PROVE  pheld'[r] > 0 <=> r \in Bat \cup Prev \cup Out \cup (active \ S)
    BY <1>a, <1>2
  <2>4. pheld[r] > 0 <=> r \in Bat \cup Prev \cup Out \cup active
    BY <1>r DEF HeldInv
  <2>5. CASE r \in S
    BY <1>1, <1>4, <2>1, <2>2, <2>5
  <2>6. CASE r \notin S
    BY <2>1, <2>4, <2>6
  <2>7. QED BY <2>5, <2>6
<1>6. HeldInv'
  BY <1>r, <1>a, <1>1, <1>2, <1>5 DEF HeldInv
<1>7. QED BY <1>a, <1>3, <1>6, PrefillOnly

\* A prompt takes its blocks.
LEMMA AdmitRest == ASSUME TypeOK, Rest, NEW r \in Requests, PrefillAdmit(r) PROVE Rest'
<1>r. PipeInv /\ HeldInv
  BY DEF Rest
<1>a. /\ pcP = "build" /\ pcP' = pcP /\ pheld' = [pheld EXCEPT ![r] = Need[r]]
      /\ pbatch' = Append(pbatch, r)
      /\ UNCHANGED <<client, decode, net>> /\ UNCHANGED <<mode, xfer>>
      /\ UNCHANGED <<reply, pprev, out, first, active>>
  BY DEF PrefillAdmit, net
<1>1. PipeInv'
  BY <1>r, PipeAdmit
<1>2. Posted' = Posted /\ Writing' = Writing /\ Prev' = Prev /\ Out' = Out
  BY <1>a DEF Posted, Writing, Prev, Out
<1>3. Bat' = Bat \cup {r}
  <2>1. pbatch \in Seq(Requests)
    BY QueueTypes
  <2>2. QED BY <1>a, <2>1, AppendFacts DEF Bat
<1>4. \A x \in Requests : pheld'[x] > 0 <=> x \in Bat' \cup Prev' \cup Out' \cup active'
  <2>1. pheld'[r] = Need[r] /\ \A x \in Requests : x # r => pheld'[x] = pheld[x]
    BY <1>a DEF TypeOK
  <2>2. Need[r] > 0
    BY SizeAssumption
  <2>3. SUFFICES ASSUME NEW x \in Requests
                 PROVE  pheld'[x] > 0 <=> x \in (Bat \cup {r}) \cup Prev \cup Out \cup active
    BY <1>a, <1>2, <1>3
  <2>4. pheld[x] > 0 <=> x \in Bat \cup Prev \cup Out \cup active
    BY <1>r DEF HeldInv
  <2>5. CASE x = r
    BY <2>1, <2>2, <2>5
  <2>6. CASE x # r
    BY <2>1, <2>4, <2>6
  <2>7. QED BY <2>5, <2>6
<1>5. HeldInv'
  BY <1>r, <1>a, <1>2, <1>4 DEF HeldInv
<1>6. QED BY <1>a, <1>1, <1>5, PrefillOnly

\* The batch is executed.
LEMMA RunRest == ASSUME TypeOK, Rest, PrefillRun PROVE Rest'
<1>r. PipeInv /\ HeldInv
  BY DEF Rest
<1>a. /\ pcP = "run" /\ pbatch' = <<>>
      /\ \/ pbatch = <<>> /\ pcP' = "recv" /\ UNCHANGED <<pprev, out>>
         \/ mode.overlap /\ out' = pprev /\ pprev' = pbatch /\ pcP' = "reply"
         \/ ~mode.overlap /\ out' = pbatch /\ UNCHANGED pprev /\ pcP' = "reply"
      /\ UNCHANGED <<client, decode, net>> /\ UNCHANGED <<mode, xfer>>
      /\ UNCHANGED <<reply, first, active, pheld>>
  BY DEF PrefillRun, net
<1>1. PipeInv'
  BY <1>r, PipeRun
<1>2. Posted' = Posted /\ Writing' = Writing /\ Bat' = {}
  BY <1>a, EmptyFacts DEF Posted, Writing, Bat
<1>3. out = <<>> /\ Out = {} /\ first = Prev /\ (~mode.overlap => pprev = <<>> /\ Prev = {})
  BY <1>r, <1>a, EmptyFacts DEF HeldInv, Out, Prev
<1>4. CASE pbatch = <<>> /\ pcP' = "recv" /\ UNCHANGED <<pprev, out>>
  <2>1. Bat = {} /\ Prev' = Prev /\ Out' = Out
    BY <1>4, EmptyFacts DEF Bat, Prev, Out
  <2>2. HeldInv'
    BY <1>r, <1>a, <1>2, <1>3, <1>4, <2>1 DEF HeldInv
  <2>3. QED BY <1>a, <1>1, <2>2, PrefillOnly
<1>5. CASE mode.overlap /\ out' = pprev /\ pprev' = pbatch /\ pcP' = "reply"
  <2>1. Prev' = Bat /\ Out' = Prev
    BY <1>5 DEF Bat, Prev, Out
  <2>2. HeldInv'
    BY <1>r, <1>a, <1>2, <1>3, <1>5, <2>1 DEF HeldInv
  <2>3. QED BY <1>a, <1>1, <2>2, PrefillOnly
<1>6. CASE ~mode.overlap /\ out' = pbatch /\ UNCHANGED pprev /\ pcP' = "reply"
  <2>1. Prev' = Prev /\ Out' = Bat
    BY <1>6 DEF Bat, Prev, Out
  <2>2. HeldInv'
    BY <1>r, <1>a, <1>2, <1>3, <1>6, <2>1 DEF HeldInv
  <2>3. QED BY <1>a, <1>1, <2>2, PrefillOnly
<1>7. QED BY <1>a, <1>4, <1>5, <1>6

\* The first response of the batch is dropped or sent on: into the blocks that
\* the decode node has reserved, as long as the request is in flight there.
LEMMA ReplyRest == ASSUME TypeOK, Rest, NEW r \in Requests, PrefillReply(r) PROVE Rest'
<1>r. PipeInv /\ LiveInv /\ DstInv /\ PhaseInv /\ HeldInv /\ FinalInv
  BY DEF Rest
<1>a. /\ pcP = "reply" /\ pcP' = pcP /\ out # <<>> /\ r = Head(out) /\ out' = Tail(out)
      /\ first' = first \ {r}
      /\ UNCHANGED <<client, decode>> /\ UNCHANGED <<mode, d2p, pce, pbatch, pprev>>
  BY DEF PrefillReply
<1>b. /\ reply' = {c \in reply : c.id # r}
      /\ \/ ReleasePrefill({r}) /\ UNCHANGED <<xfer, active>>
         \/ /\ xfer' = [x \in Posted \cup {r} |-> IF x = r THEN Transfer(r) ELSE xfer[x]]
            /\ active' = active \cup {r} /\ pheld' = pheld
  BY <1>r, ReplyDue DEF Initiate, Posted
<1>u. /\ LiveInv' /\ FinalInv' /\ Started' = Started /\ InFlight' = InFlight
      /\ UNCHANGED <<api, pending, phase, own, replica, accepted>>
  BY <1>r, <1>a, Unseen
<1>1. PipeInv'
  BY <1>r, PipeReply
<1>2. Bat' = Bat /\ Prev' = Prev
  BY <1>a DEF Bat, Prev
<1>3. Out = Out' \cup {r} /\ r \notin Out'
  <2>1. out \in Seq(Requests) /\ Distinct(out)
    BY <1>r, QueueTypes DEF PipeInv, QueuesInv
  <2>2. QED BY <1>a, <2>1, TailFacts DEF Out
<1>4. r \notin Bat /\ r \notin Prev /\ r \notin Posted /\ r \notin active /\ r \notin accepted
      /\ r \in Contexts
  BY <1>r, <1>3 DEF PipeInv, StagesInv, AnswersInv, OnPrefill, HeldInv
<1>5. \/ Posted' = Posted /\ xfer' = xfer
      \/ /\ Posted' = Posted \cup {r} /\ xfer'[r] = Transfer(r)
         /\ \A x \in Posted : xfer'[x] = xfer[x]
  <2>1. CASE xfer' = xfer
    BY <2>1 DEF Posted
  <2>2. CASE xfer' = [x \in Posted \cup {r} |-> IF x = r THEN Transfer(r) ELSE xfer[x]]
    <3> DEFINE P == Posted
    <3>1. DOMAIN xfer' = P \cup {r} /\ xfer'[r] = Transfer(r)
          /\ \A x \in P : xfer'[x] = IF x = r THEN Transfer(r) ELSE xfer[x]
      <4> HIDE DEF P
      <4>1. xfer' = [x \in P \cup {r} |-> IF x = r THEN Transfer(r) ELSE xfer[x]]
        BY <2>2 DEF P
      <4>2. QED BY <4>1
    <3>2. QED BY <1>4, <3>1 DEF Posted
  <2>3. QED BY <1>b, <2>1, <2>2
<1>6. Writing' \subseteq Writing \cup {r} /\ (xfer' = xfer => Writing' = Writing)
  BY <1>5 DEF Writing, Posted
<1>7. DstInv'
  <2>1. r \in InFlight => Transfer(r).dst = own[r]
    <3> DEFINE c == CHOOSE c \in reply : c.id = r
    <3>1. \E x \in reply : x.id = r
      BY <1>4 DEF Contexts
    <3>2. c \in reply /\ c.id = r
      BY <3>1
    <3>3. Transfer(r).dst = c.dst
      BY DEF Transfer
    <3> HIDE DEF c
    <3>4. QED BY <1>r, <3>2, <3>3 DEF DstInv
  <2>2. \A m \in ToSet(d2p') : m.type = "prefill" /\ m.id \in InFlight' => m.dst = own'[m.id]
    BY <1>r, <1>a, <1>u DEF DstInv
  <2>3. \A c \in reply' : c.id \in InFlight' => c.dst = own'[c.id]
    BY <1>r, <1>b, <1>u DEF DstInv
  <2>4. \A x \in Posted' \cap InFlight' : xfer'[x].dst = own'[x]
    BY <1>r, <1>u, <1>5, <2>1 DEF DstInv
  <2>5. QED BY <2>2, <2>3, <2>4 DEF DstInv
<1>8. PhaseInv'
  BY <1>r, <1>a, <1>u, <1>4, <1>6, PhaseSame
<1>9. HeldInv'
  <2>1. CASE ReleasePrefill({r}) /\ UNCHANGED <<xfer, active>>
    <3>1. \A x \in Requests : pheld'[x] > 0 <=> x \in Bat' \cup Prev' \cup Out' \cup active'
      <4>1. pheld'[r] = 0 /\ \A x \in Requests : x # r => pheld'[x] = pheld[x]
        BY <2>1 DEF ReleasePrefill
      <4>2. ~(0 > 0)
        OBVIOUS
      <4>3. SUFFICES ASSUME NEW x \in Requests
                     PROVE  pheld'[x] > 0 <=> x \in Bat \cup Prev \cup Out' \cup active
        BY <1>2, <2>1
      <4>4. pheld[x] > 0 <=> x \in Bat \cup Prev \cup Out \cup active
        BY <1>r DEF HeldInv
      <4>5. CASE x = r
        BY <1>3, <1>4, <4>1, <4>2, <4>5
      <4>6. CASE x # r
        BY <1>3, <4>1, <4>4, <4>6
      <4>7. QED BY <4>5, <4>6
    <3>2. Posted' = Posted /\ Writing' = Writing
      BY <2>1 DEF Posted, Writing
    <3>3. QED BY <1>r, <1>a, <1>2, <1>3, <2>1, <3>1, <3>2 DEF HeldInv
  <2>2. CASE active' = active \cup {r} /\ pheld' = pheld
             /\ xfer' = [x \in Posted \cup {r} |-> IF x = r THEN Transfer(r) ELSE xfer[x]]
    <3>1. Bat' \cup Prev' \cup Out' \cup active' = Bat \cup Prev \cup Out \cup active
      BY <1>2, <1>3, <2>2
    <3>2. \A x \in Requests : pheld'[x] > 0 <=> x \in Bat' \cup Prev' \cup Out' \cup active'
      BY <1>r, <2>2, <3>1 DEF HeldInv
    <3>3. Posted' = Posted \cup {r}
      BY <2>2 DEF Posted
    <3>4. QED BY <1>r, <1>a, <1>2, <1>3, <1>6, <2>2, <3>2, <3>3 DEF HeldInv
  <2>3. QED BY <1>b, <2>1, <2>2
<1>10. QED BY <1>u, <1>1, <1>7, <1>8, <1>9 DEF Rest

\* Every step keeps the invariant without the types.
LEMMA RestStep == ASSUME TypeOK, Rest, Next PROVE Rest'
<1>1. CASE DecodeStep
  <2>1. ASSUME NEW r \in Requests, Reserve(r) \/ HandleCancel(r) PROVE Rest'
    BY <2>1, ReserveRest, CancelRest
  <2>2. QED BY <1>1, <2>1, RecvReplyRest, PhaseEndRest, CheckRest, DecodeRest DEF DecodeStep
<1>2. CASE PrefillStep
  <2>1. ASSUME NEW r \in Requests, PrefillAdmit(r) \/ PrefillReply(r) PROVE Rest'
    BY <2>1, AdmitRest, ReplyRest
  <2>2. QED BY <1>2, <2>1, RecvRest, PhaseEndRest, CleanupRest, RunRest DEF PrefillStep
<1>3. ASSUME NEW r \in Requests, Submit(r) \/ Abandon(r) \/ Evict(r) \/ TransferLands(r)
      PROVE  Rest'
  BY <1>3, SubmitRest, AbandonRest, EvictRest, LandsRest
<1>4. QED BY <1>1, <1>2, <1>3, LoseRest DEF Next

-----------------------------------------------------------------------------
(* Types *)

\* The parts of TypeOK: clients and phases, queues, the decode node, the prefill
\* node.
LoopTypes ==
  /\ mode \in Modes
  /\ api \in [Requests -> {"new", "open", "gone", "ended"}]
  /\ finals \in [Requests -> Nat] /\ cancelQ \subseteq Requests
  /\ pcD \in {"recv", "evict", "reserve", "cancel", "check", "run"}
  /\ pcP \in {"recv", "clean", "build", "run", "reply", "dead"}
  /\ dconn \in {"none", "sent", "connected"} /\ pconn \in BOOLEAN
SeqTypes ==
  /\ pending \in Seq(Requests) /\ pce \in Seq(Requests) /\ pbatch \in Seq(Requests)
  /\ pprev \in Seq(Requests) /\ out \in Seq(Requests)
  /\ d2p \in Seq(Message) /\ p2d \in Seq(Message)
BookTypes ==
  /\ cancelled \subseteq Requests /\ tg \subseteq Requests /\ accepted \subseteq Requests
  /\ phase \in [Requests -> {"none", "await", "transfer"}]
  /\ replica \in [Requests -> Replicas] /\ own \in [Requests -> SUBSET DecodeBlocks]
  /\ dfree \in [Replicas -> SUBSET DecodeBlocks] /\ inPrefill \in [Replicas -> Nat]
NodeTypes ==
  /\ pcancel \subseteq Requests /\ first \subseteq Requests /\ active \subseteq Requests
  /\ Posted \subseteq Requests /\ xfer \in [Posted -> TransferRecord] /\ reply \subseteq Context
  /\ pheld \in [Requests -> 0..PrefillPool] /\ Cardinality(PrefillUsed) <= PrefillPool

\* They are all of it.
LEMMA TypeParts == TypeOK <=> LoopTypes /\ SeqTypes /\ BookTypes /\ NodeTypes
<1>1. TypeOK => LoopTypes /\ SeqTypes /\ BookTypes /\ NodeTypes
  BY DEF TypeOK, LoopTypes, SeqTypes, BookTypes, NodeTypes, Message, TransferRecord, Context, Posted
<1>2. LoopTypes /\ SeqTypes /\ BookTypes /\ NodeTypes => TypeOK
  BY DEF TypeOK, LoopTypes, SeqTypes, BookTypes, NodeTypes, Message, TransferRecord, Context, Posted
<1>3. QED BY <1>1, <1>2

\* The same for the next state.
LEMMA TypePartsNext ==
  ASSUME LoopTypes', SeqTypes', BookTypes', NodeTypes' PROVE TypeOK'
BY DEF TypeOK, LoopTypes, SeqTypes, BookTypes, NodeTypes, Message, TransferRecord, Context, Posted

\* A part is kept by steps that leave its variables alone.
LEMMA SeqTypesSame ==
  ASSUME SeqTypes, UNCHANGED <<pending, pce, pbatch, pprev, out, d2p, p2d>> PROVE SeqTypes'
BY DEF SeqTypes

\* So is the decode node's part,
LEMMA BookTypesSame == ASSUME BookTypes, UNCHANGED decode PROVE BookTypes'
BY DEF BookTypes, decode

\* and the part about the prefill node and the transfers.
LEMMA NodeTypesSame ==
  ASSUME NodeTypes, UNCHANGED <<xfer, reply, pcancel, first, active, pheld>> PROVE NodeTypes'
<1>1. PrefillUsed' = PrefillUsed /\ Posted' = Posted
  BY DEF PrefillUsed, Posted
<1>2. QED BY <1>1 DEF NodeTypes

\* Sets of blocks of the prefill node are finite.
LEMMA UsedFinite ==
  /\ IsFiniteSet(Requests \X (1..PrefillPool))
  /\ IsFiniteSet(PrefillUsed) /\ Cardinality(PrefillUsed) \in Nat
  /\ IsFiniteSet(PrefillUsed') /\ Cardinality(PrefillUsed') \in Nat
<1>1. IsFiniteSet(1..PrefillPool)
  BY SizeAssumption, FS_Interval
<1>2. IsFiniteSet(Requests \X (1..PrefillPool))
  BY <1>1, SizeAssumption, FS_Product
<1>3. PrefillUsed \in SUBSET (Requests \X (1..PrefillPool))
      /\ PrefillUsed' \in SUBSET (Requests \X (1..PrefillPool))
  BY DEF PrefillUsed
<1>4. IsFiniteSet(PrefillUsed) /\ IsFiniteSet(PrefillUsed')
  BY <1>2, <1>3, FS_Subset
<1>5. QED BY <1>2, <1>4, FS_CardinalityType

\* Releasing blocks.
LEMMA ReleaseUsed ==
  ASSUME NodeTypes, NEW S, ReleasePrefill(S)
  PROVE  pheld' \in [Requests -> 0..PrefillPool] /\ Cardinality(PrefillUsed') <= PrefillPool
<1>t. pheld \in [Requests -> 0..PrefillPool] /\ Cardinality(PrefillUsed) <= PrefillPool
      /\ PrefillPool \in Nat
  BY SizeAssumption DEF NodeTypes
<1>1. 0 \in 0..PrefillPool
  BY <1>t
<1>2. pheld' \in [Requests -> 0..PrefillPool]
  BY <1>1, <1>t DEF ReleasePrefill
<1>3. PrefillUsed' \in SUBSET PrefillUsed
  <2>1. SUFFICES ASSUME NEW u \in Requests \X (1..PrefillPool), u[2] <= pheld'[u[1]]
                 PROVE  u[2] <= pheld[u[1]]
    BY DEF PrefillUsed
  <2>2. u[1] \in Requests /\ u[2] \in 1..PrefillPool
    OBVIOUS
  <2>3. pheld'[u[1]] = 0 \/ pheld'[u[1]] = pheld[u[1]]
    BY <2>2 DEF ReleasePrefill
  <2>4. u[2] >= 1
    BY <1>t, <2>2
  <2>5. u[2] \in Nat
    BY <1>t, <2>2
  <2>6. ~(u[2] <= 0)
    BY <2>4, <2>5
  <2>7. QED BY <2>1, <2>3, <2>6
<1>4. Cardinality(PrefillUsed') <= Cardinality(PrefillUsed)
  BY <1>3, UsedFinite, FS_Subset
<1>5. Cardinality(PrefillUsed') <= PrefillPool
  BY <1>t, <1>4, UsedFinite
<1>6. QED BY <1>2, <1>5

\* Taking blocks that are free.
LEMMA AdmitUsed ==
  ASSUME NodeTypes, NEW r \in Requests, Need[r] <= PrefillFree,
         pheld' = [pheld EXCEPT ![r] = Need[r]]
  PROVE  pheld' \in [Requests -> 0..PrefillPool] /\ Cardinality(PrefillUsed') <= PrefillPool
<1> DEFINE A == PrefillUsed
           B == {r} \X (1..Need[r])
<1>t. pheld \in [Requests -> 0..PrefillPool] /\ PrefillPool \in Nat /\ Need[r] \in Nat
  BY SizeAssumption DEF NodeTypes
<1>c. Cardinality(A) \in Nat /\ IsFiniteSet(A)
  BY UsedFinite
<1>f. Need[r] <= PrefillPool - Cardinality(A)
  BY DEF PrefillFree
<1>1. Need[r] \in 0..PrefillPool
  <2> HIDE DEF A
  <2>1. QED BY <1>t, <1>c, <1>f
<1>2. pheld' \in [Requests -> 0..PrefillPool]
  BY <1>1, <1>t
<1>3. PrefillUsed' \in SUBSET (A \cup B)
  <2>1. SUFFICES ASSUME NEW u \in PrefillUsed', u \notin A PROVE u \in B
    OBVIOUS
  <2>2. PICK x \in Requests, i \in 1..PrefillPool : u = <<x, i>>
    BY DEF PrefillUsed
  <2>3. i <= pheld'[x]
    BY <2>1, <2>2 DEF PrefillUsed
  <2>a. ~(i <= pheld[x])
    BY <2>1, <2>2 DEF PrefillUsed, A
  <2>4. x = r /\ i <= Need[r]
    BY <1>t, <2>3, <2>a
  <2>5. i \in 1..Need[r]
    BY <1>t, <2>4
  <2>6. QED BY <2>2, <2>4, <2>5
<1>4. IsFiniteSet(B) /\ Cardinality(B) = Need[r]
  <2>1. IsFiniteSet({r}) /\ Cardinality({r}) = 1
    BY FS_Singleton
  <2> DEFINE n == Need[r]
  <2> HIDE DEF n
  <2>2. ASSUME NEW k \in Nat PROVE IsFiniteSet(1..k) /\ Cardinality(1..k) = k
    BY FS_Interval
  <2>a. n \in Nat /\ B = {r} \X (1..n)
    BY <1>t DEF n
  <2>b. IsFiniteSet(1..n) /\ Cardinality(1..n) = n
    BY <2>2, <2>a
  <2>3. IsFiniteSet({r} \X (1..n)) /\ Cardinality({r} \X (1..n)) = 1 * n
    <3> DEFINE I == 1..n
               R == {r}
    <3>1. IsFiniteSet(R) /\ Cardinality(R) = 1 /\ IsFiniteSet(I) /\ Cardinality(I) = n
      BY <2>1, <2>b
    <3> HIDE DEF I, R
    <3>2. IsFiniteSet(R \X I) /\ Cardinality(R \X I) = 1 * n
      BY <3>1, FS_Product
    <3>3. QED BY <3>2 DEF I, R
  <2> HIDE DEF B
  <2>c. 1 * n = n
    BY <2>a
  <2>4. QED BY <2>3, <2>a, <2>c DEF n
<1> HIDE DEF A, B
<1>5. Cardinality(A \cup B) = Cardinality(A) + Cardinality(B) - Cardinality(A \cap B)
      /\ IsFiniteSet(A \cup B)
  BY <1>c, <1>4, FS_Union
<1>6. Cardinality(A \cap B) \in Nat
  <2>1. IsFiniteSet(A \cap B)
    BY <1>c, FS_Subset
  <2>2. QED BY <2>1, FS_CardinalityType
<1>7. Cardinality(PrefillUsed') <= Cardinality(A \cup B)
  BY <1>3, <1>5, FS_Subset
<1>8. Cardinality(PrefillUsed') <= PrefillPool
  BY <1>t, <1>c, <1>f, <1>4, <1>5, <1>6, <1>7, UsedFinite
<1>9. QED BY <1>2, <1>8

\* A final result, or none, keeps the clients' types.
LEMMA ToldTypes ==
  ASSUME TypeOK, NEW S, Final(S) \/ UNCHANGED <<api, finals>>
  PROVE  api' \in [Requests -> {"new", "open", "gone", "ended"}] /\ finals' \in [Requests -> Nat]
<1>1. CASE Final(S)
  BY <1>1, FinalFacts
<1>2. CASE UNCHANGED <<api, finals>>
  BY <1>2 DEF TypeOK
<1>3. QED BY <1>1, <1>2

\* Every step keeps the types of the clients and of the loops' phases.
LEMMA LoopStep == ASSUME TypeOK, Next PROVE LoopTypes'
<1>t. LoopTypes
  BY TypeParts
<1>1. ASSUME RecvRepliesDone \/ EvictDone \/ ReserveDone \/ CancelsDone \/ CheckTransfers
             \/ RecvRequestsDone \/ CleanupTransfers \/ PrefillBuilt \/ PrefillRun \/ RepliesDone
             \/ LoseReply
      PROVE  LoopTypes'
  <2>1. UNCHANGED <<api, finals, cancelQ>> /\ UNCHANGED <<mode, dconn, pconn>>
    BY <1>1 DEF RecvRepliesDone, EvictDone, ReserveDone, CancelsDone, CheckTransfers,
         RecvRequestsDone, CleanupTransfers, PrefillBuilt, PrefillRun, RepliesDone, LoseReply,
         client, net
  <2>2. pcD' \in {"recv", "evict", "reserve", "cancel", "check", "run"}
    BY <1>1, <1>t DEF RecvRepliesDone, EvictDone, ReserveDone, CancelsDone, CheckTransfers,
         RecvRequestsDone, CleanupTransfers, PrefillBuilt, PrefillRun, RepliesDone, LoseReply,
         LoopTypes
  <2>3. pcP' \in {"recv", "clean", "build", "run", "reply", "dead"}
    BY <1>1, <1>t DEF RecvRepliesDone, EvictDone, ReserveDone, CancelsDone, CheckTransfers,
         RecvRequestsDone, CleanupTransfers, PrefillBuilt, PrefillRun, RepliesDone, LoseReply,
         LoopTypes
  <2>4. QED BY <1>t, <2>1, <2>2, <2>3 DEF LoopTypes
<1>2. CASE RecvRequest
  <2>1. UNCHANGED <<mode, api, finals, cancelQ, pcD, pcP, dconn>> /\ pconn' \in {pconn, TRUE}
    BY <1>2 DEF RecvRequest, client
  <2>2. QED BY <1>t, <2>1 DEF LoopTypes
<1>3. CASE RecvReply
  <2>1. UNCHANGED <<mode, cancelQ, pcD, pcP, pconn>> /\ dconn' \in {dconn, "connected"}
        /\ (Final({Head(p2d).id} \cap Short) \/ UNCHANGED <<api, finals>>)
    BY <1>3 DEF RecvReply
  <2>2. QED BY <1>t, <2>1, ToldTypes DEF LoopTypes
<1>4. CASE DecodeRun
  <2>1. UNCHANGED <<mode, cancelQ, pcP, dconn, pconn>> /\ pcD' = "recv" /\ \E done : Final(done)
    BY <1>4 DEF DecodeRun, net
  <2>2. QED BY <1>t, <2>1, ToldTypes DEF LoopTypes
<1>5. ASSUME NEW r \in Requests, Reserve(r) \/ PrefillAdmit(r) \/ PrefillReply(r) \/ TransferLands(r)
      PROVE  LoopTypes'
  <2>1. UNCHANGED <<mode, api, finals, cancelQ, pcD, pcP, pconn>> /\ dconn' \in {dconn, "sent"}
    BY <1>5 DEF Reserve, PrefillAdmit, PrefillReply, TransferLands, client, net
  <2>2. QED BY <1>t, <2>1 DEF LoopTypes
<1>6. ASSUME NEW r \in Requests, Evict(r) \/ HandleCancel(r) PROVE LoopTypes'
  <2>1. UNCHANGED <<mode, pcD, pcP, dconn, pconn>> /\ cancelQ' \in {cancelQ, cancelQ \ {r}}
        /\ (Final({r}) \/ UNCHANGED <<api, finals>>)
    BY <1>6 DEF Evict, HandleCancel
  <2>2. QED BY <1>t, <2>1, ToldTypes DEF LoopTypes
<1>7. ASSUME NEW r \in Requests, Submit(r) \/ Abandon(r) PROVE LoopTypes'
  <2>1. /\ UNCHANGED <<mode, finals, pcD, pcP, dconn, pconn>>
        /\ api' = [api EXCEPT ![r] = "open"] \/ api' = [api EXCEPT ![r] = "gone"]
        /\ cancelQ' \in {cancelQ, cancelQ \cup {r}}
    BY <1>7 DEF Submit, Abandon, net
  <2>2. api' \in [Requests -> {"new", "open", "gone", "ended"}]
    BY <1>t, <2>1 DEF LoopTypes
  <2>3. QED BY <1>t, <2>1, <2>2 DEF LoopTypes
<1>8. QED BY <1>1, <1>2, <1>3, <1>4, <1>5, <1>6, <1>7 DEF Next, DecodeStep, PrefillStep

\* Every step keeps the types of the queues.
LEMMA SeqStep == ASSUME TypeOK, Rest, Next PROVE SeqTypes'
<1>t. SeqTypes /\ PipeInv
  BY TypeParts DEF Rest
<1>m. \A type \in {"cancel", "metadata", "response"}, r \in Requests : Msg(type, r, {}) \in Message
  BY DEF Msg, Message
<1>1. ASSUME RecvRepliesDone \/ EvictDone \/ ReserveDone \/ CancelsDone \/ CheckTransfers
             \/ DecodeRun \/ RecvRequestsDone \/ CleanupTransfers \/ PrefillBuilt \/ RepliesDone
      PROVE  SeqTypes'
  <2>1. UNCHANGED <<pending, pce, pbatch, pprev, out, d2p, p2d>>
    BY <1>1 DEF RecvRepliesDone, EvictDone, ReserveDone, CancelsDone, CheckTransfers, DecodeRun,
         RecvRequestsDone, CleanupTransfers, PrefillBuilt, RepliesDone, decode, net, prefill
  <2>2. QED BY <1>t, <2>1, SeqTypesSame
<1>2. ASSUME NEW r \in Requests, TransferLands(r) \/ Abandon(r) PROVE SeqTypes'
  <2>1. UNCHANGED <<pending, pce, pbatch, pprev, out, d2p, p2d>>
    BY <1>2 DEF TransferLands, Abandon, decode, net, prefill
  <2>2. QED BY <1>t, <2>1, SeqTypesSame
<1>3. CASE PrefillRun
  <2>1. /\ UNCHANGED <<pending, pce, d2p, p2d>> /\ pbatch' = <<>>
        /\ pprev' \in {pprev, pbatch} /\ out' \in {out, pprev, pbatch}
    BY <1>3 DEF PrefillRun, decode, net
  <2>2. QED BY <1>t, <2>1 DEF SeqTypes
<1>4. CASE RecvReply \/ LoseReply
  <2>1. UNCHANGED <<pending, pce, pbatch, pprev, out, d2p>> /\ p2d # <<>> /\ p2d' = Tail(p2d)
    BY <1>4 DEF RecvReply, LoseReply, decode, prefill
  <2>2. Tail(p2d) \in Seq(Message)
    BY <1>t, <2>1, ReceiveFacts DEF SeqTypes
  <2>3. QED BY <1>t, <2>1, <2>2 DEF SeqTypes
<1>5. CASE RecvRequest
  <2> DEFINE m == Head(d2p)
  <2>1. UNCHANGED <<pending, pbatch, pprev, out>> /\ d2p # <<>> /\ d2p' = Tail(d2p)
        /\ p2d' \in {p2d, Append(p2d, m)} /\ pce' \in {pce, Append(pce, m.id)}
    BY <1>5 DEF RecvRequest, decode
  <2>2. m \in Message /\ Tail(d2p) \in Seq(Message)
    BY <1>t, <2>1, ReceiveFacts DEF SeqTypes
  <2>3. m.id \in Requests
    BY <2>2 DEF Message
  <2> HIDE DEF m
  <2>4. Append(p2d, m) \in Seq(Message) /\ Append(pce, m.id) \in Seq(Requests)
    BY <1>t, <2>2, <2>3, AppendFacts DEF SeqTypes
  <2>5. QED BY <1>t, <2>1, <2>2, <2>4 DEF SeqTypes
<1>6. ASSUME NEW r \in Requests, Evict(r) \/ HandleCancel(r) PROVE SeqTypes'
  <2>1. UNCHANGED <<pending, pce, pbatch, pprev, out, p2d>>
        /\ (d2p' = d2p \/ d2p' = Append(d2p, Msg("cancel", r, {})))
    BY <1>6 DEF Evict, HandleCancel, prefill
  <2>2. d2p' \in Seq(Message)
    BY <1>t, <2>1, CancelSent
  <2>3. QED BY <1>t, <2>1, <2>2 DEF SeqTypes
<1>7. ASSUME NEW r \in Requests, Submit(r) PROVE SeqTypes'
  <2>1. UNCHANGED <<pce, pbatch, pprev, out, d2p, p2d>> /\ pending' = Append(pending, r)
    BY <1>7 DEF Submit, net, prefill
  <2>2. Append(pending, r) \in Seq(Requests)
    BY <1>t, AppendFacts DEF SeqTypes
  <2>3. QED BY <1>t, <2>1, <2>2 DEF SeqTypes
<1>8. ASSUME NEW r \in Requests, Reserve(r) PROVE SeqTypes'
  <2> DEFINE h == Msg("metadata", r, {})
             n == Msg("prefill", r, own'[r])
  <2>1. UNCHANGED <<pce, pbatch, pprev, out, p2d>> /\ pending # <<>> /\ pending' = Tail(pending)
        /\ d2p' \in {Append(d2p, n), Append(Append(d2p, h), n)}
    BY <1>8 DEF Reserve, MayReserve, prefill
  <2>2. own'[r] \in SUBSET DecodeBlocks
    BY <1>8, ReserveFacts DEF Rest
  <2>3. n \in Message /\ h \in Message
    BY <1>m, <2>2 DEF Msg, Message
  <2> HIDE DEF h, n
  <2>4. Append(d2p, h) \in Seq(Message) /\ Append(d2p, n) \in Seq(Message)
    BY <1>t, <2>3, AppendFacts DEF SeqTypes
  <2>5. Append(Append(d2p, h), n) \in Seq(Message)
    BY <2>3, <2>4, AppendFacts
  <2>6. Tail(pending) \in Seq(Requests)
    BY <1>t, <2>1, TailFacts DEF SeqTypes
  <2>7. QED BY <1>t, <2>1, <2>4, <2>5, <2>6 DEF SeqTypes
<1>9. ASSUME NEW r \in Requests, PrefillAdmit(r) PROVE SeqTypes'
  <2>1. UNCHANGED <<pending, pprev, out, d2p, p2d>> /\ pce # <<>> /\ pce' = Tail(pce)
        /\ pbatch' = Append(pbatch, r)
    BY <1>9 DEF PrefillAdmit, decode, net
  <2>2. Tail(pce) \in Seq(Requests) /\ Append(pbatch, r) \in Seq(Requests)
    BY <1>t, <2>1, TailFacts, AppendFacts DEF SeqTypes
  <2>3. QED BY <1>t, <2>1, <2>2 DEF SeqTypes
<1>10. ASSUME NEW r \in Requests, PrefillReply(r) PROVE SeqTypes'
  <2> DEFINE n == Msg("response", r, {})
  <2>1. UNCHANGED <<pending, pce, pbatch, pprev, d2p>> /\ out # <<>> /\ out' = Tail(out)
        /\ p2d' \in {p2d, Append(p2d, n)}
    BY <1>10 DEF PrefillReply, Initiate, decode
  <2>2. n \in Message
    BY <1>m
  <2> HIDE DEF n
  <2>3. Tail(out) \in Seq(Requests) /\ Append(p2d, n) \in Seq(Message)
    BY <1>t, <2>1, <2>2, TailFacts, AppendFacts DEF SeqTypes
  <2>4. QED BY <1>t, <2>1, <2>3 DEF SeqTypes
<1>11. QED
  BY <1>1, <1>2, <1>3, <1>4, <1>5, <1>6, <1>7, <1>8, <1>9, <1>10 DEF Next, DecodeStep, PrefillStep

\* Blocks go back to pools of blocks.
LEMMA ReleaseTypes ==
  ASSUME TypeOK, NEW S, S \subseteq Requests, ReleaseDecode(S)
  PROVE  own' \in [Requests -> SUBSET DecodeBlocks] /\ dfree' \in [Replicas -> SUBSET DecodeBlocks]
<1>t. own \in [Requests -> SUBSET DecodeBlocks] /\ dfree \in [Replicas -> SUBSET DecodeBlocks]
  BY DecodeTypes
<1>1. own' \in [Requests -> SUBSET DecodeBlocks]
  BY <1>t DEF ReleaseDecode
<1>2. \A p \in Replicas : dfree'[p] \subseteq DecodeBlocks
  BY <1>t DEF ReleaseDecode
<1>3. dfree' = [p \in Replicas |-> dfree'[p]]
  BY DEF ReleaseDecode
<1>4. QED BY <1>1, <1>2, <1>3

\* Every step keeps the types of the decode node.
LEMMA BookStep == ASSUME TypeOK, Rest, Next PROVE BookTypes'
<1>t. BookTypes /\ CountsMatch /\ LiveInv
  BY TypeParts DEF Rest, LiveInv
<1>i. InFlight \subseteq Requests
  BY DEF InFlight
<1>1. ASSUME RecvRepliesDone \/ EvictDone \/ ReserveDone \/ CancelsDone \/ LoseReply \/ RecvRequest
             \/ RecvRequestsDone \/ CleanupTransfers \/ PrefillBuilt \/ PrefillRun \/ RepliesDone
      PROVE  BookTypes'
  <2>1. UNCHANGED decode
    BY <1>1 DEF RecvRepliesDone, EvictDone, ReserveDone, CancelsDone, LoseReply, RecvRequest,
         RecvRequestsDone, CleanupTransfers, PrefillBuilt, PrefillRun, RepliesDone
  <2>2. QED BY <1>t, <2>1, BookTypesSame
<1>2. ASSUME NEW r \in Requests, \/ PrefillAdmit(r) \/ PrefillReply(r) \/ TransferLands(r)
                                 \/ Abandon(r)
      PROVE  BookTypes'
  <2>1. UNCHANGED decode
    BY <1>2 DEF PrefillAdmit, PrefillReply, TransferLands, Abandon
  <2>2. QED BY <1>t, <2>1, BookTypesSame
<1>3. ASSUME NEW r \in Requests, Submit(r) PROVE BookTypes'
  BY <1>t, <1>3 DEF Submit, BookTypes
<1>4. CASE RecvReply
  <2> DEFINE m == Head(p2d)
  <2>1. /\ UNCHANGED <<cancelled, tg, replica, own, dfree, inPrefill>> /\ p2d # <<>>
        /\ phase' \in {phase, [phase EXCEPT ![m.id] = "transfer"]}
        /\ accepted' \in {accepted, accepted \cup {m.id}}
    BY <1>4 DEF RecvReply
  <2>2. m \in Message
    BY <2>1, QueueTypes, ReceiveFacts
  <2>3. m.id \in Requests
    BY <2>2 DEF Message
  <2> HIDE DEF m
  <2>4. QED BY <1>t, <2>1, <2>3 DEF BookTypes
<1>5. CASE CheckTransfers
  <2> DEFINE S == {r \in Requests : phase[r] = "transfer" /\ Landed(r)}
  <2>1. /\ Forget(S) /\ ReleaseDecode(S \cap cancelled) /\ tg' = tg \cup (S \ cancelled)
        /\ UNCHANGED <<cancelled, replica, accepted>>
    BY <1>5 DEF CheckTransfers
  <2>2. S \subseteq InFlight /\ S \subseteq Requests
    BY DEF InFlight
  <2> HIDE DEF S
  <2>3. phase' \in [Requests -> {"none", "await", "transfer"}] /\ inPrefill' \in [Replicas -> Nat]
    BY <1>t, <2>1, <2>2, ForgetFacts
  <2>4. own' \in [Requests -> SUBSET DecodeBlocks] /\ dfree' \in [Replicas -> SUBSET DecodeBlocks]
    BY <2>1, <2>2, ReleaseTypes
  <2>5. QED BY <1>t, <2>1, <2>2, <2>3, <2>4 DEF BookTypes
<1>6. CASE DecodeRun
  <2>1. /\ UNCHANGED <<phase, cancelled, replica, inPrefill, accepted>>
        /\ \E done \in SUBSET tg : tg' = tg \ done /\ ReleaseDecode(done)
    BY <1>6 DEF DecodeRun
  <2>2. PICK done \in SUBSET tg : tg' = tg \ done /\ ReleaseDecode(done)
    BY <2>1
  <2>3. done \subseteq Requests
    BY <1>t DEF BookTypes
  <2>4. own' \in [Requests -> SUBSET DecodeBlocks] /\ dfree' \in [Replicas -> SUBSET DecodeBlocks]
    BY <2>2, <2>3, ReleaseTypes
  <2>5. QED BY <1>t, <2>1, <2>2, <2>4 DEF BookTypes
<1>7. ASSUME NEW r \in Requests, Evict(r) \/ HandleCancel(r) PROVE BookTypes'
  <2>1. /\ UNCHANGED <<replica, accepted>> /\ cancelled' \in {cancelled, cancelled \cup {r}}
        /\ tg' \in {tg, tg \ {r}}
        /\ (r \in InFlight /\ Forget({r})) \/ UNCHANGED <<phase, inPrefill>>
        /\ ReleaseDecode({r}) \/ UNCHANGED <<own, dfree>>
    <3>1. CASE Evict(r)
      BY <3>1 DEF Evict
    <3>2. CASE HandleCancel(r)
      <4>1. phase[r] = "await" => r \in InFlight
        BY DEF InFlight
      <4>2. QED BY <3>2, <4>1 DEF HandleCancel
    <3>3. QED BY <1>7, <3>1, <3>2
  <2>2. phase' \in [Requests -> {"none", "await", "transfer"}] /\ inPrefill' \in [Replicas -> Nat]
    <3>1. CASE r \in InFlight /\ Forget({r})
      <4>1. {r} \subseteq InFlight
        BY <3>1
      <4>2. QED BY <1>t, <2>1, <3>1, <4>1, ForgetFacts
    <3>2. CASE UNCHANGED <<phase, inPrefill>>
      BY <1>t, <3>2 DEF BookTypes
    <3>3. QED BY <2>1, <3>1, <3>2
  <2>3. own' \in [Requests -> SUBSET DecodeBlocks] /\ dfree' \in [Replicas -> SUBSET DecodeBlocks]
    <3>1. CASE ReleaseDecode({r})
      BY <3>1, ReleaseTypes
    <3>2. CASE UNCHANGED <<own, dfree>>
      BY <1>t, <3>2 DEF BookTypes
    <3>3. QED BY <2>1, <3>1, <3>2
  <2>4. QED BY <1>t, <2>1, <2>2, <2>3 DEF BookTypes
<1>8. ASSUME NEW r \in Requests, Reserve(r) PROVE BookTypes'
  <2>1. UNCHANGED <<cancelled, tg, accepted>>
    BY <1>8 DEF Reserve
  <2>2. /\ phase' \in [Requests -> {"none", "await", "transfer"}]
        /\ own' \in [Requests -> SUBSET DecodeBlocks] /\ dfree' \in [Replicas -> SUBSET DecodeBlocks]
        /\ replica' \in [Requests -> Replicas] /\ inPrefill' \in [Replicas -> Nat]
    BY <1>t, <1>8, ReserveFacts
  <2>3. QED BY <1>t, <2>1, <2>2 DEF BookTypes
<1>9. QED BY <1>1, <1>2, <1>3, <1>4, <1>5, <1>6, <1>7, <1>8 DEF Next, DecodeStep, PrefillStep

\* Every step keeps the types of the prefill node.
LEMMA NodeStep == ASSUME TypeOK, Rest, Next PROVE NodeTypes'
<1>t. NodeTypes
  BY TypeParts
<1>s. ASSUME UNCHANGED <<pheld>> PROVE PrefillUsed' = PrefillUsed
  BY <1>s DEF PrefillUsed
<1>1. ASSUME RecvReply \/ RecvRepliesDone \/ EvictDone \/ ReserveDone \/ CancelsDone
             \/ CheckTransfers \/ DecodeRun \/ LoseReply \/ RecvRequestsDone \/ PrefillBuilt
             \/ PrefillRun
      PROVE  NodeTypes'
  <2>1. UNCHANGED <<xfer, reply, pcancel, first, active, pheld>>
    BY <1>1 DEF RecvReply, RecvRepliesDone, EvictDone, ReserveDone, CancelsDone, CheckTransfers,
         DecodeRun, LoseReply, RecvRequestsDone, PrefillBuilt, PrefillRun, net, prefill
  <2>2. QED BY <1>t, <2>1, NodeTypesSame
<1>2. ASSUME NEW r \in Requests, \/ Reserve(r) \/ HandleCancel(r) \/ Submit(r) \/ Abandon(r)
                                 \/ Evict(r)
      PROVE  NodeTypes'
  <2>1. UNCHANGED <<xfer, reply, pcancel, first, active, pheld>>
    BY <1>2 DEF Reserve, HandleCancel, Submit, Abandon, Evict, net, prefill
  <2>2. QED BY <1>t, <2>1, NodeTypesSame
<1>3. ASSUME NEW r \in Requests, TransferLands(r) PROVE NodeTypes'
  <2>1. UNCHANGED <<reply, pcancel, first, active, pheld>> /\ r \in Posted
        /\ xfer' = [xfer EXCEPT ![r] = [xfer[r] EXCEPT !.done = TRUE]]
    BY <1>3 DEF TransferLands, prefill, Posted
  <2>2. xfer \in [Posted -> TransferRecord] /\ xfer[r] \in TransferRecord
    BY <1>t, <2>1 DEF NodeTypes
  <2>3. [xfer[r] EXCEPT !.done = TRUE] \in TransferRecord
    BY <2>2 DEF TransferRecord
  <2>4. xfer' \in [Posted -> TransferRecord]
    BY <2>1, <2>2, <2>3
  <2>5. Posted' = Posted
    BY <2>1 DEF Posted
  <2>6. QED BY <1>t, <1>s, <2>1, <2>4, <2>5 DEF NodeTypes
<1>4. CASE RecvRequest
  <2> DEFINE m == Head(d2p)
             e == [id |-> m.id, dst |-> m.dst]
  <2>1. UNCHANGED <<xfer, first, active, pheld>> /\ d2p # <<>>
        /\ pcancel' \in {pcancel, pcancel \cup {m.id}} /\ reply' \in {reply, reply \cup {e}}
    BY <1>4 DEF RecvRequest
  <2>2. m \in Message
    BY <2>1, QueueTypes, ReceiveFacts
  <2>3. m.id \in Requests /\ e \in Context
    BY <2>2 DEF Message, Context
  <2> HIDE DEF m, e
  <2>4. Posted' = Posted
    BY <2>1 DEF Posted
  <2>5. QED BY <1>t, <1>s, <2>1, <2>3, <2>4 DEF NodeTypes
<1>5. CASE CleanupTransfers
  <2>1. UNCHANGED <<xfer, reply, pcancel, first>> /\ active' \subseteq active
        /\ \E S : ReleasePrefill(S)
    BY <1>5 DEF CleanupTransfers, net
  <2>2. pheld' \in [Requests -> 0..PrefillPool] /\ Cardinality(PrefillUsed') <= PrefillPool
    BY <1>t, <2>1, ReleaseUsed
  <2>3. Posted' = Posted
    BY <2>1 DEF Posted
  <2>4. QED BY <1>t, <2>1, <2>2, <2>3 DEF NodeTypes
<1>6. CASE RepliesDone
  <2>1. UNCHANGED <<xfer, reply, pcancel, active, pheld>> /\ first' = first \cup Prev
    BY <1>6 DEF RepliesDone, net, Prev
  <2>2. Prev \subseteq Requests
    <3>1. PipeInv
      BY DEF Rest
    <3>2. Prev \subseteq Started /\ Started \subseteq Requests
      BY <3>1 DEF PipeInv, StagesInv, OnPrefill, Started
    <3>3. QED BY <3>2
  <2>3. Posted' = Posted
    BY <2>1 DEF Posted
  <2>4. QED BY <1>t, <1>s, <2>1, <2>2, <2>3 DEF NodeTypes
<1>7. ASSUME NEW r \in Requests, PrefillAdmit(r) PROVE NodeTypes'
  <2>1. UNCHANGED <<xfer, reply, pcancel, first, active>> /\ Need[r] <= PrefillFree
        /\ pheld' = [pheld EXCEPT ![r] = Need[r]]
    BY <1>7 DEF PrefillAdmit, net
  <2>2. pheld' \in [Requests -> 0..PrefillPool] /\ Cardinality(PrefillUsed') <= PrefillPool
    BY <1>t, <2>1, AdmitUsed
  <2>3. Posted' = Posted
    BY <2>1 DEF Posted
  <2>4. QED BY <1>t, <2>1, <2>2, <2>3 DEF NodeTypes
<1>8. ASSUME NEW r \in Requests, PrefillReply(r) PROVE NodeTypes'
  <2>h. PipeInv /\ HeldInv
    BY DEF Rest
  <2>1. Initiate(r) /\ r \in Out
    BY <1>8, <2>h, ReplyDue
  <2>2. first' \subseteq first
    BY <1>8 DEF PrefillReply
  <2>3. CASE pcancel' = pcancel \ {r} /\ ReleasePrefill({r}) /\ UNCHANGED <<xfer, active>>
    <3>1. pheld' \in [Requests -> 0..PrefillPool] /\ Cardinality(PrefillUsed') <= PrefillPool
      BY <1>t, <2>3, ReleaseUsed
    <3>2. reply' \subseteq reply
      BY <2>1 DEF Initiate
    <3>3. Posted' = Posted
      BY <2>3 DEF Posted
    <3>4. QED BY <1>t, <2>2, <2>3, <3>1, <3>2, <3>3 DEF NodeTypes
  <2>4. CASE /\ xfer' = [x \in DOMAIN xfer \cup {r} |-> IF x = r THEN Transfer(r) ELSE xfer[x]]
             /\ active' = active \cup {r} /\ UNCHANGED <<pcancel, pheld>>
    <3>1. reply' \subseteq reply
      BY <2>1 DEF Initiate
    <3>2. Transfer(r) \in TransferRecord
      <4> DEFINE c == CHOOSE c \in reply : c.id = r
      <4>1. \E x \in reply : x.id = r
        BY <2>h, <2>1 DEF PipeInv, AnswersInv, Contexts, OnPrefill
      <4>2. c \in reply
        BY <4>1
      <4>3. c \in Context
        BY <1>t, <4>2 DEF NodeTypes
      <4>4. c.dst \in SUBSET DecodeBlocks
        BY <4>3 DEF Context
      <4>5. replica[r] \in Replicas
        BY DecodeTypes
      <4>6. Transfer(r) = [dst |-> c.dst, replica |-> replica[r], done |-> FALSE]
        BY DEF Transfer
      <4> HIDE DEF c
      <4>7. QED BY <4>4, <4>5, <4>6 DEF TransferRecord
    <3>3. Posted' = Posted \cup {r}
      BY <2>4 DEF Posted
    <3>4. xfer' \in [Posted' -> TransferRecord]
      <4>1. \A x \in Posted : xfer[x] \in TransferRecord
        BY <1>t DEF NodeTypes
      <4>2. xfer' = [x \in Posted \cup {r} |-> IF x = r THEN Transfer(r) ELSE xfer[x]]
        BY <2>4 DEF Posted
      <4>3. QED BY <3>2, <3>3, <4>1, <4>2
    <3>5. QED BY <1>t, <1>s, <2>2, <2>4, <3>1, <3>3, <3>4 DEF NodeTypes
  <2>5. QED BY <2>1, <2>3, <2>4 DEF Initiate
<1>9. QED BY <1>1, <1>2, <1>3, <1>4, <1>5, <1>6, <1>7, <1>8 DEF Next, DecodeStep, PrefillStep

-----------------------------------------------------------------------------
(* The theorems *)

\* The invariant holds initially: all queues, books and pools are empty.
LEMMA DisaggInit == ASSUME Init PROVE DisaggInv
<1>e. ToSet(<<>>) = {} /\ Distinct(<<>>)
      /\ \A type : Ids(<<>>, type) = {} /\ Once(<<>>, type)
  BY EmptyFacts
<1>q. /\ pending = <<>> /\ pce = <<>> /\ pbatch = <<>> /\ pprev = <<>> /\ out = <<>>
      /\ d2p = <<>> /\ p2d = <<>>
  BY DEF Init
<1>1. /\ Pend = {} /\ Ces = {} /\ Bat = {} /\ Prev = {} /\ Out = {} /\ Asks = {}
      /\ Answers = {} /\ OnPrefill = {}
  BY <1>e, <1>q DEF Pend, Ces, Bat, Prev, Out, Asks, Answers, OnPrefill
<1>2. /\ InFlight = {} /\ Posted = {} /\ Writing = {} /\ Contexts = {} /\ Started = {}
      /\ Gone = {} /\ tg = {} /\ accepted = {} /\ cancelled = {} /\ cancelQ = {} /\ active = {}
  BY DEF Init, InFlight, Posted, Writing, Contexts, Started, Gone
<1>3. PrefillUsed = {}
  <2>1. ASSUME NEW u \in PrefillUsed PROVE FALSE
    <3>1. PICK x \in Requests, i \in 1..PrefillPool : u = <<x, i>> /\ i <= pheld[x]
      BY DEF PrefillUsed
    <3>2. pheld[x] = 0
      BY DEF Init
    <3>3. QED BY <3>1, <3>2, SizeAssumption
  <2>2. QED BY <2>1
<1>4. TypeOK
  <2>1. LoopTypes
    BY DEF Init, LoopTypes
  <2>2. SeqTypes
    BY <1>q DEF SeqTypes
  <2>3. BookTypes
    BY SizeAssumption DEF Init, BookTypes
  <2>4. NodeTypes
    <3>1. 0 \in 0..PrefillPool /\ 0 <= PrefillPool
      BY SizeAssumption
    <3>2. pheld \in [Requests -> 0..PrefillPool] /\ pcancel = {} /\ first = {} /\ reply = {}
      BY <3>1 DEF Init
    <3>3. Cardinality(PrefillUsed) <= PrefillPool
      BY <1>3, <3>1, FS_EmptySet
    <3>4. xfer \in [Posted -> TransferRecord]
      BY DEF Init, Posted
    <3>5. QED BY <1>2, <3>2, <3>3, <3>4 DEF NodeTypes
  <2>5. QED BY <2>1, <2>2, <2>3, <2>4, TypeParts
<1>5. PipeInv
  BY <1>e, <1>q, <1>1, <1>2 DEF PipeInv, StagesInv, QueuesInv, AnswersInv
<1>6. LiveInv
  <2>1. CountsMatch
    <3>1. ASSUME NEW p \in Replicas PROVE inPrefill[p] = 0 /\ {r \in InFlight : replica[r] = p} = {}
      BY <1>2 DEF Init
    <3>2. QED BY <3>1, FS_EmptySet DEF CountsMatch
  <2>2. BlocksOwnedOnce
    <3>1. /\ \A r \in Requests : own[r] = {}
          /\ \A p \in Replicas : dfree[p] = DecodeBlocks
      BY DEF Init
    <3>2. QED BY <1>2, <3>1 DEF BlocksOwnedOnce
  <2>3. QED BY <1>1, <1>2, <2>1, <2>2 DEF LiveInv
<1>7. DstInv
  BY <1>e, <1>q, <1>2 DEF DstInv
<1>8. PhaseInv
  BY <1>2 DEF Init, PhaseInv
<1>9. HeldInv
  <2>1. \A r \in Requests : ~(pheld[r] > 0)
    BY DEF Init
  <2>2. QED BY <1>q, <1>1, <1>2, <2>1 DEF Init, HeldInv
<1>10. FinalInv
  <2>1. \A r \in Requests : finals[r] = 0
    BY DEF Init
  <2>2. QED BY <1>2, <2>1 DEF FinalInv
<1>11. QED BY <1>4, <1>5, <1>6, <1>7, <1>8, <1>9, <1>10 DEF DisaggInv

\* Every step keeps it.
LEMMA DisaggStep == ASSUME DisaggInv, [Next]_vars PROVE DisaggInv'
<1>t. TypeOK /\ Rest
  BY DEF DisaggInv, Rest
<1>1. CASE Next
  <2>1. TypeOK'
    BY <1>t, <1>1, LoopStep, SeqStep, BookStep, NodeStep, TypePartsNext
  <2>2. Rest'
    BY <1>t, <1>1, RestStep
  <2>3. QED BY <2>1, <2>2 DEF DisaggInv, Rest
<1>2. CASE UNCHANGED vars
  <2>1. /\ UNCHANGED <<client, decode, net>> /\ UNCHANGED <<mode, pcD, pcP, d2p, p2d, xfer>>
        /\ UNCHANGED <<reply, pcancel, pce, pbatch, pprev, out, first, active, pheld>>
        /\ UNCHANGED <<api, finals, cancelQ, pending, dconn, pconn>>
    BY <1>2 DEF vars, prefill, net, client, decode
  <2>2. Posted' = Posted /\ Writing' = Writing
    BY <2>1 DEF Posted, Writing
  <2>3. HeldInv'
    BY <1>t, <2>1, <2>2, HeldSame DEF Rest
  <2>4. Rest'
    BY <1>t, <2>1, <2>3, PhasesOnly
  <2>5. LoopTypes /\ SeqTypes /\ BookTypes /\ NodeTypes
    BY <1>t, TypeParts
  <2>6. LoopTypes'
    BY <2>1, <2>5 DEF LoopTypes
  <2>7. SeqTypes' /\ BookTypes' /\ NodeTypes'
    BY <2>1, <2>5, SeqTypesSame, BookTypesSame, NodeTypesSame
  <2>8. TypeOK'
    BY <2>6, <2>7, TypePartsNext
  <2>9. QED BY <2>4, <2>8 DEF DisaggInv, Rest
<1>3. QED BY <1>1, <1>2

\* The inductive invariant holds in every state of the specification, whatever the
\* interleaving of the two loops, the network, expiry and the clients.
THEOREM DisaggInvariant == Spec => []DisaggInv
<1>1. Init => DisaggInv
  BY DisaggInit
<1>2. DisaggInv /\ [Next]_vars => DisaggInv'
  BY DisaggStep
<1>3. QED BY <1>1, <1>2, PTL DEF Spec

\* prefill_reqs_per_replica, the reserved blocks and the free blocks of every
\* decode replica agree with the requests, whichever of response, cancellation,
\* expiry and completion comes first.
THEOREM BooksKept == Spec => []Bookkeeping
<1>1. DisaggInv => Bookkeeping
  BY DEF DisaggInv, LiveInv, Bookkeeping
<1>2. QED BY <1>1, DisaggInvariant, PTL

\* Both ends of a running transfer keep their blocks: the prefill node until the
\* transfer has landed, and the decode node, once it has taken the response, unless
\* the request expires.
THEOREM TransfersSafe == Spec => []TransferSafe
<1>1. DisaggInv => TransferSafe
  <2>1. SUFFICES ASSUME DisaggInv PROVE TransferSafe
    OBVIOUS
  <2>2. TypeOK /\ PipeInv /\ DstInv /\ PhaseInv /\ HeldInv
    BY <2>1 DEF DisaggInv
  <2>3. ASSUME ~mode.ttl, NEW r \in Writing \cap accepted PROVE xfer[r].dst \subseteq own[r]
    <3>1. phase[r] = "transfer" /\ r \in Requests /\ r \in Posted
      BY <2>2, <2>3 DEF PhaseInv, TypeOK, Writing, Posted
    <3>2. r \in InFlight
      BY <3>1 DEF InFlight
    <3>3. xfer[r].dst = own[r]
      BY <2>2, <3>1, <3>2 DEF DstInv
    <3>4. QED BY <3>3
  <2>4. ASSUME NEW r \in Writing PROVE pheld[r] > 0
    <3>1. r \in active /\ r \in Requests
      BY <2>2, <2>4 DEF HeldInv, TypeOK
    <3>2. QED BY <2>2, <3>1 DEF HeldInv
  <2>5. QED BY <2>3, <2>4 DEF TransferSafe, TransferOwnsBlocks, SourceHeld
<1>2. QED BY <1>1, DisaggInvariant, PTL

\* A request gets one final result in whatever order cancellation, expiry and
\* completion meet; one that is done with its first token gets at most a second.
THEOREM FinalsOnce == Spec => []FinalOnce
<1>1. DisaggInv => FinalOnce
  BY DEF DisaggInv, FinalInv, FinalOnce
<1>2. QED BY <1>1, DisaggInvariant, PTL

\* With nothing in the batch and nothing in flight the whole pool is free.
LEMMA PoolFree ==
  ASSUME DisaggInv, pcP = "build", pbatch = <<>>, InFlightPrefill = 0
  PROVE  PrefillFree = PrefillPool
<1>t. TypeOK /\ HeldInv
  BY DEF DisaggInv
<1>1. IsFiniteSet(active) /\ IsFiniteSet(first)
  <2>1. active \in SUBSET Requests /\ first \in SUBSET Requests
    BY <1>t DEF TypeOK
  <2>2. QED BY <2>1, SizeAssumption, FS_Subset
<1>2. Cardinality(active) = 0 /\ Cardinality(first) = 0
  <2>1. Cardinality(active) \in Nat /\ Cardinality(first) \in Nat
    BY <1>1, FS_CardinalityType
  <2>2. QED BY <2>1 DEF InFlightPrefill
<1>3. active = {} /\ first = {}
  BY <1>1, <1>2, FS_EmptySet
<1>4. Bat = {} /\ Prev = {} /\ Out = {}
  BY <1>t, <1>3, EmptyFacts DEF HeldInv, Bat, Out
<1>5. \A r \in Requests : pheld[r] = 0
  <2>1. \A r \in Requests : ~(pheld[r] > 0)
    BY <1>t, <1>3, <1>4 DEF HeldInv
  <2>2. \A r \in Requests : pheld[r] \in 0..PrefillPool
    BY <1>t DEF TypeOK
  <2>3. QED BY <2>1, <2>2, SizeAssumption
<1>6. PrefillUsed = {}
  <2>1. ASSUME NEW u \in PrefillUsed PROVE FALSE
    <3>1. PICK x \in Requests, i \in 1..PrefillPool : u = <<x, i>> /\ i <= pheld[x]
      BY DEF PrefillUsed
    <3>2. QED BY <1>5, <3>1, SizeAssumption
  <2>2. QED BY <2>1
<1>7. QED BY <1>6, FS_EmptySet, SizeAssumption DEF PrefillFree

\* A prefill node whose pool holds any single prompt never stops for lack of
\* blocks: when nothing is batched and nothing is in flight, everything is free.
THEOREM PrefillAlive ==
  ASSUME \A r \in Requests : Need[r] <= PrefillPool PROVE Spec => []PrefillSurvives
<1>1. Init => PrefillSurvives
  BY DEF Init, PrefillSurvives
<1>2. ASSUME DisaggInv, PrefillSurvives, [Next]_vars PROVE PrefillSurvives'
  <2>1. CASE PrefillBuilt
    <3>1. SUFFICES ASSUME pce # <<>>, pbatch = <<>>, InFlightPrefill = 0 PROVE FALSE
      BY <2>1 DEF PrefillBuilt, PrefillSurvives
    <3>2. PrefillFree = PrefillPool
      BY <1>2, <2>1, <3>1, PoolFree DEF PrefillBuilt
    <3>3. Head(pce) \in Requests
      <4>1. pce \in Seq(Requests)
        BY <1>2, QueueTypes DEF DisaggInv
      <4>2. QED BY <3>1, <4>1, TailFacts
    <3>4. Len(pbatch) < MaxPrefill
      <4>1. Len(pbatch) = 0
        BY <3>1
      <4>2. QED BY <4>1, SizeAssumption
    <3>5. Need[Head(pce)] > PrefillPool /\ Need[Head(pce)] <= PrefillPool
      BY <2>1, <3>1, <3>2, <3>3, <3>4 DEF PrefillBuilt
    <3>6. Need[Head(pce)] \in Nat
      BY <3>3, SizeAssumption
    <3>7. QED BY <3>5, <3>6, SizeAssumption
  <2>2. ASSUME PrefillStep, ~PrefillBuilt PROVE pcP' # "dead"
    BY <1>2, <2>2 DEF PrefillStep, RecvRequest, RecvRequestsDone, CleanupTransfers, PrefillRun,
         RepliesDone, PrefillAdmit, PrefillReply, PrefillSurvives
  <2>3. ASSUME DecodeStep \/ LoseReply PROVE pcP' = pcP
    BY <2>3 DEF DecodeStep, LoseReply, RecvReply, RecvRepliesDone, EvictDone, ReserveDone,
         CancelsDone, CheckTransfers, DecodeRun, Reserve, HandleCancel
  <2>4. ASSUME NEW r \in Requests, Submit(r) \/ Abandon(r) \/ Evict(r) \/ TransferLands(r)
        PROVE  pcP' = pcP
    BY <2>4 DEF Submit, Abandon, Evict, TransferLands
  <2>5. CASE UNCHANGED vars
    BY <1>2, <2>5 DEF vars, PrefillSurvives
  <2>6. QED BY <1>2, <2>1, <2>2, <2>3, <2>4, <2>5 DEF Next, PrefillSurvives
<1>3. QED BY <1>1, <1>2, DisaggInvariant, PTL DEF Spec
=============================================================================
