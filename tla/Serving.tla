------------------------------ MODULE Serving ------------------------------
(***************************************************************************)
(* One model worker and the API process that feeds it: the admission and   *)
(* response routing of ZmqModelWorkerProxy, the iterations of              *)
(* TokenGenerationScheduler, and TextBatchConstructor's choice of what to  *)
(* prefill, decode, preempt and hold back.                                 *)
(*                                                                         *)
(* KV memory is a count of blocks here (no prefix cache): BlockManager     *)
(* models which blocks they are and what is in them.  One replica, no LoRA *)
(* adapters, no draft tokens.                                              *)
(*                                                                         *)
(* An iteration is several steps, one per request the batch constructor    *)
(* looks at; they touch none of the three queues that the API process      *)
(* shares, so the API process takes its steps only where a queue is read   *)
(* or written.                                                             *)
(***************************************************************************)
EXTENDS TokenBuffer, FiniteSets, SequencesExt

CONSTANTS Requests,
          Prompt,       \* Prompt[r]: tokens of the prompt
          Goal,         \* Goal[r]: the length at which generation ends
          Modes,        \* the configurations to explore, some of Configs
          PageSize,     \* tokens in a KV block
          MaxBatch,     \* max_batch_size
          QueueSize,    \* high-water mark of the request queue
          MaxPending    \* max_pending_requests

Configs ==
  [overlap : BOOLEAN, inflight : BOOLEAN, chunked : BOOLEAN, onload : BOOLEAN,
   abandon : BOOLEAN, pct : Nat, pool : Nat, tokens : Nat,
   strategy : {"per_replica", "decode_first", "prefill_first", "balanced"},
   arrive : SUBSET Requests, grammar : SUBSET Requests]

\* A prompt has at least one token (TokenBuffer refuses an empty array), a
\* page and a batch hold at least one token and one request.
ASSUME ServingAssumption ==
  /\ IsFiniteSet(Requests)
  /\ Prompt \in [Requests -> Nat \ {0}] /\ Goal \in [Requests -> Nat]
  /\ Modes \subseteq Configs
  /\ PageSize \in Nat \ {0} /\ MaxBatch \in Nat \ {0}
  /\ QueueSize \in Nat /\ MaxPending \in Nat

VARIABLES mode,     \* the configuration, fixed by Init
          api,      \* per request: the client's stream
          got,      \* per request: tokens the client has received
          reqQ, cancelQ, respQ,
          pc,       \* where the scheduler is in run_iteration
          prio,     \* this iteration's priority: [type, override]
          ce, tg,   \* the queues of the replica
          gated,    \* _grammar_pending, in arrival order
          matcher,  \* per request: the state of its grammar build
          loading,  \* _onloading_reqs, in cordon order
          landed,   \* those whose load has completed
          orphans,  \* released requests whose load still pins their blocks
          bound,    \* _bound_requests
          buf,      \* per request: its token buffer
          blk,      \* per request: KV blocks held
          free,     \* free KV blocks
          batch,    \* the batch being built
          budget,   \* what is left of its token budget
          cand,     \* candidate_ids of _add_tg_requests
          prev      \* the batch whose outputs are not synchronized yet

queues == <<reqQ, cancelQ, respQ>>
memory == <<buf, blk, free>>
building == <<batch, budget, cand>>
held == <<gated, matcher, loading, landed, orphans>>
vars == <<mode, api, got, queues, pc, prio, ce, tg, held, bound, memory, building, prev>>

AtMost(a, b) == IF a < b THEN a ELSE b

\* The elements of s that are in S, in their order.
Keep(s, S) ==
  LET at      == {i \in DOMAIN s : s[i] \in S}
      rank(i) == Cardinality({j \in at : j <= i})
  IN  [k \in 1..Cardinality(at) |-> s[CHOOSE i \in at : rank(i) = k]]

Without(s, r) == Keep(s, Requests \ {r})

Init ==
  /\ mode \in Modes
  /\ api = [r \in Requests |-> "new"]
  /\ got = [r \in Requests |-> 0]
  /\ reqQ = <<>> /\ cancelQ = <<>> /\ respQ = <<>>
  /\ pc = "drain"
  /\ prio = [type |-> "none", override |-> FALSE]
  /\ ce = <<>> /\ tg = <<>> /\ gated = <<>> /\ loading = <<>>
  /\ matcher = [r \in Requests |-> IF r \in mode.grammar THEN "unbuilt" ELSE "none"]
  /\ landed = {} /\ orphans = {}
  /\ bound = {}
  /\ buf = [r \in Requests |-> NewBuffer(Prompt[r])]
  /\ blk = [r \in Requests |-> 0]
  /\ free = mode.pool
  /\ batch = <<>> /\ budget = 0 /\ cand = <<>> /\ prev = <<>>

-----------------------------------------------------------------------------
(* The API process *)

\* stream: the request queue's high-water mark is the admission gate.
Submit(r) ==
  /\ api[r] = "new" /\ r \in mode.arrive
  /\ \/ /\ Len(reqQ) < QueueSize
        /\ reqQ' = Append(reqQ, r)
        /\ api' = [api EXCEPT ![r] = "open"]
     \/ /\ Len(reqQ) >= QueueSize
        /\ api' = [api EXCEPT ![r] = "rejected"]
        /\ UNCHANGED reqQ
  /\ UNCHANGED <<mode, got, cancelQ, respQ, pc, prio, ce, tg, held, bound, memory, building, prev>>

\* _drain_responses is abandoned: cancel, and forget the output queue.
Abandon(r) ==
  /\ mode.abandon /\ api[r] = "open"
  /\ cancelQ' = Append(cancelQ, r)
  /\ api' = [api EXCEPT ![r] = "gone"]
  /\ UNCHANGED <<mode, got, reqQ, respQ, pc, prio, ce, tg, held, bound, memory, building, prev>>

\* response_worker routes one message to the streams still registered, and
\* _drain_responses yields what it finds there.
Route ==
  /\ respQ # <<>>
  /\ \E msg \in {Head(respQ)} :
       LET mine(r) == {x \in ToSet(msg) : x.id = r /\ api[r] = "open"}
       IN  /\ got' = [r \in Requests |->
                        IF \E x \in mine(r) : x.kind \in {"token", "last"}
                          THEN got[r] + 1 ELSE got[r]]
           /\ api' = [r \in Requests |->
                        IF \E x \in mine(r) : x.kind # "token" THEN "ended" ELSE api[r]]
  /\ respQ' = Tail(respQ)
  /\ UNCHANGED <<mode, reqQ, cancelQ, pc, prio, ce, tg, held, bound, memory, building, prev>>

-----------------------------------------------------------------------------
(* Draining the request queue and planning the iteration *)

\* TextBatchConstructor.contains
Managed == bound \cup ToSet(gated)

\* all_ce_reqs
AllCE == ToSet(ce) \cup ToSet(gated) \cup ToSet(loading)

\* _retrieve_pending_requests; a request with a grammar waits for its matcher.
Drain ==
  /\ pc = "drain"
  /\ \E n \in {AtMost(IF Cardinality(AllCE) >= MaxPending THEN 0
                        ELSE AtMost(MaxPending - Cardinality(AllCE), 2 * MaxBatch),
                      Len(reqQ))} :
     \E new \in {SubSeq(reqQ, 1, n)} :
       /\ reqQ' = SubSeq(reqQ, n + 1, Len(reqQ))
       /\ ce' = ce \o Keep(new, {r \in Requests : matcher[r] = "none"})
       /\ gated' = gated \o Keep(new, {r \in Requests : matcher[r] # "none"})
       /\ matcher' = [r \in Requests |->
                        IF r \in ToSet(new) /\ matcher[r] = "unbuilt" THEN "building"
                        ELSE matcher[r]]
       /\ bound' = bound \cup {r \in ToSet(new) : matcher[r] = "none"}
  /\ pc' = "plan"
  /\ UNCHANGED <<mode, api, got, cancelQ, respQ, prio, tg, loading, landed, orphans, memory, building, prev>>

\* The executor of AsyncGrammarGate finishes a build.
MatcherBuilt(r) ==
  /\ matcher[r] = "building"
  /\ \E res \in {"ready", "failed"} : matcher' = [matcher EXCEPT ![r] = res]
  /\ UNCHANGED <<mode, api, got, queues, pc, prio, ce, tg, gated, loading, landed, orphans,
                 bound, memory, building, prev>>

\* Faulty: only requests the worker still knows are unpinned.
LoadLandsKnown(r) ==
  /\ r \in ToSet(loading) \ landed
  /\ landed' = landed \cup {r}
  /\ UNCHANGED <<mode, api, got, queues, pc, prio, ce, tg, gated, matcher, loading, orphans,
                 bound, memory, building, prev>>

\* The connector has brought a cordoned request's KV; the blocks of a request
\* released meanwhile are unpinned.
LoadLands(r) ==
  /\ \/ /\ r \in ToSet(loading) \ landed
        /\ landed' = landed \cup {r}
        /\ UNCHANGED <<orphans, blk, free>>
     \/ /\ r \in orphans
        /\ orphans' = orphans \ {r}
        /\ blk' = [blk EXCEPT ![r] = 0]
        /\ free' = free + blk[r]
        /\ UNCHANGED landed
  /\ UNCHANGED <<mode, api, got, queues, pc, prio, ce, tg, gated, matcher, loading, bound,
                 buf, building, prev>>

\* block_count(...).used_pct is above the threshold of the TG priority rule.
UnderPressure == (mode.pool - free) * 100 > mode.pct * mode.pool

\* _identify_priority
Priority(c, t) ==
  IF c = <<>> /\ t = <<>> THEN "none"
  ELSE IF c = <<>> THEN "TG"
  ELSE IF t = <<>> THEN "CE"
  ELSE IF UnderPressure \/ mode.inflight THEN "TG"
  ELSE "CE"

\* construct_batch's priority_override, for the strategies that set one.
Override(p) ==
  CASE mode.strategy = "decode_first" -> p = "TG"
    [] mode.strategy = "prefill_first" -> p = "CE"
    [] mode.strategy = "balanced" -> TRUE
    [] mode.strategy = "per_replica" -> FALSE

\* One message for each request of s: its stream ends without a token.
Final(s, kind) == [i \in DOMAIN s |-> <<[id |-> s[i], kind |-> kind, idx |-> 0]>>]

\* construct_batch up to the replica's batch: landed loads go to the front
\* of the CE queue one by one, built requests to its end, failed ones are
\* answered.
Plan ==
  /\ pc = "plan"
  /\ \E back \in {Keep(loading, landed)},
        ok   \in {Keep(gated, {r \in Requests : matcher[r] = "ready"})},
        bad  \in {Keep(gated, {r \in Requests : matcher[r] = "failed"})} :
     \E c \in {Reverse(back) \o ce \o ok} :
     \E p \in {Priority(c, tg)} :
       /\ loading' = Keep(loading, Requests \ landed)
       /\ landed' = {}
       /\ gated' = Keep(gated, {r \in Requests : matcher[r] = "building"})
       /\ matcher' = [r \in Requests |-> IF r \in ToSet(ok \o bad) THEN "none"
                                           ELSE matcher[r]]
       /\ bound' = bound \cup ToSet(ok)
       /\ ce' = c
       /\ respQ' = respQ \o Final(bad, "failed")
       /\ prio' = [type |-> IF p = "none" /\ Override(p) THEN "TG" ELSE p,
                   override |-> Override(p)]
       /\ pc' = CASE prio'.type = "CE" -> "ce"
                  [] prio'.type = "TG" -> "tg"
                  [] prio'.type = "none" -> "exec"
  /\ batch' = <<>>
  /\ budget' = mode.tokens
  /\ cand' = tg
  /\ UNCHANGED <<mode, api, got, reqQ, cancelQ, tg, orphans, memory, prev>>

-----------------------------------------------------------------------------
(* Memory *)

\* The blocks of a set of requests: the first, the second, ... of each.
HeldBlocks(S) == {p \in S \X (1..mode.pool) : p[2] <= blk[p[1]]}

SeqLen(t) == t.proc + ActiveLength(t) + 1 - (IF t.pend = 0 THEN 1 ELSE t.pend)

\* Faulty: the tokens processed so far are not counted.
NeedForWindow(r) ==
  LET n == (ActiveLength(buf[r]) + PageSize - 1) \div PageSize
  IN  IF n > blk[r] THEN n - blk[r] ELSE 0

\* The blocks alloc would add for r.
Need(r) ==
  LET n == (SeqLen(buf[r]) + PageSize - 1) \div PageSize
  IN  IF n > blk[r] THEN n - blk[r] ELSE 0

Allocate(r) ==
  /\ blk' = [blk EXCEPT ![r] = @ + Need(r)]
  /\ free' = free - Need(r)

\* Faulty: the placeholders of a preempted request stay.
TakeBackBlocks(r) ==
  /\ blk' = [blk EXCEPT ![r] = 0]
  /\ free' = free + blk[r]
  /\ buf' = [buf EXCEPT ![r] = NewBuffer(@.len)]

\* _return_to_request_queue's release and reset.
TakeBack(r) ==
  /\ blk' = [blk EXCEPT ![r] = 0]
  /\ free' = free + blk[r]
  /\ buf' = [buf EXCEPT ![r] = ResetBuffer(@)]

\* Faulty: loads in flight do not count.
FatalDespiteLoads(noOtherWork) == noOtherWork

\* _is_insufficient_blocks_fatal
Fatal(noOtherWork) == noOtherWork /\ loading = <<>> /\ orphans = {}

-----------------------------------------------------------------------------
(* _add_ce_requests *)

\* The batch members that are decoding are in tg already.
RoomForCE ==
  /\ Len(batch) < MaxBatch
  /\ Cardinality(ToSet(batch) \cup ToSet(tg)) < MaxBatch
  /\ ce # <<>>

\* Faulty: no decode batch when no prefill can be admitted.
AfterCEOnly == "exec"

AfterCE == IF prio.type = "CE" /\ batch' = <<>> /\ ~prio.override THEN "tg" ELSE "exec"

LeaveCE ==
  /\ pc = "ce" /\ ~RoomForCE
  /\ batch' = batch
  /\ pc' = AfterCE
  /\ UNCHANGED <<mode, api, got, queues, prio, ce, tg, held, bound, memory, budget, cand, prev>>

\* No token budget left: the request loses its blocks and its prefilled part.
DeferCE(r) ==
  /\ pc = "ce" /\ RoomForCE /\ r = Head(ce)
  /\ budget = 0
  /\ TakeBack(r)
  /\ batch' = batch
  /\ pc' = AfterCE
  /\ UNCHANGED <<mode, api, got, queues, prio, ce, tg, held, bound, budget, cand, prev>>

\* InsufficientBlocksError for a prefill.
CEOutOfBlocks(r) ==
  /\ pc = "ce" /\ RoomForCE /\ r = Head(ce) /\ budget > 0
  /\ Need(r) > free
  /\ \/ /\ Fatal(tg = <<>> /\ batch = <<>>)
        /\ pc' = "dead"
        /\ UNCHANGED <<memory, batch>>
     \/ /\ ~Fatal(tg = <<>> /\ batch = <<>>)
        /\ TakeBack(r)
        /\ batch' = batch
        /\ pc' = AfterCE
  /\ UNCHANGED <<mode, api, got, queues, prio, ce, tg, held, bound, budget, cand, prev>>

\* alloc started a load that has not landed: keep the blocks, run others.
Cordon(r) ==
  /\ pc = "ce" /\ RoomForCE /\ r = Head(ce) /\ budget > 0
  /\ mode.onload /\ blk[r] = 0 /\ Need(r) <= free
  /\ Allocate(r)
  /\ ce' = Tail(ce)
  /\ loading' = Append(loading, r)
  /\ UNCHANGED <<mode, api, got, queues, pc, prio, tg, gated, matcher, landed, orphans,
                 bound, buf, building, prev>>

\* The request is admitted; one that is longer than the budget is chunked
\* to it, or admitted whole where chunking is off, and is the last.
AdmitCE(r) ==
  /\ pc = "ce" /\ RoomForCE /\ r = Head(ce) /\ budget > 0
  /\ Need(r) <= free
  /\ Allocate(r)
  /\ buf' = [buf EXCEPT ![r] = IF mode.chunked /\ ActiveLength(@) > budget
                                 THEN Chunk(@, budget) ELSE @]
  /\ budget' = budget - AtMost(ActiveLength(buf[r]), budget)
  /\ ce' = Tail(ce)
  /\ batch' = Append(batch, r)
  /\ pc' = IF ActiveLength(buf[r]) >= budget THEN AfterCE ELSE "ce"
  /\ UNCHANGED <<mode, api, got, queues, prio, tg, held, bound, cand, prev>>

-----------------------------------------------------------------------------
(* _add_tg_requests *)

RoomForTG == Len(batch) < MaxBatch /\ cand # <<>> /\ budget > 0

\* In-flight batching fills what is left with prefills.
AfterTG == IF prio.type = "TG" /\ mode.inflight /\ batch' # <<>> /\ ~prio.override
             THEN "ce" ELSE "exec"

LeaveTG ==
  /\ pc = "tg" /\ ~RoomForTG
  /\ batch' = batch
  /\ pc' = AfterTG
  /\ UNCHANGED <<mode, api, got, queues, prio, ce, tg, held, bound, memory, budget, cand, prev>>

AdmitTG(r) ==
  /\ pc = "tg" /\ RoomForTG /\ r = Head(cand)
  /\ Need(r) <= free
  /\ Allocate(r)
  /\ batch' = Append(batch, r)
  /\ budget' = budget - 1
  /\ cand' = Tail(cand)
  /\ pc' = IF budget = 1 THEN AfterTG ELSE "tg"
  /\ UNCHANGED <<mode, api, got, queues, prio, ce, tg, held, bound, buf, prev>>

\* Out of blocks with another candidate left: the newest one is preempted.
Preempt(r, v) ==
  /\ pc = "tg" /\ RoomForTG /\ r = Head(cand)
  /\ Need(r) > free
  /\ Len(cand) > 1 /\ v = Last(cand)
  /\ TakeBack(v)
  /\ tg' = Without(tg, v)
  /\ ce' = <<v>> \o ce
  /\ cand' = Front(cand)
  /\ UNCHANGED <<mode, api, got, queues, pc, prio, held, bound, batch, budget, prev>>

\* Out of blocks with nobody left to preempt.
TGOutOfBlocks(r) ==
  /\ pc = "tg" /\ RoomForTG /\ r = Head(cand)
  /\ Need(r) > free
  /\ Len(cand) = 1
  /\ batch' = batch
  /\ pc' = IF Fatal(batch = <<>>) THEN "dead" ELSE AfterTG
  /\ UNCHANGED <<mode, api, got, queues, prio, ce, tg, held, bound, memory, budget, cand, prev>>

-----------------------------------------------------------------------------
(* _schedule *)

\* What the pipeline leaves of a batched request's buffer: the batch before
\* it is realized, then this batch's placeholder is appended; without
\* overlap the token is realized at once.
Executed(r) ==
  LET synced == IF mode.overlap /\ r \in ToSet(prev) THEN RealizeFutureToken(buf[r])
                                                     ELSE buf[r]
      placed == IF r \in ToSet(batch) THEN UpdateWithFutureToken(synced) ELSE synced
  IN  IF ~mode.overlap /\ r \in ToSet(batch) THEN RealizeFutureToken(placed) ELSE placed

\* The requests whose outputs the pipeline returns, in batch order: the ones
\* with a token to return that the batch constructor still knows.
Answered ==
  IF mode.overlap THEN Keep(prev, {r \in Managed : GeneratedLength(buf[r]) > 0})
                  ELSE Keep(batch, {r \in Managed : GeneratedLength(Executed(r)) > 0})

\* The token just realized: its number, and whether it ends the request.
TokenNo(r) ==
  (IF mode.overlap THEN RealizedPosition(buf[r]) ELSE Executed(r).len) - Prompt[r]
IsDone(r) == TokenNo(r) + Prompt[r] >= Goal[r]

\* Faulty: a prefilled chunk stays with the decoding requests.
AdvancedWithChunk ==
  LET tg1 == tg \o Keep(batch, Managed \ ToSet(tg))
      chunk == batch # <<>> /\ Last(batch) \in Managed
                 /\ GeneratedLength(Executed(Last(batch))) = 0
  IN  [tg |-> tg1, ce |-> IF chunk THEN <<Last(batch)>> \o ce ELSE ce]

\* advance_requests, for the requests still known; the last one goes back to
\* the front of the CE queue if it was a chunk.
Advanced ==
  LET tg1   == tg \o Keep(batch, Managed \ ToSet(tg))
      chunk == batch # <<>> /\ Last(batch) \in Managed
                 /\ GeneratedLength(Executed(Last(batch))) = 0
  IN  IF chunk THEN [tg |-> Without(tg1, Last(batch)), ce |-> <<Last(batch)>> \o ce]
               ELSE [tg |-> tg1, ce |-> ce]

\* Faulty: a request that is still loading is forgotten with its blocks.
FreedOutsideCordon(S) == S \ ToSet(loading)

\* release_request's block side, for a set of requests: a load in flight
\* keeps its blocks pinned.
Freed(S) == S \ (ToSet(loading) \ landed)
Release(S) ==
  /\ blk' = [r \in Requests |-> IF r \in Freed(S) THEN 0 ELSE blk[r]]
  /\ free' = free + Cardinality(HeldBlocks(Freed(S)))

\* An iteration that made no progress does not look at the cancel queue.
NoProgress ==
  /\ pc = "exec" /\ batch = <<>> /\ prev = <<>>
  /\ pc' = "drain"
  /\ UNCHANGED <<mode, api, got, queues, prio, ce, tg, held, bound, memory, building, prev>>

\* _schedule: execute, advance, release what is done, respond.
Schedule ==
  /\ pc = "exec" /\ (batch # <<>> \/ prev # <<>>)
  /\ \E ans \in {Answered}, adv \in {Advanced} :
     \E done \in {{r \in ToSet(ans) : IsDone(r)}} :
       /\ buf' = [r \in Requests |-> Executed(r)]
       /\ tg' = Keep(adv.tg, Requests \ done)
       /\ ce' = Keep(adv.ce, Requests \ done)
       /\ bound' = bound \ done
       /\ Release(done)
       /\ respQ' = IF ans = <<>> THEN respQ
                   ELSE Append(respQ, [i \in DOMAIN ans |->
                          [id |-> ans[i], idx |-> TokenNo(ans[i]),
                           kind |-> IF ans[i] \in done THEN "last" ELSE "token"]])
  /\ prev' = IF mode.overlap THEN batch ELSE <<>>
  /\ batch' = <<>>
  /\ cand' = <<>>
  /\ pc' = "cancel"
  /\ UNCHANGED <<mode, api, got, reqQ, cancelQ, prio, held, budget>>

\* run_iteration's last act: every cancellation in the queue; one for a
\* request the batch constructor does not know is dropped.
DrainCancels ==
  /\ pc = "cancel"
  /\ \E gone \in {Keep(cancelQ, Managed)} :
     \E S \in {ToSet(gone)} :
       /\ Release(S)
       /\ ce' = Keep(ce, Requests \ S)
       /\ tg' = Keep(tg, Requests \ S)
       /\ gated' = Keep(gated, Requests \ S)
       /\ matcher' = [r \in Requests |-> IF r \in S THEN "none" ELSE matcher[r]]
       /\ orphans' = orphans \cup ((S \cap ToSet(loading)) \ landed)
       /\ loading' = Keep(loading, Requests \ S)
       /\ landed' = landed \ S
       /\ bound' = bound \ S
       /\ respQ' = respQ \o Final(gone, "cancelled")
  /\ cancelQ' = <<>>
  /\ pc' = "drain"
  /\ UNCHANGED <<mode, api, got, reqQ, prio, buf, building, prev>>

-----------------------------------------------------------------------------

SchedulerStep ==
  \/ Drain \/ Plan
  \/ LeaveCE \/ LeaveTG \/ NoProgress \/ Schedule \/ DrainCancels
  \/ \E r \in Requests :
       \/ DeferCE(r) \/ CEOutOfBlocks(r) \/ Cordon(r) \/ AdmitCE(r)
       \/ AdmitTG(r) \/ TGOutOfBlocks(r)
       \/ \E v \in Requests : Preempt(r, v)

AtQueue == pc \in {"drain", "exec", "cancel", "dead"}

ClientStep == \E r \in Requests : Submit(r) \/ Abandon(r)

Next ==
  \/ SchedulerStep
  \/ AtQueue /\ (ClientStep \/ Route)
  \/ AtQueue /\ \E r \in Requests : MatcherBuilt(r) \/ LoadLands(r)

Spec == Init /\ [][Next]_vars

\* The worker loop calls run_iteration for ever, response_worker never stops
\* reading, and builds and loads complete.
FairSpec ==
  /\ Spec
  /\ WF_vars(SchedulerStep)
  /\ SF_vars(AtQueue /\ Route)
  /\ \A r \in Requests : SF_vars(AtQueue /\ LoadLands(r)) /\ SF_vars(AtQueue /\ MatcherBuilt(r))

-----------------------------------------------------------------------------
(* Properties *)

Responses == [id : Requests, kind : {"token", "last", "cancelled", "failed"}, idx : Nat]

\* Every variable is in its range.
TypeOK ==
  /\ mode \in Configs
  /\ api \in [Requests -> {"new", "open", "rejected", "gone", "ended"}]
  /\ got \in [Requests -> Nat]
  /\ \A q \in {reqQ, cancelQ, ce, tg, gated, loading, batch, cand, prev} :
       q \in Seq(Requests)
  /\ Len(reqQ) <= QueueSize
  /\ respQ \in Seq(Seq(Responses))
  /\ pc \in {"drain", "plan", "ce", "tg", "exec", "cancel", "dead"}
  /\ matcher \in [Requests -> {"none", "unbuilt", "building", "ready", "failed"}]
  /\ landed \subseteq ToSet(loading) /\ orphans \cup bound \subseteq Requests
  /\ buf \in [Requests -> Buffers]
  /\ blk \in [Requests -> 0..mode.pool]
  /\ free \in 0..mode.pool
  /\ budget \in Nat

\* A block is free or belongs to exactly one request that the worker still
\* knows or whose load is still in flight: no path through preemption,
\* cancellation, cordon and completion frees one twice or forgets one.
NoBlockLost ==
  /\ TypeOK
  /\ free + Cardinality(HeldBlocks(Requests)) = mode.pool
  /\ \A r \in Requests : blk[r] > 0 => r \in bound \cup orphans

\* A bound request is in exactly one place, once: a queue, the cordon, or
\* (popped from the CE queue) the batch.  A request in no place is never
\* scheduled again; one in two is batched twice.
OnePlace ==
  \A r \in Requests :
    LET times(s) == Cardinality({i \in DOMAIN s : s[i] = r})
        inBatch  == IF r \in ToSet(tg) THEN 0 ELSE times(batch)
    IN  /\ times(ce) + times(tg) + times(loading) + inBatch = (IF r \in bound THEN 1 ELSE 0)
        /\ times(gated) + times(batch) <= 1

\* When the batch goes to the pipeline, each member has blocks for every
\* token it will have processed, whatever was preempted after it was chosen.
BatchBacked ==
  pc = "exec" => \A r \in ToSet(batch) : blk[r] * PageSize >= SeqLen(buf[r])

\* The client receives the tokens of its request in order, each exactly once,
\* although a preempted request computes its last token again and the overlap
\* pipeline computes one more after the end.  The messages in the response
\* queue that have a token of r bring one each, numbered on from what the
\* client has, up to the last token realized in r's buffer.
Tokens(m, r) == {j \in DOMAIN m : m[j].id = r /\ m[j].kind \in {"token", "last"}}
Queued(r) == {i \in DOMAIN respQ : Tokens(respQ[i], r) # {}}
StreamExact ==
  \A r \in Requests : api[r] = "open" =>
    /\ \A i \in Queued(r) : \E j \in DOMAIN respQ[i] :
         /\ Tokens(respQ[i], r) = {j}
         /\ respQ[i][j].idx = got[r] + Cardinality({k \in Queued(r) : k <= i})
    /\ r \in bound =>
         got[r] + Cardinality(Queued(r)) = buf[r].len - buf[r].pend - Prompt[r]

\* "Fatal only when there's no other runnable work and nothing at all is in
\* flight" (_is_insufficient_blocks_fatal): the worker does not give up while
\* a request waiting in the CE queue could run on the blocks it has and the
\* free ones.
FatalOnlyWhenStuck ==
  pc = "dead" => \A r \in ToSet(ce) : Need(r) > free

\* The worker gives up only over a request that alone needs more blocks than
\* the pool has ("Only a genuine OOM is fatal", _add_tg_requests).
OnlyGenuineOOM ==
  pc = "dead" => \E r \in bound : blk[r] + Need(r) > mode.pool

\* Every accepted stream ends, with its last token, an error or a
\* cancellation, however often its request is preempted, unless the worker
\* dies: again and again no stream is open (a request is submitted once).
EveryStreamEnds == []<>(pc = "dead" \/ \A r \in Requests : api[r] # "open")

\* The worker does not keep an abandoned request, nor its memory, for ever.
AbandonedFreed ==
  <>[](\A r \in Requests : api[r] = "gone" /\ pc # "dead" => blk[r] = 0 /\ r \notin bound)

=============================================================================
