--------------------------- MODULE Disaggregated ---------------------------
(***************************************************************************)
(* Disaggregated serving: a decode node (DecodeScheduler) that reserves KV *)
(* blocks and hands requests to a prefill node (PrefillScheduler), which   *)
(* computes the prompt and writes its KV into the reserved blocks with a   *)
(* remote transfer.  Requests, replies, the transfers and the clients'     *)
(* cancellations travel independently of each other.                       *)
(*                                                                         *)
(* Each scheduler is a loop (run_iteration) whose phases are pcD and pcP.  *)
(* A request needs the same number of blocks from reservation to its end:  *)
(* growth, preemption and chunking are in Serving.                         *)
(***************************************************************************)
EXTENDS Naturals, FiniteSets, SequencesExt

CONSTANTS Requests,
          Need,         \* Need[r]: KV blocks of r, on either node
          Short,        \* requests that are done with their first token
          DecodeBlocks, \* block ids of one decode replica
          Replicas,     \* decode replicas
          PrefillPool,  \* number of blocks of the prefill node
          MaxDecode,    \* max_batch_size of the decode node
          MaxPrefill,   \* max_batch_size of the prefill node
          Modes         \* the configurations to explore, a subset of Config

Config == [cancel : BOOLEAN, ttl : BOOLEAN, lossy : BOOLEAN, overlap : BOOLEAN,
           arrive : SUBSET Requests]

ASSUME SizeAssumption ==
  /\ IsFiniteSet(Requests) /\ IsFiniteSet(DecodeBlocks)
  /\ Need \in [Requests -> Nat \ {0}]
  /\ PrefillPool \in Nat /\ MaxPrefill \in Nat \ {0}
  /\ Replicas \subseteq Nat /\ 0 \in Replicas
  /\ Modes \subseteq Config

VARIABLES mode,      \* the configuration, fixed by Init
          api,       \* per request: the client's view of it
          finals,    \* per request: final results put on the response queue
          cancelQ,   \* cancellations on their way to the decode node
          (* decode node *)
          pcD, pending, phase, cancelled, replica, own, dfree, inPrefill, tg,
          (* network *)
          d2p, p2d, xfer,
          (* prefill node *)
          pcP, reply, pcancel, pce, pbatch, pprev, out, first, active, pheld,
          dconn, pconn,   \* the transfer engines know each other
          accepted        \* history: requests whose PrefillResponse was used

client == <<api, finals, cancelQ>>
decode == <<pending, phase, cancelled, replica, own, dfree, inPrefill, tg, accepted>>
net == <<d2p, p2d, xfer, dconn, pconn>>
prefill == <<reply, pcancel, pce, pbatch, pprev, out, first, active, pheld>>
vars == <<mode, client, pcD, decode, net, pcP, prefill>>

\* KVTransferEngineMetadata, PrefillRequest, CancelRequest, PrefillResponse;
\* dst_block_ids is only in the PrefillRequest.
Msg(type, r, dst) == [type |-> type, id |-> r, dst |-> dst]

Init ==
  /\ mode \in Modes
  /\ api = [r \in Requests |-> "new"]
  /\ finals = [r \in Requests |-> 0]
  /\ cancelQ = {}
  /\ pcD = "recv" /\ pending = <<>>
  /\ phase = [r \in Requests |-> "none"]
  /\ cancelled = {} /\ tg = {} /\ accepted = {}
  /\ replica = [r \in Requests |-> 0]
  /\ own = [r \in Requests |-> {}]
  /\ dfree = [p \in Replicas |-> DecodeBlocks]
  /\ inPrefill = [p \in Replicas |-> 0]
  /\ d2p = <<>> /\ p2d = <<>>
  /\ xfer = [r \in {} |-> {}]
  /\ dconn = "none" /\ pconn = FALSE
  /\ pcP = "recv"
  /\ reply = {} /\ pcancel = {} /\ pce = <<>> /\ pbatch = <<>> /\ pprev = <<>>
  /\ out = <<>> /\ first = {} /\ active = {}
  /\ pheld = [r \in Requests |-> 0]

-----------------------------------------------------------------------------
(* Clients *)

\* The request reaches the decode node's request queue.
Submit(r) ==
  /\ api[r] = "new" /\ r \in mode.arrive
  /\ api' = [api EXCEPT ![r] = "open"]
  /\ pending' = Append(pending, r)
  /\ UNCHANGED <<mode, finals, cancelQ, pcD, phase, cancelled, replica, own, dfree, inPrefill,
                 tg, accepted, net, pcP, prefill>>

\* The client goes away.
Abandon(r) ==
  /\ mode.cancel /\ api[r] = "open"
  /\ api' = [api EXCEPT ![r] = "gone"]
  /\ cancelQ' = cancelQ \cup {r}
  /\ UNCHANGED <<mode, finals, pcD, decode, net, pcP, prefill>>

\* SchedulerResult.cancelled(), or a last token, for the requests S.
Final(S) ==
  /\ finals' = [r \in Requests |-> IF r \in S THEN finals[r] + 1 ELSE finals[r]]
  /\ api' = [r \in Requests |-> IF r \in S /\ api[r] = "open" THEN "ended" ELSE api[r]]

-----------------------------------------------------------------------------
(* Decode node *)

InFlight == {r \in Requests : phase[r] # "none"}

\* Blocks of S go back to the pools of their replicas.
ReleaseDecode(S) ==
  /\ own' = [r \in Requests |-> IF r \in S THEN {} ELSE own[r]]
  /\ dfree' = [p \in Replicas |-> dfree[p] \cup UNION {own[r] : r \in {x \in S : replica[x] = p}}]

\* Faulty: the replica's count is not lowered.
ForgetUncounted(S) ==
  /\ phase' = [r \in Requests |-> IF r \in S THEN "none" ELSE phase[r]]
  /\ UNCHANGED inPrefill

\* S leaves self.requests.
Forget(S) ==
  /\ phase' = [r \in Requests |-> IF r \in S THEN "none" ELSE phase[r]]
  /\ inPrefill' = [p \in Replicas |-> inPrefill[p] - Cardinality({r \in S : replica[r] = p})]

\* handle_prefill_response and handle_transfer_engine_response; a response
\* for a request that is gone is discarded.  The first token goes to the
\* client at once; it may be the last one.
RecvReply ==
  /\ pcD = "recv" /\ p2d # <<>>
  /\ p2d' = Tail(p2d)
  /\ \E m \in {Head(p2d)} :
       \/ /\ m.type = "metadata"
          /\ dconn' = "connected"
          /\ UNCHANGED <<phase, accepted, api, finals>>
       \/ /\ m.type = "response" /\ phase[m.id] = "none"
          /\ UNCHANGED <<phase, accepted, dconn, api, finals>>
       \/ /\ m.type = "response" /\ phase[m.id] # "none"
          /\ phase' = [phase EXCEPT ![m.id] = "transfer"]
          /\ accepted' = accepted \cup {m.id}
          /\ Final({m.id} \cap Short)
          /\ UNCHANGED dconn
  /\ UNCHANGED <<mode, cancelQ, pcD, pending, cancelled, replica, own, dfree, inPrefill, tg,
                 d2p, xfer, pconn, pcP, prefill>>

RecvRepliesDone ==
  /\ pcD = "recv" /\ p2d = <<>>
  /\ pcD' = "evict"
  /\ UNCHANGED <<mode, client, decode, net, pcP, prefill>>

\* Faulty: the client of an expired request is told even if it cancelled.
EvictAndTell(r) ==
  /\ pcD = "evict" /\ mode.ttl /\ r \in InFlight
  /\ Forget({r})
  /\ ReleaseDecode({r})
  /\ d2p' = Append(d2p, Msg("cancel", r, {}))
  /\ Final({r})
  /\ UNCHANGED <<mode, cancelQ, pcD, pending, cancelled, replica, tg, accepted, p2d, xfer,
                 dconn, pconn, pcP, prefill>>

\* _evict_expired_requests, for a request that has been in its phase for
\* longer than decode_request_ttl_s.
Evict(r) ==
  /\ pcD = "evict" /\ mode.ttl /\ r \in InFlight
  /\ Forget({r})
  /\ ReleaseDecode({r})
  /\ \/ /\ r \in cancelled
        /\ UNCHANGED <<d2p, api, finals>>
     \/ /\ r \notin cancelled
        /\ d2p' = Append(d2p, Msg("cancel", r, {}))
        /\ Final({r})
  /\ UNCHANGED <<mode, cancelQ, pcD, pending, cancelled, replica, tg, accepted, p2d, xfer,
                 dconn, pconn, pcP, prefill>>

EvictDone ==
  /\ pcD = "evict"
  /\ pcD' = "reserve"
  /\ UNCHANGED <<mode, client, decode, net, pcP, prefill>>

\* get_next_replica_idx: the replica with the fewest requests, the first of
\* them if there are several.
Load(p) == Cardinality({r \in tg : replica[r] = p}) + inPrefill[p]
NextReplica == CHOOSE p \in Replicas :
                 \A q \in Replicas : Load(p) < Load(q) \/ (Load(p) = Load(q) /\ p <= q)

\* The loop condition of reserve_memory_and_send_to_prefill.
MayReserve ==
  /\ pending # <<>>
  /\ Cardinality(tg) + Cardinality(InFlight) < MaxDecode
  /\ \E p \in Replicas :
       (Cardinality(DecodeBlocks) - Cardinality(dfree[p])) * 100 < 90 * Cardinality(DecodeBlocks)

\* reserve_memory_and_send_to_prefill, one request: claim, allocate, send;
\* the first request to a prefill node is preceded by the engine metadata.
Reserve(r) ==
  /\ pcD = "reserve" /\ MayReserve /\ r = Head(pending)
  /\ \E p \in {NextReplica} :
       /\ Cardinality(dfree[p]) >= Need[r]
       /\ \E bs \in {CHOOSE S \in kSubset(Need[r], dfree[p]) : TRUE} :
            /\ own' = [own EXCEPT ![r] = bs]
            /\ dfree' = [dfree EXCEPT ![p] = @ \ bs]
       /\ replica' = [replica EXCEPT ![r] = p]
       /\ inPrefill' = [inPrefill EXCEPT ![p] = @ + 1]
  /\ phase' = [phase EXCEPT ![r] = "await"]
  /\ pending' = Tail(pending)
  /\ d2p' = Append(IF dconn = "none" THEN Append(d2p, Msg("metadata", r, {})) ELSE d2p,
                   Msg("prefill", r, own'[r]))
  /\ dconn' = IF dconn = "none" THEN "sent" ELSE dconn
  /\ UNCHANGED <<mode, client, pcD, cancelled, tg, accepted, p2d, xfer, pconn, pcP, prefill>>

\* Nothing more to reserve, or the request at the front does not fit.
ReserveDone ==
  /\ pcD = "reserve"
  /\ MayReserve => Cardinality(dfree[NextReplica]) < Need[Head(pending)]
  /\ pcD' = "cancel"
  /\ UNCHANGED <<mode, client, decode, net, pcP, prefill>>

\* Faulty: a request in transfer is released like one that awaits prefill.
HandleCancelAtOnce(r) ==
  /\ pcD = "cancel" /\ r \in cancelQ
  /\ cancelQ' = cancelQ \ {r}
  /\ tg' = tg \ {r}
  /\ Forget({r} \cap InFlight)
  /\ ReleaseDecode({r})
  /\ d2p' = Append(d2p, Msg("cancel", r, {}))
  /\ Final({r} \cap (InFlight \cup tg))
  /\ UNCHANGED <<mode, pcD, pending, cancelled, replica, accepted, p2d, xfer, dconn, pconn,
                 pcP, prefill>>

\* _handle_cancelled_requests, one request: decoding; in transfer (the
\* release waits); awaiting prefill; or not known, and ignored.
HandleCancel(r) ==
  /\ pcD = "cancel" /\ r \in cancelQ
  /\ cancelQ' = cancelQ \ {r}
  /\ \/ /\ r \in tg
        /\ tg' = tg \ {r}
        /\ ReleaseDecode({r})
        /\ Final({r})
        /\ UNCHANGED <<phase, inPrefill, cancelled, d2p>>
     \/ /\ phase[r] = "transfer"
        /\ cancelled' = cancelled \cup {r}
        /\ d2p' = Append(d2p, Msg("cancel", r, {}))
        /\ Final({r})
        /\ UNCHANGED <<phase, inPrefill, own, dfree, tg>>
     \/ /\ phase[r] = "await"
        /\ Forget({r})
        /\ ReleaseDecode({r})
        /\ d2p' = Append(d2p, Msg("cancel", r, {}))
        /\ Final({r})
        /\ UNCHANGED <<cancelled, tg>>
     \/ /\ r \notin tg /\ phase[r] = "none"
        /\ UNCHANGED <<phase, inPrefill, cancelled, own, dfree, tg, d2p, api, finals>>
  /\ UNCHANGED <<mode, pcD, pending, replica, accepted, p2d, xfer, dconn, pconn, pcP, prefill>>

Landed(r) == r \in DOMAIN xfer /\ xfer[r].done

CancelsDone ==
  /\ pcD = "cancel" /\ cancelQ = {}
  /\ pcD' = "check"
  /\ UNCHANGED <<mode, client, decode, net, pcP, prefill>>

\* check_for_completed_transfers
CheckTransfers ==
  /\ pcD = "check"
  /\ \E S \in {{r \in Requests : phase[r] = "transfer" /\ Landed(r)}} :
       /\ Forget(S)
       /\ ReleaseDecode(S \cap cancelled)
       /\ tg' = tg \cup (S \ cancelled)
  /\ pcD' = "run"
  /\ UNCHANGED <<mode, client, pending, cancelled, replica, accepted, net, pcP, prefill>>

\* schedule: the decoding requests run to their last token.
DecodeRun ==
  /\ pcD = "run"
  /\ \E done \in SUBSET tg :
       /\ tg # {} => done # {}
       /\ tg' = tg \ done
       /\ ReleaseDecode(done)
       /\ Final(done)
  /\ pcD' = "recv"
  /\ UNCHANGED <<mode, cancelQ, pending, phase, cancelled, replica, inPrefill, accepted, net,
                 pcP, prefill>>

-----------------------------------------------------------------------------
(* Network *)

\* The transfer engine has written the blocks.
TransferLands(r) ==
  /\ r \in DOMAIN xfer /\ ~xfer[r].done
  /\ xfer' = [xfer EXCEPT ![r].done = TRUE]
  /\ UNCHANGED <<mode, client, pcD, decode, d2p, p2d, dconn, pconn, pcP, prefill>>

\* A reply that never arrives.
LoseReply ==
  /\ mode.lossy /\ p2d # <<>> /\ Head(p2d).type = "response"
  /\ p2d' = Tail(p2d)
  /\ UNCHANGED <<mode, client, pcD, decode, d2p, xfer, dconn, pconn, pcP, prefill>>

-----------------------------------------------------------------------------
(* Prefill node *)

\* handle_prefill_request, handle_cancel_request, handle_transfer_engine_request.
RecvRequest ==
  /\ pcP = "recv" /\ d2p # <<>>
  /\ d2p' = Tail(d2p)
  /\ \E m \in {Head(d2p)} :
       \/ /\ m.type = "metadata"
          /\ pconn' = TRUE
          /\ p2d' = Append(p2d, m)
          /\ UNCHANGED <<pcancel, pce, reply>>
       \/ /\ m.type = "cancel"
          /\ pcancel' = pcancel \cup {m.id}
          /\ UNCHANGED <<pce, reply, pconn, p2d>>
       \/ /\ m.type = "prefill"
          /\ pce' = Append(pce, m.id)
          /\ reply' = reply \cup {[id |-> m.id, dst |-> m.dst]}
          /\ UNCHANGED <<pcancel, pconn, p2d>>
  /\ UNCHANGED <<mode, client, pcD, decode, xfer, dconn, pcP, pbatch, pprev, out, first,
                 active, pheld>>

RecvRequestsDone ==
  /\ pcP = "recv" /\ d2p = <<>>
  /\ pcP' = "clean"
  /\ UNCHANGED <<mode, client, pcD, decode, net, prefill>>

\* The blocks of the prefill pool that no request holds, by number.
PrefillUsed == {u \in Requests \X (1..PrefillPool) : u[2] <= pheld[u[1]]}
PrefillFree == PrefillPool - Cardinality(PrefillUsed)

\* The prefill blocks of S are released.
ReleasePrefill(S) == pheld' = [r \in Requests |-> IF r \in S THEN 0 ELSE pheld[r]]

\* cleanup_active_transfers
CleanupTransfers ==
  /\ pcP = "clean"
  /\ \E S \in {{r \in active : Landed(r)}} :
       /\ active' = active \ S
       /\ ReleasePrefill(S)
  /\ pcP' = "build"
  /\ UNCHANGED <<mode, client, pcD, decode, net, reply, pcancel, pce, pbatch, pprev, out, first>>

\* Faulty: the requests between their batch and their first token are missing.
InFlightPosted == Cardinality(active)

\* _inflight_kv_transfer_count
InFlightPrefill == Cardinality(active) + Cardinality(first)

\* construct_batch on the prefill node: admit the next prompt.
PrefillAdmit(r) ==
  /\ pcP = "build" /\ pce # <<>> /\ r = Head(pce) /\ Len(pbatch) < MaxPrefill
  /\ Need[r] <= PrefillFree
  /\ pheld' = [pheld EXCEPT ![r] = Need[r]]
  /\ pbatch' = Append(pbatch, r)
  /\ pce' = Tail(pce)
  /\ UNCHANGED <<mode, client, pcD, decode, net, pcP, reply, pcancel, pprev, out, first,
                 active>>

\* The batch is complete, or the next prompt does not fit: fatal when nothing
\* is batched and nothing in flight can return blocks.
PrefillBuilt ==
  /\ pcP = "build"
  /\ pce # <<>> /\ Len(pbatch) < MaxPrefill => Need[Head(pce)] > PrefillFree
  /\ pcP' = IF pce # <<>> /\ pbatch = <<>> /\ InFlightPrefill = 0 THEN "dead" ELSE "run"
  /\ UNCHANGED <<mode, client, pcD, decode, net, prefill>>

\* The transfer of r into the blocks its reply context names.  replica[r], which
\* does not change once r is reserved, is the request's dst_replica_idx.
Transfer(r) == [dst     |-> (CHOOSE c \in reply : c.id = r).dst,
                replica |-> replica[r],
                done    |-> FALSE]

\* Faulty: a cancelled request is dropped with its source blocks.
InitiateOrDrop(r) ==
  /\ reply' = {c \in reply : c.id # r}
  /\ \/ /\ r \in pcancel
        /\ pcancel' = pcancel \ {r}
        /\ UNCHANGED <<xfer, active, p2d, pheld>>
     \/ /\ r \notin pcancel
        /\ xfer' = [x \in DOMAIN xfer \cup {r} |-> IF x = r THEN Transfer(r) ELSE xfer[x]]
        /\ active' = active \cup {r}
        /\ p2d' = Append(p2d, Msg("response", r, {}))
        /\ UNCHANGED <<pcancel, pheld>>

\* initiate_transfer_and_send_reply: drop a cancelled request, or post its
\* transfer and then the reply.
Initiate(r) ==
  /\ reply' = {c \in reply : c.id # r}
  /\ \/ /\ r \in pcancel
        /\ pcancel' = pcancel \ {r}
        /\ ReleasePrefill({r})
        /\ UNCHANGED <<xfer, active, p2d>>
     \/ /\ r \notin pcancel
        /\ xfer' = [x \in DOMAIN xfer \cup {r} |-> IF x = r THEN Transfer(r) ELSE xfer[x]]
        /\ active' = active \cup {r}
        /\ p2d' = Append(p2d, Msg("response", r, {}))
        /\ UNCHANGED <<pcancel, pheld>>

\* schedule executes the batch.  With overlap the first tokens that surface are
\* those of the batch before; there is one more round for the last batch.
PrefillRun ==
  /\ pcP = "run"
  /\ \/ /\ pbatch = <<>> /\ pprev = <<>>
        /\ pcP' = "recv"
        /\ UNCHANGED <<pprev, out>>
     \/ /\ mode.overlap /\ (pbatch # <<>> \/ pprev # <<>>)
        /\ out' = pprev
        /\ pprev' = pbatch
        /\ pcP' = "reply"
     \/ /\ ~mode.overlap /\ pbatch # <<>>
        /\ out' = pbatch
        /\ pcP' = "reply"
        /\ UNCHANGED pprev
  /\ pbatch' = <<>>
  /\ UNCHANGED <<mode, client, pcD, decode, net, reply, pcancel, pce, first, active, pheld>>

\* One response of the batch; with overlap only a request that is waiting in
\* _pending_first_token is sent on.
PrefillReply(r) ==
  /\ pcP = "reply" /\ out # <<>> /\ r = Head(out)
  /\ out' = Tail(out)
  /\ first' = first \ {r}
  /\ IF mode.overlap => r \in first
     THEN Initiate(r)
     ELSE UNCHANGED <<reply, pcancel, pheld, xfer, active, p2d>>
  /\ UNCHANGED <<mode, client, pcD, decode, d2p, dconn, pconn, pcP, pce, pbatch, pprev>>

\* The batch whose outputs are deferred waits in _pending_first_token.
RepliesDone ==
  /\ pcP = "reply" /\ out = <<>>
  /\ first' = first \cup ToSet(pprev)
  /\ pcP' = "recv"
  /\ UNCHANGED <<mode, client, pcD, decode, net, reply, pcancel, pce, pbatch, pprev, out, active,
                 pheld>>

-----------------------------------------------------------------------------

DecodeStep ==
  \/ RecvReply \/ RecvRepliesDone \/ EvictDone \/ ReserveDone \/ CancelsDone
  \/ CheckTransfers \/ DecodeRun
  \/ \E r \in Requests : Reserve(r) \/ HandleCancel(r)

PrefillStep ==
  \/ RecvRequest \/ RecvRequestsDone \/ CleanupTransfers \/ PrefillBuilt \/ PrefillRun
  \/ RepliesDone
  \/ \E r \in Requests : PrefillAdmit(r) \/ PrefillReply(r)

Next ==
  \/ DecodeStep \/ PrefillStep \/ LoseReply
  \/ \E r \in Requests : Submit(r) \/ Abandon(r) \/ Evict(r) \/ TransferLands(r)

Spec == Init /\ [][Next]_vars

\* Both worker loops run for ever, a posted transfer completes, and the time
\* to live of a request that stays in its phase runs out.
FairSpec ==
  /\ Spec
  /\ WF_vars(DecodeStep) /\ WF_vars(PrefillStep)
  /\ \A r \in Requests : WF_vars(TransferLands(r)) /\ SF_vars(Evict(r))

-----------------------------------------------------------------------------
(* Properties *)

\* Every variable is in its range.
TypeOK ==
  /\ mode \in Modes
  /\ api \in [Requests -> {"new", "open", "gone", "ended"}]
  /\ finals \in [Requests -> Nat]
  /\ {pending, pce, pbatch, pprev, out} \subseteq Seq(Requests)
  /\ {d2p, p2d} \subseteq Seq([type : {"metadata", "prefill", "cancel", "response"},
                               id : Requests, dst : SUBSET DecodeBlocks])
  /\ cancelQ \cup cancelled \cup tg \cup accepted \subseteq Requests
  /\ pcancel \cup first \cup active \cup DOMAIN xfer \subseteq Requests
  /\ pcD \in {"recv", "evict", "reserve", "cancel", "check", "run"}
  /\ pcP \in {"recv", "clean", "build", "run", "reply", "dead"}
  /\ phase \in [Requests -> {"none", "await", "transfer"}]
  /\ replica \in [Requests -> Replicas]
  /\ own \in [Requests -> SUBSET DecodeBlocks]
  /\ dfree \in [Replicas -> SUBSET DecodeBlocks]
  /\ inPrefill \in [Replicas -> Nat]
  /\ xfer \in [DOMAIN xfer -> [dst : SUBSET DecodeBlocks, replica : Replicas, done : BOOLEAN]]
  /\ reply \subseteq [id : Requests, dst : SUBSET DecodeBlocks]
  /\ dconn \in {"none", "sent", "connected"} /\ pconn \in BOOLEAN
  /\ pheld \in [Requests -> 0..PrefillPool]
  /\ Cardinality(PrefillUsed) <= PrefillPool

\* prefill_reqs_per_replica counts the requests in flight on each replica
\* exactly, whichever of response, cancellation, expiry and completion comes
\* first: the next request's replica is chosen by it.
CountsMatch ==
  \A p \in Replicas : inPrefill[p] = Cardinality({r \in InFlight : replica[r] = p})

\* A decode block is free or reserved for exactly one request, and only a
\* request in flight or decoding has any.
BlocksOwnedOnce ==
  /\ \A r \in Requests : own[r] # {} <=> r \in InFlight \cup tg
  /\ \A r, s \in Requests : r # s /\ replica[r] = replica[s] => own[r] \cap own[s] = {}
  /\ \A p \in Replicas :
       dfree[p] = DecodeBlocks \ UNION {own[r] : r \in {x \in Requests : replica[x] = p}}

\* Counters and block ownership agree with the requests.
Bookkeeping == TypeOK /\ CountsMatch /\ BlocksOwnedOnce

\* The writes of a transfer that is still running.
Writing == {r \in DOMAIN xfer : ~xfer[r].done}

\* Once the decode node has taken a request's PrefillResponse, the blocks its
\* transfer writes stay its own until the write has landed, even if it is
\* cancelled meanwhile; only expiry gives them up.
TransferOwnsBlocks ==
  ~mode.ttl => \A r \in Writing \cap accepted : xfer[r].dst \subseteq own[r]

\* No transfer ever writes a block that another request has reserved.
NoForeignWrite ==
  \A r \in Writing : \A s \in Requests \ {r} :
    replica[s] = xfer[r].replica => xfer[r].dst \cap own[s] = {}

\* The prefill node keeps the source blocks until the transfer has landed.
SourceHeld == \A r \in Writing : pheld[r] > 0

\* Both ends of a running transfer keep their blocks.
TransferSafe == TransferOwnsBlocks /\ SourceHeld

\* A prefill node whose pool holds any single prompt never takes a full pool
\* for a fatal one: what fills it is always on its way out.
PrefillSurvives == pcP # "dead"

\* In whatever order cancellation, expiry and completion meet, a request gets
\* one final result; one that is done with its first token gets it again from
\* the decode step that always follows, but no third one.
FinalOnce == \A r \in Requests : finals[r] <= (IF r \in Short THEN 2 ELSE 1)

\* Every stream ends, also when the prefill node's reply is lost, if there is
\* a time to live, and both nodes get all their blocks back.
AllSettles ==
  []<>(\A r \in Requests : api[r] # "open" /\ own[r] = {} /\ pheld[r] = 0)

=============================================================================
