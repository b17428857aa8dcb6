---------------------------- MODULE BlockManager ----------------------------
(***************************************************************************)
(* The paged KV cache manager (block_manager.py, cache_manager.py) driven  *)
(* by the scheduler's admission loop and the overlap pipeline: prefix      *)
(* reuse, allocation, chunked prefill, commit, eviction, preemption,       *)
(* cross-replica copies, and the loads and offloads of a KV connector.     *)
(*                                                                         *)
(* What a device block holds is modelled by the token prefix whose last    *)
(* tokens have their keys and values in it: the KV of a token depends on   *)
(* every token before it.                                                  *)
(***************************************************************************)
EXTENDS BlockPool, TokenBuffer, FiniteSets

CONSTANTS Requests,    \* request ids
          Stream,      \* Stream[r]: the prompt of r and the tokens it generates
          PromptLen,   \* PromptLen[r]: how many of them are the prompt
          ChunkSize,   \* tokens a prefill may process in one batch
          MaxBatch,    \* max_batch_size
          Modes        \* the configurations to explore, see TypeOK

Replicas == {0, 1}
\* req_to_replica has no entry.
Unclaimed == 2

VARIABLES mode,      \* the configuration: [connector, cross, replicas, depth,
                     \* arrive], fixed by Init
          dev,       \* per replica: its pool, KV memory and transfers
          req,       \* per request: token buffer, blocks, hashes, claim
          stage,     \* per request: where the scheduler holds it
          batch,     \* the requests admitted to the batch being built
          inflight,  \* batches enqueued on the device, oldest first
          host,      \* the connector's external tier: hash -> stored KV
          misplaced  \* a realized token went to another token's position

vars == <<mode, dev, req, stage, batch, inflight, host, misplaced>>

\* The tokens 1..n of request r.
Prefix(r, n) == SubSeq(Stream[r], 1, n)

\* req_to_hashes[r] as far as it has been computed.
Hashes(q, r) == [i \in 1..q.nhash |-> Prefix(r, i * BlockSize)]

CommittedBlocks(q) == q.committed \div BlockSize

NewDevice == [f \in DOMAIN NewPool \cup {"kv", "transfers", "offloads"} |->
                IF f = "kv" THEN [b \in Blocks |-> <<>>]
                ELSE IF f \in {"transfers", "offloads"} THEN <<>>
                ELSE NewPool[f]]

NewRequest(r) == [buf |-> NewBuffer(PromptLen[r]), blocks |-> <<>>,
                  nhash |-> 0, committed |-> 0, replica |-> Unclaimed]

Init ==
  /\ mode \in Modes
  /\ dev = [p \in Replicas |-> NewDevice]
  /\ req = [r \in Requests |-> NewRequest(r)]
  /\ stage = [r \in Requests |-> IF r \in mode.arrive THEN "ce" ELSE "done"]
  /\ batch = <<>>
  /\ inflight = <<>>
  /\ host = [h \in {} |-> <<>>]
  /\ misplaced = FALSE

-----------------------------------------------------------------------------
(* Hashing and sizes *)

AtLeastOne(n) == IF n = 0 THEN 1 ELSE n
AtMost(a, b) == IF a < b THEN a ELSE b

\* compute_block_hashes: the last token, or every placeholder, is not hashed.
ComputeHashes(q) ==
  LET full == (q.buf.len - AtLeastOne(q.buf.pend)) \div BlockSize
  IN  [q EXCEPT !.nhash = IF full > @ THEN full ELSE @]

\* Faulty: the token about to be computed always counts as a placeholder.
SeqLenShort(t) == t.proc + ActiveLength(t) - AtLeastOne(t.pend)

\* _compute_seq_len without draft tokens.
SeqLen(t) == t.proc + ActiveLength(t) + 1 - AtLeastOne(t.pend)

CeilDiv(a, b) == (a + b - 1) \div b

NumBlocksToAllocate(q) ==
  LET need == CeilDiv(SeqLen(q.buf), BlockSize)
  IN  IF need > Len(q.blocks) THEN need - Len(q.blocks) ELSE 0

-----------------------------------------------------------------------------
(* Transfers of an asynchronous connector *)

\* _track_transfer pins the blocks until poll_transfers sees the event done.
\* The connector knows the blocks by their ids, and keeps what a load will
\* bring ("data") until it has landed.
TrackTransfer(d, load, blocks, hashes, data) ==
  [FoldLeft(Touch, d, blocks) EXCEPT
     !.transfers = Append(@, [load |-> load, blocks |-> blocks, ids |-> blocks,
                              hashes |-> hashes, data |-> data, done |-> FALSE])]

\* poll_transfers: commit what a finished load brought, unless someone else
\* committed the hash meanwhile, and unpin.
PollTransfers(d) ==
  LET commit(t, e, i) ==
        IF e.hash[t.blocks[i]] = NoHash /\ t.hashes[i] \notin DOMAIN e.cache
          THEN CommitIntoPrefixCache(e, t.hashes[i], t.blocks[i]) ELSE e
      drain(e, t) ==
        IF ~t.done THEN [e EXCEPT !.transfers = Append(@, t)]
        ELSE FoldLeft(FreeBlock,
               IF t.load THEN FoldLeft(LAMBDA x, i : commit(t, x, i), e,
                                       [i \in DOMAIN t.blocks |-> i])
                         ELSE e,
               t.blocks)
  IN  FoldLeft(drain, [d EXCEPT !.transfers = <<>>], d.transfers)

\* offload: one connector call per queued run of hashes, cut at the first
\* block that was evicted since it was committed.
CachedRun(d, hashes) ==
  SubSeq(hashes, 1, Cardinality({k \in DOMAIN hashes :
                       \A i \in 1..k : hashes[i] \in DOMAIN d.cache}))

Offload(d) ==
  LET send(e, hashes) ==
        LET run == CachedRun(e, hashes)
            src == [i \in DOMAIN run |-> e.cache[run[i]]]
        IN  IF mode.connector = "async" /\ run # <<>>
              THEN TrackTransfer(e, FALSE, src, run, <<>>) ELSE e
  IN  [FoldLeft(send, d, d.offloads) EXCEPT !.offloads = <<>>]

\* A synchronous connector has stored the runs when offload returns.
HostAfterOffload(hst, d) ==
  LET store(x, hashes) ==
        LET run == ToSet(CachedRun(d, hashes))
        IN  [h \in DOMAIN x \cup run |-> IF h \in run THEN d.kv[d.cache[h]] ELSE x[h]]
  IN  IF mode.connector = "sync" THEN FoldLeft(store, hst, d.offloads) ELSE hst

-----------------------------------------------------------------------------
(* Prefix reuse *)

\* _find_block_in_any_replica for a hash the local cache does not have.
RemoteHolders(p, h) == {s \in mode.replicas \ {p} : h \in DOMAIN dev[s].cache}

\* _get_full_blocks_from_device_prefix_cache: touch local hits, copy hits of
\* other replicas into new blocks, stop at the first miss; the copies are
\* published after the last lookup.
DeviceHits(d, p, hashes) ==
  LET look(a, h) ==
        IF a.stop THEN a
        ELSE IF h \in DOMAIN a.d.cache
          THEN [a EXCEPT !.d = Touch(a.d, a.d.cache[h]),
                         !.blocks = Append(@, a.d.cache[h])]
        ELSE IF mode.cross /\ RemoteHolders(p, h) # {} /\ NumFree(a.d) > 0
          THEN LET b   == Head(a.d.free)
                   src == dev[CHOOSE s \in RemoteHolders(p, h) : TRUE]
               IN  [a EXCEPT !.d = [AllocBlock(a.d) EXCEPT
                                      !.kv[b] = src.kv[src.cache[h]]],
                             !.blocks = Append(@, b),
                             !.copies = Append(@, <<h, b>>)]
        ELSE [a EXCEPT !.stop = TRUE]
      publish(a) ==
        [a EXCEPT !.d = FoldLeft(LAMBDA e, c : CommitIntoPrefixCache(e, c[1], c[2]),
                                 a.d, a.copies)]
  IN  publish(FoldLeft(look, [d |-> d, blocks |-> <<>>, copies |-> <<>>,
                              stop |-> FALSE], hashes))

\* How many of the hashes the external tier can serve, in order.
HostRun(hashes) ==
  Cardinality({k \in DOMAIN hashes : \A i \in 1..k : hashes[i] \in DOMAIN host})

AllocBlocks(d, n) ==
  FoldLeft(LAMBDA a, i : [d |-> AllocBlock(a.d), blocks |-> Append(a.blocks, Head(a.d.free))],
           [d |-> d, blocks |-> <<>>], [i \in 1..n |-> i])

\* _get_full_blocks_from_host_prefix_cache: blocks are allocated for every
\* hash that could be loaded, and the surplus is freed again; the connector
\* loads at most "served" of them.
HostLoad(d, hashes, served) ==
  LET arrive(e, got, hs) ==
        IF got = <<>> THEN [d |-> e, blocks |-> got, waiting |-> FALSE]
        ELSE IF mode.connector = "async"
          THEN [d |-> TrackTransfer(e, TRUE, got, hs, [i \in DOMAIN hs |-> host[hs[i]]]),
                blocks |-> got, waiting |-> TRUE]
        ELSE [d |-> FoldLeft(LAMBDA x, i : CommitIntoPrefixCache(
                                [x EXCEPT !.kv[got[i]] = host[hs[i]]], hs[i], got[i]),
                             e, [i \in DOMAIN got |-> i]),
              blocks |-> got, waiting |-> FALSE]
      load(a, k) ==
        arrive(FoldLeft(FreeBlock, a.d, SubSeq(a.blocks, k + 1, Len(a.blocks))),
               SubSeq(a.blocks, 1, k), SubSeq(hashes, 1, k))
      n == AtMost(Len(hashes), NumFree(d))
  IN  load(AllocBlocks(d, n), AtMost(AtMost(served, HostRun(hashes)), n))

\* release_uncommitted_blocks: pop from the end, then realign the window.
ReleaseUncommitted(d, q) ==
  LET keep  == CommittedBlocks(q)
      tail  == SubSeq(q.blocks, keep + 1, Len(q.blocks))
      delta == q.buf.proc - q.committed
  IN  [d |-> FoldLeft(FreeBlock, d, Reverse(tail)),
       q |-> [q EXCEPT !.blocks = SubSeq(@, 1, keep),
                       !.buf = IF delta > 0 THEN RewindProcessing(@, delta)
                               ELSE SkipProcessing(@, q.committed - q.buf.proc)]]

\* reuse_blocks_from_prefix_cache: hits on the device, then in the external
\* tier; if there are any, they replace the uncommitted blocks.
ReusePrefix(d, r, q, p, served) ==
  LET extend(rel, got, idx, waiting) ==
        [d |-> [rel.d EXCEPT !.ok = @ /\ SkipAllowed(rel.q.buf, idx - rel.q.buf.proc)],
         q |-> [rel.q EXCEPT !.blocks = @ \o got, !.committed = idx,
                             !.buf = SkipProcessing(@, idx - rel.q.buf.proc)],
         waiting |-> waiting]
      use(q1, got, load) ==
        IF got = <<>> THEN [d |-> load.d, q |-> q1, waiting |-> FALSE]
        ELSE extend(ReleaseUncommitted(load.d, q1), got,
                    q1.committed + Len(got) * BlockSize, load.waiting)
      both(q1, hit, load) == use(q1, hit.blocks \o load.blocks, load)
      beyond(q1, hit, rest) ==
        both(q1, hit, IF mode.connector = "null" \/ rest = <<>>
                        THEN [d |-> hit.d, blocks |-> <<>>, waiting |-> FALSE]
                        ELSE HostLoad(hit.d, rest, served))
      hits(q1, want, hit) ==
        beyond(q1, hit, SubSeq(want, Len(hit.blocks) + 1, Len(want)))
      lookup(q1, want) == hits(q1, want, DeviceHits(d, p, want))
      hashed(q1) == lookup(q1, SubSeq(Hashes(q1, r), CommittedBlocks(q1) + 1, q1.nhash))
  IN  IF ActiveLength(q.buf) = 1 THEN [d |-> d, q |-> q, waiting |-> FALSE]
      ELSE hashed(ComputeHashes(q))

\* allocate_new_blocks: raise without taking a block, or take them all.
AllocateNewBlocks(d, q, waiting) ==
  LET fits == q.buf.proc <= Len(q.blocks) * BlockSize
      give(a) == [d |-> [a.d EXCEPT !.ok = @ /\ fits],
                  q |-> [q EXCEPT !.blocks = @ \o a.blocks],
                  raised |-> FALSE, waiting |-> waiting]
      want(n) == IF q.buf.len > NumBlocks * BlockSize \/ n > NumFree(d)
                   THEN [d |-> [d EXCEPT !.ok = @ /\ fits], q |-> q,
                         raised |-> TRUE, waiting |-> waiting]
                   ELSE give(AllocBlocks(d, n))
  IN  want(NumBlocksToAllocate(q))

\* PagedKVCacheManager.alloc on the replica p that r is claimed on.
Alloc(r, p, served) ==
  LET new(s) == AllocateNewBlocks(s.d, s.q, s.waiting)
  IN  new(ReusePrefix(PollTransfers(dev[p]), r, [req[r] EXCEPT !.replica = p],
                      p, served))

\* alloc polls the transfers of every replica before it touches its own.
DevAfter(p, d) ==
  [s \in Replicas |-> IF s = p THEN d ELSE PollTransfers(dev[s])]

\* Faulty: the head of a chain is evicted first.
ReleaseInOrder(d, q) ==
  [d |-> FoldLeft(FreeBlock, d, q.blocks),
   q |-> [q EXCEPT !.blocks = <<>>, !.nhash = 0, !.committed = 0, !.replica = Unclaimed]]

\* BlockManager.release: tail blocks go to the free queue first.
Release(d, q) ==
  [d |-> FoldLeft(FreeBlock, d, Reverse(q.blocks)),
   q |-> [q EXCEPT !.blocks = <<>>, !.nhash = 0, !.committed = 0, !.replica = Unclaimed]]

\* Faulty: a block counts as computed when its window has been scheduled.
ScheduledBlocks(q) == AtMost(q.buf.end, q.buf.len - q.buf.pend) \div BlockSize

\* The blocks whose tokens are all processed and all known on the host.
ComputedBlocks(q) == AtMost(q.buf.proc, q.buf.len - q.buf.pend) \div BlockSize

\* commit_to_prefix_cache, after compute_hashes_for_request (BlockManager.step).
Step(d, r, q0) ==
  LET swap(a, i, g) == [d |-> g.pool, blocks |-> [a.blocks EXCEPT ![i] = g.block]]
      one(a, i) == swap(a, i, GetOrCommit(a.d, Prefix(r, i * BlockSize), a.blocks[i]))
      done(a, q, from, upto) ==
        [d |-> IF upto > from
                 THEN [a.d EXCEPT !.offloads = Append(@, SubSeq(Hashes(q, r), from + 1, upto))]
                 ELSE a.d,
         q |-> [q EXCEPT !.blocks = a.blocks, !.committed = upto * BlockSize]]
      commit(q, from, upto) ==
        done(FoldLeft(one, [d |-> d, blocks |-> q.blocks],
                      [i \in 1..(upto - from) |-> from + i]), q, from, upto)
      hashed(q) == commit(q, CommittedBlocks(q), ComputedBlocks(q))
  IN  hashed(ComputeHashes(q0))

-----------------------------------------------------------------------------
(* The scheduler's admission loop *)

\* _return_to_request_queue: release, reset, back to the CE queue.
Returned(d, q) == Release(d, [q EXCEPT !.buf = ResetBuffer(@)])

Realized(r) == req[r].buf.len - req[r].buf.pend

\* Generation ends at this length; the stream goes on because the forwards
\* already in flight when the end is seen still compute tokens.
StopLen(r) == Len(Stream[r]) - 2

\* _add_ce_requests for one request: claim, alloc, then requeue, cordon or
\* admit, chunked to the token budget.
AdmitCE(r) ==
  /\ stage[r] = "ce" /\ Len(batch) < MaxBatch
  /\ \E p \in mode.replicas, served \in 0..Cardinality(DOMAIN host) :
       /\ req[r].replica \in {Unclaimed, p}
       /\ \E a \in {Alloc(r, p, served)} :
            \/ /\ a.raised
               /\ \E back \in {Returned(a.d, a.q)} :
                    /\ dev' = DevAfter(p, back.d)
                    /\ req' = [req EXCEPT ![r] = back.q]
               /\ UNCHANGED <<stage, batch>>
            \/ /\ ~a.raised /\ a.waiting
               /\ dev' = DevAfter(p, a.d)
               /\ req' = [req EXCEPT ![r] = a.q]
               /\ stage' = [stage EXCEPT ![r] = "onload"]
               /\ UNCHANGED batch
            \/ /\ ~a.raised /\ ~a.waiting
               /\ dev' = DevAfter(p, a.d)
               /\ req' = [req EXCEPT ![r] = [a.q EXCEPT !.buf =
                            IF ActiveLength(@) > ChunkSize THEN Chunk(@, ChunkSize) ELSE @]]
               /\ stage' = [stage EXCEPT ![r] = "inCE"]
               /\ batch' = Append(batch, r)
  /\ UNCHANGED <<mode, inflight, host, misplaced>>

\* _add_tg_requests for one request whose blocks suffice.
AdmitTG(r) ==
  /\ stage[r] = "tg" /\ Len(batch) < MaxBatch /\ Realized(r) < StopLen(r)
  /\ \E a \in {Alloc(r, req[r].replica, 0)} :
       /\ ~a.raised
       /\ dev' = DevAfter(req[r].replica, a.d)
       /\ req' = [req EXCEPT ![r] = a.q]
  /\ stage' = [stage EXCEPT ![r] = "inTG"]
  /\ batch' = Append(batch, r)
  /\ UNCHANGED <<mode, inflight, host, misplaced>>

\* _add_tg_requests out of blocks: another decoding request of the replica
\* that is not in the batch loses its own.
Preempt(r, v) ==
  /\ stage[r] = "tg" /\ stage[v] = "tg" /\ v # r /\ Realized(r) < StopLen(r)
  /\ Len(batch) < MaxBatch
  /\ req[v].replica = req[r].replica
  /\ \E a \in {Alloc(r, req[r].replica, 0)} :
       /\ a.raised
       /\ \E back \in {Returned(a.d, req[v])} :
            /\ dev' = DevAfter(req[r].replica, back.d)
            /\ req' = [req EXCEPT ![v] = back.q]
  /\ stage' = [stage EXCEPT ![v] = "ce"]
  /\ UNCHANGED <<mode, batch, inflight, host, misplaced>>

\* Faulty: a request goes back to the queue while its load is in flight.
ReadmitEarly(r) ==
  /\ stage[r] = "onload" /\ batch = <<>>
  /\ stage' = [stage EXCEPT ![r] = "ce"]
  /\ UNCHANGED <<mode, dev, req, batch, inflight, host, misplaced>>

\* _readmit_completed_onloads, at the start of construct_batch.
ReadmitOnload(r) ==
  /\ stage[r] = "onload" /\ batch = <<>>
  /\ \A t \in ToSet(dev[req[r].replica].transfers) :
       t.load /\ ~t.done => ToSet(t.ids) \cap ToSet(req[r].blocks) = {}
  /\ stage' = [stage EXCEPT ![r] = "ce"]
  /\ UNCHANGED <<mode, dev, req, batch, inflight, host, misplaced>>

\* release_request, for a finished or a cancelled request.
ReleaseRequest(r) ==
  /\ batch = <<>> /\ stage[r] \in {"ce", "tg", "onload"}
  /\ \/ req[r].replica = Unclaimed /\ UNCHANGED <<dev, req>>
     \/ /\ req[r].replica # Unclaimed
        /\ \E f \in {Release(dev[req[r].replica], req[r])} :
             /\ dev' = [dev EXCEPT ![req[r].replica] = f.d]
             /\ req' = [req EXCEPT ![r] = f.q]
  /\ stage' = [stage EXCEPT ![r] = "done"]
  /\ UNCHANGED <<mode, batch, inflight, host, misplaced>>

-----------------------------------------------------------------------------
(* OverlapTextGenerationPipeline.execute *)

\* The block content kv includes the KV of the tokens up to n, in the block
\* that token n is in.
HasTokens(kv, r, n) ==
  IsPrefix(Prefix(r, n), kv) /\ CeilDiv(Len(kv), BlockSize) = CeilDiv(n, BlockSize)

\* The forward writes the KV of its window through the lookup table, whose
\* row has the blocks _compute_seq_len asks for; positions beyond it go to
\* the null block.
Forward(d, r, q) ==
  LET row == AtMost(CeilDiv(SeqLen(q.buf), BlockSize), Len(q.blocks))
      in(i) == q.buf.proc < i * BlockSize /\ q.buf.end > (i - 1) * BlockSize
      new(i, old) == IF q.buf.proc <= (i - 1) * BlockSize
                        \/ HasTokens(old, r, q.buf.proc)
                       THEN Prefix(r, AtMost(q.buf.end, i * BlockSize)) ELSE <<>>
  IN  [d EXCEPT !.kv = [b \in Blocks |->
         IF \E i \in 1..row : q.blocks[i] = b /\ in(i)
           THEN new(CHOOSE i \in 1..row : q.blocks[i] = b, @[b]) ELSE @[b]]]

\* sync_and_process_outputs: realize the tokens a batch computed. A request
\* released meanwhile keeps only a context that nobody reads.
Sync(a, entries) ==
  LET one(x, e) ==
        LET t == x.req[e.r].buf
        IN  IF stage[e.r] = "done" THEN x
            ELSE [req |-> [x.req EXCEPT ![e.r].buf = RealizeFutureToken(t)],
                  bad |-> x.bad \/ (GeneratedLength(t) > 0
                                       /\ (t.pend = 0 \/ RealizedPosition(t) # e.pos))]
  IN  FoldLeft(one, a, entries)

InBatch(entries) == {entries[i].r : i \in DOMAIN entries}

\* _can_defer_sync, for requests that sample greedily.
CanDeferSync ==
  /\ mode.depth = 2 /\ batch # <<>>
  /\ \A r \in ToSet(batch) :
       /\ stage[r] = "inTG"
       /\ req[r].buf.pend > 0 => inflight # <<>> /\ r \in InBatch(Last(inflight))

\* What the sync before the forward (_drain_pending_batches) and the one
\* after it leave behind.
SyncBefore(defer, a) ==
  IF ~defer /\ Len(inflight) = 2 THEN Sync(Sync(a, inflight[1]), inflight[2]) ELSE a
SyncAfter(defer, a) ==
  IF (defer /\ Len(inflight) = 2) \/ (~defer /\ Len(inflight) = 1)
    THEN Sync(a, Head(inflight)) ELSE a
StillInflight(defer) ==
  IF ~defer THEN <<>> ELSE IF Len(inflight) = 2 THEN Tail(inflight) ELSE inflight

\* The forward of every batched request, behind the offloads of runtime_inputs.
RunForward(reqs) ==
  FoldLeft(LAMBDA d, r : [d EXCEPT ![reqs[r].replica] = Forward(@, r, reqs[r])],
           [p \in Replicas |-> Offload(dev[p])], batch)

\* kv_manager.step for every batched request, in batch order.
StepAll(devs, reqs) ==
  LET put(a, r, p, x) == [dev |-> [a.dev EXCEPT ![p] = x.d],
                          req |-> [a.req EXCEPT ![r] = x.q]]
      one(a, r) == put(a, r, a.req[r].replica, Step(a.dev[a.req[r].replica], r, a.req[r]))
  IN  FoldLeft(one, [dev |-> devs, req |-> reqs], batch)

\* The placeholders this batch leaves, and where each one is (0: a chunk).
Placed(reqs) ==
  [r \in Requests |-> IF r \in ToSet(batch)
                        THEN [reqs[r] EXCEPT !.buf = UpdateWithFutureToken(@)]
                        ELSE reqs[r]]
Entries(reqs) ==
  [i \in DOMAIN batch |->
     [r |-> batch[i], pos |-> IF reqs[batch[i]].buf.chunked THEN 0
                                ELSE reqs[batch[i]].buf.len + 1]]

Execute ==
  /\ batch # <<>>
  /\ \E defer \in {CanDeferSync} :
     \E s0 \in {SyncBefore(defer, [req |-> req, bad |-> misplaced])} :
     \E s1 \in {SyncAfter(defer, s0)} :
     \E cur \in {Entries(s1.req)} :
     \E kv \in {StepAll(RunForward(s0.req), Placed(s1.req))} :
     \E s2 \in {IF mode.depth = 0 THEN Sync([req |-> kv.req, bad |-> s1.bad], cur)
                                  ELSE [req |-> kv.req, bad |-> s1.bad]} :
       /\ dev' = kv.dev
       /\ req' = s2.req
       /\ misplaced' = s2.bad
       /\ inflight' = IF mode.depth = 0 THEN <<>>
                        ELSE Append(StillInflight(defer), cur)
  /\ host' = FoldLeft(HostAfterOffload, host, <<dev[0], dev[1]>>)
  /\ stage' = [r \in Requests |->
                  IF r \notin ToSet(batch) THEN stage[r]
                  ELSE IF req[r].buf.chunked THEN "ce" ELSE "tg"]
  /\ batch' = <<>>
  /\ UNCHANGED mode

\* execute with an empty batch drains what is in flight.
ExecuteEmpty ==
  /\ batch = <<>> /\ inflight # <<>>
  /\ \E s \in {SyncAfter(FALSE, SyncBefore(FALSE, [req |-> req, bad |-> misplaced]))} :
       req' = s.req /\ misplaced' = s.bad
  /\ inflight' = <<>>
  /\ UNCHANGED <<mode, dev, stage, batch, host>>

-----------------------------------------------------------------------------
(* The connector and the control plane *)

\* A copy of an asynchronous connector lands.
TransferDone(p, i) ==
  /\ i \in DOMAIN dev[p].transfers /\ ~dev[p].transfers[i].done
  /\ LET t == dev[p].transfers[i]
         n == DOMAIN t.ids
     IN  /\ dev' = [dev EXCEPT
              ![p].transfers[i].done = TRUE,
              ![p].kv = [b \in Blocks |->
                 IF t.load /\ \E j \in n : t.ids[j] = b
                   THEN t.data[CHOOSE j \in n : t.ids[j] = b] ELSE @[b]]]
         /\ host' = IF t.load THEN host
                     ELSE [h \in DOMAIN host \cup ToSet(t.hashes) |->
                             IF h \in ToSet(t.hashes)
                               THEN dev[p].kv[t.ids[CHOOSE j \in n : t.hashes[j] = h]]
                               ELSE host[h]]
  /\ UNCHANGED <<mode, req, stage, batch, inflight, misplaced>>

\* PagedKVCacheManager.reset_prefix_cache, between two iterations.
ResetPrefixCache ==
  /\ batch = <<>>
  /\ \E p \in Replicas : DOMAIN dev[p].cache # {}
  /\ dev' = [p \in Replicas |-> ResetPool(dev[p])]
  /\ host' = [h \in {} |-> <<>>]
  /\ UNCHANGED <<mode, req, stage, batch, inflight, misplaced>>

Finished ==
  /\ \A r \in Requests : stage[r] = "done"
  /\ UNCHANGED vars

Next ==
  \/ \E r \in Requests : AdmitCE(r) \/ AdmitTG(r) \/ ReadmitOnload(r) \/ ReleaseRequest(r)
  \/ \E r, v \in Requests : Preempt(r, v)
  \/ Execute
  \/ ExecuteEmpty
  \/ \E p \in Replicas : \E i \in DOMAIN dev[p].transfers : TransferDone(p, i)
  \/ ResetPrefixCache
  \/ Finished

Spec == Init /\ [][Next]_vars

-----------------------------------------------------------------------------
(* Properties *)

\* The variables have their types.
TypeOK ==
  /\ mode \in [connector : {"null", "sync", "async"}, cross : BOOLEAN,
               replicas : SUBSET Replicas, depth : 0..2, arrive : SUBSET Requests]
  /\ \A p \in Replicas :
       /\ dev[p].free \in Seq(Blocks)
       /\ dev[p].ref \in [Blocks -> Nat]
       /\ \A h \in DOMAIN dev[p].cache : dev[p].cache[h] \in Blocks
  /\ \A r \in Requests :
       /\ req[r].blocks \in Seq(Blocks)
       /\ req[r].replica \in Replicas \cup {Unclaimed}
       /\ req[r].buf.proc < req[r].buf.end /\ req[r].buf.end <= req[r].buf.len
  /\ stage \in [Requests -> {"ce", "tg", "onload", "inCE", "inTG", "done"}]

\* How often block b of replica p is held, by requests and by transfers.
Holds(p, b) ==
  Cardinality({<<r, i>> \in Requests \X Blocks :
                 req[r].replica = p /\ i \in DOMAIN req[r].blocks /\ req[r].blocks[i] = b})
  + Cardinality({<<k, i>> \in (DOMAIN dev[p].transfers) \X Blocks :
                 i \in DOMAIN dev[p].transfers[k].blocks
                 /\ dev[p].transfers[k].blocks[i] = b})

\* Every reference count equals the number of holders, and the free queue
\* holds exactly the blocks nobody holds, once each: no block leaks, none is
\* handed out twice (BlockPool.alloc_block, free_block, touch).
BlocksConserved ==
  /\ TypeOK
  /\ \A p \in Replicas :
       /\ FreeQueueExact(dev[p])
       /\ \A b \in Blocks : dev[p].ref[b] = Holds(p, b)

\* committed_idx counts exactly the leading blocks of the request that carry
\* a hash, and each carries the hash of its place.
CommittedMatches(r) ==
  LET q == req[r]
      h(i) == dev[q.replica].hash[q.blocks[i]]
  IN  /\ CommittedBlocks(q) = Cardinality({k \in DOMAIN q.blocks :
                                \A i \in 1..k : h(i) # NoHash})
      /\ \A i \in 1..AtMost(q.nhash, Len(q.blocks)) :
           h(i) \in {NoHash, Prefix(r, i * BlockSize)}

\* Without asynchronous transfers the commit index of every claimed request
\* tells the truth at all times.
CommittedCounted ==
  mode.connector # "async" =>
    \A r \in Requests : req[r].replica # Unclaimed => CommittedMatches(r)

\* The prefix cache and the block hashes name each other, the commit indices
\* tell the truth, and no assert of the pool or of the block manager has failed.
CacheConsistent ==
  CommittedCounted /\ \A p \in Replicas : CacheKeyed(dev[p]) /\ dev[p].ok

\* A cached block holds the keys and values its hash promises, however it got
\* there: forward, copy from another replica, or load from the host tier.
\* (With two batches in flight a forward can miss its block, see WindowFits.)
CachedKVRight ==
  mode.depth < 2 =>
    \A p \in Replicas : \A h \in DOMAIN dev[p].cache :
      dev[p].kv[dev[p].cache[h]] = h

\* What the external tier stores under a hash is that block's KV: a block
\* being offloaded is not reused before the copy has been read.
HostKVRight == \A h \in DOMAIN host : host[h] = h

\* A hit, on the device or in the external tier, brings the right KV.
HitsRight == CachedKVRight /\ HostKVRight

\* Every processed token of a request the scheduler may run has its KV in the
\* request's own block table, whatever was evicted, copied, loaded, swapped
\* or preempted around it.
KVHoldsPrefix ==
  mode.depth < 2 =>
    \A r \in Requests : stage[r] \in {"ce", "tg", "inCE", "inTG"} =>
      LET q == req[r]
      IN  \A i \in 1..CeilDiv(q.buf.proc, BlockSize) :
            LET n == AtMost(i * BlockSize, q.buf.proc)
            IN  /\ i <= Len(q.blocks)
                /\ HasTokens(dev[q.replica].kv[q.blocks[i]], r, n)

\* The window a batched request is about to compute fits the blocks alloc
\* gave it: every position has a KV slot.
WindowFits ==
  \A r \in ToSet(batch) : req[r].buf.end <= Len(req[r].blocks) * BlockSize

\* The forward writes no block that is cached or that anyone else holds.
WritesExclusive ==
  \A r \in ToSet(batch) :
    LET q == req[r]
        first == q.buf.proc \div BlockSize + 1
    IN  \A i \in first..Len(q.blocks) :
          /\ dev[q.replica].ref[q.blocks[i]] = 1
          /\ dev[q.replica].hash[q.blocks[i]] = NoHash

\* Up to one batch in flight, the forward has its blocks to itself.
ForwardFits == mode.depth < 2 => WindowFits /\ WritesExclusive

\* A block is evicted before the blocks its hash extends: a cached child has
\* a cached parent, so a prefix lookup that stops at the first miss wastes
\* nothing. (Transfers unpin a chain parent first, so they can break it.)
ChainsWhole ==
  mode.connector # "async" =>
    \A p \in Replicas : \A h \in DOMAIN dev[p].cache :
      Len(h) > BlockSize => Parent(h) \in DOMAIN dev[p].cache

\* What assert_runtime_invariants asserts when BlockManager.step is entered
\* for a batched request, whatever the connector.
StepAsserts == \A r \in ToSet(batch) : CommittedMatches(r)

\* A token computed by a forward is written to the placeholder that forward
\* left, across preemption, chunking and two batches in flight.
TokensInPlace == ~misplaced

=============================================================================
