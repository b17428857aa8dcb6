----------------------------- MODULE BlockPool -----------------------------
(***************************************************************************)
(* The device block pool of the paged KV cache (block_pool.py) and its     *)
(* free queue (block_utils.py), as operators on a pool record:             *)
(*                                                                         *)
(*   free    free_block_queue, the eviction order, least recently used     *)
(*           first                                                         *)
(*   ref     ref_cnt of every block                                        *)
(*   hash    block_hash of every block, NoHash for None                    *)
(*   cache   prefix_cache, from hashes to blocks                           *)
(*   ok      FALSE once an assert of the code has failed                   *)
(*                                                                         *)
(* A hash is the token prefix it was computed from: compute_block_hashes   *)
(* chains every block's hash onto its parent's, so two blocks have the     *)
(* same hash exactly when the whole token prefix up to them agrees.        *)
(***************************************************************************)
EXTENDS Naturals, Sequences, SequencesExt, Functions

CONSTANTS NumBlocks,   \* total_num_blocks of one replica's pool
          BlockSize    \* tokens per block

ASSUME SizesPositive == NumBlocks \in Nat \ {0} /\ BlockSize \in Nat \ {0}

Blocks == 1..NumBlocks

NoHash == <<>>

\* BlockPool.__init__: every block is free, in block-id order.
NewPool == [free  |-> [b \in Blocks |-> b],
            ref   |-> [b \in Blocks |-> 0],
            hash  |-> [b \in Blocks |-> NoHash],
            cache |-> [h \in {} |-> 0],
            ok    |-> TRUE]

NumFree(p) == Len(p.free)

\* The parent of a block's hash in the chain; NoHash for a first block.
Parent(h) == SubSeq(h, 1, Len(h) - BlockSize)

CommitIntoPrefixCache(p, h, b) ==
  [p EXCEPT !.ok       = @ /\ p.hash[b] = NoHash /\ h \notin DOMAIN p.cache,
            !.hash[b]  = h,
            !.cache    = [x \in DOMAIN @ \cup {h} |-> IF x = h THEN b ELSE @[x]]]

\* free_block appends the block to the eviction order when its last holder
\* lets go; its hash stays, so it can still be hit.
FreeBlock(p, b) ==
  [p EXCEPT !.ok     = @ /\ p.ref[b] > 0,
            !.ref[b] = @ - 1,
            !.free   = IF p.ref[b] = 1 THEN Append(@, b) ELSE @]

\* Faulty: a hit block stays in the eviction order.
TouchInQueue(p, b) == [p EXCEPT !.ref[b] = @ + 1]

\* _FreeKVCacheBlockQueue.remove: unlinks the block from where it is.
Unlink(s, b) == RemoveAt(s, CHOOSE i \in DOMAIN s : s[i] = b)

Touch(p, b) ==
  [p EXCEPT !.ref[b] = @ + 1,
            !.free   = IF p.ref[b] = 0 THEN Unlink(@, b) ELSE @]

\* get_or_commit_into_prefix_cache: the pool afterwards and the block the
\* request must use from now on.
GetOrCommit(p, h, b) ==
  IF h \notin DOMAIN p.cache
    THEN [pool |-> CommitIntoPrefixCache(p, h, b), block |-> b]
  ELSE IF p.cache[h] = b
    THEN [pool |-> p, block |-> b]
  ELSE LET q == FreeBlock(Touch(p, p.cache[h]), b)
       IN  [pool  |-> [q EXCEPT !.ok = @ /\ p.hash[b] = NoHash],
            block |-> p.cache[h]]

\* Faulty: an evicted block keeps its hash.
UncommitEntryOnly(p, b) == [p EXCEPT !.cache = Restrict(@, DOMAIN @ \ {p.hash[b]})]

\* uncommit_block: drops the cache entry; a hash the cache does not know
\* leaves the block as it is.
UncommitBlock(p, b) ==
  IF p.hash[b] \notin DOMAIN p.cache
    THEN p
    ELSE [p EXCEPT !.cache   = Restrict(@, DOMAIN @ \ {p.hash[b]}),
                   !.hash[b] = NoHash]

\* alloc_block: the least recently used free block, evicted if it is cached.
AllocBlock(p) ==
  LET b == Head(p.free)
      e == IF p.hash[b] = NoHash THEN p ELSE UncommitBlock(p, b)
  IN  [e EXCEPT !.free   = Tail(@),
                !.ref[b] = @ + 1,
                !.ok     = @ /\ p.ref[b] = 0 /\ e.hash[b] = NoHash]

\* reset_prefix_cache purges the entries that no request and no transfer holds.
ResetPool(p) ==
  LET purged == {h \in DOMAIN p.cache : p.ref[p.cache[h]] = 0}
  IN  [p EXCEPT !.cache = Restrict(@, DOMAIN @ \ purged),
                !.hash  = [b \in Blocks |-> IF \E h \in purged : p.cache[h] = b
                                              THEN NoHash ELSE @[b]]]

-----------------------------------------------------------------------------

\* The free queue holds exactly the blocks without a holder, each once.
FreeQueueExact(p) ==
  /\ IsInjective(p.free)
  /\ ToSet(p.free) = {b \in Blocks : p.ref[b] = 0}

\* Cache entries and block hashes agree in both directions.
CacheKeyed(p) ==
  /\ \A h \in DOMAIN p.cache : p.hash[p.cache[h]] = h
  /\ \A b \in Blocks : p.hash[b] # NoHash =>
       p.hash[b] \in DOMAIN p.cache /\ p.cache[p.hash[b]] = b

=============================================================================
