-------------------------- MODULE BlockPoolProofs --------------------------
(***************************************************************************)
(* Every method of the block pool keeps the pool consistent, for any       *)
(* number of blocks and any sequence of calls whose arguments satisfy the  *)
(* asserts: a block is in the free queue exactly when nobody holds it, and *)
(* prefix cache and block hashes name each other.                          *)
(*                                                                         *)
(* The lemmas are about a record that has at least the fields of a pool,   *)
(* as the devices of BlockManager do.                                      *)
(***************************************************************************)
EXTENDS BlockPool, Lemmas

Fields == {"free", "ref", "hash", "cache", "ok"}

PoolTypes(p) ==
  /\ Fields \subseteq DOMAIN p
  /\ p.free \in Seq(Blocks)
  /\ p.ref \in [Blocks -> Nat]
  /\ DOMAIN p.hash = Blocks
  /\ \A h \in DOMAIN p.cache : p.cache[h] \in Blocks /\ h # NoHash
  /\ p.ok \in BOOLEAN

PoolOK(p) == PoolTypes(p) /\ FreeQueueExact(p) /\ CacheKeyed(p)

-----------------------------------------------------------------------------
(* The free queue *)

\* Unlinking a block from a queue that holds it once.
LEMMA UnlinkFacts ==
  ASSUME NEW S, NEW s \in Seq(S), NEW b \in ToSet(s), IsInjective(s)
  PROVE  /\ Unlink(s, b) \in Seq(S)
         /\ IsInjective(Unlink(s, b))
         /\ ToSet(Unlink(s, b)) = ToSet(s) \ {b}
<1> DEFINE n == Len(s)
           k == CHOOSE i \in DOMAIN s : s[i] = b
           t == Unlink(s, b)
           lo == SubSeq(s, 1, k - 1)
           hi == SubSeq(s, k + 1, n)
<1>1. n \in Nat /\ DOMAIN s = 1..n /\ \A i \in 1..n : s[i] \in S
  OBVIOUS
<1>2. k \in 1..n /\ s[k] = b
  BY <1>1 DEF ToSet
<1> HIDE DEF k
<1>3. /\ lo \in Seq(S) /\ Len(lo) = k - 1 /\ \A i \in 1..(k - 1) : lo[i] = s[i]
      /\ hi \in Seq(S) /\ Len(hi) = n - k /\ \A i \in 1..(n - k) : hi[i] = s[i + k]
  <2>1. /\ lo \in Seq(S) /\ Len(lo) = k - 1 /\ \A i \in 1..(k - 1) : lo[i] = s[i]
    BY <1>1, <1>2
  <2>2. /\ hi \in Seq(S) /\ Len(hi) = n - k /\ \A i \in 1..(n - k) : hi[i] = s[i + k]
    <3> HIDE DEF n
    <3>1. k + 1 \in Int /\ n \in Int /\ n - (k + 1) + 1 = n - k
      BY <1>1, <1>2
    <3>a. ~(k + 1 <= n) => n - k = 0
      BY <1>1, <1>2
    <3>2. \A i \in (k + 1)..n : s[i] \in S
      BY <1>1, <1>2
    <3>3. \A i \in 1..(n - k) : (k + 1) + i - 1 = i + k
      BY <1>1, <1>2
    <3>4. /\ hi \in Seq(S) /\ Len(hi) = n - k
          /\ \A i \in 1..(n - k) : hi[i] = s[(k + 1) + i - 1]
      BY <3>1, <3>a, <3>2, SubSeqProperties
    <3>5. QED BY <3>3, <3>4
  <2>3. QED BY <2>1, <2>2
<1>4. t = lo \o hi
  BY DEF Unlink, RemoveAt, k
<1> HIDE DEF n, lo, hi, t
<1>5. /\ t \in Seq(S) /\ Len(t) = n - 1
      /\ \A i \in 1..(n - 1) : t[i] = s[IF i < k THEN i ELSE i + 1]
  <2>1. t \in Seq(S) /\ Len(t) = n - 1
    <3>1. t \in Seq(S) /\ Len(t) = Len(lo) + Len(hi)
      BY <1>3, <1>4, ConcatProperties
    <3>2. QED BY <1>1, <1>2, <1>3, <3>1
  <2>2. ASSUME NEW i \in 1..(n - 1), i < k PROVE t[i] = s[i]
    <3>1. i \in 1..(k - 1)
      BY <1>1, <1>2, <2>2
    <3>2. t[i] = lo[i]
      BY <1>1, <1>2, <1>3, <1>4, <3>1
    <3>3. QED BY <1>3, <3>1, <3>2
  <2>3. ASSUME NEW i \in 1..(n - 1), ~(i < k) PROVE t[i] = s[i + 1]
    <3>1. i - (k - 1) \in 1..(n - k) /\ (i - (k - 1)) + k = i + 1
      BY <1>1, <1>2, <2>3
    <3>2. t[i] = hi[i - (k - 1)]
      BY <1>1, <1>2, <1>3, <1>4, <2>3, <3>1
    <3>3. QED BY <1>3, <3>1, <3>2
  <2>4. QED BY <2>1, <2>2, <2>3
<1>6. DOMAIN t = 1..(n - 1)
  BY <1>5
<1>7. IsInjective(t)
  <2>1. SUFFICES ASSUME NEW i \in 1..(n - 1), NEW j \in 1..(n - 1), t[i] = t[j] PROVE i = j
    BY <1>6 DEF IsInjective
  <2> DEFINE x == IF i < k THEN i ELSE i + 1
             y == IF j < k THEN j ELSE j + 1
  <2>2. x \in 1..n /\ y \in 1..n /\ (x = y => i = j)
    BY <1>1, <1>2
  <2>3. s[x] = s[y]
    BY <1>5, <2>1
  <2>4. QED BY <1>1, <2>2, <2>3 DEF IsInjective
<1>8. \A i \in 1..(n - 1) : t[i] \in ToSet(s) /\ t[i] # b
  <2>1. SUFFICES ASSUME NEW i \in 1..(n - 1) PROVE t[i] \in ToSet(s) /\ t[i] # b
    OBVIOUS
  <2> DEFINE x == IF i < k THEN i ELSE i + 1
  <2>2. x \in 1..n /\ x # k
    BY <1>1, <1>2
  <2>3. t[i] = s[x]
    BY <1>5
  <2> HIDE DEF x
  <2>4. QED BY <1>1, <1>2, <2>2, <2>3 DEF ToSet, IsInjective
<1>9. \A j \in 1..n : s[j] # b => \E i \in 1..(n - 1) : t[i] = s[j]
  <2>1. SUFFICES ASSUME NEW j \in 1..n, s[j] # b PROVE \E i \in 1..(n - 1) : t[i] = s[j]
    OBVIOUS
  <2>2. j # k
    BY <1>2, <2>1
  <2>3. CASE j < k
    <3>1. j \in 1..(n - 1) /\ t[j] = s[j]
      BY <1>1, <1>2, <1>5, <2>3
    <3>2. QED BY <3>1
  <2>4. CASE j > k
    <3>1. j - 1 \in 1..(n - 1) /\ ~(j - 1 < k) /\ (j - 1) + 1 = j
      BY <1>1, <1>2, <2>4
    <3>2. t[j - 1] = s[j]
      BY <1>5, <3>1
    <3>3. QED BY <3>1, <3>2
  <2>5. QED BY <1>1, <1>2, <2>2, <2>3, <2>4
<1>10. ToSet(t) = ToSet(s) \ {b}
  <2> DEFINE D == 1..n
             E == 1..(n - 1)
  <2>1. /\ DOMAIN s = D /\ DOMAIN t = E
        /\ \A i \in E : t[i] \in ToSet(s) /\ t[i] # b
        /\ \A j \in D : s[j] # b => \E i \in E : t[i] = s[j]
    BY <1>1, <1>6, <1>8, <1>9
  <2> HIDE DEF D, E
  <2>2. QED BY <2>1 DEF ToSet
<1>11. QED BY <1>5, <1>7, <1>10 DEF t

-----------------------------------------------------------------------------
(* The methods *)

\* BlockPool.__init__.
LEMMA NewPoolOK == PoolOK(NewPool)
<1>1. NumBlocks \in Nat /\ Blocks = 1..NumBlocks
  BY SizesPositive DEF Blocks
<1>2. PoolTypes(NewPool)
  <2>1. NewPool.free \in Seq(Blocks)
    BY <1>1 DEF NewPool
  <2>2. QED BY <2>1 DEF NewPool, PoolTypes, Fields
<1>3. FreeQueueExact(NewPool)
  BY DEF NewPool, FreeQueueExact, IsInjective, ToSet
<1>4. CacheKeyed(NewPool)
  BY DEF NewPool, CacheKeyed
<1>5. QED BY <1>2, <1>3, <1>4 DEF PoolOK

\* commit_into_prefix_cache, for a block without a hash and a hash the cache
\* does not have.
LEMMA CommitKeeps ==
  ASSUME NEW p, PoolOK(p), NEW b \in Blocks, NEW h, h # NoHash,
         p.hash[b] = NoHash, h \notin DOMAIN p.cache
  PROVE  LET q == CommitIntoPrefixCache(p, h, b)
         IN  PoolOK(q) /\ q.ok = p.ok /\ q.ref = p.ref /\ q.hash[b] = h
<1> DEFINE q == CommitIntoPrefixCache(p, h, b)
<1>t. PoolTypes(p) /\ FreeQueueExact(p) /\ CacheKeyed(p)
  BY DEF PoolOK
<1>1. /\ DOMAIN q = DOMAIN p /\ q.free = p.free /\ q.ref = p.ref
      /\ q.hash = [p.hash EXCEPT ![b] = h]
      /\ q.cache = [x \in DOMAIN p.cache \cup {h} |-> IF x = h THEN b ELSE p.cache[x]]
      /\ q.ok = (p.ok /\ p.hash[b] = NoHash /\ h \notin DOMAIN p.cache)
  BY <1>t DEF CommitIntoPrefixCache, PoolTypes, Fields
<1>2. q.ok = p.ok
  BY <1>1, <1>t DEF PoolTypes
<1> HIDE DEF q
<1>3. PoolTypes(q)
  BY <1>t, <1>1, <1>2 DEF PoolTypes
<1>4. FreeQueueExact(q)
  BY <1>t, <1>1 DEF FreeQueueExact
<1>5. CacheKeyed(q)
  BY <1>t, <1>1 DEF CacheKeyed, PoolTypes
<1>6. QED BY <1>t, <1>1, <1>2, <1>3, <1>4, <1>5 DEF PoolOK, PoolTypes, q

\* free_block, for a block somebody holds.
LEMMA FreeKeeps ==
  ASSUME NEW p, PoolOK(p), NEW b \in Blocks, p.ref[b] > 0
  PROVE  LET q == FreeBlock(p, b)
         IN  /\ PoolOK(q) /\ q.ok = p.ok /\ q.hash = p.hash /\ q.cache = p.cache
             /\ q.ref = [p.ref EXCEPT ![b] = @ - 1]
<1> DEFINE q == FreeBlock(p, b)
<1>t. PoolTypes(p) /\ FreeQueueExact(p) /\ CacheKeyed(p)
  BY DEF PoolOK
<1>1. /\ DOMAIN q = DOMAIN p /\ q.hash = p.hash /\ q.cache = p.cache
      /\ q.ref = [p.ref EXCEPT ![b] = @ - 1]
      /\ q.free = (IF p.ref[b] = 1 THEN Append(p.free, b) ELSE p.free)
      /\ q.ok = (p.ok /\ p.ref[b] > 0)
  BY <1>t DEF FreeBlock, PoolTypes, Fields
<1>2. q.ok = p.ok
  BY <1>1, <1>t DEF PoolTypes
<1> HIDE DEF q
<1>3. /\ q.ref \in [Blocks -> Nat]
      /\ \A x \in Blocks : q.ref[x] = IF x = b THEN p.ref[x] - 1 ELSE p.ref[x]
  BY <1>t, <1>1 DEF PoolTypes
<1>4. b \notin ToSet(p.free)
  BY <1>t DEF FreeQueueExact
<1>5. q.free \in Seq(Blocks) /\ FreeQueueExact(q)
  <2>1. CASE p.ref[b] = 1
    <3>a. p.free \in Seq(Blocks) /\ Distinct(p.free)
      BY <1>t DEF FreeQueueExact, IsInjective, Distinct, PoolTypes
    <3>b. /\ q.free \in Seq(Blocks) /\ ToSet(q.free) = ToSet(p.free) \cup {b}
          /\ Distinct(q.free)
      BY <1>1, <1>4, <2>1, <3>a, AppendFacts
    <3>1. /\ q.free \in Seq(Blocks) /\ ToSet(q.free) = ToSet(p.free) \cup {b}
          /\ IsInjective(q.free)
      BY <3>b DEF IsInjective, Distinct
    <3>2. {x \in Blocks : q.ref[x] = 0} = {x \in Blocks : p.ref[x] = 0} \cup {b}
      BY <1>3, <2>1
    <3>3. QED BY <1>t, <3>1, <3>2 DEF FreeQueueExact
  <2>2. CASE p.ref[b] # 1
    <3>1. p.ref[b] \in Nat
      BY <1>t DEF PoolTypes
    <3>2. \A x \in Blocks : q.ref[x] = 0 <=> p.ref[x] = 0
      BY <1>3, <2>2, <3>1
    <3>3. q.free = p.free
      BY <1>1, <2>2
    <3>4. QED BY <1>t, <3>2, <3>3 DEF FreeQueueExact, PoolTypes
  <2>3. QED BY <2>1, <2>2
<1>6. PoolTypes(q)
  BY <1>t, <1>1, <1>2, <1>3, <1>5 DEF PoolTypes
<1>7. CacheKeyed(q)
  BY <1>t, <1>1 DEF CacheKeyed
<1>8. QED BY <1>1, <1>2, <1>5, <1>6, <1>7 DEF PoolOK, q

\* touch, for any block: a free one leaves the queue, a held one stays out.
LEMMA TouchKeeps ==
  ASSUME NEW p, PoolOK(p), NEW b \in Blocks
  PROVE  LET q == Touch(p, b)
         IN  /\ PoolOK(q) /\ q.ok = p.ok /\ q.hash = p.hash /\ q.cache = p.cache
             /\ q.ref = [p.ref EXCEPT ![b] = @ + 1]
<1> DEFINE q == Touch(p, b)
<1>t. PoolTypes(p) /\ FreeQueueExact(p) /\ CacheKeyed(p)
  BY DEF PoolOK
<1>1. /\ DOMAIN q = DOMAIN p /\ q.hash = p.hash /\ q.cache = p.cache /\ q.ok = p.ok
      /\ q.ref = [p.ref EXCEPT ![b] = @ + 1]
      /\ q.free = (IF p.ref[b] = 0 THEN Unlink(p.free, b) ELSE p.free)
  BY <1>t DEF Touch, PoolTypes, Fields
<1> HIDE DEF q
<1>3. /\ q.ref \in [Blocks -> Nat]
      /\ \A x \in Blocks : q.ref[x] = IF x = b THEN p.ref[x] + 1 ELSE p.ref[x]
  BY <1>t, <1>1 DEF PoolTypes
<1>5. q.free \in Seq(Blocks) /\ FreeQueueExact(q)
  <2>1. CASE p.ref[b] = 0
    <3>1. b \in ToSet(p.free)
      BY <1>t, <2>1 DEF FreeQueueExact
    <3>2. /\ q.free \in Seq(Blocks) /\ ToSet(q.free) = ToSet(p.free) \ {b}
          /\ IsInjective(q.free)
      BY <1>t, <1>1, <2>1, <3>1, UnlinkFacts DEF FreeQueueExact, PoolTypes
    <3>3. {x \in Blocks : q.ref[x] = 0} = {x \in Blocks : p.ref[x] = 0} \ {b}
      BY <1>3, <2>1
    <3>4. QED BY <1>t, <3>2, <3>3 DEF FreeQueueExact
  <2>2. CASE p.ref[b] # 0
    <3>1. p.ref[b] \in Nat
      BY <1>t DEF PoolTypes
    <3>2. \A x \in Blocks : q.ref[x] = 0 <=> p.ref[x] = 0
      BY <1>3, <2>2, <3>1
    <3>3. q.free = p.free
      BY <1>1, <2>2
    <3>4. QED BY <1>t, <3>2, <3>3 DEF FreeQueueExact, PoolTypes
  <2>3. QED BY <2>1, <2>2
<1>6. PoolTypes(q)
  BY <1>t, <1>1, <1>3, <1>5 DEF PoolTypes
<1>7. CacheKeyed(q)
  BY <1>t, <1>1 DEF CacheKeyed
<1>8. QED BY <1>1, <1>5, <1>6, <1>7 DEF PoolOK, q

\* get_or_commit_into_prefix_cache, for a block the caller holds and that has no
\* hash or is the one cached under this hash: the caller comes away holding the
\* block that the cache has under the hash.
LEMMA GetOrCommitKeeps ==
  ASSUME NEW p, PoolOK(p), NEW b \in Blocks, NEW h, h # NoHash, p.ref[b] > 0,
         p.hash[b] = NoHash \/ p.hash[b] = h
  PROVE  LET g == GetOrCommit(p, h, b)
         IN  /\ PoolOK(g.pool) /\ g.pool.ok = p.ok
             /\ g.block \in Blocks /\ g.pool.ref[g.block] > 0
             /\ h \in DOMAIN g.pool.cache /\ g.pool.cache[h] = g.block
<1> DEFINE g == GetOrCommit(p, h, b)
<1>t. PoolTypes(p) /\ CacheKeyed(p) /\ p.ref \in [Blocks -> Nat] /\ p.ok \in BOOLEAN
  BY DEF PoolOK, PoolTypes
<1>1. CASE h \notin DOMAIN p.cache
  <2> DEFINE q == CommitIntoPrefixCache(p, h, b)
  <2>1. g.pool = q /\ g.block = b
    BY <1>1 DEF GetOrCommit
  <2>2. p.hash[b] = NoHash
    BY <1>1, <1>t DEF CacheKeyed
  <2>3. PoolOK(q) /\ q.ok = p.ok /\ q.ref = p.ref /\ q.hash[b] = h
    BY <1>1, <2>2, CommitKeeps
  <2> HIDE DEF q, g
  <2>4. h \in DOMAIN q.cache /\ q.cache[h] = b
    BY <2>3 DEF PoolOK, CacheKeyed
  <2>5. QED BY <2>1, <2>3, <2>4 DEF g
<1>2. CASE h \in DOMAIN p.cache /\ p.cache[h] = b
  <2>1. g.pool = p /\ g.block = b
    BY <1>2 DEF GetOrCommit
  <2> HIDE DEF g
  <2>2. QED BY <1>2, <2>1 DEF g
<1>3. CASE h \in DOMAIN p.cache /\ p.cache[h] # b
  <2> DEFINE c == p.cache[h]
             e == Touch(p, c)
             f == FreeBlock(e, b)
  <2>1. g.block = c /\ g.pool = [f EXCEPT !.ok = @ /\ p.hash[b] = NoHash]
    BY <1>3 DEF GetOrCommit
  <2>2. c \in Blocks /\ c # b /\ p.hash[c] = h
    BY <1>3, <1>t DEF PoolTypes, CacheKeyed
  <2>3. p.hash[b] = NoHash
    BY <1>3, <1>t, <2>2 DEF CacheKeyed
  <2> HIDE DEF c
  <2>4. /\ PoolOK(e) /\ e.ok = p.ok /\ e.hash = p.hash /\ e.cache = p.cache
        /\ e.ref = [p.ref EXCEPT ![c] = @ + 1]
    BY <2>2, TouchKeeps
  <2> HIDE DEF e
  <2>5. e.ref[b] > 0
    BY <1>t, <2>2, <2>4
  <2>6. /\ PoolOK(f) /\ f.ok = e.ok /\ f.hash = e.hash /\ f.cache = e.cache
        /\ f.ref = [e.ref EXCEPT ![b] = @ - 1]
    BY <2>4, <2>5, FreeKeeps
  <2> HIDE DEF f, g
  <2>7. f.ok = p.ok /\ f.ref[c] = p.ref[c] + 1 /\ f.cache = p.cache
    BY <1>t, <2>2, <2>4, <2>6
  <2>8. /\ DOMAIN g.pool = DOMAIN f /\ g.pool.free = f.free /\ g.pool.ref = f.ref
        /\ g.pool.hash = f.hash /\ g.pool.cache = f.cache /\ g.pool.ok = f.ok
    BY <1>t, <2>1, <2>3, <2>6, <2>7 DEF PoolOK, PoolTypes, Fields
  <2>9. PoolOK(g.pool)
    BY <2>6, <2>8 DEF PoolOK, PoolTypes, FreeQueueExact, CacheKeyed
  <2>10. g.pool.ref[c] > 0
    BY <1>t, <2>2, <2>7, <2>8
  <2>11. QED BY <1>3, <2>1, <2>2, <2>7, <2>8, <2>9, <2>10 DEF g, c
<1>4. QED BY <1>1, <1>2, <1>3

\* uncommit_block, for a block that is cached.
LEMMA UncommitKeeps ==
  ASSUME NEW p, PoolOK(p), NEW b \in Blocks, p.hash[b] # NoHash
  PROVE  LET q == UncommitBlock(p, b)
         IN  /\ PoolOK(q) /\ q.ok = p.ok /\ q.free = p.free /\ q.ref = p.ref
             /\ q.hash = [p.hash EXCEPT ![b] = NoHash]
<1> DEFINE q == UncommitBlock(p, b)
           D == DOMAIN p.cache \ {p.hash[b]}
<1>t. PoolTypes(p) /\ FreeQueueExact(p) /\ CacheKeyed(p)
  BY DEF PoolOK
<1>1. p.hash[b] \in DOMAIN p.cache /\ p.cache[p.hash[b]] = b
  BY <1>t DEF CacheKeyed
<1>2. /\ DOMAIN q = DOMAIN p /\ q.free = p.free /\ q.ref = p.ref /\ q.ok = p.ok
      /\ q.hash = [p.hash EXCEPT ![b] = NoHash]
      /\ q.cache = [x \in D |-> p.cache[x]]
  BY <1>t, <1>1 DEF UncommitBlock, Restrict, PoolTypes, Fields
<1> HIDE DEF q
<1>3. PoolTypes(q)
  BY <1>t, <1>2 DEF PoolTypes
<1>4. FreeQueueExact(q)
  BY <1>t, <1>2 DEF FreeQueueExact
<1>5. CacheKeyed(q)
  BY <1>t, <1>1, <1>2 DEF CacheKeyed, PoolTypes
<1>6. QED BY <1>2, <1>3, <1>4, <1>5 DEF PoolOK, q

\* alloc_block, when a block is free: its asserts hold, and the caller gets a block
\* that nobody else holds and that the cache does not name.
LEMMA AllocKeeps ==
  ASSUME NEW p, PoolOK(p), p.free # <<>>
  PROVE  LET q == AllocBlock(p)
             b == Head(p.free)
         IN  /\ PoolOK(q) /\ q.ok = p.ok /\ b \in Blocks /\ p.ref[b] = 0 /\ q.ref[b] = 1
             /\ q.hash[b] = NoHash /\ \A h \in DOMAIN q.cache : q.cache[h] # b
             /\ \A x \in Blocks : x # b => q.ref[x] = p.ref[x] /\ q.hash[x] = p.hash[x]
<1> DEFINE b == Head(p.free)
           e == IF p.hash[b] = NoHash THEN p ELSE UncommitBlock(p, b)
           q == AllocBlock(p)
<1>t. PoolTypes(p) /\ FreeQueueExact(p) /\ p.free \in Seq(Blocks) /\ Distinct(p.free)
  BY DEF PoolOK, PoolTypes, FreeQueueExact, IsInjective, Distinct
<1>1. /\ b \in Blocks /\ Tail(p.free) \in Seq(Blocks)
      /\ ToSet(p.free) = ToSet(Tail(p.free)) \cup {b}
      /\ Distinct(Tail(p.free)) /\ b \notin ToSet(Tail(p.free))
  BY <1>t, TailFacts
<1>2. p.ref[b] = 0
  BY <1>t, <1>1 DEF FreeQueueExact
<1>3. q = [e EXCEPT !.free = Tail(@), !.ref[b] = @ + 1,
                    !.ok = @ /\ p.ref[b] = 0 /\ e.hash[b] = NoHash]
  BY DEF AllocBlock
<1> HIDE DEF b, q
<1>4. /\ PoolOK(e) /\ e.ok = p.ok /\ e.free = p.free /\ e.ref = p.ref
      /\ \A x \in Blocks : e.hash[x] = IF x = b THEN NoHash ELSE p.hash[x]
  <2>1. CASE p.hash[b] = NoHash
    BY <2>1
  <2>2. CASE p.hash[b] # NoHash
    <3>1. e = UncommitBlock(p, b)
      BY <2>2
    <3> HIDE DEF e
    <3>2. /\ PoolOK(e) /\ e.ok = p.ok /\ e.free = p.free /\ e.ref = p.ref
          /\ e.hash = [p.hash EXCEPT ![b] = NoHash]
      BY <1>1, <2>2, <3>1, UncommitKeeps
    <3>3. QED BY <1>t, <3>2 DEF PoolTypes
  <2>3. QED BY <2>1, <2>2
<1> HIDE DEF e
<1>5. PoolTypes(e) /\ FreeQueueExact(e) /\ CacheKeyed(e) /\ e.hash[b] = NoHash /\ e.ok \in BOOLEAN
  BY <1>1, <1>4, <1>t DEF PoolOK, PoolTypes
<1>6. /\ DOMAIN q = DOMAIN e /\ q.free = Tail(e.free) /\ q.ref = [e.ref EXCEPT ![b] = @ + 1]
      /\ q.hash = e.hash /\ q.cache = e.cache
      /\ q.ok = (e.ok /\ p.ref[b] = 0 /\ e.hash[b] = NoHash)
  BY <1>3, <1>5 DEF PoolTypes, Fields
<1>7. q.ok = e.ok
  BY <1>2, <1>5, <1>6
<1>8. /\ q.ref \in [Blocks -> Nat]
      /\ \A x \in Blocks : q.ref[x] = IF x = b THEN 1 ELSE p.ref[x]
  BY <1>1, <1>2, <1>4, <1>5, <1>6 DEF PoolTypes
<1>9. PoolTypes(q)
  BY <1>1, <1>4, <1>5, <1>6, <1>7, <1>8 DEF PoolTypes
<1>10. FreeQueueExact(q)
  <2>1. {x \in Blocks : q.ref[x] = 0} = {x \in Blocks : p.ref[x] = 0} \ {b}
    BY <1>8
  <2>2. ToSet(q.free) = ToSet(p.free) \ {b}
    BY <1>1, <1>4, <1>6
  <2>3. IsInjective(q.free)
    BY <1>1, <1>4, <1>6 DEF IsInjective, Distinct
  <2>4. QED BY <1>t, <2>1, <2>2, <2>3 DEF FreeQueueExact
<1>11. CacheKeyed(q)
  BY <1>5, <1>6 DEF CacheKeyed
<1>12. \A h \in DOMAIN q.cache : q.cache[h] # b
  BY <1>5, <1>6 DEF CacheKeyed, PoolTypes
<1>13. \A x \in Blocks : x # b => q.ref[x] = p.ref[x] /\ q.hash[x] = p.hash[x]
  BY <1>t, <1>4, <1>6, <1>8 DEF PoolTypes
<1>14. QED BY <1>1, <1>2, <1>4, <1>5, <1>6, <1>7, <1>8, <1>9, <1>10, <1>11, <1>12, <1>13
       DEF PoolOK, b, q

\* reset_prefix_cache: entries of held blocks stay, all others go with their hashes.
LEMMA ResetKeeps ==
  ASSUME NEW p, PoolOK(p)
  PROVE  LET q == ResetPool(p)
         IN  /\ PoolOK(q) /\ q.ok = p.ok /\ q.ref = p.ref
             /\ \A h \in DOMAIN q.cache : p.ref[q.cache[h]] > 0
             /\ \A b \in Blocks : p.ref[b] > 0 => q.hash[b] = p.hash[b]
<1> DEFINE purged == {h \in DOMAIN p.cache : p.ref[p.cache[h]] = 0}
           q == ResetPool(p)
<1>t. PoolTypes(p) /\ FreeQueueExact(p) /\ CacheKeyed(p)
  BY DEF PoolOK
<1>1. /\ DOMAIN q = DOMAIN p /\ q.free = p.free /\ q.ref = p.ref /\ q.ok = p.ok
      /\ q.hash = [b \in Blocks |-> IF \E h \in purged : p.cache[h] = b
                                      THEN NoHash ELSE p.hash[b]]
      /\ q.cache = [x \in DOMAIN p.cache \ purged |-> p.cache[x]]
  BY <1>t DEF ResetPool, Restrict, PoolTypes, Fields
<1> HIDE DEF q
<1>2. \A b \in Blocks : q.hash[b] = IF p.ref[b] = 0 THEN NoHash ELSE p.hash[b]
  BY <1>t, <1>1 DEF CacheKeyed
<1>3. \A h \in DOMAIN q.cache : h \in DOMAIN p.cache /\ q.cache[h] = p.cache[h]
                                /\ p.ref[p.cache[h]] # 0
  BY <1>1
<1>4. PoolTypes(q)
  BY <1>t, <1>1, <1>3 DEF PoolTypes
<1>5. FreeQueueExact(q)
  BY <1>t, <1>1 DEF FreeQueueExact
<1>6. CacheKeyed(q)
  <2>1. \A h \in DOMAIN q.cache : q.hash[q.cache[h]] = h
    BY <1>t, <1>2, <1>3 DEF CacheKeyed, PoolTypes
  <2>2. ASSUME NEW b \in Blocks, q.hash[b] # NoHash
        PROVE  q.hash[b] \in DOMAIN q.cache /\ q.cache[q.hash[b]] = b
    <3>1. p.ref[b] # 0 /\ q.hash[b] = p.hash[b]
      BY <1>2, <2>2
    <3>2. p.hash[b] \in DOMAIN p.cache /\ p.cache[p.hash[b]] = b
      BY <1>t, <2>2, <3>1 DEF CacheKeyed
    <3>3. QED BY <1>1, <3>1, <3>2
  <2>3. QED BY <2>1, <2>2 DEF CacheKeyed
<1>7. \A h \in DOMAIN q.cache : p.ref[q.cache[h]] > 0
  <2>1. SUFFICES ASSUME NEW h \in DOMAIN q.cache PROVE p.ref[q.cache[h]] > 0
    OBVIOUS
  <2>2. p.cache[h] \in Blocks
    BY <1>t, <1>3 DEF PoolTypes
  <2>3. p.ref[p.cache[h]] \in Nat
    BY <1>t, <2>2 DEF PoolTypes
  <2>4. QED BY <1>3, <2>3
<1>8. \A b \in Blocks : p.ref[b] > 0 => q.hash[b] = p.hash[b]
  BY <1>2
<1>9. QED BY <1>1, <1>4, <1>5, <1>6, <1>7, <1>8 DEF PoolOK, q

-----------------------------------------------------------------------------
(* Any sequence of calls *)

VARIABLE pool

\* The callers of the methods keep to the contract that the asserts state: they
\* take a block only if one is free, free only what is held, and commit a block
\* under a hash only if it has no other hash.
TouchCall(b) == pool' = Touch(pool, b)
FreeCall(b) == pool.ref[b] > 0 /\ pool' = FreeBlock(pool, b)
AllocCall == pool.free # <<>> /\ pool' = AllocBlock(pool)
UncommitCall(b) == pool.hash[b] # NoHash /\ pool' = UncommitBlock(pool, b)
CommitCall(h, b) ==
  /\ h # NoHash /\ pool.hash[b] = NoHash /\ h \notin DOMAIN pool.cache
  /\ pool' = CommitIntoPrefixCache(pool, h, b)
GetOrCommitCall(h, b) ==
  /\ h # NoHash /\ pool.ref[b] > 0 /\ pool.hash[b] \in {NoHash, h}
  /\ pool' = GetOrCommit(pool, h, b).pool
ResetCall == pool' = ResetPool(pool)

PoolNext ==
  \/ \E b \in Blocks : TouchCall(b) \/ FreeCall(b) \/ UncommitCall(b)
  \/ \E b \in Blocks : \E h : CommitCall(h, b) \/ GetOrCommitCall(h, b)
  \/ AllocCall \/ ResetCall

PoolSpec == pool = NewPool /\ [][PoolNext]_pool

\* Whatever the sequence of calls, the free queue holds exactly the blocks nobody
\* holds, each once, cache and hashes name each other, and no assert of the pool
\* fails (alloc_block, free_block, touch, commit_into_prefix_cache,
\* get_or_commit_into_prefix_cache, uncommit_block, reset_prefix_cache).
THEOREM PoolStaysConsistent ==
  PoolSpec => [](FreeQueueExact(pool) /\ CacheKeyed(pool) /\ pool.ok)
<1> DEFINE I == PoolOK(pool) /\ pool.ok
<1>1. pool = NewPool => I
  BY NewPoolOK DEF NewPool
<1>2. ASSUME I, [PoolNext]_pool PROVE I'
  <2>1. ASSUME NEW b \in Blocks, TouchCall(b) PROVE I'
    BY <1>2, <2>1, TouchKeeps DEF TouchCall
  <2>2. ASSUME NEW b \in Blocks, FreeCall(b) PROVE I'
    BY <1>2, <2>2, FreeKeeps DEF FreeCall
  <2>3. ASSUME NEW b \in Blocks, UncommitCall(b) PROVE I'
    BY <1>2, <2>3, UncommitKeeps DEF UncommitCall
  <2>4. ASSUME NEW b \in Blocks, NEW h, CommitCall(h, b) PROVE I'
    BY <1>2, <2>4, CommitKeeps DEF CommitCall
  <2>5. ASSUME NEW b \in Blocks, NEW h, GetOrCommitCall(h, b) PROVE I'
    BY <1>2, <2>5, GetOrCommitKeeps DEF GetOrCommitCall
  <2>6. CASE AllocCall
    BY <1>2, <2>6, AllocKeeps DEF AllocCall
  <2>7. CASE ResetCall
    BY <1>2, <2>7, ResetKeeps DEF ResetCall
  <2>8. CASE UNCHANGED pool
    BY <1>2, <2>8
  <2>9. QED BY <1>2, <2>1, <2>2, <2>3, <2>4, <2>5, <2>6, <2>7, <2>8 DEF PoolNext
<1>3. I => FreeQueueExact(pool) /\ CacheKeyed(pool) /\ pool.ok
  BY DEF PoolOK
<1> HIDE DEF I
<1>4. QED BY <1>1, <1>2, <1>3, PTL DEF PoolSpec
=============================================================================
