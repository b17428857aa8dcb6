--------------------------- MODULE ServingProofs ---------------------------
(***************************************************************************)
(* Serving keeps its blocks, its requests and its streams, for any number  *)
(* of requests, any configuration and any pool: NoBlockLost, OnePlace,     *)
(* BatchBacked and StreamExact, and OnlyGenuineOOM where prompts are not   *)
(* chunked and no KV is loaded.                                            *)
(*                                                                         *)
(* All follow from ServingInv: where the bound requests are, that requests *)
(* not bound yet have nothing, that a placeholder in a buffer is that of   *)
(* the batch not synchronized yet, and that the responses on their way     *)
(* continue what the client has.                                           *)
(***************************************************************************)
EXTENDS Serving, Lemmas

-----------------------------------------------------------------------------
(* Filtering a queue *)

\* A finite set of numbers and the ranks of its members.
LEMMA RankFacts ==
  ASSUME NEW A \in SUBSET Nat, IsFiniteSet(A)
  PROVE  LET rank(i) == Cardinality({j \in A : j <= i})
         IN  /\ \A i \in A : rank(i) \in 1..Cardinality(A)
             /\ \A i, j \in A : rank(i) = rank(j) => i = j
             /\ \A k \in 1..Cardinality(A) : \E i \in A : rank(i) = k
<1> DEFINE below(i) == {j \in A : j <= i}
           rank(i) == Cardinality(below(i))
           n == Cardinality(A)
<1>1. n \in Nat
  BY FS_CardinalityType
<1>2. ASSUME NEW i \in A PROVE IsFiniteSet(below(i)) /\ rank(i) \in Nat /\ rank(i) <= n
  <2>1. below(i) \in SUBSET A
    OBVIOUS
  <2>2. IsFiniteSet(below(i)) /\ Cardinality(below(i)) <= Cardinality(A)
    BY <2>1, FS_Subset
  <2>3. QED BY <2>2, FS_CardinalityType
<1>3. ASSUME NEW i \in A PROVE rank(i) # 0
  <2>1. i \in below(i)
    BY i \in Nat
  <2>2. QED BY <1>2, <2>1, FS_EmptySet
<1>4. ASSUME NEW i \in A, NEW j \in A, i < j PROVE rank(i) # rank(j)
  <2>1. i \in Nat /\ j \in Nat
    OBVIOUS
  <2>2. below(i) \in SUBSET below(j)
    <3>1. \A x \in A : x \in Nat
      OBVIOUS
    <3>2. \A x \in Nat : x <= i => x <= j
      BY <1>4, <2>1
    <3>3. QED BY <3>1, <3>2
  <2>3. j \in below(j) /\ j \notin below(i)
    BY <1>4, <2>1
  <2>4. IsFiniteSet(below(j))
    BY <1>2
  <2> HIDE DEF below
  <2>5. Cardinality(below(j)) = Cardinality(below(i)) => below(j) = below(i)
    BY <2>2, <2>4, FS_Subset
  <2>6. QED BY <2>3, <2>5
<1>5. ASSUME NEW i \in A, NEW j \in A, rank(i) = rank(j) PROVE i = j
  <2>1. i \in Nat /\ j \in Nat
    OBVIOUS
  <2>2. i < j \/ j < i \/ i = j
    BY <2>1
  <2> HIDE DEF rank
  <2>3. QED BY <1>4, <1>5, <2>2
<1> DEFINE f == [i \in A |-> rank(i)]
           N == 1..n
<1>6. ASSUME NEW i \in A PROVE rank(i) \in N
  <2>1. rank(i) \in Nat /\ rank(i) <= n /\ rank(i) # 0 /\ n \in Nat
    BY <1>1, <1>2, <1>3
  <2> HIDE DEF rank, n
  <2>2. QED BY <2>1
<1>7. IsFiniteSet(N) /\ Cardinality(N) = n
  <2>1. \A k \in Nat : IsFiniteSet(1..k) /\ Cardinality(1..k) = k
    BY FS_Interval
  <2> HIDE DEF n
  <2>2. QED BY <1>1, <2>1
<1> HIDE DEF rank, N
<1>8. f \in Injection(A, N)
  BY <1>5, <1>6 DEF Injection, IsInjective
<1>9. f \in Surjection(A, N)
  <2> HIDE DEF f
  <2>1. QED BY <1>7, <1>8, FS_Injection DEF n
<1>10. ASSUME NEW k \in N PROVE \E i \in A : rank(i) = k
  BY <1>9 DEF Surjection
<1>11. QED BY <1>5, <1>6, <1>10 DEF rank, N, n

\* Keeping a part of a queue.
LEMMA KeepFacts ==
  ASSUME NEW R, NEW s \in Seq(R), NEW S
  PROVE  /\ Keep(s, S) \in Seq(R)
         /\ ToSet(Keep(s, S)) = ToSet(s) \cap S
         /\ Distinct(s) => Distinct(Keep(s, S))
<1> DEFINE at == {i \in DOMAIN s : s[i] \in S}
           rank(i) == Cardinality({j \in at : j <= i})
           n == Cardinality(at)
           pos(k) == CHOOSE i \in at : rank(i) = k
           u == Keep(s, S)
<1>1. Len(s) \in Nat /\ DOMAIN s = 1..Len(s) /\ \A i \in DOMAIN s : s[i] \in R
  BY LenProperties, ElementOfSeq
<1>2. IsFiniteSet(at) /\ at \in SUBSET Nat
  <2>1. IsFiniteSet(1..Len(s))
    BY <1>1, FS_Interval
  <2>2. at \in SUBSET (1..Len(s)) /\ 1..Len(s) \subseteq Nat
    BY <1>1
  <2>3. QED BY <2>1, <2>2, FS_Subset
<1>3. n \in Nat
  BY <1>2, FS_CardinalityType
<1>4. u = [k \in 1..n |-> s[pos(k)]]
  BY DEF Keep
<1>a. \A i \in at : i \in DOMAIN s /\ s[i] \in S
  OBVIOUS
<1>b. \A i \in DOMAIN s : s[i] \in S => i \in at
  OBVIOUS
<1> HIDE DEF at
<1>5. /\ \A i \in at : rank(i) \in 1..n
      /\ \A i, j \in at : rank(i) = rank(j) => i = j
      /\ \A k \in 1..n : \E i \in at : rank(i) = k
  BY <1>2, RankFacts
<1> HIDE DEF rank, n, u
<1>6. \A k \in 1..n : pos(k) \in at /\ rank(pos(k)) = k
  BY <1>5
<1>7. \A i \in at : pos(rank(i)) = i
  BY <1>5
<1> HIDE DEF pos
<1>8. DOMAIN u = 1..n /\ \A k \in 1..n : u[k] = s[pos(k)]
  BY <1>4
<1>9. u \in [1..n -> R]
  BY <1>1, <1>4, <1>6, <1>a
<1>10. u \in Seq(R)
  BY <1>3, <1>9
<1>11. ToSet(u) = ToSet(s) \cap S
  <2>1. ASSUME NEW k \in 1..n PROVE u[k] \in ToSet(s) \cap S
    BY <1>6, <1>8, <1>a DEF ToSet
  <2>2. ASSUME NEW i \in DOMAIN s, s[i] \in S PROVE s[i] \in ToSet(u)
    <3>1. i \in at /\ rank(i) \in 1..n /\ u[rank(i)] = s[i]
      BY <1>5, <1>7, <1>8, <1>b, <2>2
    <3>2. QED BY <1>8, <3>1 DEF ToSet
  <2>3. QED BY <1>8, <2>1, <2>2 DEF ToSet
<1>12. ASSUME Distinct(s) PROVE Distinct(u)
  <2>1. SUFFICES ASSUME NEW i \in 1..n, NEW j \in 1..n, u[i] = u[j] PROVE i = j
    BY <1>8 DEF Distinct
  <2>2. pos(i) = pos(j)
    BY <1>6, <1>8, <1>12, <1>a, <2>1 DEF Distinct
  <2>3. QED BY <1>6, <2>2
<1>13. QED BY <1>10, <1>11, <1>12 DEF u

-----------------------------------------------------------------------------
(* Counting blocks *)

\* The blocks of the requests in S, where b says how many each has.
Cells(b, S, n) == {p \in S \X (1..n) : p[2] <= b[p[1]]}

\* There are finitely many of them.
LEMMA CellsFinite ==
  ASSUME NEW S \in SUBSET Requests, NEW b, NEW n \in Nat
  PROVE  IsFiniteSet(Cells(b, S, n)) /\ Cardinality(Cells(b, S, n)) \in Nat
<1>1. IsFiniteSet(S)
  BY ServingAssumption, FS_Subset
<1>2. IsFiniteSet(1..n)
  BY FS_Interval
<1>3. IsFiniteSet(S \X (1..n))
  BY <1>1, <1>2, FS_Product
<1>4. Cells(b, S, n) \in SUBSET (S \X (1..n))
  BY DEF Cells
<1>5. QED BY <1>3, <1>4, FS_Subset, FS_CardinalityType

\* An interval from 1.
LEMMA UpTo == ASSUME NEW k \in Nat PROVE IsFiniteSet(1..k) /\ Cardinality(1..k) = k
BY FS_Interval

\* One request has as many as its count says.
LEMMA CellsOne ==
  ASSUME NEW r, NEW b, NEW n \in Nat, b[r] \in 0..n
  PROVE  Cardinality(Cells(b, {r}, n)) = b[r]
<1> DEFINE k == b[r]
<1>1. k \in 0..n
  OBVIOUS
<1>2. Cells(b, {r}, n) = {r} \X (1..k)
  <2>1. \A i \in 1..n : i <= k <=> i \in 1..k
    BY <1>1
  <2>2. \A i \in 1..k : i \in 1..n
    BY <1>1
  <2> HIDE DEF k
  <2>3. ASSUME NEW i \in 1..n PROVE <<r, i>> \in Cells(b, {r}, n) <=> i <= k
    BY DEF Cells, k
  <2>4. ASSUME NEW p \in Cells(b, {r}, n) PROVE p \in {r} \X (1..k)
    <3>1. PICK i \in 1..n : p = <<r, i>>
      BY DEF Cells
    <3>2. QED BY <2>1, <2>3, <3>1
  <2>5. ASSUME NEW p \in {r} \X (1..k) PROVE p \in Cells(b, {r}, n)
    <3>1. PICK i \in 1..k : p = <<r, i>>
      OBVIOUS
    <3>2. QED BY <2>1, <2>2, <2>3, <3>1
  <2>6. QED BY <2>4, <2>5
<1> HIDE DEF k
<1>3. k \in Nat
  BY <1>1
<1>4. Cardinality({r} \X (1..k)) = k
  <2> DEFINE I == 1..k
             R == {r}
  <2>2. IsFiniteSet(I) /\ Cardinality(I) = k
    BY <1>3, UpTo
  <2>3. IsFiniteSet(R) /\ Cardinality(R) = 1
    BY FS_Singleton
  <2> HIDE DEF I, R
  <2>4. Cardinality(R \X I) = 1 * k
    BY <2>2, <2>3, FS_Product
  <2>5. 1 * k = k
    BY <1>3
  <2>6. QED BY <2>4, <2>5 DEF I, R
<1>5. QED BY <1>2, <1>4 DEF k

\* Two sets of requests with no common member: the blocks add up.
LEMMA CellsSplit ==
  ASSUME NEW S \in SUBSET Requests, NEW T \in SUBSET Requests, S \cap T = {},
         NEW b, NEW n \in Nat
  PROVE  Cardinality(Cells(b, S \cup T, n))
           = Cardinality(Cells(b, S, n)) + Cardinality(Cells(b, T, n))
<1> DEFINE A == Cells(b, S, n)
           B == Cells(b, T, n)
<1>1. Cells(b, S \cup T, n) = A \cup B
  BY DEF Cells
<1>2. A \cap B = {}
  BY DEF Cells
<1>3. IsFiniteSet(A) /\ Cardinality(A) \in Nat /\ IsFiniteSet(B) /\ Cardinality(B) \in Nat
  BY CellsFinite
<1> HIDE DEF A, B
<1>4. Cardinality(A \cup B) = Cardinality(A) + Cardinality(B) - Cardinality(A \cap B)
  BY <1>3, FS_Union
<1>5. Cardinality(A \cap B) = 0
  BY <1>2, FS_EmptySet
<1>6. Cardinality(A \cup B) = Cardinality(A) + Cardinality(B)
  BY <1>3, <1>4, <1>5
<1>7. QED BY <1>1, <1>6 DEF A, B

\* Only the counts of the set's members matter.
LEMMA CellsSame ==
  ASSUME NEW S, NEW b, NEW c, NEW n, \A r \in S : b[r] = c[r]
  PROVE  Cells(b, S, n) = Cells(c, S, n)
BY DEF Cells

\* Requests that hold nothing have no block.
LEMMA CellsZero ==
  ASSUME NEW S, NEW b, NEW n \in Nat, \A r \in S : b[r] = 0
  PROVE  Cells(b, S, n) = {}
<1>1. SUFFICES ASSUME NEW p \in Cells(b, S, n) PROVE FALSE
  OBVIOUS
<1>2. PICK r \in S, i \in 1..n : p = <<r, i>>
  BY DEF Cells
<1>3. i <= b[r]
  BY <1>2 DEF Cells
<1>4. i <= 0
  BY <1>3
<1>5. i \in Nat /\ i >= 1
  OBVIOUS
<1>6. QED BY <1>4, <1>5

\* Splitting off one request, or some.
LEMMA CellsRest ==
  ASSUME NEW S \in SUBSET Requests, NEW b, NEW n \in Nat
  PROVE  Cardinality(Cells(b, Requests, n))
           = Cardinality(Cells(b, S, n)) + Cardinality(Cells(b, Requests \ S, n))
<1> DEFINE T == Requests \ S
<1>1. T \in SUBSET Requests /\ S \cap T = {} /\ S \cup T = Requests
  OBVIOUS
<1> HIDE DEF T
<1>2. QED BY <1>1, CellsSplit DEF T

\* A request's blocks are among those held.
LEMMA CellsBound ==
  ASSUME NEW r \in Requests, NEW n \in Nat, NEW b, b[r] \in 0..n
  PROVE  b[r] <= Cardinality(Cells(b, Requests, n))
<1>1. {r} \in SUBSET Requests /\ Requests \ {r} \in SUBSET Requests
  OBVIOUS
<1> DEFINE x == Cardinality(Cells(b, Requests \ {r}, n))
           y == Cardinality(Cells(b, {r}, n))
           z == Cardinality(Cells(b, Requests, n))
<1>2. z = y + x
  BY <1>1, CellsRest
<1>3. x \in Nat
  BY <1>1, CellsFinite
<1>4. y = b[r]
  BY CellsOne
<1>5. b[r] \in Nat
  OBVIOUS
<1> HIDE DEF x, y, z
<1>6. b[r] <= z
  BY <1>2, <1>3, <1>4, <1>5
<1>7. QED BY <1>6 DEF z

\* Changing what one request has.
LEMMA CellsChange ==
  ASSUME NEW r \in Requests, NEW n \in Nat, NEW b \in [Requests -> 0..n], NEW k \in 0..n,
         NEW c, \A x \in Requests : c[x] = IF x = r THEN k ELSE b[x]
  PROVE  Cardinality(Cells(c, Requests, n)) = Cardinality(Cells(b, Requests, n)) - b[r] + k
<1>1. {r} \in SUBSET Requests /\ Requests \ {r} \in SUBSET Requests
  OBVIOUS
<1>a. \A x \in Requests \ {r} : c[x] = b[x]
  OBVIOUS
<1>2. Cells(c, Requests \ {r}, n) = Cells(b, Requests \ {r}, n)
  <2> DEFINE T == Requests \ {r}
  <2>1. \A x \in T : c[x] = b[x]
    BY <1>a
  <2> HIDE DEF T
  <2>2. Cells(c, T, n) = Cells(b, T, n)
    BY <2>1, CellsSame
  <2>3. QED BY <2>2 DEF T
<1>3. c[r] = k
  OBVIOUS
<1> DEFINE x == Cardinality(Cells(b, Requests \ {r}, n))
<1>4. x \in Nat
  BY <1>1, CellsFinite
<1>5. Cardinality(Cells(c, {r}, n)) = k /\ Cardinality(Cells(b, {r}, n)) = b[r]
  BY <1>3, CellsOne
<1>6. Cardinality(Cells(c, Requests, n)) = Cardinality(Cells(c, {r}, n)) + x
  BY <1>1, <1>2, CellsRest
<1>7. Cardinality(Cells(b, Requests, n)) = Cardinality(Cells(b, {r}, n)) + x
  BY <1>1, CellsRest
<1>8. b[r] \in Nat /\ k \in Nat
  OBVIOUS
<1> HIDE DEF x
<1>9. QED BY <1>3, <1>4, <1>5, <1>6, <1>7, <1>8

\* Taking everything from some requests.
LEMMA CellsRelease ==
  ASSUME NEW S \in SUBSET Requests, NEW n \in Nat, NEW b \in [Requests -> 0..n],
         NEW c, c = [r \in Requests |-> IF r \in S THEN 0 ELSE b[r]]
  PROVE  /\ c \in [Requests -> 0..n]
         /\ Cardinality(Cells(c, Requests, n)) + Cardinality(Cells(b, S, n))
              = Cardinality(Cells(b, Requests, n))
<1>1. Requests \ S \in SUBSET Requests
  OBVIOUS
<1>a. \A x \in Requests \ S : c[x] = b[x]
  OBVIOUS
<1>2. Cells(c, Requests \ S, n) = Cells(b, Requests \ S, n)
  BY <1>a, CellsSame
<1>3. \A r \in S : c[r] = 0
  OBVIOUS
<1>4. Cells(c, S, n) = {}
  BY <1>3, CellsZero
<1>5. Cardinality(Cells(c, S, n)) = 0
  BY <1>4, FS_EmptySet
<1>6. 0 \in 0..n
  OBVIOUS
<1>7. c \in [Requests -> 0..n]
  BY <1>6
<1> DEFINE x == Cardinality(Cells(b, Requests \ S, n))
           y == Cardinality(Cells(b, S, n))
<1>8. x \in Nat /\ y \in Nat
  BY <1>1, CellsFinite
<1>9. Cardinality(Cells(c, Requests, n)) = 0 + x
  BY <1>2, <1>5, CellsRest
<1>10. Cardinality(Cells(b, Requests, n)) = y + x
  BY CellsRest
<1> HIDE DEF x, y
<1>11. 0 + x + y = y + x
  BY <1>8
<1>12. QED BY <1>7, <1>9, <1>10, <1>11 DEF y

-----------------------------------------------------------------------------
(* Counting the tokens on their way *)

\* The messages of a queue that have a token of r, and that they bring one
\* each, numbered from g + 1.
Having(q, r) == {i \in DOMAIN q : Tokens(q[i], r) # {}}
Upto(q, r, i) == {k \in Having(q, r) : k <= i}
Exact(q, r, g) ==
  \A i \in Having(q, r) : \E j \in DOMAIN q[i] :
    /\ Tokens(q[i], r) = {j}
    /\ q[i][j].idx = g + Cardinality(Upto(q, r, i))

\* StreamExact in terms of the operators above.
LEMMA QueuedHaving ==
  /\ \A r \in Requests : Queued(r) = Having(respQ, r)
  /\ StreamExact <=>
       \A r \in Requests : api[r] = "open" =>
         /\ Exact(respQ, r, got[r])
         /\ r \in bound =>
              got[r] + Cardinality(Having(respQ, r)) = buf[r].len - buf[r].pend - Prompt[r]
BY DEF Queued, Having, StreamExact, Exact, Upto

\* The messages counted are finitely many.
LEMMA HavingFinite ==
  ASSUME NEW M, NEW q \in Seq(M), NEW r
  PROVE  /\ IsFiniteSet(Having(q, r)) /\ Cardinality(Having(q, r)) \in Nat
         /\ Having(q, r) \subseteq 1..Len(q) /\ Having(q, r) \in SUBSET Nat
         /\ \A i : IsFiniteSet(Upto(q, r, i)) /\ Cardinality(Upto(q, r, i)) \in Nat
<1>1. Len(q) \in Nat /\ DOMAIN q = 1..Len(q)
  BY LenProperties
<1>2. Having(q, r) \in SUBSET (1..Len(q)) /\ IsFiniteSet(1..Len(q)) /\ 1..Len(q) \subseteq Nat
  BY <1>1, FS_Interval DEF Having
<1>3. IsFiniteSet(Having(q, r))
  BY <1>2, FS_Subset
<1>4. \A i : Upto(q, r, i) \in SUBSET Having(q, r)
  BY DEF Upto
<1>5. \A i : IsFiniteSet(Upto(q, r, i))
  BY <1>3, <1>4, FS_Subset
<1>6. QED BY <1>2, <1>3, <1>5, FS_CardinalityType

\* The same messages have a token of r, and are the same.
LEMMA ExactSame ==
  ASSUME NEW q, NEW p, NEW r, NEW g, Having(p, r) = Having(q, r),
         \A i \in Having(q, r) : p[i] = q[i], Exact(q, r, g)
  PROVE  Exact(p, r, g)
<1>1. \A i : Upto(p, r, i) = Upto(q, r, i)
  BY DEF Upto
<1>2. QED BY <1>1 DEF Exact

\* Messages without a token of r are added.
LEMMA StreamConcat ==
  ASSUME NEW M, NEW q \in Seq(M), NEW t \in Seq(M), NEW r,
         \A i \in DOMAIN t : Tokens(t[i], r) = {}
  PROVE  /\ Having(q \o t, r) = Having(q, r)
         /\ \A g : Exact(q, r, g) => Exact(q \o t, r, g)
<1> DEFINE m == Len(q)
           n == Len(t)
           u == q \o t
<1>1. /\ m \in Nat /\ n \in Nat /\ u \in Seq(M) /\ Len(u) = m + n
      /\ \A i \in 1..(m + n) : u[i] = IF i <= m THEN q[i] ELSE t[i - m]
  BY ConcatProperties, LenProperties
<1>2. DOMAIN q = 1..m /\ DOMAIN t = 1..n /\ DOMAIN u = 1..(m + n)
  BY <1>1, LenProperties
<1> HIDE DEF m, n, u
<1>3. \A i \in 1..m : i \in 1..(m + n) /\ u[i] = q[i]
  BY <1>1
<1>4. \A i \in 1..(m + n) : i \in 1..m \/ (i - m \in 1..n /\ u[i] = t[i - m])
  BY <1>1
<1>5. Having(u, r) = Having(q, r)
  <2>1. ASSUME NEW i \in Having(u, r) PROVE i \in Having(q, r)
    <3>1. i \in 1..(m + n) /\ Tokens(u[i], r) # {}
      BY <1>2 DEF Having
    <3>2. i \in 1..m
      BY <1>2, <1>4, <3>1
    <3>3. QED BY <1>2, <1>3, <3>1, <3>2 DEF Having
  <2>2. ASSUME NEW i \in Having(q, r) PROVE i \in Having(u, r)
    BY <1>2, <1>3 DEF Having
  <2>3. QED BY <2>1, <2>2
<1>6. \A i \in Having(q, r) : u[i] = q[i]
  BY <1>2, <1>3 DEF Having
<1>7. QED BY <1>5, <1>6, ExactSame DEF u

\* A message is added: the next token, or none of r.
LEMMA StreamAppend ==
  ASSUME NEW M, NEW q \in Seq(M), NEW m \in M, NEW r
  PROVE  /\ Tokens(m, r) = {} =>
              /\ Having(Append(q, m), r) = Having(q, r)
              /\ \A g : Exact(q, r, g) => Exact(Append(q, m), r, g)
         /\ Tokens(m, r) # {} =>
              Cardinality(Having(Append(q, m), r)) = Cardinality(Having(q, r)) + 1
         /\ \A g : \A j \in DOMAIN m :
              Tokens(m, r) = {j} /\ m[j].idx = g + (Cardinality(Having(q, r)) + 1)
                /\ Exact(q, r, g) => Exact(Append(q, m), r, g)
<1> DEFINE n == Len(q)
           u == Append(q, m)
           H == Having(q, r)
<1>1. /\ u \in Seq(M) /\ n \in Nat /\ DOMAIN q = 1..n /\ DOMAIN u = 1..(n + 1) /\ u[n + 1] = m
      /\ \A i \in 1..n : u[i] = q[i]
  BY AppendProperties, LenProperties
<1>2. IsFiniteSet(H) /\ Cardinality(H) \in Nat /\ H \subseteq 1..n
  BY HavingFinite
<1>3. \A i \in 1..n : (i \in H <=> Tokens(q[i], r) # {})
  BY <1>1 DEF Having
<1>4. \A i \in 1..(n + 1) : (i \in Having(u, r) <=> Tokens(u[i], r) # {})
  BY <1>1 DEF Having
<1>5. Having(u, r) \subseteq 1..(n + 1)
  BY <1>1 DEF Having
<1> HIDE DEF n, u, H
<1>6. n + 1 \in 1..(n + 1) /\ n + 1 \notin H /\ \A i \in 1..(n + 1) : i \in 1..n \/ i = n + 1
  BY <1>1, <1>2
<1>7. \A i \in 1..n : i \in 1..(n + 1)
  BY <1>1
<1>8. ASSUME Tokens(m, r) = {} PROVE Having(u, r) = H
  BY <1>1, <1>2, <1>3, <1>4, <1>5, <1>6, <1>7, <1>8
<1>9. ASSUME Tokens(m, r) # {} PROVE Having(u, r) = H \cup {n + 1}
  BY <1>1, <1>2, <1>3, <1>4, <1>5, <1>6, <1>7, <1>9
<1>10. \A i \in H : u[i] = q[i]
  BY <1>1, <1>2
<1>11. Cardinality(H \cup {n + 1}) = Cardinality(H) + 1
  BY <1>2, <1>6, FS_AddElement
<1>12. ASSUME Tokens(m, r) = {}, NEW g, Exact(q, r, g) PROVE Exact(u, r, g)
  BY <1>8, <1>10, <1>12, ExactSame DEF H
<1>13. ASSUME NEW g, NEW j \in DOMAIN m, Tokens(m, r) = {j},
              m[j].idx = g + (Cardinality(H) + 1), Exact(q, r, g)
       PROVE  Exact(u, r, g)
  <2>1. Having(u, r) = H \cup {n + 1}
    BY <1>9, <1>13
  <2>2. \A i \in H : Upto(u, r, i) = Upto(q, r, i)
    <3>1. \A i \in H : ~(n + 1 <= i)
      <4>1. \A i \in 1..n : ~(n + 1 <= i)
        BY <1>1
      <4>2. QED BY <1>2, <4>1
    <3>2. QED BY <2>1, <3>1 DEF Upto, H
  <2>3. Upto(u, r, n + 1) = H \cup {n + 1}
    <3>1. \A i \in 1..(n + 1) : i <= n + 1
      BY <1>1
    <3>2. QED BY <1>5, <2>1, <3>1 DEF Upto
  <2>4. SUFFICES ASSUME NEW i \in Having(u, r)
                 PROVE  \E k \in DOMAIN u[i] : /\ Tokens(u[i], r) = {k}
                                               /\ u[i][k].idx = g + Cardinality(Upto(u, r, i))
    BY DEF Exact
  <2>5. CASE i \in H
    BY <1>10, <1>13, <2>2, <2>5 DEF Exact, H
  <2>6. CASE i = n + 1
    BY <1>1, <1>11, <1>13, <2>3, <2>6
  <2>7. QED BY <2>1, <2>4, <2>5, <2>6
<1>14. \A g : \A j \in DOMAIN m :
         Tokens(m, r) = {j} /\ m[j].idx = g + (Cardinality(H) + 1) /\ Exact(q, r, g)
           => Exact(u, r, g)
  BY <1>13, Zenon
<1>15. Tokens(m, r) = {} => Having(u, r) = H /\ \A g : Exact(q, r, g) => Exact(u, r, g)
  BY <1>8, <1>12, Zenon
<1>16. Tokens(m, r) # {} => Cardinality(Having(u, r)) = Cardinality(H) + 1
  BY <1>9, <1>11, Zenon
<1>17. QED BY <1>14, <1>15, <1>16, Zenon DEF u, H

\* Numbers, one lower.
LEMMA Shift ==
  ASSUME NEW A \in SUBSET Nat, IsFiniteSet(A), 0 \notin A,
         NEW B \in SUBSET Nat, \A x \in Nat : x \in B <=> x + 1 \in A
  PROVE  IsFiniteSet(B) /\ Cardinality(B) = Cardinality(A)
<1> DEFINE f == [y \in A |-> y - 1]
<1>1. \A y \in A : y - 1 \in B
  <2>1. ASSUME NEW y \in A PROVE y - 1 \in B
    <3>1. y \in Nat /\ y # 0
      OBVIOUS
    <3>2. y - 1 \in Nat /\ (y - 1) + 1 = y
      BY <3>1
    <3>3. QED BY <3>2
  <2>2. QED BY <2>1
<1>2. \A x \in B : x + 1 \in A /\ (x + 1) - 1 = x
  OBVIOUS
<1>3. \A x, y \in A : x - 1 = y - 1 => x = y
  <2>1. \A x, y \in Nat : x - 1 = y - 1 => x = y
    OBVIOUS
  <2>2. QED BY <2>1
<1>4. f \in Bijection(A, B)
  BY <1>1, <1>2, <1>3 DEF Bijection, Injection, IsInjective, Surjection
<1>5. QED BY <1>4, FS_Bijection DEF ExistsBijection

\* The first message is read: it has the next token, or none of r.
LEMMA StreamTail ==
  ASSUME NEW M, NEW q \in Seq(M), q # <<>>, NEW r, NEW g \in Nat
  PROVE  /\ Tokens(Head(q), r) = {} =>
              /\ Cardinality(Having(Tail(q), r)) = Cardinality(Having(q, r))
              /\ Exact(q, r, g) => Exact(Tail(q), r, g)
         /\ Tokens(Head(q), r) # {} =>
              /\ Cardinality(Having(Tail(q), r)) = Cardinality(Having(q, r)) - 1
              /\ Exact(q, r, g) => Exact(Tail(q), r, g + 1)
<1> DEFINE n == Len(q)
           u == Tail(q)
           H == Having(q, r)
           U == Having(u, r)
<1>1. /\ u \in Seq(M) /\ n \in Nat /\ n >= 1 /\ Len(u) = n - 1 /\ DOMAIN q = 1..n
      /\ Head(q) = q[1] /\ \A i \in 1..(n - 1) : u[i] = q[i + 1]
  BY HeadTailProperties, LenProperties, EmptySeq
<1>a. DOMAIN u = 1..(n - 1)
  BY <1>1, LenProperties
<1>2. /\ IsFiniteSet(H) /\ Cardinality(H) \in Nat /\ H \subseteq 1..n /\ H \in SUBSET Nat
      /\ \A i : IsFiniteSet(Upto(q, r, i)) /\ Cardinality(Upto(q, r, i)) \in Nat
  BY HavingFinite
<1>b. U \in SUBSET Nat
  BY <1>1, HavingFinite
<1>3. \A i \in 1..n : (i \in H <=> Tokens(q[i], r) # {})
  BY <1>1 DEF Having
<1>4. \A i \in 1..(n - 1) : (i \in U <=> Tokens(u[i], r) # {})
  BY <1>a DEF Having
<1>5. U \subseteq 1..(n - 1)
  BY <1>a DEF Having
<1>6. /\ \A i : Upto(q, r, i) = {k \in H : k <= i}
      /\ \A i : Upto(u, r, i) = {k \in U : k <= i}
  BY DEF Upto
<1> HIDE DEF n, u, H, U
<1>7. \A i \in Nat : i \in U <=> i + 1 \in H /\ i # 0
  <2>1. ASSUME NEW i \in 1..(n - 1) PROVE i + 1 \in 1..n /\ (i \in U <=> i + 1 \in H) /\ i # 0
    <3>1. i + 1 \in 1..n /\ i # 0
      BY <1>1
    <3>2. u[i] = q[i + 1]
      BY <1>1
    <3>3. QED BY <1>3, <1>4, <3>1, <3>2
  <2>2. \A i \in Nat : i + 1 \in 1..n /\ i # 0 => i \in 1..(n - 1)
    BY <1>1
  <2>3. QED BY <1>2, <1>5, <2>1, <2>2
<1>8. 1 \in H <=> Tokens(Head(q), r) # {}
  <2>1. 1 \in 1..n
    BY <1>1
  <2>2. QED BY <1>1, <1>3, <2>1
\* The messages after the first, in q and in u.
<1> DEFINE G == H \ {1}
           Low(i) == {k \in G : k <= i + 1}
<1>c. \A i \in H : i # 0
  BY <1>1, <1>2
<1>9. Cardinality(U) = Cardinality(G)
  <2>0. G \in SUBSET H
    OBVIOUS
  <2>1. G \in SUBSET Nat /\ IsFiniteSet(G) /\ 0 \notin G
    BY <1>2, <1>c, <2>0, FS_Subset
  <2>2. \A x \in Nat : x \in U <=> x + 1 \in G
    BY <1>7
  <2> HIDE DEF G
  <2>3. QED BY <1>b, <2>1, <2>2, Shift
<1>10. ASSUME NEW i \in U PROVE Cardinality(Upto(u, r, i)) = Cardinality(Low(i))
  <2>0. i \in Nat
    BY <1>b
  <2>1. Low(i) \in SUBSET H /\ Low(i) \in SUBSET Nat /\ 0 \notin Low(i)
    BY <1>2, <1>c
  <2>2. IsFiniteSet(Low(i))
    BY <1>2, <2>1, FS_Subset
  <2>3. Upto(u, r, i) \in SUBSET Nat
    BY <1>6, <1>b
  <2>4. \A x \in Nat : x \in Upto(u, r, i) <=> x + 1 \in Low(i)
    <3>1. \A x \in Nat : x <= i <=> x + 1 <= i + 1
      BY <2>0
    <3>2. \A x \in Nat : x \in Upto(u, r, i) <=> x \in U /\ x <= i
      BY <1>6
    <3>3. \A x \in Nat : x + 1 \in Low(i) <=> x + 1 \in H /\ x # 0 /\ x + 1 <= i + 1
      OBVIOUS
    <3>4. QED BY <1>7, <3>1, <3>2, <3>3
  <2> HIDE DEF Low
  <2>5. QED BY <2>1, <2>2, <2>3, <2>4, Shift
<1>11. ASSUME NEW i \in U
       PROVE  /\ i + 1 \in H /\ u[i] = q[i + 1] /\ i \in Nat
              /\ Low(i) = Upto(q, r, i + 1) \ {1}
              /\ 1 \in H => 1 \in Upto(q, r, i + 1)
  <2>1. i \in Nat /\ i \in 1..(n - 1) /\ 1 <= i + 1
    BY <1>5, <1>b
  <2>2. QED BY <1>1, <1>6, <1>7, <2>1
<1>12. ASSUME NEW i \in U, NEW h, Exact(q, r, g),
              h + Cardinality(Upto(u, r, i)) = g + Cardinality(Upto(q, r, i + 1))
       PROVE  \E k \in DOMAIN u[i] : /\ Tokens(u[i], r) = {k}
                                     /\ u[i][k].idx = h + Cardinality(Upto(u, r, i))
  BY <1>11, <1>12 DEF Exact, H
<1>13. ASSUME 1 \notin H
       PROVE  Cardinality(U) = Cardinality(H) /\ (Exact(q, r, g) => Exact(u, r, g))
  <2>1. G = H
    BY <1>13
  <2>2. ASSUME NEW i \in U PROVE Cardinality(Upto(u, r, i)) = Cardinality(Upto(q, r, i + 1))
    <3>1. Low(i) = Upto(q, r, i + 1)
      BY <1>6, <1>11, <1>13
    <3>2. QED BY <1>10, <3>1
  <2>3. QED BY <1>9, <1>12, <2>1, <2>2 DEF Exact, U
<1>14. ASSUME 1 \in H
       PROVE  Cardinality(U) = Cardinality(H) - 1 /\ (Exact(q, r, g) => Exact(u, r, g + 1))
  <2>1. Cardinality(G) = Cardinality(H) - 1
    BY <1>2, <1>14, FS_RemoveElement
  <2>2. ASSUME NEW i \in U
        PROVE  (g + 1) + Cardinality(Upto(u, r, i)) = g + Cardinality(Upto(q, r, i + 1))
    <3> DEFINE A == Upto(q, r, i + 1)
    <3>1. IsFiniteSet(A) /\ Cardinality(A) \in Nat /\ 1 \in A
      BY <1>2, <1>11, <1>14
    <3>2. Cardinality(A \ {1}) = Cardinality(A) - 1
      BY <3>1, FS_RemoveElement
    <3>3. Cardinality(Upto(u, r, i)) = Cardinality(A) - 1
      BY <1>10, <1>11, <3>2
    <3> HIDE DEF A
    <3>4. QED BY <3>1, <3>3 DEF A
  <2>3. QED BY <1>9, <1>12, <2>1, <2>2 DEF Exact, U
<1>15. QED BY <1>8, <1>13, <1>14 DEF u, H, U

-----------------------------------------------------------------------------
(* Token buffers *)

\* What holds of every buffer whose request came with n tokens.
Sound(t, n) ==
  /\ t.proc < t.end /\ t.end <= t.len
  /\ n <= t.prompt /\ t.prompt <= t.len
  /\ t.chunked => t.len = t.prompt /\ t.end < t.len
  /\ ~t.chunked => t.end = t.len

\* A buffer filled with a prompt.
LEMMA NewSound ==
  ASSUME NEW n \in Nat \ {0}, NEW k \in Nat, n <= k
  PROVE  LET t == NewBuffer(k)
         IN  /\ t \in Buffers /\ Sound(t, n) /\ ~t.chunked
             /\ t.len = k /\ t.pend = 0 /\ t.prompt = k
BY DEF NewBuffer, Buffers, Sound

\* A preempted request's buffer.
LEMMA ResetSound ==
  ASSUME NEW n \in Nat \ {0}, NEW t \in Buffers, Sound(t, n),
         t.pend = 0 \/ (t.pend = 1 /\ t.len # t.prompt)
  PROVE  LET u == ResetBuffer(t)
         IN  /\ u \in Buffers /\ Sound(u, n) /\ ~u.chunked /\ u.pend = 0
             /\ u.len = t.len - t.pend /\ u.prompt = u.len
<1>1. t.len \in Nat /\ t.prompt \in Nat /\ t.pend \in Nat
  BY DEF Buffers
<1>2. t.len - t.pend \in Nat /\ n <= t.len - t.pend
  BY <1>1 DEF Sound
<1>3. QED BY <1>2, NewSound DEF ResetBuffer

\* A prefill cut to b tokens.
LEMMA ChunkSound ==
  ASSUME NEW n \in Nat \ {0}, NEW t \in Buffers, Sound(t, n), t.len = t.prompt,
         NEW b \in Nat \ {0}, b < ActiveLength(t)
  PROVE  LET u == Chunk(t, b)
         IN  /\ u \in Buffers /\ Sound(u, n) /\ u.chunked /\ u.pend = t.pend
             /\ u.len = t.len /\ u.prompt = t.prompt /\ u.end <= t.end
<1>1. t.len \in Nat /\ t.prompt \in Nat /\ t.pend \in Nat /\ t.proc \in Nat /\ t.end \in Nat
  BY DEF Buffers
<1>2. b < t.end - t.proc
  BY DEF ActiveLength
<1>3. t.proc + b \in Nat /\ t.proc + b < t.end /\ t.proc < t.proc + b
  BY <1>1, <1>2
<1> DEFINE u == Chunk(t, b)
<1>4. u = [t EXCEPT !.end = t.proc + b, !.chunked = TRUE]
  BY DEF Chunk
<1>5. /\ u \in Buffers /\ u.len = t.len /\ u.prompt = t.prompt /\ u.proc = t.proc
      /\ u.end = t.proc + b /\ u.chunked = TRUE /\ u.pend = t.pend
  BY <1>3, <1>4 DEF Buffers
<1> HIDE DEF u
<1>6. QED BY <1>1, <1>3, <1>5 DEF Sound, u

\* update_with_future_token.
LEMMA UpdateSound ==
  ASSUME NEW n \in Nat \ {0}, NEW t \in Buffers, Sound(t, n)
  PROVE  LET u == UpdateWithFutureToken(t)
         IN  /\ u \in Buffers /\ Sound(u, n) /\ ~u.chunked /\ u.prompt = t.prompt
             /\ t.chunked => u.len = t.len /\ u.pend = t.pend
             /\ ~t.chunked => u.len = t.len + 1 /\ u.pend = t.pend + 1
<1>1. /\ t.len \in Nat /\ t.prompt \in Nat /\ t.pend \in Nat /\ t.proc \in Nat /\ t.end \in Nat
      /\ t.chunked \in BOOLEAN
  BY DEF Buffers
<1> DEFINE u == UpdateWithFutureToken(t)
<1>2. CASE t.chunked
  <2>1. u = [t EXCEPT !.proc = t.end, !.end = t.len, !.chunked = FALSE]
    BY <1>2 DEF UpdateWithFutureToken, AdvanceChunk
  <2>2. /\ u \in Buffers /\ u.len = t.len /\ u.prompt = t.prompt /\ u.proc = t.end
        /\ u.end = t.len /\ u.chunked = FALSE /\ u.pend = t.pend
    BY <1>1, <2>1 DEF Buffers
  <2> HIDE DEF u
  <2>3. QED BY <1>1, <1>2, <2>2 DEF Sound, u
<1>3. CASE ~t.chunked
  <2> DEFINE v == AdvanceWithToken(t)
  <2>a. /\ v \in Buffers /\ v.len = t.len + 1 /\ v.prompt = t.prompt /\ v.proc = t.end
        /\ v.end = t.end + 1 /\ v.chunked = t.chunked /\ v.pend = t.pend
    <3>1. v = [t EXCEPT !.proc = t.end, !.end = t.end + 1, !.len = t.len + 1]
      BY DEF AdvanceWithToken
    <3> HIDE DEF v
    <3> DEFINE e == t.end + 1
               l == t.len + 1
               a == t.end
    <3>2. a \in Nat /\ e \in Nat /\ l \in Nat /\ v = [t EXCEPT !.proc = a, !.end = e, !.len = l]
      BY <1>1, <3>1
    <3> HIDE DEF a, e, l
    <3>3. /\ v \in Buffers /\ v.len = l /\ v.prompt = t.prompt /\ v.proc = a
          /\ v.end = e /\ v.chunked = t.chunked /\ v.pend = t.pend
      BY <3>2 DEF Buffers
    <3>4. QED BY <3>3 DEF a, e, l
  <2> HIDE DEF v
  <2>b. u = [v EXCEPT !.pend = v.pend + 1]
    BY <1>3, <2>a DEF UpdateWithFutureToken, Buffers, v
  <2>2. /\ u \in Buffers /\ u.len = t.len + 1 /\ u.prompt = t.prompt /\ u.proc = t.end
        /\ u.end = t.end + 1 /\ u.chunked = t.chunked /\ u.pend = t.pend + 1
    BY <1>1, <2>a, <2>b DEF Buffers
  <2> HIDE DEF u
  <2>3. QED BY <1>1, <1>3, <2>2 DEF Sound, u
<1>4. QED BY <1>2, <1>3

\* The token of the batch before is realized.
LEMMA RealizeSound ==
  ASSUME NEW n \in Nat \ {0}, NEW t \in Buffers, Sound(t, n),
         t.pend = IF t.len # t.prompt THEN 1 ELSE 0
  PROVE  LET u == RealizeFutureToken(t)
         IN  /\ u \in Buffers /\ Sound(u, n) /\ u.chunked = t.chunked /\ u.prompt = t.prompt
             /\ u.len = t.len /\ u.pend = 0
<1>1. t.len \in Nat /\ t.prompt \in Nat /\ t.pend \in Nat /\ t.proc \in Nat /\ t.end \in Nat
  BY DEF Buffers
<1>2. GeneratedLength(t) = 0 <=> t.len = t.prompt
  BY <1>1 DEF GeneratedLength
<1> DEFINE u == RealizeFutureToken(t)
<1>3. CASE t.len = t.prompt
  BY <1>2, <1>3 DEF RealizeFutureToken
<1>4. CASE t.len # t.prompt
  <2>1. u = [t EXCEPT !.pend = t.pend - 1]
    BY <1>2, <1>4 DEF RealizeFutureToken, Buffers
  <2>2. /\ u \in Buffers /\ u.len = t.len /\ u.prompt = t.prompt /\ u.proc = t.proc
        /\ u.end = t.end /\ u.chunked = t.chunked /\ u.pend = 0
    BY <1>4, <2>1 DEF Buffers
  <2> HIDE DEF u
  <2>3. QED BY <2>2 DEF Sound, u
<1>5. QED BY <1>3, <1>4

\* With at most one placeholder the batch processes up to the window's end.
LEMMA SeqLenEnd ==
  ASSUME NEW t \in Buffers, t.pend \in {0, 1}, t.proc < t.end PROVE SeqLen(t) = t.end
<1>1. t.proc \in Nat /\ t.end \in Nat
  BY DEF Buffers
<1>2. SeqLen(t) = t.proc + (t.end - t.proc) + 1 - 1
  BY DEF SeqLen, ActiveLength
<1>3. QED BY <1>1, <1>2

\* Rounding up to pages.
LEMMA Pages ==
  ASSUME NEW x \in Nat, NEW k \in Nat, NEW p \in Nat \ {0}, NEW n,
         n = (x + p - 1) \div p,
         n <= k
  PROVE  x <= k * p
<1>1. n \in Int /\ x + p - 1 \in Nat
  OBVIOUS
<1>2. x + p - 1 < (n + 1) * p
  BY <1>1
<1>3. (n + 1) * p = n * p + p
  BY <1>1
<1>4. n * p <= k * p
  BY <1>1
<1>5. n * p \in Int /\ k * p \in Int
  BY <1>1
<1>6. QED BY <1>2, <1>3, <1>4, <1>5

-----------------------------------------------------------------------------
(* The parts of the type invariant *)

ClientTypes ==
  /\ mode \in Configs
  /\ api \in [Requests -> {"new", "open", "rejected", "gone", "ended"}]
  /\ got \in [Requests -> Nat]
  /\ Len(reqQ) <= QueueSize
  /\ respQ \in Seq(Seq(Responses))
Seqs ==
  /\ reqQ \in Seq(Requests) /\ cancelQ \in Seq(Requests) /\ ce \in Seq(Requests)
  /\ tg \in Seq(Requests) /\ gated \in Seq(Requests) /\ loading \in Seq(Requests)
  /\ batch \in Seq(Requests) /\ cand \in Seq(Requests) /\ prev \in Seq(Requests)
WorkTypes ==
  /\ pc \in {"drain", "plan", "ce", "tg", "exec", "cancel", "dead"}
  /\ matcher \in [Requests -> {"none", "unbuilt", "building", "ready", "failed"}]
  /\ landed \subseteq ToSet(loading) /\ orphans \cup bound \subseteq Requests
  /\ budget \in Nat
MemTypes ==
  /\ buf \in [Requests -> Buffers]
  /\ blk \in [Requests -> 0..mode.pool]
  /\ free \in 0..mode.pool

\* The type invariant, in parts that steps change together.
LEMMA TypeParts == TypeOK <=> ClientTypes /\ Seqs /\ WorkTypes /\ MemTypes
BY DEF TypeOK, ClientTypes, Seqs, WorkTypes, MemTypes

\* The same after a step.
LEMMA TypePartsNext == ASSUME ClientTypes', Seqs', WorkTypes', MemTypes' PROVE TypeOK'
BY DEF TypeOK, ClientTypes, Seqs, WorkTypes, MemTypes

\* The fields of a configuration.
LEMMA ConfigFields ==
  ASSUME mode \in Configs
  PROVE  /\ mode.overlap \in BOOLEAN /\ mode.inflight \in BOOLEAN /\ mode.chunked \in BOOLEAN
         /\ mode.onload \in BOOLEAN /\ mode.pool \in Nat /\ mode.tokens \in Nat
BY DEF Configs

-----------------------------------------------------------------------------
(* The inductive invariant *)

\* The requests the batch constructor has not bound yet.
Fresh == {r \in Requests : api[r] = "new"} \cup ToSet(reqQ) \cup ToSet(gated)

\* No queue has a request twice.
Orders ==
  /\ Distinct(reqQ) /\ Distinct(gated) /\ Distinct(ce) /\ Distinct(tg)
  /\ Distinct(loading) /\ Distinct(batch) /\ Distinct(cand) /\ Distinct(prev)

\* Where the bound requests are.
Places ==
  /\ ToSet(ce) \cap ToSet(tg) = {}
  /\ ToSet(ce) \cap ToSet(loading) = {}
  /\ ToSet(tg) \cap ToSet(loading) = {}
  /\ ToSet(batch) \cap (ToSet(ce) \cup ToSet(loading)) = {}
  /\ bound = ToSet(ce) \cup ToSet(tg) \cup ToSet(loading) \cup ToSet(batch)
  /\ ToSet(cand) \subseteq ToSet(tg) /\ ToSet(cand) \cap ToSet(batch) = {}
  /\ pc \in {"drain", "plan", "cancel"} => batch = <<>>
  /\ pc = "cancel" => cand = <<>>
  /\ pc \in {"ce", "tg"} => ToSet(tg) \subseteq ToSet(cand) \cup ToSet(batch)

\* A request that is not bound yet is in one place and has never run.
FreshApart ==
  /\ ToSet(reqQ) \cap ToSet(gated) = {}
  /\ \A r \in ToSet(reqQ) \cup ToSet(gated) : api[r] # "new"
  /\ Fresh \cap (bound \cup orphans \cup ToSet(prev)) = {}
  /\ orphans \cap bound = {}

\* A request's buffer, from where the request is: a placeholder in it is that
\* of the batch whose outputs are not synchronized yet.
BufOK(r) ==
  /\ Sound(buf[r], Prompt[r])
  /\ buf[r].chunked => r \in ToSet(batch) /\ mode.chunked
  /\ buf[r].pend = (IF r \in ToSet(prev) /\ buf[r].len # buf[r].prompt THEN 1 ELSE 0)
  /\ r \in ToSet(ce) \cup ToSet(loading) => buf[r].len = buf[r].prompt
  /\ r \in Fresh => buf[r] = NewBuffer(Prompt[r])
BufInv == (~mode.overlap => prev = <<>>) /\ \A r \in Requests : BufOK(r)

\* The members of the batch have their blocks from the moment they are chosen.
Backed == \A r \in ToSet(batch) : blk[r] * PageSize >= SeqLen(buf[r])

Blocks ==
  /\ free + Cardinality(HeldBlocks(Requests)) = mode.pool
  /\ \A r \in Requests : blk[r] > 0 => r \in bound \cup orphans

\* The responses on their way, of every request.
StreamInv ==
  /\ \A r \in Requests : api[r] = "open" =>
       /\ Exact(respQ, r, got[r])
       /\ r \in bound =>
            got[r] + Cardinality(Having(respQ, r)) = buf[r].len - buf[r].pend - Prompt[r]
  /\ \A r \in Fresh : got[r] = 0 /\ Having(respQ, r) = {}

\* Without chunks and loads only decoding requests hold blocks between two
\* batches.
GenuineInv ==
  /\ ~mode.onload => loading = <<>> /\ orphans = {}
  /\ ~mode.onload /\ ~mode.chunked =>
       OnlyGenuineOOM /\ \A r \in ToSet(ce) : blk[r] = 0

ServingInv ==
  TypeOK /\ Orders /\ Places /\ FreshApart /\ BufInv /\ Backed /\ Blocks /\ StreamInv /\ GenuineInv

-----------------------------------------------------------------------------
(* Building a batch *)

\* The steps of _add_ce_requests and _add_tg_requests.
Batching ==
  \/ LeaveCE \/ LeaveTG
  \/ \E r \in Requests :
       \/ DeferCE(r) \/ CEOutOfBlocks(r) \/ Cordon(r) \/ AdmitCE(r)
       \/ AdmitTG(r) \/ TGOutOfBlocks(r)
       \/ \E v \in Requests : Preempt(r, v)

\* They leave everything but the batch, its queues and its memory alone.
outside == <<mode, api, got, reqQ, cancelQ, respQ, gated, matcher, landed, orphans, bound, prev>>

\* A step that builds the batch leaves the rest of the worker alone.
LEMMA BatchingFrame == ASSUME Batching PROVE UNCHANGED outside
BY DEF Batching, outside, LeaveCE, LeaveTG, DeferCE, CEOutOfBlocks, Cordon, AdmitCE, AdmitTG,
       TGOutOfBlocks, Preempt, queues, held

\* The steps that move nobody.
Standing ==
  \/ LeaveCE \/ LeaveTG
  \/ \E r \in Requests : DeferCE(r) \/ CEOutOfBlocks(r) \/ TGOutOfBlocks(r)

\* A step that moves nobody leaves every queue as it is.
LEMMA StandingFrame ==
  ASSUME Standing
  PROVE  UNCHANGED <<ce, tg, loading, batch, cand>> /\ pc \in {"ce", "tg"}
         /\ pc' \in {"ce", "tg", "exec", "dead"}
BY DEF Standing, LeaveCE, LeaveTG, DeferCE, CEOutOfBlocks, TGOutOfBlocks, held, building,
       AfterCE, AfterTG

\* A cordoned request goes from the head of the CE queue to the loads.
LEMMA CordonMoves ==
  ASSUME Seqs, Orders, Places, NEW r \in Requests, Cordon(r)
  PROVE  /\ ce' \in Seq(Requests) /\ ToSet(ce) = ToSet(ce') \cup {r}
         /\ Distinct(ce') /\ r \notin ToSet(ce')
         /\ loading' \in Seq(Requests) /\ ToSet(loading') = ToSet(loading) \cup {r}
         /\ Distinct(loading')
         /\ UNCHANGED <<tg, batch, cand, pc, budget, buf>>
<1>1. /\ ce # <<>> /\ r = Head(ce) /\ ce' = Tail(ce) /\ loading' = Append(loading, r)
      /\ UNCHANGED <<tg, batch, cand, pc, budget, buf>>
  BY DEF Cordon, RoomForCE, building
<1>2. ce \in Seq(Requests) /\ loading \in Seq(Requests) /\ Distinct(ce) /\ Distinct(loading)
  BY DEF Seqs, Orders
<1>3. /\ ce' \in Seq(Requests) /\ ToSet(ce) = ToSet(ce') \cup {r}
      /\ Distinct(ce') /\ r \notin ToSet(ce')
  BY <1>1, <1>2, TailFacts
<1>4. r \notin ToSet(loading)
  BY <1>3 DEF Places
<1>5. loading' \in Seq(Requests) /\ ToSet(loading') = ToSet(loading) \cup {r} /\ Distinct(loading')
  BY <1>1, <1>2, <1>4, AppendFacts
<1>6. QED BY <1>1, <1>3, <1>5

\* An admitted prefill goes from the head of the CE queue to the batch.
LEMMA AdmitCEMoves ==
  ASSUME Seqs, Orders, Places, NEW r \in Requests, AdmitCE(r)
  PROVE  /\ ce' \in Seq(Requests) /\ ToSet(ce) = ToSet(ce') \cup {r}
         /\ Distinct(ce') /\ r \notin ToSet(ce')
         /\ batch' \in Seq(Requests) /\ ToSet(batch') = ToSet(batch) \cup {r}
         /\ Distinct(batch')
         /\ UNCHANGED <<tg, loading, cand>> /\ pc = "ce" /\ pc' \in {"ce", "tg", "exec"}
<1>1. /\ ce # <<>> /\ r = Head(ce) /\ ce' = Tail(ce) /\ batch' = Append(batch, r)
      /\ UNCHANGED <<tg, loading, cand>> /\ pc = "ce" /\ pc' \in {"ce", "tg", "exec"}
  BY DEF AdmitCE, RoomForCE, held, AfterCE
<1>2. ce \in Seq(Requests) /\ batch \in Seq(Requests) /\ Distinct(ce) /\ Distinct(batch)
  BY DEF Seqs, Orders
<1>3. /\ ce' \in Seq(Requests) /\ ToSet(ce) = ToSet(ce') \cup {r}
      /\ Distinct(ce') /\ r \notin ToSet(ce')
  BY <1>1, <1>2, TailFacts
<1>4. r \notin ToSet(batch)
  BY <1>3 DEF Places
<1>5. batch' \in Seq(Requests) /\ ToSet(batch') = ToSet(batch) \cup {r} /\ Distinct(batch')
  BY <1>1, <1>2, <1>4, AppendFacts
<1>6. QED BY <1>1, <1>3, <1>5

\* An admitted decode is the first candidate, and joins the batch.
LEMMA AdmitTGMoves ==
  ASSUME Seqs, Orders, Places, NEW r \in Requests, AdmitTG(r)
  PROVE  /\ cand' \in Seq(Requests) /\ ToSet(cand) = ToSet(cand') \cup {r}
         /\ Distinct(cand') /\ r \notin ToSet(cand')
         /\ batch' \in Seq(Requests) /\ ToSet(batch') = ToSet(batch) \cup {r}
         /\ Distinct(batch')
         /\ UNCHANGED <<ce, tg, loading, buf>> /\ pc = "tg" /\ pc' \in {"ce", "tg", "exec"}
<1>1. /\ cand # <<>> /\ r = Head(cand) /\ cand' = Tail(cand) /\ batch' = Append(batch, r)
      /\ UNCHANGED <<ce, tg, loading, buf>> /\ pc = "tg" /\ pc' \in {"ce", "tg", "exec"}
  BY DEF AdmitTG, RoomForTG, held, AfterTG
<1>2. cand \in Seq(Requests) /\ batch \in Seq(Requests) /\ Distinct(cand) /\ Distinct(batch)
  BY DEF Seqs, Orders
<1>3. /\ cand' \in Seq(Requests) /\ ToSet(cand) = ToSet(cand') \cup {r}
      /\ Distinct(cand') /\ r \notin ToSet(cand')
  BY <1>1, <1>2, TailFacts
<1>4. r \notin ToSet(batch)
  BY <1>3 DEF Places
<1>5. batch' \in Seq(Requests) /\ ToSet(batch') = ToSet(batch) \cup {r} /\ Distinct(batch')
  BY <1>1, <1>2, <1>4, AppendFacts
<1>6. QED BY <1>1, <1>3, <1>5

\* A preempted request is the last candidate, and goes to the front of CE.
LEMMA PreemptMoves ==
  ASSUME Seqs, Orders, Places, NEW r \in Requests, NEW v \in Requests, Preempt(r, v)
  PROVE  /\ cand' \in Seq(Requests) /\ ToSet(cand) = ToSet(cand') \cup {v}
         /\ Distinct(cand') /\ v \notin ToSet(cand')
         /\ ce' \in Seq(Requests) /\ ToSet(ce') = ToSet(ce) \cup {v} /\ Distinct(ce')
         /\ tg' \in Seq(Requests) /\ ToSet(tg') = ToSet(tg) \ {v} /\ Distinct(tg')
         /\ UNCHANGED <<loading, batch, pc, budget>>
<1>1. /\ cand # <<>> /\ v = Last(cand) /\ cand' = Front(cand) /\ ce' = <<v>> \o ce
      /\ tg' = Keep(tg, Requests \ {v}) /\ UNCHANGED <<loading, batch, pc, budget>>
  BY DEF Preempt, RoomForTG, held, Without
<1>2. /\ ce \in Seq(Requests) /\ tg \in Seq(Requests) /\ cand \in Seq(Requests)
      /\ Distinct(ce) /\ Distinct(tg) /\ Distinct(cand)
  BY DEF Seqs, Orders
<1>3. /\ cand' \in Seq(Requests) /\ ToSet(cand) = ToSet(cand') \cup {v}
      /\ Distinct(cand') /\ v \notin ToSet(cand')
  BY <1>1, <1>2, FrontFacts
<1>4. v \notin ToSet(ce)
  BY <1>3 DEF Places
<1>7. ce' \in Seq(Requests) /\ ToSet(ce') = ToSet(ce) \cup {v} /\ Distinct(ce')
  BY <1>1, <1>2, <1>4, PrependFacts
<1>8. tg' \in Seq(Requests) /\ ToSet(tg') = ToSet(tg) \cap (Requests \ {v}) /\ Distinct(tg')
  BY <1>1, <1>2, KeepFacts
<1>9. ToSet(tg) \subseteq Requests
  BY <1>2, LenProperties DEF ToSet
<1>10. QED BY <1>1, <1>3, <1>7, <1>8, <1>9

-----------------------------------------------------------------------------
(* Memory *)

\* The blocks that HeldBlocks counts, before and after a step.
LEMMA HeldCells ==
  /\ \A S : HeldBlocks(S) = Cells(blk, S, mode.pool)
  /\ \A S : mode' = mode => HeldBlocks(S)' = Cells(blk', S, mode.pool)
BY DEF HeldBlocks, Cells

\* The facts about the pool that every step starts from.
LEMMA PoolFacts ==
  ASSUME TypeOK
  PROVE  /\ mode.pool \in Nat /\ blk \in [Requests -> 0..mode.pool] /\ free \in 0..mode.pool
         /\ free \in Nat /\ \A r \in Requests : blk[r] \in 0..mode.pool /\ blk[r] \in Nat
<1>1. mode \in Configs /\ blk \in [Requests -> 0..mode.pool] /\ free \in 0..mode.pool
  BY DEF TypeOK
<1>2. mode.pool \in Nat
  BY <1>1, ConfigFields
<1>3. QED BY <1>1, <1>2

\* What a step leaves of the pool.
Counted ==
  /\ blk \in [Requests -> 0..mode.pool] /\ free \in 0..mode.pool
  /\ free + Cardinality(HeldBlocks(Requests)) = mode.pool

\* A request's blocks go back to the pool.
Emptied(r) == blk' = [blk EXCEPT ![r] = 0] /\ free' = free + blk[r]

\* The pool and the counts after one request gave its blocks back.
LEMMA TakeBackMem ==
  ASSUME TypeOK, Blocks, mode' = mode, NEW r \in Requests, Emptied(r)
  PROVE  Counted' /\ \A x \in Requests : blk'[x] = IF x = r THEN 0 ELSE blk[x]
<1> DEFINE n == mode.pool
           h == Cardinality(Cells(blk, Requests, n))
           k == Cardinality(Cells(blk', Requests, n))
<1>1. /\ n \in Nat /\ blk \in [Requests -> 0..n] /\ free \in Nat /\ 0 \in 0..n
      /\ blk[r] \in 0..n /\ blk[r] \in Nat
  BY PoolFacts
<1>2. free + h = n
  BY HeldCells DEF Blocks
<1>3. \A x \in Requests : blk'[x] = IF x = r THEN 0 ELSE blk[x]
  BY <1>1 DEF Emptied
<1>4. blk' \in [Requests -> 0..n] /\ free' = free + blk[r]
  BY <1>1 DEF Emptied
<1>5. h \in Nat /\ k \in Nat
  BY <1>1, CellsFinite
<1>6. k = h - blk[r] + 0
  <2> DEFINE z == 0
  <2>1. z \in 0..n /\ \A x \in Requests : blk'[x] = IF x = r THEN z ELSE blk[x]
    BY <1>1, <1>3
  <2> HIDE DEF z
  <2>2. k = h - blk[r] + z
    BY <1>1, <2>1, CellsChange
  <2>3. QED BY <2>2 DEF z
<1>7. blk[r] <= h
  BY <1>1, CellsBound
<1> HIDE DEF n, h, k
<1>8. free' \in 0..n /\ free' + k = n
  BY <1>1, <1>2, <1>4, <1>5, <1>6, <1>7
<1>9. Cardinality(HeldBlocks(Requests)') = k
  BY HeldCells DEF k, n
<1>10. QED BY <1>3, <1>4, <1>8, <1>9 DEF Counted, n

\* The blocks of some requests go back to the pool.
LEMMA ReleaseMem ==
  ASSUME TypeOK, Blocks, mode' = mode, NEW S \in SUBSET Requests, Release(S)
  PROVE  Counted' /\ \A x \in Requests : blk'[x] = IF x \in Freed(S) THEN 0 ELSE blk[x]
<1> DEFINE n == mode.pool
           F == Freed(S)
           h == Cardinality(Cells(blk, Requests, n))
           k == Cardinality(Cells(blk', Requests, n))
           f == Cardinality(Cells(blk, F, n))
<1>1. n \in Nat /\ blk \in [Requests -> 0..n] /\ free \in Nat /\ F \in SUBSET Requests
  BY PoolFacts DEF Freed
<1>2. free + h = n
  BY HeldCells DEF Blocks
<1>3. blk' = [x \in Requests |-> IF x \in F THEN 0 ELSE blk[x]] /\ free' = free + f
  BY HeldCells DEF Release
<1>5. h \in Nat /\ k \in Nat /\ f \in Nat
  BY <1>1, CellsFinite
<1> HIDE DEF F
<1>6. blk' \in [Requests -> 0..n] /\ k + f = h
  BY <1>1, <1>3, CellsRelease
<1>7. \A x \in Requests : blk'[x] = IF x \in F THEN 0 ELSE blk[x]
  BY <1>3
<1> HIDE DEF n, h, k, f
<1>8. free' \in 0..n /\ free' + k = n
  BY <1>1, <1>2, <1>3, <1>5, <1>6
<1>9. Cardinality(HeldBlocks(Requests)') = k
  BY HeldCells DEF k, n
<1>10. QED BY <1>6, <1>7, <1>8, <1>9 DEF Counted, n, F

\* What Need says, for a request whose buffer is as it should be.
LEMMA NeedFacts ==
  ASSUME TypeOK, NEW r \in Requests, BufOK(r)
  PROVE  /\ Need(r) \in Nat /\ SeqLen(buf[r]) = buf[r].end /\ buf[r].end \in Nat
         /\ buf[r].end <= (blk[r] + Need(r)) * PageSize
<1>1. buf[r] \in Buffers /\ blk[r] \in Nat /\ PageSize \in Nat \ {0}
  BY PoolFacts, ServingAssumption DEF TypeOK
<1>2. buf[r].end \in Nat
  BY <1>1 DEF Buffers
<1>3. SeqLen(buf[r]) = buf[r].end
  BY <1>1, SeqLenEnd DEF BufOK, Sound
<1> DEFINE n == (buf[r].end + PageSize - 1) \div PageSize
<1>4. n \in Nat
  BY <1>1, <1>2
<1>5. Need(r) = IF n > blk[r] THEN n - blk[r] ELSE 0
  BY <1>3 DEF Need
<1>6. \A k \in Nat : n <= k => buf[r].end <= k * PageSize
  BY <1>1, <1>2, Pages
<1> HIDE DEF n
<1>7. Need(r) \in Nat /\ blk[r] + Need(r) \in Nat /\ n <= blk[r] + Need(r)
  BY <1>1, <1>4, <1>5
<1>8. QED BY <1>2, <1>3, <1>6, <1>7

\* A request gets the blocks it needs.
LEMMA AllocateMem ==
  ASSUME TypeOK, Blocks, mode' = mode, NEW r \in Requests, BufOK(r),
         Need(r) <= free, Allocate(r)
  PROVE  /\ Counted'
         /\ \A x \in Requests : x # r => blk'[x] = blk[x]
         /\ SeqLen(buf[r]) = buf[r].end /\ buf[r].end \in Nat
         /\ blk'[r] \in Nat /\ buf[r].end <= blk'[r] * PageSize
<1> DEFINE n == mode.pool
           h == Cardinality(Cells(blk, Requests, n))
           k == Cardinality(Cells(blk', Requests, n))
           d == Need(r)
           b == blk[r] + d
<1>1. /\ n \in Nat /\ blk \in [Requests -> 0..n] /\ free \in Nat
      /\ blk[r] \in 0..n /\ blk[r] \in Nat
  BY PoolFacts
<1>2. free + h = n
  BY HeldCells DEF Blocks
<1>3. d \in Nat /\ SeqLen(buf[r]) = buf[r].end /\ buf[r].end \in Nat /\ buf[r].end <= b * PageSize
  BY NeedFacts
<1>4. blk' = [blk EXCEPT ![r] = blk[r] + Need(r)] /\ free' = free - d /\ d <= free
  BY DEF Allocate
<1>5. h \in Nat /\ k \in Nat
  BY <1>1, CellsFinite
<1>7. blk[r] <= h
  BY <1>1, CellsBound
<1>8. b \in 0..n
  <2> HIDE DEF n, h, d
  <2>1. QED BY <1>1, <1>2, <1>3, <1>4, <1>5, <1>7
<1>9. \A x \in Requests : blk'[x] = IF x = r THEN b ELSE blk[x]
  BY <1>1, <1>4
<1>10. blk' \in [Requests -> 0..n]
  <2>1. blk' = [blk EXCEPT ![r] = b]
    BY <1>4
  <2> HIDE DEF b, n
  <2>2. QED BY <1>1, <1>8, <2>1
<1>11. k = h - blk[r] + b
  <2> HIDE DEF b
  <2>1. QED BY <1>1, <1>8, <1>9, CellsChange
<1>12. free' \in 0..n /\ free' + k = n
  <2> HIDE DEF n, h, d, k
  <2>1. QED BY <1>1, <1>2, <1>3, <1>4, <1>5, <1>7, <1>11
<1>13. Cardinality(HeldBlocks(Requests)') = k
  BY HeldCells
<1> HIDE DEF n, h, k, d, b
<1>14. Counted'
  BY <1>10, <1>12, <1>13 DEF Counted, n
<1>15. blk'[r] = b /\ b \in Nat
  BY <1>1, <1>8, <1>9
<1>16. QED BY <1>3, <1>9, <1>14, <1>15

-----------------------------------------------------------------------------
(* Every step that builds the batch *)

\* Building a batch keeps the requests in their places.
LEMMA BatchingPlaces ==
  ASSUME Seqs, Orders, Places, Batching
  PROVE  Seqs' /\ Orders' /\ Places' /\ ToSet(loading) \subseteq ToSet(loading')
<1>1. UNCHANGED outside
  BY BatchingFrame
<1>2. CASE Standing
  <2>1. UNCHANGED <<ce, tg, loading, batch, cand>> /\ pc \in {"ce", "tg"}
        /\ pc' \in {"ce", "tg", "exec", "dead"}
    BY <1>2, StandingFrame
  <2>2. QED BY <1>1, <2>1 DEF outside, Seqs, Orders, Places
<1>3. ASSUME NEW r \in Requests, Cordon(r)
      PROVE  Seqs' /\ Orders' /\ Places' /\ ToSet(loading) \subseteq ToSet(loading')
  <2>1. /\ ce' \in Seq(Requests) /\ ToSet(ce) = ToSet(ce') \cup {r}
        /\ Distinct(ce') /\ r \notin ToSet(ce')
        /\ loading' \in Seq(Requests) /\ ToSet(loading') = ToSet(loading) \cup {r}
        /\ Distinct(loading')
        /\ UNCHANGED <<tg, batch, cand, pc>>
    BY <1>3, CordonMoves
  <2>2. Seqs' /\ Orders'
    BY <1>1, <2>1 DEF outside, Seqs, Orders
  <2>3. Places'
    BY <1>1, <2>1 DEF outside, Places
  <2>4. QED BY <2>1, <2>2, <2>3
<1>4. ASSUME NEW r \in Requests, AdmitCE(r)
      PROVE  Seqs' /\ Orders' /\ Places' /\ ToSet(loading) \subseteq ToSet(loading')
  <2>1. /\ ce' \in Seq(Requests) /\ ToSet(ce) = ToSet(ce') \cup {r}
        /\ Distinct(ce') /\ r \notin ToSet(ce')
        /\ batch' \in Seq(Requests) /\ ToSet(batch') = ToSet(batch) \cup {r}
        /\ Distinct(batch')
        /\ UNCHANGED <<tg, loading, cand>> /\ pc = "ce" /\ pc' \in {"ce", "tg", "exec"}
    BY <1>4, AdmitCEMoves
  <2>2. Seqs' /\ Orders'
    BY <1>1, <2>1 DEF outside, Seqs, Orders
  <2>3. Places'
    BY <1>1, <2>1 DEF outside, Places
  <2>4. QED BY <2>1, <2>2, <2>3
<1>5. ASSUME NEW r \in Requests, AdmitTG(r)
      PROVE  Seqs' /\ Orders' /\ Places' /\ ToSet(loading) \subseteq ToSet(loading')
  <2>1. /\ cand' \in Seq(Requests) /\ ToSet(cand) = ToSet(cand') \cup {r}
        /\ Distinct(cand') /\ r \notin ToSet(cand')
        /\ batch' \in Seq(Requests) /\ ToSet(batch') = ToSet(batch) \cup {r}
        /\ Distinct(batch')
        /\ UNCHANGED <<ce, tg, loading, buf>> /\ pc = "tg" /\ pc' \in {"ce", "tg", "exec"}
    BY <1>5, AdmitTGMoves
  <2>2. Seqs' /\ Orders'
    BY <1>1, <2>1 DEF outside, Seqs, Orders
  <2>3. Places'
    BY <1>1, <2>1 DEF outside, Places
  <2>4. QED BY <2>1, <2>2, <2>3
<1>6. ASSUME NEW r \in Requests, NEW v \in Requests, Preempt(r, v)
      PROVE  Seqs' /\ Orders' /\ Places' /\ ToSet(loading) \subseteq ToSet(loading')
  <2>1. /\ cand' \in Seq(Requests) /\ ToSet(cand) = ToSet(cand') \cup {v}
        /\ Distinct(cand') /\ v \notin ToSet(cand')
        /\ ce' \in Seq(Requests) /\ ToSet(ce') = ToSet(ce) \cup {v} /\ Distinct(ce')
        /\ tg' \in Seq(Requests) /\ ToSet(tg') = ToSet(tg) \ {v} /\ Distinct(tg')
        /\ UNCHANGED <<loading, batch, pc>>
    BY <1>6, PreemptMoves
  <2>2. Seqs' /\ Orders'
    BY <1>1, <2>1 DEF outside, Seqs, Orders
  <2>3. pc = "tg"
    BY <1>6 DEF Preempt
  <2>4. Places'
    BY <1>1, <2>1, <2>3 DEF outside, Places
  <2>5. QED BY <2>1, <2>2, <2>4
<1>7. QED BY <1>2, <1>3, <1>4, <1>5, <1>6 DEF Batching, Standing

-----------------------------------------------------------------------------
(* What a step does to the memory and the buffers *)

\* Of the pool and the batch.
MemInv == BufInv /\ Backed /\ Blocks /\ MemTypes

\* Who is fresh depends on the clients, the request queue and the gate.
LEMMA FreshSame == ASSUME UNCHANGED <<api, reqQ, gated>> PROVE Fresh' = Fresh
BY DEF Fresh

\* A buffer that did not change, of a request whose place did not matter to it.
LEMMA BufSame ==
  ASSUME NEW r \in Requests, BufOK(r), buf'[r] = buf[r], UNCHANGED <<mode, prev>>,
         r \in Fresh' => r \in Fresh,
         r \in ToSet(batch) => r \in ToSet(batch)',
         r \in ToSet(ce)' \cup ToSet(loading)' => r \in ToSet(ce) \cup ToSet(loading)
  PROVE  BufOK(r)'
BY DEF BufOK

\* A request whose place is not the batch and is not new is reset.
LEMMA TakeBackBuf ==
  ASSUME TypeOK, BufInv, NEW r \in Requests, TakeBack(r)
  PROVE  /\ buf' \in [Requests -> Buffers]
         /\ \A x \in Requests : x # r => buf'[x] = buf[x]
         /\ Sound(buf'[r], Prompt[r]) /\ ~buf'[r].chunked /\ buf'[r].pend = 0
         /\ buf'[r].prompt = buf'[r].len
         /\ \A x \in Requests : buf'[x].len - buf'[x].pend = buf[x].len - buf[x].pend
<1>1. buf \in [Requests -> Buffers] /\ BufOK(r) /\ Prompt[r] \in Nat \ {0}
  BY ServingAssumption DEF TypeOK, BufInv
<1>2. buf' = [buf EXCEPT ![r] = ResetBuffer(buf[r])]
  BY DEF TakeBack
<1> DEFINE u == ResetBuffer(buf[r])
<1>3. /\ u \in Buffers /\ Sound(u, Prompt[r]) /\ ~u.chunked /\ u.pend = 0
      /\ u.len = buf[r].len - buf[r].pend /\ u.prompt = u.len
  <2>1. buf[r] \in Buffers /\ Sound(buf[r], Prompt[r])
        /\ (buf[r].pend = 0 \/ (buf[r].pend = 1 /\ buf[r].len # buf[r].prompt))
    <3>1. buf[r] \in Buffers /\ Sound(buf[r], Prompt[r])
      BY <1>1 DEF BufOK
    <3>2. buf[r].pend = (IF r \in ToSet(prev) /\ buf[r].len # buf[r].prompt THEN 1 ELSE 0)
      BY <1>1 DEF BufOK
    <3>3. QED BY <3>1, <3>2
  <2>2. QED BY <1>1, <2>1, ResetSound
<1>4. u.len - u.pend = buf[r].len - buf[r].pend
  <2>1. u.len \in Nat
    BY <1>3 DEF Buffers
  <2> HIDE DEF u
  <2>2. u.len - 0 = u.len
    BY <2>1
  <2>3. QED BY <1>3, <2>2
<1> HIDE DEF u
<1>5. buf'[r] = u /\ \A x \in Requests : x # r => buf'[x] = buf[x]
  BY <1>1, <1>2 DEF u
<1>6. buf' \in [Requests -> Buffers]
  BY <1>1, <1>2, <1>3 DEF u
<1>7. QED BY <1>3, <1>4, <1>5, <1>6

\* What taking back does to the invariants, when the request then waits.
LEMMA TakeBackInv ==
  ASSUME ServingInv, UNCHANGED outside, NEW r \in Requests, TakeBack(r),
         r \in bound, r \notin ToSet(batch),
         UNCHANGED <<batch, loading>>, ToSet(ce)' \subseteq ToSet(ce) \cup {r}
  PROVE  /\ MemInv'
         /\ \A x \in Requests : blk'[x] = IF x = r THEN 0 ELSE blk[x]
         /\ \A x \in Requests : buf'[x].len - buf'[x].pend = buf[x].len - buf[x].pend
<1>1. TypeOK /\ BufInv /\ Backed /\ Blocks /\ FreshApart
  BY DEF ServingInv
<1>2. UNCHANGED <<mode, api, reqQ, gated, bound, orphans, prev>>
  BY DEF outside
<1>3. /\ buf' \in [Requests -> Buffers]
      /\ \A x \in Requests : x # r => buf'[x] = buf[x]
      /\ Sound(buf'[r], Prompt[r]) /\ ~buf'[r].chunked /\ buf'[r].pend = 0
      /\ buf'[r].prompt = buf'[r].len
      /\ \A x \in Requests : buf'[x].len - buf'[x].pend = buf[x].len - buf[x].pend
  BY <1>1, TakeBackBuf
<1>4. Counted' /\ \A x \in Requests : blk'[x] = IF x = r THEN 0 ELSE blk[x]
  BY <1>1, <1>2, TakeBackMem DEF TakeBack, Emptied
<1>5. Fresh' = Fresh /\ r \notin Fresh
  BY <1>1, <1>2, FreshSame DEF FreshApart
<1>6. BufInv'
  <2>1. ASSUME NEW x \in Requests, x # r PROVE BufOK(x)'
    BY <1>1, <1>2, <1>3, <1>5, <2>1, BufSame DEF BufInv
  <2>2. BufOK(r)'
    BY <1>3, <1>5 DEF BufOK
  <2>3. QED BY <1>1, <1>2, <2>1, <2>2 DEF BufInv
<1>7. Backed'
  <2>1. ToSet(batch) \subseteq Requests
    BY <1>1, LenProperties DEF TypeOK, ToSet
  <2>2. QED BY <1>1, <1>3, <1>4, <2>1 DEF Backed
<1>8. Blocks'
  BY <1>1, <1>2, <1>4 DEF Blocks, Counted
<1>9. MemTypes'
  BY <1>3, <1>4 DEF MemTypes, Counted
<1>10. QED BY <1>3, <1>4, <1>6, <1>7, <1>8, <1>9 DEF MemInv

\* The members of the queues are requests.
LEMMA SeqSets ==
  ASSUME Seqs
  PROVE  /\ ToSet(reqQ) \subseteq Requests /\ ToSet(cancelQ) \subseteq Requests
         /\ ToSet(ce) \subseteq Requests /\ ToSet(tg) \subseteq Requests
         /\ ToSet(gated) \subseteq Requests /\ ToSet(loading) \subseteq Requests
         /\ ToSet(batch) \subseteq Requests /\ ToSet(cand) \subseteq Requests
         /\ ToSet(prev) \subseteq Requests
<1>1. ASSUME NEW s \in Seq(Requests) PROVE ToSet(s) \subseteq Requests
  BY LenProperties DEF ToSet
<1>2. QED BY <1>1 DEF Seqs

\* A request gets blocks and keeps its buffer.
LEMMA AllocateInv ==
  ASSUME ServingInv, UNCHANGED outside, NEW r \in Requests, Need(r) <= free, Allocate(r), buf' = buf,
         r \in bound, r \notin Fresh,
         ToSet(batch) \subseteq ToSet(batch)', ToSet(batch)' \subseteq ToSet(batch) \cup {r},
         ToSet(ce)' \cup ToSet(loading)' \subseteq ToSet(ce) \cup ToSet(loading)
  PROVE  MemInv' /\ \A x \in Requests : x # r => blk'[x] = blk[x]
<1>1. TypeOK /\ BufInv /\ Backed /\ Blocks /\ Seqs /\ BufOK(r)
  BY TypeParts DEF ServingInv, BufInv
<1>2. UNCHANGED <<mode, api, reqQ, gated, bound, orphans, prev>>
  BY DEF outside
<1>3. /\ Counted'
      /\ \A x \in Requests : x # r => blk'[x] = blk[x]
      /\ SeqLen(buf[r]) = buf[r].end /\ buf[r].end \in Nat
      /\ blk'[r] \in Nat /\ buf[r].end <= blk'[r] * PageSize
  BY <1>1, <1>2, AllocateMem
<1>4. Fresh' = Fresh
  BY <1>2, FreshSame
<1>5. BufInv'
  <2>1. ASSUME NEW x \in Requests PROVE BufOK(x)'
    BY <1>1, <1>2, <1>4, BufSame DEF BufInv
  <2>2. QED BY <1>1, <1>2, <2>1 DEF BufInv
<1>6. Backed'
  <2>1. ASSUME NEW x \in ToSet(batch)' PROVE blk'[x] * PageSize >= SeqLen(buf'[x])
    <3>1. x \in Requests
      BY <1>1, SeqSets
    <3>2. CASE x # r
      BY <1>1, <1>3, <3>1, <3>2 DEF Backed
    <3>3. CASE x = r
      <4>1. blk'[r] * PageSize \in Nat
        BY <1>3, ServingAssumption
      <4>2. QED BY <1>3, <3>3, <4>1
    <3>4. QED BY <3>2, <3>3
  <2>2. QED BY <2>1 DEF Backed
<1>7. Blocks'
  BY <1>1, <1>2, <1>3 DEF Blocks, Counted
<1>8. MemTypes'
  BY <1>1, <1>3 DEF MemTypes, Counted, TypeOK
<1>9. QED BY <1>3, <1>5, <1>6, <1>7, <1>8 DEF MemInv

\* The buffer of an admitted prefill.
LEMMA AdmitCEBuf ==
  ASSUME ServingInv, NEW r \in Requests, AdmitCE(r), r \in ToSet(ce)
  PROVE  /\ buf' \in [Requests -> Buffers]
         /\ \A x \in Requests : x # r => buf'[x] = buf[x]
         /\ Sound(buf'[r], Prompt[r]) /\ buf'[r].pend = 0 /\ buf[r].pend = 0
         /\ buf'[r].chunked => mode.chunked
         /\ buf'[r].len = buf[r].len /\ buf'[r].prompt = buf[r].prompt
         /\ buf'[r].len = buf'[r].prompt /\ buf'[r].end <= buf[r].end
<1> DEFINE t == buf[r]
           u == buf'[r]
           cut == mode.chunked /\ ActiveLength(t) > budget
<1>1. buf \in [Requests -> Buffers] /\ BufOK(r) /\ Prompt[r] \in Nat \ {0}
  BY ServingAssumption DEF ServingInv, TypeOK, BufInv
<1>2. t \in Buffers /\ Sound(t, Prompt[r]) /\ t.len = t.prompt /\ t.pend = 0
      /\ (t.chunked => mode.chunked)
  BY <1>1 DEF BufOK
<1>3. budget \in Nat \ {0}
  BY DEF AdmitCE, ServingInv, TypeOK
<1>4. t.end \in Nat /\ t.proc \in Nat /\ t.end <= t.end
  BY <1>2 DEF Buffers
<1>5. buf' = [buf EXCEPT ![r] = IF cut THEN Chunk(t, budget) ELSE t]
  BY DEF AdmitCE
<1>6. u = (IF cut THEN Chunk(t, budget) ELSE t) /\ \A x \in Requests : x # r => buf'[x] = buf[x]
  BY <1>1, <1>5
<1>7. ASSUME cut
      PROVE  LET c == Chunk(t, budget)
             IN  /\ c \in Buffers /\ Sound(c, Prompt[r]) /\ c.chunked /\ c.pend = t.pend
                 /\ c.len = t.len /\ c.prompt = t.prompt /\ c.end <= t.end
  <2>1. budget < ActiveLength(t)
    BY <1>3, <1>4, <1>7 DEF ActiveLength
  <2> HIDE DEF t
  <2>2. QED BY <1>1, <1>2, <1>3, <2>1, ChunkSound
<1>8. CASE cut
  <2> HIDE DEF t
  <2>1. buf'[r] = Chunk(t, budget) /\ mode.chunked
    BY <1>6, <1>8
  <2>2. buf' \in [Requests -> Buffers]
    BY <1>1, <1>5, <1>7, <1>8
  <2>3. QED BY <1>2, <1>6, <1>7, <1>8, <2>1, <2>2 DEF t
<1>9. CASE ~cut
  <2>1. u = t /\ buf' \in [Requests -> Buffers]
    <3> HIDE DEF t, cut
    <3>1. QED BY <1>1, <1>2, <1>5, <1>9
  <2>2. QED BY <1>2, <1>4, <1>6, <2>1
<1>10. QED BY <1>8, <1>9

\* Admitting a prefill keeps the memory invariant and every realized token.
LEMMA AdmitCEInv ==
  ASSUME ServingInv, NEW r \in Requests, AdmitCE(r)
  PROVE  /\ MemInv' /\ budget' \in Nat
         /\ \A x \in Requests : x # r => blk'[x] = blk[x]
         /\ \A x \in Requests : buf'[x].len - buf'[x].pend = buf[x].len - buf[x].pend
<1>1. TypeOK /\ BufInv /\ Backed /\ Blocks /\ Seqs /\ Orders /\ Places /\ FreshApart /\ BufOK(r)
  BY TypeParts DEF ServingInv, BufInv
<1>2. UNCHANGED <<mode, api, reqQ, gated, bound, orphans, prev, loading>>
  BY DEF AdmitCE, queues, held
<1>3. /\ ce' \in Seq(Requests) /\ ToSet(ce) = ToSet(ce') \cup {r}
      /\ batch' \in Seq(Requests) /\ ToSet(batch') = ToSet(batch) \cup {r}
      /\ Distinct(ce') /\ r \notin ToSet(ce')
  BY <1>1, AdmitCEMoves
<1>4. r \in ToSet(ce) /\ r \in bound /\ r \notin ToSet(batch) /\ r \notin ToSet(loading)
  BY <1>1, <1>3 DEF Places
<1>5. /\ Counted'
      /\ \A x \in Requests : x # r => blk'[x] = blk[x]
      /\ SeqLen(buf[r]) = buf[r].end /\ buf[r].end \in Nat
      /\ blk'[r] \in Nat /\ buf[r].end <= blk'[r] * PageSize
  BY <1>1, <1>2, AllocateMem DEF AdmitCE
<1>6. /\ buf' \in [Requests -> Buffers]
      /\ \A x \in Requests : x # r => buf'[x] = buf[x]
      /\ Sound(buf'[r], Prompt[r]) /\ buf'[r].pend = 0 /\ buf[r].pend = 0
      /\ buf'[r].chunked => mode.chunked
      /\ buf'[r].len = buf[r].len /\ buf'[r].prompt = buf[r].prompt
      /\ buf'[r].len = buf'[r].prompt /\ buf'[r].end <= buf[r].end
  BY <1>4, AdmitCEBuf
<1>7. Fresh' = Fresh /\ r \notin Fresh
  BY <1>1, <1>2, <1>4, FreshSame DEF FreshApart
<1>8. BufInv'
  <2>1. ASSUME NEW x \in Requests, x # r PROVE BufOK(x)'
    <3>1. x \in ToSet(batch) => x \in ToSet(batch)'
      BY <1>3
    <3>2. x \in ToSet(ce)' \cup ToSet(loading)' => x \in ToSet(ce) \cup ToSet(loading)
      BY <1>2, <1>3
    <3>3. QED BY <1>1, <1>2, <1>6, <1>7, <2>1, <3>1, <3>2, BufSame DEF BufInv
  <2>2. BufOK(r)'
    BY <1>2, <1>3, <1>6, <1>7 DEF BufOK
  <2>3. QED BY <1>1, <1>2, <2>1, <2>2 DEF BufInv
<1>9. Backed'
  <2>1. ASSUME NEW x \in ToSet(batch)' PROVE blk'[x] * PageSize >= SeqLen(buf'[x])
    <3>1. x \in Requests /\ (x = r \/ x \in ToSet(batch))
      BY <1>1, <1>3, SeqSets
    <3>2. CASE x # r
      BY <1>1, <1>5, <1>6, <3>1, <3>2 DEF Backed
    <3>3. CASE x = r
      <4>1. blk'[r] * PageSize \in Nat
        BY <1>5, ServingAssumption
      <4>2. buf'[r] \in Buffers /\ buf'[r].proc < buf'[r].end
        BY <1>6 DEF Sound
      <4>3. SeqLen(buf'[r]) = buf'[r].end
        BY <1>6, <4>2, SeqLenEnd
      <4>4. buf'[r].end \in Nat
        BY <4>2 DEF Buffers
      <4>5. QED BY <1>5, <1>6, <3>3, <4>1, <4>3, <4>4
    <3>4. QED BY <3>2, <3>3
  <2>2. QED BY <2>1 DEF Backed
<1>10. Blocks'
  BY <1>1, <1>2, <1>4, <1>5 DEF Blocks, Counted
<1>11. MemTypes'
  BY <1>5, <1>6 DEF MemTypes, Counted
<1>12. budget' \in Nat
  <2>1. budget \in Nat /\ budget' = budget - AtMost(ActiveLength(buf[r]), budget)
    BY <1>1 DEF AdmitCE, TypeOK
  <2>2. ActiveLength(buf[r]) \in Nat
    <3>1. buf[r] \in Buffers /\ buf[r].proc < buf[r].end
      BY <1>1 DEF TypeOK, BufOK, Sound
    <3>2. QED BY <3>1 DEF Buffers, ActiveLength
  <2>3. QED BY <2>1, <2>2 DEF AtMost
<1>13. \A x \in Requests : buf'[x].len - buf'[x].pend = buf[x].len - buf[x].pend
  BY <1>6
<1>14. QED BY <1>5, <1>8, <1>9, <1>10, <1>11, <1>12, <1>13 DEF MemInv

\* What building a batch keeps of the memory and of the realized tokens.
Keeps == MemInv' /\ budget' \in Nat
         /\ \A x \in Requests : buf'[x].len - buf'[x].pend = buf[x].len - buf[x].pend

\* A step that changes no memory, no batch and no prefill queue.
LEMMA MemSame ==
  ASSUME ServingInv, UNCHANGED outside, UNCHANGED <<memory, batch, ce, loading>>
  PROVE  MemInv'
<1>1. TypeOK /\ BufInv /\ Backed /\ Blocks
  BY DEF ServingInv
<1>2. UNCHANGED <<mode, api, reqQ, gated, bound, orphans, prev, buf, blk, free>>
  BY DEF outside, memory
<1>3. Fresh' = Fresh
  BY <1>2, FreshSame
<1>4. BufInv'
  <2>1. ASSUME NEW x \in Requests PROVE BufOK(x)'
    BY <1>1, <1>2, <1>3, BufSame DEF BufInv
  <2>2. QED BY <1>1, <1>2, <2>1 DEF BufInv
<1>5. Backed' /\ Blocks' /\ MemTypes'
  BY <1>1, <1>2 DEF Backed, Blocks, MemTypes, TypeOK, HeldBlocks
<1>6. QED BY <1>4, <1>5 DEF MemInv

\* Where the head of the CE queue is not.
LEMMA HeadCE ==
  ASSUME ServingInv, NEW r \in Requests, ce # <<>>, r = Head(ce)
  PROVE  r \in ToSet(ce) /\ r \in bound /\ r \notin ToSet(batch) /\ r \notin Fresh
         /\ r \notin ToSet(loading) /\ r \notin ToSet(tg)
<1>1. Seqs /\ Places /\ FreshApart
  BY TypeParts DEF ServingInv
<1>2. r \in ToSet(ce)
  BY <1>1, TailFacts DEF Seqs
<1>3. QED BY <1>1, <1>2 DEF Places, FreshApart

\* Every step that builds the batch keeps the memory invariant.
LEMMA BatchingMem == ASSUME ServingInv, Batching PROVE Keeps
<1>1. UNCHANGED outside
  BY BatchingFrame
<1>2. TypeOK /\ Seqs /\ Orders /\ Places /\ FreshApart /\ budget \in Nat
  BY TypeParts DEF ServingInv, TypeOK
<1>3. CASE LeaveCE \/ LeaveTG
  <2>1. UNCHANGED <<memory, batch, ce, loading, budget>>
    BY <1>3 DEF LeaveCE, LeaveTG, held
  <2>2. QED BY <1>1, <1>2, <2>1, MemSame DEF Keeps, memory
<1>4. ASSUME NEW r \in Requests, TGOutOfBlocks(r) PROVE Keeps
  <2>1. UNCHANGED <<memory, batch, ce, loading, budget>>
    BY <1>4 DEF TGOutOfBlocks, held
  <2>2. QED BY <1>1, <1>2, <2>1, MemSame DEF Keeps, memory
<1>5. ASSUME NEW r \in Requests, DeferCE(r) \/ CEOutOfBlocks(r) PROVE Keeps
  <2>1. UNCHANGED <<batch, ce, loading, budget>> /\ ce # <<>> /\ r = Head(ce)
        /\ (TakeBack(r) \/ UNCHANGED memory)
    BY <1>5 DEF DeferCE, CEOutOfBlocks, RoomForCE, held
  <2>2. CASE UNCHANGED memory
    BY <1>1, <1>2, <2>1, <2>2, MemSame DEF Keeps, memory
  <2>3. CASE TakeBack(r)
    <3>1. r \in bound /\ r \notin ToSet(batch) /\ ToSet(ce)' \subseteq ToSet(ce) \cup {r}
      BY <2>1, HeadCE
    <3>2. QED BY <1>1, <1>2, <2>1, <2>3, <3>1, TakeBackInv DEF Keeps
  <2>4. QED BY <2>1, <2>2, <2>3
<1>6. ASSUME NEW r \in Requests, Cordon(r) PROVE Keeps
  <2>1. /\ ToSet(ce) = ToSet(ce') \cup {r} /\ ToSet(loading') = ToSet(loading) \cup {r}
        /\ UNCHANGED <<tg, batch, cand, pc, budget, buf>>
    BY <1>2, <1>6, CordonMoves
  <2>2. ce # <<>> /\ r = Head(ce) /\ Need(r) <= free /\ Allocate(r)
    BY <1>6 DEF Cordon, RoomForCE
  <2>3. r \in bound /\ r \notin Fresh
    BY <2>2, HeadCE
  <2>4. MemInv'
    BY <1>1, <2>1, <2>2, <2>3, AllocateInv
  <2>5. QED BY <1>2, <2>1, <2>4 DEF Keeps
<1>7. ASSUME NEW r \in Requests, AdmitCE(r) PROVE Keeps
  BY <1>7, AdmitCEInv DEF Keeps
<1>8. ASSUME NEW r \in Requests, AdmitTG(r) PROVE Keeps
  <2>1. /\ ToSet(cand) = ToSet(cand') \cup {r} /\ ToSet(batch') = ToSet(batch) \cup {r}
        /\ UNCHANGED <<ce, tg, loading, buf>>
    BY <1>2, <1>8, AdmitTGMoves
  <2>2. Need(r) <= free /\ Allocate(r) /\ budget > 0 /\ budget' = budget - 1
    BY <1>8 DEF AdmitTG, RoomForTG
  <2>3. r \in bound /\ r \notin Fresh
    BY <1>2, <2>1 DEF Places, FreshApart
  <2>4. MemInv'
    BY <1>1, <2>1, <2>2, <2>3, AllocateInv
  <2>5. QED BY <1>2, <2>1, <2>2, <2>4 DEF Keeps
<1>9. ASSUME NEW r \in Requests, NEW v \in Requests, Preempt(r, v) PROVE Keeps
  <2>1. /\ ToSet(cand) = ToSet(cand') \cup {v} /\ ToSet(ce') = ToSet(ce) \cup {v}
        /\ UNCHANGED <<loading, batch, pc, budget>>
    BY <1>2, <1>9, PreemptMoves
  <2>2. TakeBack(v)
    BY <1>9 DEF Preempt
  <2>3. v \in bound /\ v \notin ToSet(batch)
    BY <1>2, <2>1 DEF Places
  <2>4. QED BY <1>1, <1>2, <2>1, <2>2, <2>3, TakeBackInv DEF Keeps
<1>10. QED BY <1>3, <1>4, <1>5, <1>6, <1>7, <1>8, <1>9 DEF Batching

\* The responses, when nothing is sent or read and no token realized.
LEMMA StreamSame ==
  ASSUME StreamInv, UNCHANGED <<api, got, respQ, bound, reqQ, gated>>,
         \A x \in Requests : buf'[x].len - buf'[x].pend = buf[x].len - buf[x].pend
  PROVE  StreamInv'
<1>1. Fresh' = Fresh
  BY FreshSame
<1>2. \A x \in Requests : buf'[x].len - buf'[x].pend - Prompt[x] = buf[x].len - buf[x].pend - Prompt[x]
  OBVIOUS
<1>3. QED BY <1>1, <1>2 DEF StreamInv

\* FreshApart depends on these variables only.
LEMMA FreshApartSame ==
  ASSUME FreshApart, UNCHANGED <<api, reqQ, gated, bound, orphans, prev>> PROVE FreshApart'
BY DEF FreshApart, Fresh

\* Nobody but r holds a block: what is free is what the pool has but for r's.
LEMMA OnlyHolder ==
  ASSUME TypeOK, Blocks, NEW r \in Requests, \A x \in Requests : x # r => blk[x] = 0
  PROVE  free = mode.pool - blk[r] /\ blk[r] \in Nat /\ mode.pool \in Nat
<1> DEFINE n == mode.pool
           o == Requests \ {r}
           h == Cardinality(Cells(blk, Requests, n))
<1>1. /\ n \in Nat /\ free \in Nat /\ blk[r] \in Nat /\ blk[r] \in 0..n
  BY PoolFacts
<1>2. free + h = n
  BY HeldCells DEF Blocks
<1>3. Cells(blk, o, n) = {}
  <2>1. \A x \in o : blk[x] = 0
    OBVIOUS
  <2> HIDE DEF o
  <2>2. QED BY <1>1, <2>1, CellsZero
<1>4. Cardinality(Cells(blk, o, n)) = 0
  BY <1>3, FS_EmptySet
<1>5. Cardinality(Cells(blk, {r}, n)) = blk[r]
  BY <1>1, CellsOne
<1>6. h = blk[r] + 0
  <2>1. {r} \in SUBSET Requests
    OBVIOUS
  <2>2. h = Cardinality(Cells(blk, {r}, n)) + Cardinality(Cells(blk, o, n))
    BY <1>1, <2>1, CellsRest
  <2>3. QED BY <1>4, <1>5, <2>2
<1> HIDE DEF n, h
<1>7. QED BY <1>1, <1>2, <1>6 DEF n

\* Without chunks and loads, nobody who waits for a prefill holds a block.
LEMMA BatchingClean ==
  ASSUME ServingInv, Batching, ~mode.onload
  PROVE  loading' = <<>> /\ orphans' = {}
         /\ (~mode.chunked => \A x \in ToSet(ce)' : blk'[x] = 0)
<1>1. UNCHANGED outside
  BY BatchingFrame
<1>2. Seqs /\ Orders /\ Places /\ GenuineInv
  BY TypeParts DEF ServingInv
<1>3. loading = <<>> /\ orphans = {} /\ (~mode.chunked => \A x \in ToSet(ce) : blk[x] = 0)
  BY <1>2 DEF GenuineInv
<1>4. orphans' = {}
  BY <1>1, <1>3 DEF outside
<1>s. ToSet(ce) \subseteq Requests
  BY <1>2, SeqSets
<1>5. CASE LeaveCE \/ LeaveTG
  BY <1>3, <1>4, <1>5 DEF LeaveCE, LeaveTG, held, memory
<1>6. ASSUME NEW r \in Requests, DeferCE(r) \/ CEOutOfBlocks(r) \/ TGOutOfBlocks(r)
      PROVE  loading' = <<>> /\ (~mode.chunked => \A x \in ToSet(ce)' : blk'[x] = 0)
  <2>1. UNCHANGED <<ce, loading>> /\ (TakeBack(r) \/ UNCHANGED memory)
    BY <1>6 DEF DeferCE, CEOutOfBlocks, TGOutOfBlocks, held
  <2>2. CASE UNCHANGED memory
    BY <1>3, <2>1, <2>2 DEF memory
  <2>3. CASE TakeBack(r)
    <3>1. blk \in [Requests -> 0..mode.pool] /\ blk' = [blk EXCEPT ![r] = 0]
      BY <2>3 DEF TakeBack, ServingInv, TypeOK
    <3>2. \A x \in Requests : blk'[x] = IF x = r THEN 0 ELSE blk[x]
      BY <3>1
    <3>3. QED BY <1>3, <1>s, <2>1, <3>2
  <2>4. QED BY <2>1, <2>2, <2>3
<1>7. ASSUME NEW r \in Requests, Cordon(r) PROVE FALSE
  BY <1>7 DEF Cordon
<1>8. ASSUME NEW r \in Requests, AdmitCE(r)
      PROVE  loading' = <<>> /\ (~mode.chunked => \A x \in ToSet(ce)' : blk'[x] = 0)
  <2>1. /\ ToSet(ce) = ToSet(ce') \cup {r} /\ r \notin ToSet(ce') /\ UNCHANGED loading
    BY <1>2, <1>8, AdmitCEMoves
  <2>2. \A x \in Requests : x # r => blk'[x] = blk[x]
    BY <1>8, AdmitCEInv
  <2>3. QED BY <1>3, <1>s, <2>1, <2>2
<1>9. ASSUME NEW r \in Requests, AdmitTG(r)
      PROVE  loading' = <<>> /\ (~mode.chunked => \A x \in ToSet(ce)' : blk'[x] = 0)
  <2>1. ToSet(cand) = ToSet(cand') \cup {r} /\ UNCHANGED <<ce, loading>>
    BY <1>2, <1>9, AdmitTGMoves
  <2>2. r \notin ToSet(ce)
    BY <1>2, <2>1 DEF Places
  <2>3. \A x \in Requests : x # r => blk'[x] = blk[x]
    <3>1. blk \in [Requests -> 0..mode.pool]
      BY DEF ServingInv, TypeOK
    <3>2. QED BY <1>9, <3>1 DEF AdmitTG, Allocate
  <2>4. QED BY <1>3, <1>s, <2>1, <2>2, <2>3
<1>10. ASSUME NEW r \in Requests, NEW v \in Requests, Preempt(r, v)
       PROVE  loading' = <<>> /\ (~mode.chunked => \A x \in ToSet(ce)' : blk'[x] = 0)
  <2>1. ToSet(ce') = ToSet(ce) \cup {v} /\ UNCHANGED loading
    BY <1>2, <1>10, PreemptMoves
  <2>2. blk \in [Requests -> 0..mode.pool] /\ blk' = [blk EXCEPT ![v] = 0]
    BY <1>10 DEF Preempt, TakeBack, ServingInv, TypeOK
  <2>3. \A x \in Requests : blk'[x] = IF x = v THEN 0 ELSE blk[x]
    BY <2>2
  <2>4. QED BY <1>3, <1>s, <2>1, <2>3
<1>11. QED BY <1>4, <1>5, <1>6, <1>7, <1>8, <1>9, <1>10 DEF Batching

\* The two fatal branches.
LEMMA DeadCE ==
  ASSUME ServingInv, ~mode.onload, ~mode.chunked, NEW r \in Requests,
         ce # <<>>, r = Head(ce), Need(r) > free, tg = <<>>, batch = <<>>
  PROVE  r \in bound /\ blk[r] + Need(r) > mode.pool
<1>1. TypeOK /\ Blocks /\ Places /\ GenuineInv /\ BufOK(r)
  BY DEF ServingInv, BufInv
<1>2. loading = <<>> /\ orphans = {} /\ \A x \in ToSet(ce) : blk[x] = 0
  BY <1>1 DEF GenuineInv
<1>3. bound \cup orphans = ToSet(ce)
  BY <1>1, <1>2, EmptyQueue DEF Places
<1>4. \A x \in Requests : blk[x] \in Nat
  BY <1>1, PoolFacts
<1>5. \A x \in Requests : blk[x] = 0
  BY <1>1, <1>2, <1>3, <1>4 DEF Blocks
<1>6. free = mode.pool - blk[r] /\ mode.pool \in Nat
  BY <1>1, <1>5, OnlyHolder
<1>7. r \in bound
  BY HeadCE
<1>8. Need(r) \in Nat /\ blk[r] = 0
  BY <1>1, <1>5, NeedFacts
<1>9. QED BY <1>6, <1>7, <1>8

\* The same for a decode with nobody left to preempt.
LEMMA DeadTG ==
  ASSUME ServingInv, ~mode.onload, ~mode.chunked, NEW r \in Requests, pc = "tg",
         cand # <<>>, r = Head(cand), Len(cand) = 1, Need(r) > free, batch = <<>>
  PROVE  r \in bound /\ blk[r] + Need(r) > mode.pool
<1>1. TypeOK /\ Blocks /\ Places /\ GenuineInv /\ BufOK(r) /\ Seqs
  BY TypeParts DEF ServingInv, BufInv
<1>2. loading = <<>> /\ orphans = {} /\ \A x \in ToSet(ce) : blk[x] = 0
  BY <1>1 DEF GenuineInv
<1>3. ToSet(cand) = {r}
  <2>1. cand \in Seq(Requests)
    BY <1>1 DEF Seqs
  <2>2. Tail(cand) \in Seq(Requests) /\ Len(Tail(cand)) = 0
    BY <2>1, HeadTailProperties
  <2>3. Tail(cand) = <<>>
    BY <2>2, EmptySeq
  <2>4. ToSet(cand) = ToSet(Tail(cand)) \cup {r}
    BY <2>1, TailFacts
  <2>5. QED BY <2>3, <2>4, EmptyQueue
<1>4. r \in bound /\ bound \cup orphans \subseteq ToSet(ce) \cup {r}
  BY <1>1, <1>2, <1>3, EmptyQueue DEF Places
<1>5. \A x \in Requests : blk[x] \in Nat
  BY <1>1, PoolFacts
<1>6. \A x \in Requests : x # r => blk[x] = 0
  BY <1>1, <1>2, <1>4, <1>5 DEF Blocks
<1>7. free = mode.pool - blk[r] /\ blk[r] \in Nat /\ mode.pool \in Nat
  BY <1>1, <1>6, OnlyHolder
<1>8. Need(r) \in Nat
  BY <1>1, NeedFacts
<1>9. QED BY <1>4, <1>7, <1>8

\* Building the batch keeps the part about fatal errors.
LEMMA BatchingGenuine == ASSUME ServingInv, Batching PROVE GenuineInv'
<1>1. mode' = mode /\ bound' = bound
  BY BatchingFrame DEF outside
<1>2. ~mode.onload => loading' = <<>> /\ orphans' = {}
                      /\ (~mode.chunked => \A x \in ToSet(ce)' : blk'[x] = 0)
  BY BatchingClean
<1>3. ASSUME ~mode.onload, ~mode.chunked, pc' = "dead"
      PROVE  (\E r \in bound : blk[r] + Need(r) > mode.pool)'
  <2>1. PICK r \in Requests : CEOutOfBlocks(r) \/ TGOutOfBlocks(r)
    <3>1. \A r \in Requests : DeferCE(r) \/ Cordon(r) \/ AdmitCE(r) \/ AdmitTG(r) => pc' # "dead"
      BY DEF DeferCE, Cordon, AdmitCE, AdmitTG, AfterCE, AfterTG
    <3>2. \A r \in Requests : \A v \in Requests : Preempt(r, v) => pc' # "dead"
      BY DEF Preempt
    <3>3. LeaveCE \/ LeaveTG => pc' # "dead"
      BY DEF LeaveCE, LeaveTG, AfterCE, AfterTG
    <3>4. QED BY <1>3, <3>1, <3>2, <3>3 DEF Batching
  <2>2. UNCHANGED memory /\ r \in bound /\ blk[r] + Need(r) > mode.pool
    <3>1. CASE CEOutOfBlocks(r)
      <4>1. /\ ce # <<>> /\ r = Head(ce) /\ Need(r) > free /\ tg = <<>> /\ batch = <<>>
            /\ UNCHANGED memory
        BY <1>3, <3>1 DEF CEOutOfBlocks, RoomForCE, Fatal, AfterCE
      <4>2. QED BY <1>3, <4>1, DeadCE
    <3>2. CASE TGOutOfBlocks(r)
      <4>1. /\ cand # <<>> /\ r = Head(cand) /\ Need(r) > free /\ Len(cand) = 1 /\ batch = <<>>
            /\ UNCHANGED memory /\ pc = "tg"
        BY <1>3, <3>2 DEF TGOutOfBlocks, RoomForTG, Fatal, AfterTG
      <4>2. QED BY <1>3, <4>1, DeadTG
    <3>3. QED BY <2>1, <3>1, <3>2
  <2>3. QED BY <1>1, <2>2 DEF memory, Need
<1>4. QED BY <1>1, <1>2, <1>3 DEF GenuineInv, OnlyGenuineOOM

\* Building a batch keeps the invariant.
LEMMA BatchingStep == ASSUME ServingInv, Batching PROVE ServingInv'
<1>1. UNCHANGED outside
  BY BatchingFrame
<1>2. TypeOK /\ ClientTypes /\ Seqs /\ WorkTypes /\ Orders /\ Places /\ FreshApart /\ StreamInv
  BY TypeParts DEF ServingInv
<1>3. Seqs' /\ Orders' /\ Places' /\ ToSet(loading) \subseteq ToSet(loading')
  BY <1>2, BatchingPlaces
<1>4. MemInv' /\ budget' \in Nat
      /\ \A x \in Requests : buf'[x].len - buf'[x].pend = buf[x].len - buf[x].pend
  BY BatchingMem DEF Keeps
<1>5. GenuineInv'
  BY BatchingGenuine
<1>6. StreamInv' /\ FreshApart'
  BY <1>1, <1>2, <1>4, StreamSame, FreshApartSame DEF outside
<1>7. ClientTypes'
  BY <1>1, <1>2 DEF outside, ClientTypes
<1>8. pc' \in {"ce", "tg", "exec", "dead"}
  BY DEF Batching, LeaveCE, LeaveTG, DeferCE, CEOutOfBlocks, Cordon, AdmitCE, AdmitTG,
         TGOutOfBlocks, Preempt, AfterCE, AfterTG
<1>9. WorkTypes'
  BY <1>1, <1>2, <1>3, <1>4, <1>8 DEF outside, WorkTypes
<1>10. TypeOK'
  BY <1>3, <1>4, <1>7, <1>9, TypePartsNext DEF MemInv
<1>11. QED BY <1>3, <1>4, <1>5, <1>6, <1>10 DEF ServingInv, MemInv

-----------------------------------------------------------------------------
(* The clients, the loads and the grammar builds *)

\* A step that leaves the worker's books alone.
worker == <<mode, ce, tg, loading, orphans, bound, memory, batch, cand, prev>>

\* A step of the API process leaves the memory invariant.
LEMMA WorkerSame ==
  ASSUME ServingInv, UNCHANGED worker, Fresh' \subseteq Fresh
  PROVE  MemInv'
<1>1. TypeOK /\ BufInv /\ Backed /\ Blocks
  BY DEF ServingInv
<1>2. UNCHANGED <<mode, bound, orphans, prev, buf, blk, free, ce, loading, batch>>
  BY DEF worker, memory
<1>4. BufInv'
  <2>1. ASSUME NEW x \in Requests PROVE BufOK(x)'
    BY <1>1, <1>2, BufSame DEF BufInv
  <2>2. QED BY <1>1, <1>2, <2>1 DEF BufInv
<1>5. Backed' /\ Blocks' /\ MemTypes'
  BY <1>1, <1>2 DEF Backed, Blocks, MemTypes, TypeOK, HeldBlocks
<1>6. QED BY <1>4, <1>5 DEF MemInv

\* Places depends on these variables only.
LEMMA PlacesSame ==
  ASSUME Places, UNCHANGED <<ce, tg, loading, batch, cand, bound, pc>> PROVE Places'
BY DEF Places

\* A step of the API process leaves the part about fatal errors.
LEMMA GenuineSame ==
  ASSUME GenuineInv, UNCHANGED worker, pc' = pc \/ pc' # "dead" PROVE GenuineInv'
<1>1. UNCHANGED <<mode, ce, loading, orphans, bound, buf, blk>>
  BY DEF worker, memory
<1>2. (\A r \in bound : Need(r)' = Need(r))
  BY <1>1 DEF Need
<1>3. OnlyGenuineOOM => OnlyGenuineOOM'
  BY <1>1, <1>2 DEF OnlyGenuineOOM
<1>4. QED BY <1>1, <1>3 DEF GenuineInv

\* A request no message is about.
LEMMA NothingQueued ==
  ASSUME NEW q, NEW r, NEW g, Having(q, r) = {} PROVE Exact(q, r, g)
BY DEF Exact

\* A client submits a request, or is refused.
LEMMA SubmitStep == ASSUME ServingInv, NEW r \in Requests, Submit(r) PROVE ServingInv'
<1>1. /\ TypeOK /\ ClientTypes /\ Seqs /\ WorkTypes /\ Orders /\ Places /\ FreshApart
      /\ StreamInv /\ GenuineInv
  BY TypeParts DEF ServingInv
<1>2. UNCHANGED <<worker, got, cancelQ, respQ, pc, gated, matcher, landed, budget>>
  BY DEF Submit, worker, held, building
<1>3. UNCHANGED <<mode, ce, tg, loading, orphans, bound, memory, batch, cand, prev>>
  BY <1>2 DEF worker
<1>4. api[r] = "new" /\ r \in Fresh
  BY DEF Submit, Fresh
<1>5. r \notin ToSet(reqQ) /\ r \notin ToSet(gated)
  BY <1>1, <1>4 DEF FreshApart
<1>6. /\ reqQ' \in Seq(Requests) /\ Distinct(reqQ') /\ Len(reqQ') <= QueueSize
      /\ \A x \in Requests : x # r => api'[x] = api[x]
      /\ api' \in [Requests -> {"new", "open", "rejected", "gone", "ended"}]
      /\ api'[r] \in {"open", "rejected"}
      /\ ToSet(reqQ') = ToSet(reqQ) \/ ToSet(reqQ') = ToSet(reqQ) \cup {r}
  <2>1. api \in [Requests -> {"new", "open", "rejected", "gone", "ended"}]
        /\ reqQ \in Seq(Requests) /\ Distinct(reqQ) /\ Len(reqQ) <= QueueSize
    BY <1>1 DEF ClientTypes, Seqs, Orders
  <2>2. CASE Len(reqQ) < QueueSize /\ reqQ' = Append(reqQ, r) /\ api' = [api EXCEPT ![r] = "open"]
    <3>1. reqQ' \in Seq(Requests) /\ ToSet(reqQ') = ToSet(reqQ) \cup {r} /\ Distinct(reqQ')
      BY <1>5, <2>1, <2>2, AppendFacts
    <3>2. Len(reqQ') = Len(reqQ) + 1 /\ Len(reqQ) \in Nat
      BY <2>1, <2>2, AppendProperties, LenProperties
    <3>3. Len(reqQ') <= QueueSize
      BY <2>2, <3>2, ServingAssumption
    <3>4. QED BY <2>1, <2>2, <3>1, <3>3
  <2>3. CASE api' = [api EXCEPT ![r] = "rejected"] /\ UNCHANGED reqQ
    BY <2>1, <2>3
  <2>4. QED BY <2>2, <2>3 DEF Submit
<1>7. Fresh' \subseteq Fresh
  BY <1>2, <1>4, <1>6 DEF Fresh
<1>8. FreshApart'
  <2>1. ToSet(reqQ)' \cap ToSet(gated)' = {}
    BY <1>1, <1>2, <1>5, <1>6 DEF FreshApart
  <2>2. \A x \in ToSet(reqQ)' \cup ToSet(gated)' : api'[x] # "new"
    BY <1>1, <1>2, <1>6, SeqSets DEF FreshApart
  <2>3. QED BY <1>1, <1>3, <1>7, <2>1, <2>2 DEF FreshApart
<1>9. StreamInv'
  <2>1. Having(respQ, r) = {} /\ r \notin bound
    BY <1>1, <1>4 DEF StreamInv, FreshApart
  <2>2. Exact(respQ, r, got[r])
    BY <2>1, NothingQueued
  <2>3. ASSUME NEW x \in Requests, api'[x] = "open"
        PROVE  /\ Exact(respQ, x, got[x])
               /\ x \in bound =>
                    got[x] + Cardinality(Having(respQ, x)) = buf[x].len - buf[x].pend - Prompt[x]
    BY <1>1, <1>6, <2>1, <2>2, <2>3 DEF StreamInv
  <2>4. QED BY <1>1, <1>2, <1>3, <1>7, <2>3 DEF StreamInv, memory
<1>10. MemInv' /\ GenuineInv' /\ Places'
  BY <1>1, <1>2, <1>3, <1>7, WorkerSame, GenuineSame, PlacesSame
<1>11. Seqs' /\ Orders' /\ WorkTypes' /\ ClientTypes'
  BY <1>1, <1>2, <1>3, <1>6 DEF Seqs, Orders, WorkTypes, ClientTypes
<1>12. TypeOK'
  BY <1>10, <1>11, TypePartsNext DEF MemInv
<1>13. QED BY <1>8, <1>9, <1>10, <1>11, <1>12 DEF ServingInv, MemInv

\* A client goes away.
LEMMA AbandonStep == ASSUME ServingInv, NEW r \in Requests, Abandon(r) PROVE ServingInv'
<1>1. /\ TypeOK /\ ClientTypes /\ Seqs /\ WorkTypes /\ Orders /\ Places /\ FreshApart
      /\ StreamInv /\ GenuineInv
  BY TypeParts DEF ServingInv
<1>2. UNCHANGED <<worker, got, reqQ, respQ, pc, gated, matcher, landed, budget>>
  BY DEF Abandon, worker, held, building
<1>3. UNCHANGED <<mode, ce, tg, loading, orphans, bound, memory, batch, cand, prev>>
  BY <1>2 DEF worker
<1>4. /\ \A x \in Requests : x # r => api'[x] = api[x]
      /\ api' \in [Requests -> {"new", "open", "rejected", "gone", "ended"}]
      /\ api[r] = "open" /\ api'[r] = "gone"
  BY <1>1 DEF Abandon, ClientTypes
<1>5. cancelQ' \in Seq(Requests)
  BY <1>1, AppendFacts DEF Abandon, Seqs
<1>6. Fresh' \subseteq Fresh
  BY <1>2, <1>4 DEF Fresh
<1>7. FreshApart'
  <2>1. \A x \in ToSet(reqQ)' \cup ToSet(gated)' : api'[x] # "new"
    BY <1>1, <1>2, <1>4, SeqSets DEF FreshApart
  <2>2. QED BY <1>1, <1>2, <1>3, <1>6, <2>1 DEF FreshApart
<1>8. StreamInv'
  BY <1>1, <1>2, <1>3, <1>4, <1>6 DEF StreamInv, memory
<1>9. MemInv' /\ GenuineInv' /\ Places'
  BY <1>1, <1>2, <1>3, <1>6, WorkerSame, GenuineSame, PlacesSame
<1>10. Seqs' /\ Orders' /\ WorkTypes' /\ ClientTypes'
  BY <1>1, <1>2, <1>3, <1>4, <1>5 DEF Seqs, Orders, WorkTypes, ClientTypes
<1>11. TypeOK'
  BY <1>9, <1>10, TypePartsNext DEF MemInv
<1>12. QED BY <1>7, <1>8, <1>9, <1>10, <1>11 DEF ServingInv, MemInv

\* A grammar build finishes.
LEMMA BuiltStep == ASSUME ServingInv, NEW r \in Requests, MatcherBuilt(r) PROVE ServingInv'
<1>1. /\ TypeOK /\ ClientTypes /\ Seqs /\ WorkTypes /\ Orders /\ Places /\ FreshApart
      /\ StreamInv /\ GenuineInv
  BY TypeParts DEF ServingInv
<1>2. UNCHANGED <<worker, api, got, reqQ, cancelQ, respQ, pc, gated, landed, budget>>
  BY DEF MatcherBuilt, worker, queues, building
<1>3. UNCHANGED <<mode, ce, tg, loading, orphans, bound, memory, batch, cand, prev>>
  BY <1>2 DEF worker
<1>4. matcher' \in [Requests -> {"none", "unbuilt", "building", "ready", "failed"}]
  BY <1>1 DEF MatcherBuilt, WorkTypes
<1>5. Fresh' = Fresh
  BY <1>2, FreshSame
<1>6. FreshApart'
  BY <1>1, <1>2, <1>3, FreshApartSame
<1>7. StreamInv'
  BY <1>1, <1>2, <1>3, <1>5 DEF StreamInv, memory
<1>8. MemInv' /\ GenuineInv' /\ Places'
  BY <1>1, <1>2, <1>3, <1>5, WorkerSame, GenuineSame, PlacesSame
<1>9. Seqs' /\ Orders' /\ WorkTypes' /\ ClientTypes'
  BY <1>1, <1>2, <1>3, <1>4 DEF Seqs, Orders, WorkTypes, ClientTypes
<1>10. TypeOK'
  BY <1>8, <1>9, TypePartsNext DEF MemInv
<1>11. QED BY <1>6, <1>7, <1>8, <1>9, <1>10 DEF ServingInv, MemInv

\* An iteration without a batch.
LEMMA NoProgressStep == ASSUME ServingInv, NoProgress PROVE ServingInv'
<1>1. /\ TypeOK /\ ClientTypes /\ Seqs /\ WorkTypes /\ Orders /\ Places /\ FreshApart
      /\ StreamInv /\ GenuineInv
  BY TypeParts DEF ServingInv
<1>2. /\ UNCHANGED <<worker, api, got, reqQ, cancelQ, respQ, gated, matcher, landed, budget>>
      /\ pc' = "drain" /\ batch = <<>>
  BY DEF NoProgress, worker, queues, building, held
<1>3. UNCHANGED <<mode, ce, tg, loading, orphans, bound, memory, batch, cand, prev>>
  BY <1>2 DEF worker
<1>5. Fresh' = Fresh
  BY <1>2, FreshSame
<1>6. FreshApart' /\ Places'
  BY <1>1, <1>2, <1>3, FreshApartSame DEF Places
<1>7. StreamInv'
  BY <1>1, <1>2, <1>3, <1>5 DEF StreamInv, memory
<1>8. MemInv' /\ GenuineInv'
  BY <1>1, <1>2, <1>5, WorkerSame, GenuineSame
<1>9. Seqs' /\ Orders' /\ WorkTypes' /\ ClientTypes'
  BY <1>1, <1>2, <1>3 DEF Seqs, Orders, WorkTypes, ClientTypes
<1>10. TypeOK'
  BY <1>8, <1>9, TypePartsNext DEF MemInv
<1>11. QED BY <1>6, <1>7, <1>8, <1>9, <1>10 DEF ServingInv, MemInv

\* A load lands: for a request that waits, or for one that was released.
LEMMA LoadStep == ASSUME ServingInv, NEW r \in Requests, LoadLands(r) PROVE ServingInv'
<1>1. /\ TypeOK /\ ClientTypes /\ Seqs /\ WorkTypes /\ Orders /\ Places /\ FreshApart
      /\ StreamInv /\ GenuineInv /\ BufInv /\ Backed /\ Blocks
  BY TypeParts DEF ServingInv
<1>2. UNCHANGED <<mode, api, got, reqQ, cancelQ, respQ, pc, ce, tg, gated, matcher, loading, bound,
                  buf, batch, budget, cand, prev>>
  BY DEF LoadLands, queues, building
<1>3. Fresh' = Fresh
  BY <1>2, FreshSame
<1>4. StreamInv' /\ Places'
  BY <1>1, <1>2, <1>3, PlacesSame DEF StreamInv
<1>5. Seqs' /\ Orders' /\ ClientTypes'
  BY <1>1, <1>2 DEF Seqs, Orders, ClientTypes
<1>6. CASE r \in ToSet(loading) \ landed /\ landed' = landed \cup {r} /\ UNCHANGED <<orphans, blk, free>>
  <2>1. UNCHANGED worker
    BY <1>2, <1>6 DEF worker, memory
  <2>2. MemInv' /\ GenuineInv' /\ FreshApart'
    BY <1>1, <1>2, <1>3, <1>6, <2>1, WorkerSame, GenuineSame, FreshApartSame
  <2>3. WorkTypes'
    BY <1>1, <1>2, <1>6 DEF WorkTypes
  <2>4. TypeOK'
    BY <1>5, <2>2, <2>3, TypePartsNext DEF MemInv
  <2>5. QED BY <1>4, <1>5, <2>2, <2>4 DEF ServingInv, MemInv
<1>7. CASE r \in orphans /\ orphans' = orphans \ {r} /\ Emptied(r) /\ UNCHANGED landed
  <2>1. Counted' /\ \A x \in Requests : blk'[x] = IF x = r THEN 0 ELSE blk[x]
    BY <1>1, <1>2, <1>7, TakeBackMem
  <2>2. BufInv'
    <3>1. ASSUME NEW x \in Requests PROVE BufOK(x)'
      BY <1>1, <1>2, <1>3, BufSame DEF BufInv
    <3>2. QED BY <1>1, <1>2, <3>1 DEF BufInv
  <2>3. Backed'
    <3>1. ToSet(batch) \subseteq Requests /\ r \notin ToSet(batch)
      BY <1>1, <1>7, SeqSets DEF FreshApart, Places
    <3>2. QED BY <1>1, <1>2, <2>1, <3>1 DEF Backed
  <2>4. Blocks' /\ MemTypes'
    BY <1>1, <1>2, <1>7, <2>1 DEF Blocks, Counted, MemTypes, TypeOK
  <2>5. FreshApart'
    BY <1>1, <1>2, <1>3, <1>7 DEF FreshApart
  <2>6. GenuineInv'
    <3>1. mode.onload
      BY <1>1, <1>7 DEF GenuineInv
    <3>2. QED BY <1>2, <3>1 DEF GenuineInv
  <2>7. WorkTypes'
    BY <1>1, <1>2, <1>7 DEF WorkTypes
  <2>8. TypeOK'
    BY <1>5, <2>4, <2>7, TypePartsNext
  <2>9. QED BY <1>4, <1>5, <2>2, <2>3, <2>4, <2>5, <2>6, <2>8 DEF ServingInv
<1>8. QED BY <1>6, <1>7 DEF LoadLands, Emptied

-----------------------------------------------------------------------------
(* Routing responses *)

\* What a client sees of one message.
LEMMA RouteFacts ==
  ASSUME TypeOK, Route
  PROVE  /\ respQ # <<>> /\ respQ' = Tail(respQ)
         /\ got' \in [Requests -> Nat]
         /\ api' \in [Requests -> {"new", "open", "rejected", "gone", "ended"}]
         /\ \A x \in Requests : api'[x] = api[x] \/ (api[x] = "open" /\ api'[x] = "ended")
         /\ \A x \in Requests :
              got'[x] = IF api[x] = "open" /\ Tokens(Head(respQ), x) # {} THEN got[x] + 1 ELSE got[x]
<1> DEFINE m == Head(respQ)
           mine(r) == {x \in ToSet(m) : x.id = r /\ api[r] = "open"}
<1>1. got \in [Requests -> Nat]
      /\ api \in [Requests -> {"new", "open", "rejected", "gone", "ended"}]
  BY DEF TypeOK
<1>2. /\ respQ # <<>> /\ respQ' = Tail(respQ)
      /\ got' = [r \in Requests |-> IF \E x \in mine(r) : x.kind \in {"token", "last"}
                                      THEN got[r] + 1 ELSE got[r]]
      /\ api' = [r \in Requests |-> IF \E x \in mine(r) : x.kind # "token" THEN "ended" ELSE api[r]]
  BY DEF Route
<1>3. ASSUME NEW r \in Requests
      PROVE  (\E x \in mine(r) : x.kind \in {"token", "last"})
               <=> api[r] = "open" /\ Tokens(m, r) # {}
  BY DEF Tokens, ToSet
<1>4. ASSUME NEW r \in Requests, \E x \in mine(r) : x.kind # "token" PROVE api[r] = "open"
  BY <1>4
<1> HIDE DEF mine, m
<1>5. got' \in [Requests -> Nat]
  <2>1. \A r \in Requests : got[r] + 1 \in Nat
    BY <1>1
  <2>2. QED BY <1>1, <1>2, <2>1
<1>6. api' \in [Requests -> {"new", "open", "rejected", "gone", "ended"}]
  BY <1>1, <1>2
<1>7. \A x \in Requests : api'[x] = api[x] \/ (api[x] = "open" /\ api'[x] = "ended")
  BY <1>2, <1>4
<1>8. \A x \in Requests :
         got'[x] = IF api[x] = "open" /\ Tokens(m, x) # {} THEN got[x] + 1 ELSE got[x]
  BY <1>2, <1>3
<1>9. QED BY <1>2, <1>5, <1>6, <1>7, <1>8 DEF m

\* response_worker routes a message.
LEMMA RouteStep == ASSUME ServingInv, Route PROVE ServingInv'
<1>1. /\ TypeOK /\ ClientTypes /\ Seqs /\ WorkTypes /\ Orders /\ Places /\ FreshApart
      /\ StreamInv /\ GenuineInv
  BY TypeParts DEF ServingInv
<1>2. UNCHANGED <<worker, reqQ, cancelQ, pc, gated, matcher, landed, budget>>
  BY DEF Route, worker, held, building
<1>3. UNCHANGED <<mode, ce, tg, loading, orphans, bound, memory, batch, cand, prev>>
  BY <1>2 DEF worker
<1>4. /\ respQ # <<>> /\ respQ' = Tail(respQ)
      /\ got' \in [Requests -> Nat]
      /\ api' \in [Requests -> {"new", "open", "rejected", "gone", "ended"}]
      /\ \A x \in Requests : api'[x] = api[x] \/ (api[x] = "open" /\ api'[x] = "ended")
      /\ \A x \in Requests :
           got'[x] = IF api[x] = "open" /\ Tokens(Head(respQ), x) # {} THEN got[x] + 1 ELSE got[x]
  BY <1>1, RouteFacts
<1>5. respQ \in Seq(Seq(Responses)) /\ got \in [Requests -> Nat]
  BY <1>1 DEF ClientTypes
<1>6. Tail(respQ) \in Seq(Seq(Responses))
  BY <1>4, <1>5, TailFacts
<1>7. Fresh' \subseteq Fresh
  BY <1>2, <1>4 DEF Fresh
<1>8. FreshApart'
  <2>1. \A x \in ToSet(reqQ)' \cup ToSet(gated)' : api'[x] # "new"
    BY <1>1, <1>2, <1>4, SeqSets DEF FreshApart
  <2>2. QED BY <1>1, <1>2, <1>3, <1>7, <2>1 DEF FreshApart
<1>9. ASSUME NEW x \in Requests
      PROVE  /\ Cardinality(Having(respQ, x)) \in Nat
             /\ Tokens(Head(respQ), x) = {} =>
                  /\ Cardinality(Having(Tail(respQ), x)) = Cardinality(Having(respQ, x))
                  /\ Exact(respQ, x, got[x]) => Exact(Tail(respQ), x, got[x])
             /\ Tokens(Head(respQ), x) # {} =>
                  /\ Cardinality(Having(Tail(respQ), x)) = Cardinality(Having(respQ, x)) - 1
                  /\ Exact(respQ, x, got[x]) => Exact(Tail(respQ), x, got[x] + 1)
  <2>1. got[x] \in Nat
    BY <1>5
  <2>2. Cardinality(Having(respQ, x)) \in Nat
    BY <1>5, HavingFinite
  <2>3. QED BY <1>4, <1>5, <2>1, <2>2, StreamTail
<1>10. ASSUME NEW x \in Requests, api'[x] = "open"
       PROVE  /\ Exact(respQ', x, got'[x])
              /\ x \in bound =>
                   got'[x] + Cardinality(Having(respQ', x)) = buf[x].len - buf[x].pend - Prompt[x]
  <2>1. /\ api[x] = "open" /\ got[x] \in Nat /\ Exact(respQ, x, got[x])
        /\ x \in bound =>
             got[x] + Cardinality(Having(respQ, x)) = buf[x].len - buf[x].pend - Prompt[x]
    BY <1>1, <1>4, <1>5, <1>10 DEF StreamInv
  <2>2. CASE Tokens(Head(respQ), x) = {}
    BY <1>4, <1>9, <2>1, <2>2
  <2>3. CASE Tokens(Head(respQ), x) # {}
    <3> DEFINE k == Cardinality(Having(respQ, x))
    <3>1. k \in Nat /\ Cardinality(Having(respQ', x)) = k - 1
          /\ Exact(respQ', x, got[x] + 1) /\ got'[x] = got[x] + 1
      BY <1>4, <1>9, <2>1, <2>3
    <3> HIDE DEF k
    <3>2. (got[x] + 1) + (k - 1) = got[x] + k
      BY <2>1, <3>1
    <3>3. QED BY <2>1, <3>1, <3>2 DEF k
  <2>4. QED BY <2>2, <2>3
<1>11. ASSUME NEW x \in Fresh, x \in Requests
       PROVE  got'[x] = 0 /\ Having(respQ', x) = {}
  <2>1. got[x] = 0 /\ Having(respQ, x) = {}
    BY <1>1 DEF StreamInv
  <2>2. Cardinality(Having(respQ, x)) = 0
    BY <2>1, FS_EmptySet
  <2>3. /\ Cardinality(Having(Tail(respQ), x)) \in Nat /\ IsFiniteSet(Having(Tail(respQ), x))
    BY <1>6, HavingFinite
  <2>4. Tokens(Head(respQ), x) = {}
    <3>1. SUFFICES ASSUME Tokens(Head(respQ), x) # {} PROVE FALSE
      OBVIOUS
    <3>2. Cardinality(Having(Tail(respQ), x)) = 0 - 1
      BY <1>9, <1>11, <2>2, <3>1
    <3>3. 0 - 1 \notin Nat
      OBVIOUS
    <3>4. QED BY <2>3, <3>2, <3>3
  <2>5. Cardinality(Having(Tail(respQ), x)) = 0
    BY <1>9, <1>11, <2>2, <2>4
  <2>6. Having(Tail(respQ), x) = {}
    BY <2>3, <2>5, FS_EmptySet
  <2>7. QED BY <1>4, <1>11, <2>1, <2>4, <2>6
<1>12. StreamInv'
  <2>1. \A x \in Fresh' : x \in Fresh /\ x \in Requests
    BY <1>1, <1>7, SeqSets DEF Fresh
  <2>2. QED BY <1>3, <1>10, <1>11, <2>1 DEF StreamInv, memory
<1>13. MemInv' /\ GenuineInv' /\ Places'
  BY <1>1, <1>2, <1>3, <1>7, WorkerSame, GenuineSame, PlacesSame
<1>14. Seqs' /\ Orders' /\ WorkTypes' /\ ClientTypes'
  BY <1>1, <1>2, <1>3, <1>4, <1>6 DEF Seqs, Orders, WorkTypes, ClientTypes
<1>15. TypeOK'
  BY <1>13, <1>14, TypePartsNext DEF MemInv
<1>16. QED BY <1>8, <1>12, <1>13, <1>14, <1>15 DEF ServingInv, MemInv

-----------------------------------------------------------------------------
(* Requests become bound *)

\* A fresh request: its buffer is its prompt, it has no block and nothing is
\* on its way to its client.
LEMMA FreshFacts ==
  ASSUME ServingInv, NEW x \in Fresh
  PROVE  /\ x \in Requests /\ x \notin bound /\ x \notin orphans
         /\ buf[x].len = Prompt[x] /\ buf[x].prompt = Prompt[x] /\ buf[x].pend = 0
         /\ blk[x] = 0 /\ got[x] = 0 /\ Having(respQ, x) = {} /\ Prompt[x] \in Nat
<1>1. TypeOK /\ Seqs /\ FreshApart /\ BufInv /\ Blocks /\ StreamInv
  BY TypeParts DEF ServingInv
<1>2. x \in Requests
  BY <1>1, SeqSets DEF Fresh
<1>3. x \notin bound /\ x \notin orphans
  BY <1>1 DEF FreshApart
<1>4. buf[x] = NewBuffer(Prompt[x])
  BY <1>1, <1>2 DEF BufInv, BufOK
<1>5. buf[x].len = Prompt[x] /\ buf[x].prompt = Prompt[x] /\ buf[x].pend = 0
  BY <1>4 DEF NewBuffer
<1>6. blk[x] = 0
  <2>1. blk[x] \in Nat
    BY <1>1, <1>2, PoolFacts
  <2>2. QED BY <1>1, <1>2, <1>3, <2>1 DEF Blocks
<1>7. Prompt[x] \in Nat
  BY <1>2, ServingAssumption
<1>8. QED BY <1>1, <1>2, <1>3, <1>5, <1>6, <1>7 DEF StreamInv

\* The step binds the fresh requests in A.
Binds(A) ==
  /\ A \subseteq Fresh /\ Fresh' \subseteq Fresh /\ bound' = bound \cup A
  /\ UNCHANGED <<mode, api, got, memory, prev, orphans, batch>>
  /\ ToSet(ce)' \cup ToSet(loading)' \subseteq ToSet(ce) \cup ToSet(loading) \cup A

\* Binding fresh requests keeps the memory invariant.
LEMMA BindMem == ASSUME ServingInv, NEW A, Binds(A) PROVE MemInv'
<1>1. TypeOK /\ BufInv /\ Backed /\ Blocks
  BY DEF ServingInv
<1>2. /\ A \subseteq Fresh /\ Fresh' \subseteq Fresh /\ bound' = bound \cup A
      /\ UNCHANGED <<mode, prev, orphans, batch, buf, blk, free>>
      /\ ToSet(ce)' \cup ToSet(loading)' \subseteq ToSet(ce) \cup ToSet(loading) \cup A
  BY DEF Binds, memory
<1>3. ASSUME NEW x \in Requests PROVE BufOK(x)'
  <2>1. BufOK(x)
    BY <1>1 DEF BufInv
  <2>2. CASE x \notin A
    BY <1>2, <2>1, <2>2, BufSame
  <2>3. CASE x \in A
    <3>1. buf[x].len = buf[x].prompt
      BY <1>2, <2>3, FreshFacts
    <3>2. QED BY <1>2, <2>1, <3>1 DEF BufOK
  <2>4. QED BY <2>2, <2>3
<1>4. BufInv'
  BY <1>1, <1>2, <1>3 DEF BufInv
<1>5. Backed' /\ Blocks' /\ MemTypes'
  BY <1>1, <1>2 DEF Backed, Blocks, MemTypes, TypeOK, HeldBlocks
<1>6. QED BY <1>4, <1>5 DEF MemInv

\* Binding fresh requests keeps the streams: they have no token yet.
LEMMA BindStream ==
  ASSUME ServingInv, NEW A, Binds(A),
         \A x \in Requests : Having(respQ', x) = Having(respQ, x),
         \A x \in Requests : \A g : Exact(respQ, x, g) => Exact(respQ', x, g)
  PROVE  StreamInv'
<1>1. StreamInv /\ Seqs
  BY TypeParts DEF ServingInv
<1>2. /\ A \subseteq Fresh /\ Fresh' \subseteq Fresh /\ bound' = bound \cup A
      /\ UNCHANGED <<api, got, buf>>
  BY DEF Binds, memory
<1>3. ASSUME NEW x \in A, x \in Requests
      PROVE  got[x] + Cardinality(Having(respQ', x)) = buf[x].len - buf[x].pend - Prompt[x]
  <2>1. /\ buf[x].len = Prompt[x] /\ buf[x].pend = 0 /\ got[x] = 0 /\ Having(respQ', x) = {}
        /\ Prompt[x] \in Nat
    BY <1>2, <1>3, FreshFacts
  <2>2. Cardinality(Having(respQ', x)) = 0
    BY <2>1, FS_EmptySet
  <2>3. QED BY <2>1, <2>2
<1>4. Fresh \subseteq Requests
  BY <1>1, SeqSets DEF Fresh
<1>5. QED BY <1>1, <1>2, <1>3, <1>4 DEF StreamInv

\* Binding fresh requests brings no block into the CE queue.
LEMMA BindGenuine ==
  ASSUME ServingInv, NEW A, Binds(A), pc' # "dead", loading = <<>> => loading' = <<>>
  PROVE  GenuineInv'
<1>1. GenuineInv
  BY DEF ServingInv
<1>2. A \subseteq Fresh /\ UNCHANGED <<mode, orphans, blk>>
      /\ ToSet(ce)' \cup ToSet(loading)' \subseteq ToSet(ce) \cup ToSet(loading) \cup A
  BY DEF Binds, memory
<1>3. \A x \in A : blk[x] = 0
  BY <1>2, FreshFacts
<1>4. ASSUME ~mode.onload, ~mode.chunked, NEW x \in ToSet(ce)' PROVE blk'[x] = 0
  <2>1. loading = <<>> /\ \A y \in ToSet(ce) : blk[y] = 0
    BY <1>1, <1>4 DEF GenuineInv
  <2>2. x \in ToSet(ce) \cup A
    BY <1>2, <1>4, <2>1, EmptyQueue
  <2>3. QED BY <1>2, <1>3, <2>1, <2>2
<1>5. QED BY <1>1, <1>2, <1>4 DEF GenuineInv, OnlyGenuineOOM

\* _retrieve_pending_requests.
LEMMA DrainMoves ==
  ASSUME ServingInv, Drain
  PROVE  \E A, H \in SUBSET ToSet(reqQ) :
           /\ reqQ' \in Seq(Requests) /\ Distinct(reqQ') /\ Len(reqQ') <= Len(reqQ)
           /\ ToSet(reqQ) = ToSet(reqQ') \cup A \cup H
           /\ ToSet(reqQ') \cap A = {} /\ ToSet(reqQ') \cap H = {} /\ A \cap H = {}
           /\ ce' \in Seq(Requests) /\ ToSet(ce') = ToSet(ce) \cup A /\ Distinct(ce')
           /\ gated' \in Seq(Requests) /\ ToSet(gated') = ToSet(gated) \cup H /\ Distinct(gated')
           /\ bound' = bound \cup A
           /\ matcher' \in [Requests -> {"none", "unbuilt", "building", "ready", "failed"}]
<1>1. TypeOK /\ Seqs /\ Orders /\ Places /\ FreshApart /\ WorkTypes
  BY TypeParts DEF ServingInv
<1>2. /\ reqQ \in Seq(Requests) /\ Distinct(reqQ) /\ ce \in Seq(Requests) /\ Distinct(ce)
      /\ gated \in Seq(Requests) /\ Distinct(gated) /\ Len(reqQ) \in Nat
  BY <1>1, LenProperties DEF Seqs, Orders
<1> DEFINE m == Cardinality(AllCE)
           n == AtMost(IF m >= MaxPending THEN 0 ELSE AtMost(MaxPending - m, 2 * MaxBatch),
                       Len(reqQ))
           new == SubSeq(reqQ, 1, n)
           free1 == {r \in Requests : matcher[r] = "none"}
           bad1 == {r \in Requests : matcher[r] # "none"}
           A == ToSet(new) \cap free1
           H == ToSet(new) \cap bad1
<1>3. n \in Nat /\ n <= Len(reqQ)
  <2>1. m \in Nat
    <3>1. AllCE \in SUBSET Requests
      BY <1>1, SeqSets DEF AllCE
    <3>2. IsFiniteSet(AllCE)
      BY <3>1, ServingAssumption, FS_Subset
    <3>3. QED BY <3>2, FS_CardinalityType
  <2> HIDE DEF m
  <2>2. QED BY <1>2, <2>1, ServingAssumption DEF AtMost
<1>4. /\ reqQ' = SubSeq(reqQ, n + 1, Len(reqQ))
      /\ ce' = ce \o Keep(new, free1) /\ gated' = gated \o Keep(new, bad1)
      /\ matcher' = [r \in Requests |->
                        IF r \in ToSet(new) /\ matcher[r] = "unbuilt" THEN "building"
                        ELSE matcher[r]]
      /\ bound' = bound \cup {r \in ToSet(new) : matcher[r] = "none"}
  BY DEF Drain
<1> HIDE DEF n
<1>5. /\ new \in Seq(Requests) /\ reqQ' \in Seq(Requests) /\ Distinct(new) /\ Distinct(reqQ')
      /\ ToSet(reqQ) = ToSet(new) \cup ToSet(reqQ') /\ ToSet(new) \cap ToSet(reqQ') = {}
  BY <1>2, <1>3, <1>4, SplitFacts
<1>6. Len(reqQ') <= Len(reqQ)
  <2>1. \A i \in (n + 1)..Len(reqQ) : reqQ[i] \in Requests
    BY <1>2, <1>3, ElementOfSeq
  <2>2. Len(reqQ') = IF n + 1 <= Len(reqQ) THEN Len(reqQ) - (n + 1) + 1 ELSE 0
    BY <1>2, <1>3, <1>4, <2>1, SubSeqProperties
  <2>3. QED BY <1>2, <1>3, <2>2
<1> HIDE DEF new, free1, bad1
<1>7. /\ Keep(new, free1) \in Seq(Requests) /\ ToSet(Keep(new, free1)) = A
      /\ Distinct(Keep(new, free1))
      /\ Keep(new, bad1) \in Seq(Requests) /\ ToSet(Keep(new, bad1)) = H
      /\ Distinct(Keep(new, bad1))
  BY <1>5, KeepFacts
<1>8. ToSet(new) \subseteq Requests
  BY <1>1, <1>5, SeqSets
<1>9. ToSet(new) = A \cup H /\ A \cap H = {} /\ A = {r \in ToSet(new) : matcher[r] = "none"}
  BY <1>8 DEF free1, bad1
<1>10. ToSet(ce) \cap A = {} /\ ToSet(gated) \cap H = {}
  BY <1>1, <1>5 DEF FreshApart, Fresh, Places
<1>11. ce' \in Seq(Requests) /\ ToSet(ce') = ToSet(ce) \cup A /\ Distinct(ce')
  BY <1>2, <1>4, <1>7, <1>10, ConcatFacts
<1>12. gated' \in Seq(Requests) /\ ToSet(gated') = ToSet(gated) \cup H /\ Distinct(gated')
  BY <1>2, <1>4, <1>7, <1>10, ConcatFacts
<1>13. matcher' \in [Requests -> {"none", "unbuilt", "building", "ready", "failed"}]
  BY <1>1, <1>4 DEF WorkTypes
<1>14. A \in SUBSET ToSet(reqQ) /\ H \in SUBSET ToSet(reqQ) /\ bound' = bound \cup A
  BY <1>4, <1>5, <1>9
<1> HIDE DEF A, H
<1>15. ToSet(reqQ') \cap A = {} /\ ToSet(reqQ') \cap H = {} /\ ToSet(reqQ) = ToSet(reqQ') \cup A \cup H
  BY <1>5, <1>9
<1>16. QED BY <1>5, <1>6, <1>9, <1>11, <1>12, <1>13, <1>14, <1>15

\* _retrieve_pending_requests.
LEMMA DrainStep == ASSUME ServingInv, Drain PROVE ServingInv'
<1>1. /\ TypeOK /\ ClientTypes /\ Seqs /\ WorkTypes /\ Orders /\ Places /\ FreshApart
  BY TypeParts DEF ServingInv
<1>2. /\ UNCHANGED <<mode, api, got, cancelQ, respQ, tg, loading, landed, orphans, memory,
                     batch, budget, cand, prev>>
      /\ pc = "drain" /\ pc' = "plan"
  BY DEF Drain, building
<1>3. PICK A, H \in SUBSET ToSet(reqQ) :
           /\ reqQ' \in Seq(Requests) /\ Distinct(reqQ') /\ Len(reqQ') <= Len(reqQ)
           /\ ToSet(reqQ) = ToSet(reqQ') \cup A \cup H
           /\ ToSet(reqQ') \cap A = {} /\ ToSet(reqQ') \cap H = {} /\ A \cap H = {}
           /\ ce' \in Seq(Requests) /\ ToSet(ce') = ToSet(ce) \cup A /\ Distinct(ce')
           /\ gated' \in Seq(Requests) /\ ToSet(gated') = ToSet(gated) \cup H /\ Distinct(gated')
           /\ bound' = bound \cup A
           /\ matcher' \in [Requests -> {"none", "unbuilt", "building", "ready", "failed"}]
  BY DrainMoves
<1>4. A \subseteq Fresh /\ Fresh' \subseteq Fresh
  BY <1>2, <1>3 DEF Fresh
<1>5. A \cap Fresh' = {}
  BY <1>1, <1>2, <1>3 DEF Fresh, FreshApart
<1>6. Binds(A)
  BY <1>2, <1>3, <1>4 DEF Binds
<1>7. MemInv'
  BY <1>6, BindMem
<1>8. StreamInv'
  BY <1>2, <1>6, BindStream
<1>9. GenuineInv'
  BY <1>2, <1>6, BindGenuine
<1>10. FreshApart'
  <2>1. ToSet(reqQ)' \cap ToSet(gated)' = {}
    BY <1>1, <1>3 DEF FreshApart
  <2>2. \A x \in ToSet(reqQ)' \cup ToSet(gated)' : api'[x] # "new"
    BY <1>1, <1>2, <1>3 DEF FreshApart
  <2>3. Fresh' \cap (bound' \cup orphans' \cup ToSet(prev)') = {} /\ orphans' \cap bound' = {}
    BY <1>1, <1>2, <1>3, <1>4, <1>5 DEF FreshApart
  <2>4. QED BY <2>1, <2>2, <2>3 DEF FreshApart
<1>11. Places'
  <2>1. A \cap bound = {}
    BY <1>1, <1>4 DEF FreshApart
  <2>2. QED BY <1>1, <1>2, <1>3, <2>1 DEF Places
<1>12. Seqs' /\ Orders'
  BY <1>1, <1>2, <1>3 DEF Seqs, Orders
<1>13. ClientTypes'
  <2>1. Len(reqQ) \in Nat /\ Len(reqQ') \in Nat
    BY <1>1, <1>3, LenProperties DEF Seqs
  <2>2. Len(reqQ') <= QueueSize
    BY <1>1, <1>3, <2>1, ServingAssumption DEF ClientTypes
  <2>3. QED BY <1>1, <1>2, <2>2 DEF ClientTypes
<1>14. WorkTypes'
  <2>1. A \subseteq Requests
    BY <1>1, <1>3, SeqSets
  <2>2. QED BY <1>1, <1>2, <1>3, <2>1 DEF WorkTypes
<1>15. TypeOK'
  BY <1>7, <1>12, <1>13, <1>14, TypePartsNext DEF MemInv
<1>16. QED BY <1>7, <1>8, <1>9, <1>10, <1>11, <1>12, <1>15 DEF ServingInv, MemInv

-----------------------------------------------------------------------------
(* Planning an iteration *)

\* A failed or cancelled request's message has no token.
LEMMA FinalFacts ==
  ASSUME NEW s \in Seq(Requests), NEW kind \in {"failed", "cancelled"}
  PROVE  /\ Final(s, kind) \in Seq(Seq(Responses))
         /\ \A x : \A i \in DOMAIN Final(s, kind) : Tokens(Final(s, kind)[i], x) = {}
<1> DEFINE one(i) == [id |-> s[i], kind |-> kind, idx |-> 0]
           n == Len(s)
<1>1. n \in Nat /\ DOMAIN s = 1..n /\ \A i \in 1..n : s[i] \in Requests
  BY LenProperties, ElementOfSeq
<1>2. ASSUME NEW i \in 1..n PROVE <<one(i)>> \in Seq(Responses)
  <2>1. one(i) \in Responses
    BY <1>1 DEF Responses
  <2> HIDE DEF one
  <2>2. QED BY <2>1, OneFacts
<1>3. Final(s, kind) = [i \in 1..n |-> <<one(i)>>]
  BY <1>1 DEF Final
<1>4. ASSUME NEW i \in 1..n, NEW x PROVE Tokens(<<one(i)>>, x) = {}
  BY DEF Tokens
<1> HIDE DEF n, one
<1>5. QED BY <1>1, <1>2, <1>3, <1>4, IsASeq

\* What Priority decides is one of the three kinds of batch.
LEMMA PlanPc == ASSUME Plan PROVE pc = "plan" /\ pc' \in {"ce", "tg", "exec"}
<1>1. pc = "plan"
  BY DEF Plan
<1>2. PICK p \in {"none", "TG", "CE"} :
        /\ prio' = [type |-> IF p = "none" /\ Override(p) THEN "TG" ELSE p,
                    override |-> Override(p)]
        /\ pc' = CASE prio'.type = "CE" -> "ce"
                   [] prio'.type = "TG" -> "tg"
                   [] prio'.type = "none" -> "exec"
  BY DEF Plan, Priority
<1>3. prio'.type \in {"none", "TG", "CE"}
  BY <1>2
<1>4. QED BY <1>1, <1>2, <1>3

\* construct_batch: landed loads and built requests join the CE queue.
LEMMA PlanMoves ==
  ASSUME ServingInv, Plan
  PROVE  \E A \in SUBSET ToSet(gated), K \in SUBSET ToSet(loading), bad \in Seq(Requests) :
           /\ ce' \in Seq(Requests) /\ ToSet(ce') = ToSet(ce) \cup K \cup A /\ Distinct(ce')
           /\ loading' \in Seq(Requests) /\ ToSet(loading') = ToSet(loading) \ K
           /\ Distinct(loading')
           /\ gated' \in Seq(Requests) /\ ToSet(gated') \subseteq ToSet(gated) \ A
           /\ Distinct(gated')
           /\ bound' = bound \cup A
           /\ matcher' \in [Requests -> {"none", "unbuilt", "building", "ready", "failed"}]
           /\ respQ' = respQ \o Final(bad, "failed")
<1>1. TypeOK /\ Seqs /\ Orders /\ Places /\ FreshApart /\ WorkTypes
  BY TypeParts DEF ServingInv
<1>2. /\ loading \in Seq(Requests) /\ Distinct(loading) /\ ce \in Seq(Requests) /\ Distinct(ce)
      /\ gated \in Seq(Requests) /\ Distinct(gated) /\ landed \subseteq ToSet(loading)
  BY <1>1 DEF Seqs, Orders, WorkTypes
<1> DEFINE built == {r \in Requests : matcher[r] = "ready"}
           broken == {r \in Requests : matcher[r] = "failed"}
           open == {r \in Requests : matcher[r] = "building"}
           rest == Requests \ landed
           back == Keep(loading, landed)
           ok == Keep(gated, built)
           bad == Keep(gated, broken)
<1>3. /\ loading' = Keep(loading, rest) /\ gated' = Keep(gated, open)
      /\ matcher' = [r \in Requests |-> IF r \in ToSet(ok \o bad) THEN "none" ELSE matcher[r]]
      /\ bound' = bound \cup ToSet(ok) /\ ce' = (Reverse(back) \o ce) \o ok
      /\ respQ' = respQ \o Final(bad, "failed")
  BY DEF Plan
<1>4. built \cap open = {}
  OBVIOUS
<1> HIDE DEF built, broken, open
<1>5. /\ back \in Seq(Requests) /\ ToSet(back) = ToSet(loading) \cap landed /\ Distinct(back)
      /\ ok \in Seq(Requests) /\ ToSet(ok) = ToSet(gated) \cap built /\ Distinct(ok)
      /\ bad \in Seq(Requests)
  BY <1>2, KeepFacts
<1>6. /\ loading' \in Seq(Requests) /\ ToSet(loading') = ToSet(loading) \cap rest
      /\ Distinct(loading')
      /\ gated' \in Seq(Requests) /\ ToSet(gated') = ToSet(gated) \cap open /\ Distinct(gated')
  <2> HIDE DEF rest
  <2>1. QED BY <1>2, <1>3, KeepFacts
<1> HIDE DEF back, ok, bad
<1>7. /\ Reverse(back) \in Seq(Requests) /\ ToSet(Reverse(back)) = ToSet(loading) \cap landed
      /\ Distinct(Reverse(back))
  BY <1>5, ReverseFacts
<1> DEFINE rb == Reverse(back)
           c == rb \o ce
<1> HIDE DEF rb
<1>8. /\ rb \in Seq(Requests) /\ ToSet(rb) = ToSet(loading) \cap landed /\ Distinct(rb)
  BY <1>7 DEF rb
<1>9. /\ c \in Seq(Requests) /\ ToSet(c) = ToSet(ce) \cup (ToSet(loading) \cap landed)
      /\ Distinct(c)
  <2>1. ToSet(rb) \cap ToSet(ce) = {}
    BY <1>1, <1>8 DEF Places
  <2>2. QED BY <1>2, <1>8, <2>1, ConcatFacts
<1> HIDE DEF c
<1>10. ce' = c \o ok
  BY <1>3 DEF c, rb
<1>11. ToSet(c) \cap ToSet(ok) = {}
  BY <1>1, <1>5, <1>9 DEF FreshApart, Fresh, Places
<1>12. ce' \in Seq(Requests) /\ ToSet(ce') = ToSet(c) \cup ToSet(ok) /\ Distinct(ce')
  BY <1>5, <1>9, <1>10, <1>11, ConcatFacts
<1>13. matcher' \in [Requests -> {"none", "unbuilt", "building", "ready", "failed"}]
  BY <1>1, <1>3 DEF WorkTypes
<1>14. ToSet(loading) \subseteq Requests
  BY <1>1, SeqSets
<1> DEFINE A == ToSet(ok)
           K == ToSet(loading) \cap landed
<1>15. /\ A \in SUBSET ToSet(gated) /\ K \in SUBSET ToSet(loading)
       /\ ToSet(ce') = ToSet(ce) \cup K \cup A
       /\ ToSet(loading') = ToSet(loading) \ K /\ ToSet(gated') \subseteq ToSet(gated) \ A
       /\ bound' = bound \cup A
  BY <1>3, <1>4, <1>5, <1>6, <1>9, <1>12, <1>14
<1> HIDE DEF A, K
<1>16. QED BY <1>3, <1>5, <1>6, <1>12, <1>13, <1>15

\* construct_batch up to the replica's batch.
LEMMA PlanStep == ASSUME ServingInv, Plan PROVE ServingInv'
<1>1. /\ TypeOK /\ ClientTypes /\ Seqs /\ WorkTypes /\ Orders /\ Places /\ FreshApart
  BY TypeParts DEF ServingInv
<1>2. /\ UNCHANGED <<mode, api, got, reqQ, cancelQ, tg, orphans, memory, prev>>
      /\ batch' = <<>> /\ budget' = mode.tokens /\ cand' = tg /\ landed' = {}
  BY DEF Plan
<1>3. pc = "plan" /\ pc' \in {"ce", "tg", "exec"}
  BY PlanPc
<1>4. batch = <<>>
  BY <1>1, <1>3 DEF Places
<1>5. PICK A \in SUBSET ToSet(gated), K \in SUBSET ToSet(loading), bad \in Seq(Requests) :
           /\ ce' \in Seq(Requests) /\ ToSet(ce') = ToSet(ce) \cup K \cup A /\ Distinct(ce')
           /\ loading' \in Seq(Requests) /\ ToSet(loading') = ToSet(loading) \ K
           /\ Distinct(loading')
           /\ gated' \in Seq(Requests) /\ ToSet(gated') \subseteq ToSet(gated) \ A
           /\ Distinct(gated')
           /\ bound' = bound \cup A
           /\ matcher' \in [Requests -> {"none", "unbuilt", "building", "ready", "failed"}]
           /\ respQ' = respQ \o Final(bad, "failed")
  BY PlanMoves
<1>6. A \subseteq Fresh /\ Fresh' \subseteq Fresh
  BY <1>2, <1>5 DEF Fresh
<1>7. A \cap Fresh' = {}
  BY <1>1, <1>2, <1>5 DEF Fresh, FreshApart
<1>8. Binds(A)
  BY <1>2, <1>4, <1>5, <1>6 DEF Binds
<1>9. MemInv'
  BY <1>8, BindMem
<1>10. respQ' \in Seq(Seq(Responses)) /\ StreamInv'
  <2> DEFINE t == Final(bad, "failed")
             M == Seq(Responses)
  <2>1. t \in Seq(M) /\ \A x : \A i \in DOMAIN t : Tokens(t[i], x) = {}
    BY FinalFacts
  <2>2. respQ' = respQ \o t /\ respQ \in Seq(M)
    BY <1>1, <1>5 DEF ClientTypes
  <2> HIDE DEF t, M
  <2>3. /\ \A x \in Requests : Having(respQ', x) = Having(respQ, x)
        /\ \A x \in Requests : \A g : Exact(respQ, x, g) => Exact(respQ', x, g)
    BY <2>1, <2>2, StreamConcat
  <2>4. respQ' \in Seq(M)
    BY <2>1, <2>2, ConcatProperties
  <2>5. QED BY <1>8, <2>3, <2>4, BindStream DEF M
<1>11. GenuineInv'
  <2>1. loading = <<>> => loading' = <<>>
    BY <1>5, EmptyQueue, NoElements
  <2>2. QED BY <1>3, <1>8, <2>1, BindGenuine
<1>12. FreshApart'
  <2>1. ToSet(reqQ)' \cap ToSet(gated)' = {}
    BY <1>1, <1>2, <1>5 DEF FreshApart
  <2>2. \A x \in ToSet(reqQ)' \cup ToSet(gated)' : api'[x] # "new"
    BY <1>1, <1>2, <1>5 DEF FreshApart
  <2>3. Fresh' \cap (bound' \cup orphans' \cup ToSet(prev)') = {} /\ orphans' \cap bound' = {}
    BY <1>1, <1>2, <1>5, <1>6, <1>7 DEF FreshApart
  <2>4. QED BY <2>1, <2>2, <2>3 DEF FreshApart
<1>13. Places'
  <2>1. A \cap bound = {}
    BY <1>1, <1>6 DEF FreshApart
  <2>2. ToSet(batch)' = {} /\ ToSet(batch) = {}
    BY <1>2, <1>4, EmptyQueue
  <2>3. QED BY <1>1, <1>2, <1>3, <1>5, <2>1, <2>2 DEF Places
<1>14. Seqs' /\ Orders'
  BY <1>1, <1>2, <1>4, <1>5, EmptyQueue DEF Seqs, Orders
<1>15. ClientTypes'
  BY <1>1, <1>2, <1>10 DEF ClientTypes
<1>16. WorkTypes'
  <2>1. A \subseteq Requests
    BY <1>1, <1>5, SeqSets
  <2>2. budget' \in Nat
    BY <1>1, <1>2, ConfigFields DEF ClientTypes
  <2>3. QED BY <1>1, <1>2, <1>3, <1>5, <2>1, <2>2 DEF WorkTypes
<1>17. TypeOK'
  BY <1>9, <1>14, <1>15, <1>16, TypePartsNext DEF MemInv
<1>18. QED BY <1>9, <1>10, <1>11, <1>12, <1>13, <1>14, <1>17 DEF ServingInv, MemInv

-----------------------------------------------------------------------------
(* Cancelling *)

\* What the cancellations of S leave of the queues.
LEMMA CancelMoves ==
  ASSUME ServingInv, DrainCancels
  PROVE  \E gone \in Seq(Requests) : \E S \in SUBSET Requests :
           /\ Release(S)
           /\ ce' \in Seq(Requests) /\ ToSet(ce') = ToSet(ce) \ S /\ Distinct(ce')
           /\ tg' \in Seq(Requests) /\ ToSet(tg') = ToSet(tg) \ S /\ Distinct(tg')
           /\ gated' \in Seq(Requests) /\ ToSet(gated') = ToSet(gated) \ S /\ Distinct(gated')
           /\ loading' \in Seq(Requests) /\ ToSet(loading') = ToSet(loading) \ S
           /\ Distinct(loading')
           /\ orphans' = orphans \cup ((S \cap ToSet(loading)) \ landed)
           /\ landed' = landed \ S /\ bound' = bound \ S
           /\ matcher' \in [Requests -> {"none", "unbuilt", "building", "ready", "failed"}]
           /\ respQ' = respQ \o Final(gone, "cancelled")
<1>1. TypeOK /\ Seqs /\ Orders /\ WorkTypes
  BY TypeParts DEF ServingInv
<1>2. /\ loading \in Seq(Requests) /\ Distinct(loading) /\ ce \in Seq(Requests) /\ Distinct(ce)
      /\ gated \in Seq(Requests) /\ Distinct(gated) /\ tg \in Seq(Requests) /\ Distinct(tg)
      /\ cancelQ \in Seq(Requests)
  BY <1>1 DEF Seqs, Orders
<1> DEFINE gone == Keep(cancelQ, Managed)
           S == ToSet(gone)
           rest == Requests \ S
<1>3. /\ Release(S) /\ ce' = Keep(ce, rest) /\ tg' = Keep(tg, rest)
      /\ gated' = Keep(gated, rest) /\ loading' = Keep(loading, rest)
      /\ matcher' = [r \in Requests |-> IF r \in S THEN "none" ELSE matcher[r]]
      /\ orphans' = orphans \cup ((S \cap ToSet(loading)) \ landed)
      /\ landed' = landed \ S /\ bound' = bound \ S
      /\ respQ' = respQ \o Final(gone, "cancelled")
  BY DEF DrainCancels
<1>4. gone \in Seq(Requests) /\ S = ToSet(cancelQ) \cap Managed
  <2> DEFINE k == Managed
  <2>1. Keep(cancelQ, k) \in Seq(Requests) /\ ToSet(Keep(cancelQ, k)) = ToSet(cancelQ) \cap k
    <3> HIDE DEF k
    <3>1. QED BY <1>2, KeepFacts
  <2>2. QED BY <2>1
<1> HIDE DEF gone
<1>5. S \in SUBSET Requests
  BY <1>1, <1>4, SeqSets
<1> HIDE DEF S
<1>6. matcher' \in [Requests -> {"none", "unbuilt", "building", "ready", "failed"}]
  BY <1>1, <1>3 DEF WorkTypes
<1>7. /\ ce' \in Seq(Requests) /\ ToSet(ce') = ToSet(ce) \cap rest /\ Distinct(ce')
      /\ tg' \in Seq(Requests) /\ ToSet(tg') = ToSet(tg) \cap rest /\ Distinct(tg')
      /\ gated' \in Seq(Requests) /\ ToSet(gated') = ToSet(gated) \cap rest /\ Distinct(gated')
      /\ loading' \in Seq(Requests) /\ ToSet(loading') = ToSet(loading) \cap rest
      /\ Distinct(loading')
  <2> HIDE DEF rest
  <2>1. QED BY <1>2, <1>3, KeepFacts
<1>8. /\ ToSet(ce') = ToSet(ce) \ S /\ ToSet(tg') = ToSet(tg) \ S
      /\ ToSet(gated') = ToSet(gated) \ S /\ ToSet(loading') = ToSet(loading) \ S
  BY <1>1, <1>7, SeqSets
<1>9. QED BY <1>3, <1>4, <1>5, <1>6, <1>7, <1>8

\* run_iteration's last act.
LEMMA CancelStep == ASSUME ServingInv, DrainCancels PROVE ServingInv'
<1>1. /\ TypeOK /\ ClientTypes /\ Seqs /\ WorkTypes /\ Orders /\ Places /\ FreshApart
      /\ BufInv /\ Blocks /\ StreamInv /\ GenuineInv
  BY TypeParts DEF ServingInv
<1>2. /\ UNCHANGED <<mode, api, got, reqQ, buf, batch, budget, cand, prev>>
      /\ cancelQ' = <<>> /\ pc = "cancel" /\ pc' = "drain"
  BY DEF DrainCancels, building
<1>3. batch = <<>> /\ cand = <<>>
  BY <1>1, <1>2 DEF Places
<1>4. PICK gone \in Seq(Requests), S \in SUBSET Requests :
           /\ Release(S)
           /\ ce' \in Seq(Requests) /\ ToSet(ce') = ToSet(ce) \ S /\ Distinct(ce')
           /\ tg' \in Seq(Requests) /\ ToSet(tg') = ToSet(tg) \ S /\ Distinct(tg')
           /\ gated' \in Seq(Requests) /\ ToSet(gated') = ToSet(gated) \ S /\ Distinct(gated')
           /\ loading' \in Seq(Requests) /\ ToSet(loading') = ToSet(loading) \ S
           /\ Distinct(loading')
           /\ orphans' = orphans \cup ((S \cap ToSet(loading)) \ landed)
           /\ landed' = landed \ S /\ bound' = bound \ S
           /\ matcher' \in [Requests -> {"none", "unbuilt", "building", "ready", "failed"}]
           /\ respQ' = respQ \o Final(gone, "cancelled")
  BY CancelMoves
<1>5. Fresh' \subseteq Fresh
  BY <1>2, <1>4 DEF Fresh
<1>6. ToSet(batch) = {} /\ ToSet(batch)' = {} /\ ToSet(cand)' = {}
  BY <1>2, <1>3, EmptyQueue
<1>7. Counted' /\ \A x \in Requests : blk'[x] = IF x \in Freed(S) THEN 0 ELSE blk[x]
  BY <1>1, <1>2, <1>4, ReleaseMem
<1>8. Blocks'
  <2>1. ASSUME NEW x \in Requests, blk'[x] > 0 PROVE x \in bound' \cup orphans'
    <3>1. x \notin Freed(S) /\ blk[x] > 0
      BY <1>7, <2>1
    <3>2. x \in bound \cup orphans
      BY <1>1, <3>1 DEF Blocks
    <3>3. x \in S => x \in ToSet(loading) \ landed
      BY <3>1 DEF Freed
    <3>4. QED BY <1>4, <3>2, <3>3
  <2>2. QED BY <1>7, <2>1 DEF Blocks, Counted
<1>9. BufInv'
  <2>1. ASSUME NEW x \in Requests PROVE BufOK(x)'
    <3>1. BufOK(x)
      BY <1>1 DEF BufInv
    <3>2. QED BY <1>2, <1>4, <1>5, <1>6, <3>1, BufSame
  <2>2. QED BY <1>1, <1>2, <2>1 DEF BufInv
<1>10. Backed'
  BY <1>6 DEF Backed
<1>11. MemTypes'
  BY <1>1, <1>2, <1>7 DEF MemTypes, Counted, TypeOK
<1>12. respQ' \in Seq(Seq(Responses)) /\ StreamInv'
  <2> DEFINE t == Final(gone, "cancelled")
             M == Seq(Responses)
  <2>1. t \in Seq(M) /\ \A x : \A i \in DOMAIN t : Tokens(t[i], x) = {}
    BY FinalFacts
  <2>2. respQ' = respQ \o t /\ respQ \in Seq(M)
    BY <1>1, <1>4 DEF ClientTypes
  <2> HIDE DEF t, M
  <2>3. /\ \A x \in Requests : Having(respQ', x) = Having(respQ, x)
        /\ \A x \in Requests : \A g : Exact(respQ, x, g) => Exact(respQ', x, g)
    BY <2>1, <2>2, StreamConcat
  <2>4. respQ' \in Seq(M)
    BY <2>1, <2>2, ConcatProperties
  <2>5. Fresh \subseteq Requests
    BY <1>1, SeqSets DEF Fresh
  <2>6. bound' \subseteq bound
    BY <1>4
  <2>7. StreamInv'
    BY <1>1, <1>2, <1>5, <2>3, <2>5, <2>6 DEF StreamInv
  <2>8. QED BY <2>4, <2>7 DEF M
<1>13. GenuineInv'
  <2>1. ASSUME ~mode.onload PROVE loading' = <<>> /\ orphans' = {}
    <3>1. loading = <<>> /\ orphans = {}
      BY <1>1, <2>1 DEF GenuineInv
    <3>2. ToSet(loading) = {}
      BY <3>1, EmptyQueue
    <3>3. QED BY <1>4, <3>1, <3>2, NoElements
  <2>2. ASSUME ~mode.onload, ~mode.chunked, NEW x \in ToSet(ce') PROVE blk'[x] = 0
    <3>1. x \in ToSet(ce) /\ x \in Requests
      BY <1>1, <1>4, <2>2, SeqSets
    <3>2. blk[x] = 0
      BY <1>1, <2>2, <3>1 DEF GenuineInv
    <3>3. QED BY <1>7, <3>1, <3>2
  <2>3. QED BY <1>2, <2>1, <2>2 DEF GenuineInv, OnlyGenuineOOM
<1>14. FreshApart'
  <2>1. ToSet(reqQ)' \cap ToSet(gated)' = {}
    BY <1>1, <1>2, <1>4 DEF FreshApart
  <2>2. \A x \in ToSet(reqQ)' \cup ToSet(gated)' : api'[x] # "new"
    BY <1>1, <1>2, <1>4 DEF FreshApart
  <2>3. ToSet(loading) \subseteq bound
    BY <1>1 DEF Places
  <2>4. Fresh' \cap (bound' \cup orphans' \cup ToSet(prev)') = {} /\ orphans' \cap bound' = {}
    BY <1>1, <1>2, <1>4, <1>5, <2>3 DEF FreshApart
  <2>5. QED BY <2>1, <2>2, <2>4 DEF FreshApart
<1>15. Places'
  BY <1>1, <1>2, <1>3, <1>4, <1>6 DEF Places
<1>16. Seqs' /\ Orders'
  BY <1>1, <1>2, <1>4, EmptyQueue DEF Seqs, Orders
<1>17. ClientTypes'
  BY <1>1, <1>2, <1>12 DEF ClientTypes
<1>18. WorkTypes'
  <2>1. landed' \subseteq ToSet(loading)'
    BY <1>1, <1>4 DEF WorkTypes
  <2>2. QED BY <1>1, <1>2, <1>4, <2>1 DEF WorkTypes
<1>19. TypeOK'
  BY <1>11, <1>16, <1>17, <1>18, TypePartsNext
<1>20. QED BY <1>8, <1>9, <1>10, <1>12, <1>13, <1>14, <1>15, <1>16, <1>19 DEF ServingInv

-----------------------------------------------------------------------------
(* Executing a batch *)

\* What the invariant says of a request's buffer.
LEMMA BufFacts ==
  ASSUME ServingInv, NEW r \in Requests
  PROVE  /\ BufOK(r) /\ buf[r] \in Buffers /\ Sound(buf[r], Prompt[r]) /\ Prompt[r] \in Nat \ {0}
         /\ buf[r].len \in Nat /\ buf[r].prompt \in Nat /\ buf[r].pend \in Nat
         /\ buf[r].chunked \in BOOLEAN /\ mode.overlap \in BOOLEAN
         /\ Prompt[r] <= buf[r].prompt /\ buf[r].prompt <= buf[r].len
<1>1. BufOK(r) /\ buf[r] \in Buffers /\ mode \in Configs
  BY DEF ServingInv, BufInv, TypeOK
<1>2. Prompt[r] \in Nat \ {0}
  BY ServingAssumption
<1>3. QED BY <1>1, <1>2, ConfigFields DEF BufOK, Sound, Buffers

\* The buffer of a request once the batch before is synchronized.
LEMMA SyncedFacts ==
  ASSUME ServingInv, NEW r \in Requests
  PROVE  LET s == IF mode.overlap /\ r \in ToSet(prev) THEN RealizeFutureToken(buf[r]) ELSE buf[r]
         IN  /\ s \in Buffers /\ Sound(s, Prompt[r]) /\ s.chunked = buf[r].chunked
             /\ s.len = buf[r].len /\ s.prompt = buf[r].prompt /\ s.pend = 0
<1>1. /\ BufOK(r) /\ buf[r] \in Buffers /\ Sound(buf[r], Prompt[r]) /\ Prompt[r] \in Nat \ {0}
  BY BufFacts
<1>2. buf[r].pend = (IF r \in ToSet(prev) /\ buf[r].len # buf[r].prompt THEN 1 ELSE 0)
  BY <1>1 DEF BufOK
<1>3. ~mode.overlap => r \notin ToSet(prev)
  BY EmptyQueue DEF ServingInv, BufInv
<1>4. CASE r \in ToSet(prev)
  <2>1. buf[r].pend = (IF buf[r].len # buf[r].prompt THEN 1 ELSE 0)
    BY <1>2, <1>4
  <2>2. QED BY <1>1, <1>3, <1>4, <2>1, RealizeSound
<1>5. CASE r \notin ToSet(prev)
  BY <1>1, <1>2, <1>5
<1>6. QED BY <1>4, <1>5

\* A chunk is prefilled and stays without a token; every other member of the
\* batch grows by one, which is a placeholder where batches overlap.
LEMMA ExecutedFacts ==
  ASSUME ServingInv, NEW r \in Requests
  PROVE  LET u == Executed(r)
             t == buf[r]
         IN  /\ u \in Buffers /\ Sound(u, Prompt[r]) /\ ~u.chunked /\ u.prompt = t.prompt
             /\ r \notin ToSet(batch) => u.len = t.len /\ u.pend = 0
             /\ r \in ToSet(batch) /\ t.chunked => u.len = t.len /\ u.len = u.prompt /\ u.pend = 0
             /\ r \in ToSet(batch) /\ ~t.chunked =>
                  u.len = t.len + 1 /\ u.pend = IF mode.overlap THEN 1 ELSE 0
<1> DEFINE t == buf[r]
           s == IF mode.overlap /\ r \in ToSet(prev) THEN RealizeFutureToken(buf[r]) ELSE buf[r]
           p == IF r \in ToSet(batch) THEN UpdateWithFutureToken(s) ELSE s
           u == IF ~mode.overlap /\ r \in ToSet(batch) THEN RealizeFutureToken(p) ELSE p
<1>1. Executed(r) = u
  BY DEF Executed
<1>2. /\ s \in Buffers /\ Sound(s, Prompt[r]) /\ s.chunked = t.chunked
      /\ s.len = t.len /\ s.prompt = t.prompt /\ s.pend = 0
  BY SyncedFacts
<1>3. /\ t.len \in Nat /\ t.prompt \in Nat /\ t.chunked \in BOOLEAN /\ mode.overlap \in BOOLEAN
      /\ Prompt[r] \in Nat \ {0} /\ t.prompt <= t.len
  BY BufFacts
<1>4. /\ t.chunked => t.len = t.prompt /\ r \in ToSet(batch)
  BY BufFacts DEF BufOK, Sound
<1> HIDE DEF s, t
<1>5. CASE r \notin ToSet(batch)
  <2>1. u = s
    BY <1>5
  <2> HIDE DEF u, p
  <2>2. QED BY <1>1, <1>2, <1>3, <1>4, <1>5, <2>1 DEF t
<1>6. CASE r \in ToSet(batch)
  <2>1. /\ p \in Buffers /\ Sound(p, Prompt[r]) /\ ~p.chunked /\ p.prompt = t.prompt
        /\ t.chunked => p.len = t.len /\ p.pend = 0
        /\ ~t.chunked => p.len = t.len + 1 /\ p.pend = 1
    BY <1>2, <1>3, <1>6, UpdateSound
  <2> HIDE DEF p
  <2>2. CASE mode.overlap
    <3>1. u = p
      BY <1>6, <2>2
    <3> HIDE DEF u
    <3>2. QED BY <1>1, <1>3, <1>4, <1>6, <2>1, <2>2, <3>1 DEF t
  <2>3. CASE ~mode.overlap
    <3>1. p.pend = IF p.len # p.prompt THEN 1 ELSE 0
      BY <1>3, <1>4, <2>1
    <3>2. u = RealizeFutureToken(p)
      BY <1>6, <2>3
    <3>3. /\ u \in Buffers /\ Sound(u, Prompt[r]) /\ u.chunked = p.chunked /\ u.prompt = p.prompt
          /\ u.len = p.len /\ u.pend = 0
      BY <1>3, <2>1, <3>1, <3>2, RealizeSound
    <3> HIDE DEF u
    <3>4. QED BY <1>1, <1>3, <1>4, <1>6, <2>1, <2>3, <3>3 DEF t
  <2>4. QED BY <1>3, <2>2, <2>3
<1>7. QED BY <1>5, <1>6

\* Whether a buffer has a generated token.
LEMMA Generated ==
  ASSUME NEW t \in Buffers, t.prompt <= t.len
  PROVE  /\ GeneratedLength(t) = 0 <=> t.len = t.prompt
         /\ GeneratedLength(t) > 0 <=> t.len # t.prompt
<1>1. t.len \in Nat /\ t.prompt \in Nat
  BY DEF Buffers
<1>2. QED BY <1>1 DEF GeneratedLength

\* The answered requests are bound and neither wait for a prefill nor load.
LEMMA AnswerFacts ==
  ASSUME ServingInv
  PROVE  /\ Answered \in Seq(Requests) /\ Distinct(Answered)
         /\ ToSet(Answered) \subseteq ToSet(tg) \cup ToSet(batch)
         /\ ToSet(Answered) \cap (ToSet(ce) \cup ToSet(loading)) = {}
         /\ \A x \in Requests : x \in ToSet(Answered) <=>
              /\ x \in Managed
              /\ IF mode.overlap THEN x \in ToSet(prev) /\ buf[x].len # buf[x].prompt
                                 ELSE x \in ToSet(batch) /\ Executed(x).len # Executed(x).prompt
<1>1. TypeOK /\ Seqs /\ Orders /\ Places /\ FreshApart /\ BufInv
  BY TypeParts DEF ServingInv
<1>2. /\ prev \in Seq(Requests) /\ batch \in Seq(Requests) /\ Distinct(prev) /\ Distinct(batch)
  BY <1>1 DEF Seqs, Orders
<1>3. ToSet(prev) \subseteq Requests /\ ToSet(batch) \subseteq Requests
  BY <1>1, SeqSets
<1>4. mode.overlap \in BOOLEAN
  BY <1>1, ConfigFields DEF TypeOK
<1>5. CASE mode.overlap
  <2> DEFINE K == {r \in Managed : GeneratedLength(buf[r]) > 0}
  <2>1. Answered = Keep(prev, K)
    BY <1>5 DEF Answered
  <2>2. \A x \in Requests : x \in K <=> x \in Managed /\ buf[x].len # buf[x].prompt
    <3>1. ASSUME NEW x \in Requests PROVE GeneratedLength(buf[x]) > 0 <=> buf[x].len # buf[x].prompt
      BY BufFacts, Generated
    <3>2. QED BY <3>1
  <2> HIDE DEF K
  <2>3. /\ Answered \in Seq(Requests) /\ ToSet(Answered) = ToSet(prev) \cap K
        /\ Distinct(Answered)
    BY <1>2, <2>1, KeepFacts
  <2>4. ASSUME NEW x \in ToSet(Answered)
        PROVE  x \in ToSet(tg) \cup ToSet(batch) /\ x \notin ToSet(ce) /\ x \notin ToSet(loading)
    <3>1. x \in Requests /\ x \in ToSet(prev) /\ x \in Managed /\ buf[x].len # buf[x].prompt
      BY <1>3, <2>2, <2>3, <2>4
    <3>2. x \notin ToSet(ce) /\ x \notin ToSet(loading)
      BY <1>1, <3>1 DEF BufInv, BufOK
    <3>3. x \notin ToSet(gated)
      BY <1>1, <3>1 DEF FreshApart, Fresh
    <3>4. QED BY <1>1, <3>1, <3>2, <3>3 DEF Managed, Places
  <2>5. QED BY <1>3, <1>5, <2>2, <2>3, <2>4
<1>6. CASE ~mode.overlap
  <2> DEFINE K == {r \in Managed : GeneratedLength(Executed(r)) > 0}
  <2>1. Answered = Keep(batch, K)
    BY <1>6 DEF Answered
  <2>2. \A x \in Requests : x \in K <=> x \in Managed /\ Executed(x).len # Executed(x).prompt
    <3>1. ASSUME NEW x \in Requests
          PROVE  GeneratedLength(Executed(x)) > 0 <=> Executed(x).len # Executed(x).prompt
      <4>1. Executed(x) \in Buffers /\ Executed(x).prompt <= Executed(x).len
        BY ExecutedFacts DEF Sound
      <4>2. QED BY <4>1, Generated
    <3>2. QED BY <3>1
  <2> HIDE DEF K
  <2>3. /\ Answered \in Seq(Requests) /\ ToSet(Answered) = ToSet(batch) \cap K
        /\ Distinct(Answered)
    BY <1>2, <2>1, KeepFacts
  <2>4. QED BY <1>1, <1>3, <1>6, <2>2, <2>3 DEF Places
<1>7. QED BY <1>4, <1>5, <1>6

\* What the batch adds to the realized tokens of a bound request: one if it
\* is answered, whose number is the next one, and none otherwise.
LEMMA RealizedFacts ==
  ASSUME ServingInv, NEW x \in bound
  PROVE  LET t == buf[x]
             u == Executed(x)
         IN  /\ x \in ToSet(Answered) =>
                  /\ TokenNo(x) = t.len - t.pend - Prompt[x] + 1 /\ TokenNo(x) \in Nat
                  /\ u.len - u.pend = t.len - t.pend + 1
             /\ x \notin ToSet(Answered) => u.len - u.pend = t.len - t.pend
<1> DEFINE t == buf[x]
           u == Executed(x)
<1>1. x \in Requests /\ x \in Managed
  BY DEF ServingInv, TypeOK, Managed
<1>2. /\ t.len \in Nat /\ t.prompt \in Nat /\ t.pend \in Nat /\ t.chunked \in BOOLEAN
      /\ mode.overlap \in BOOLEAN /\ Prompt[x] \in Nat
      /\ Prompt[x] <= t.prompt /\ t.prompt <= t.len
  BY <1>1, BufFacts
<1>3. /\ t.pend = (IF x \in ToSet(prev) /\ t.len # t.prompt THEN 1 ELSE 0)
      /\ t.chunked => x \in ToSet(batch) /\ t.len = t.prompt
  BY <1>1, BufFacts DEF BufOK, Sound
<1>4. /\ u.prompt = t.prompt
      /\ x \notin ToSet(batch) => u.len = t.len /\ u.pend = 0
      /\ x \in ToSet(batch) /\ t.chunked => u.len = t.len /\ u.len = u.prompt /\ u.pend = 0
      /\ x \in ToSet(batch) /\ ~t.chunked =>
           u.len = t.len + 1 /\ u.pend = IF mode.overlap THEN 1 ELSE 0
  BY <1>1, ExecutedFacts
<1>5. x \in ToSet(Answered) <=>
        IF mode.overlap THEN x \in ToSet(prev) /\ t.len # t.prompt
                        ELSE x \in ToSet(batch) /\ u.len # u.prompt
  BY <1>1, AnswerFacts
<1>6. ~mode.overlap => x \notin ToSet(prev)
  BY EmptyQueue DEF ServingInv, BufInv
<1>7. TokenNo(x) = (IF mode.overlap THEN t.len - t.pend + 1 ELSE u.len) - Prompt[x]
  BY DEF TokenNo, RealizedPosition
<1> HIDE DEF t, u
<1> DEFINE a == x \in ToSet(Answered)
           n == TokenNo(x)
           R == /\ a => /\ n = t.len - t.pend - Prompt[x] + 1 /\ n \in Nat
                        /\ u.len - u.pend = t.len - t.pend + 1
                /\ ~a => u.len - u.pend = t.len - t.pend
<1>8. CASE mode.overlap
  <2>1. a <=> x \in ToSet(prev) /\ t.len # t.prompt
    BY <1>5, <1>8
  <2>2. n = (t.len - t.pend + 1) - Prompt[x]
    BY <1>7, <1>8
  <2>3. /\ t.pend = IF a THEN 1 ELSE 0
        /\ x \in ToSet(batch) /\ t.chunked => ~a /\ u.len = t.len /\ u.pend = 0
        /\ x \in ToSet(batch) /\ ~t.chunked => u.len = t.len + 1 /\ u.pend = 1
    BY <1>3, <1>4, <1>8, <2>1
  <2>4. a => t.prompt < t.len
    BY <1>2, <2>1
  <2> HIDE DEF a, n
  <2>5. R
    BY <1>2, <1>4, <2>2, <2>3, <2>4
  <2>6. QED BY <2>5 DEF t, u, a, n
<1>9. CASE ~mode.overlap
  <2>1. a <=> x \in ToSet(batch) /\ u.len # u.prompt
    BY <1>5, <1>9
  <2>2. n = u.len - Prompt[x]
    BY <1>7, <1>9
  <2>3. /\ t.pend = 0 /\ u.pend = 0
        /\ a => u.len = t.len + 1
        /\ ~a => u.len = t.len
    BY <1>2, <1>3, <1>4, <1>6, <1>9, <2>1
  <2> HIDE DEF a, n
  <2>4. R
    BY <1>2, <2>2, <2>3
  <2>5. QED BY <2>4 DEF t, u, a, n
<1>10. QED BY <1>2, <1>8, <1>9

\* advance_requests: X is the last request of the batch if it was a chunk.
LEMMA AdvanceFacts ==
  ASSUME ServingInv
  PROVE  \E X \in SUBSET ToSet(batch) :
           /\ Advanced.tg \in Seq(Requests) /\ Distinct(Advanced.tg)
           /\ ToSet(Advanced.tg) = (ToSet(tg) \cup ToSet(batch)) \ X
           /\ Advanced.ce \in Seq(Requests) /\ Distinct(Advanced.ce)
           /\ ToSet(Advanced.ce) = ToSet(ce) \cup X
           /\ \A x \in X : Executed(x).len = Executed(x).prompt
<1>1. TypeOK /\ Seqs /\ Orders /\ Places
  BY TypeParts DEF ServingInv
<1>2. /\ tg \in Seq(Requests) /\ batch \in Seq(Requests) /\ ce \in Seq(Requests)
      /\ Distinct(tg) /\ Distinct(batch) /\ Distinct(ce)
  BY <1>1 DEF Seqs, Orders
<1> DEFINE K == Managed \ ToSet(tg)
           more == Keep(batch, K)
           tg1 == tg \o more
           l == Last(batch)
           chunk == batch # <<>> /\ l \in Managed /\ GeneratedLength(Executed(l)) = 0
<1>3. ToSet(batch) \cap K = ToSet(batch) \ ToSet(tg)
  BY <1>1 DEF Places, Managed
<1>4. Advanced = IF chunk THEN [tg |-> Keep(tg1, Requests \ {l}), ce |-> <<l>> \o ce]
                          ELSE [tg |-> tg1, ce |-> ce]
  BY DEF Advanced, Without
<1> HIDE DEF K
<1>5. more \in Seq(Requests) /\ ToSet(more) = ToSet(batch) \ ToSet(tg) /\ Distinct(more)
  BY <1>2, <1>3, KeepFacts
<1> HIDE DEF more
<1>6. tg1 \in Seq(Requests) /\ ToSet(tg1) = ToSet(tg) \cup ToSet(batch) /\ Distinct(tg1)
  BY <1>2, <1>5, ConcatFacts
<1> HIDE DEF tg1
<1>7. CASE ~chunk
  <2>1. Advanced.tg = tg1 /\ Advanced.ce = ce
    BY <1>4, <1>7
  <2>2. {} \in SUBSET ToSet(batch) /\ \A x \in {} : Executed(x).len = Executed(x).prompt
    OBVIOUS
  <2>3. QED BY <1>2, <1>6, <2>1, <2>2
<1>8. CASE chunk
  <2> DEFINE rest == Requests \ {l}
  <2>1. l \in Requests /\ l \in ToSet(batch)
    <3>1. batch # <<>>
      BY <1>8
    <3>2. Last(batch) \in Requests /\ ToSet(batch) = ToSet(Front(batch)) \cup {Last(batch)}
      BY <1>2, <3>1, FrontFacts
    <3>3. QED BY <3>2
  <2>2. Advanced.tg = Keep(tg1, rest) /\ Advanced.ce = <<l>> \o ce
    BY <1>4, <1>8
  <2>3. Executed(l).len = Executed(l).prompt
    <3>1. Executed(l) \in Buffers /\ Executed(l).prompt <= Executed(l).len
      BY <2>1, ExecutedFacts DEF Sound
    <3>2. QED BY <1>8, <3>1, Generated
  <2>4. l \notin ToSet(ce)
    BY <1>1, <2>1 DEF Places
  <2> HIDE DEF l
  <2>5. /\ Advanced.ce \in Seq(Requests) /\ ToSet(Advanced.ce) = ToSet(ce) \cup {l}
        /\ Distinct(Advanced.ce)
    BY <1>2, <2>1, <2>2, <2>4, PrependFacts
  <2>6. /\ Advanced.tg \in Seq(Requests) /\ ToSet(Advanced.tg) = ToSet(tg1) \cap rest
        /\ Distinct(Advanced.tg)
    <3> HIDE DEF rest
    <3>1. QED BY <1>6, <2>2, KeepFacts
  <2>7. ToSet(tg) \subseteq Requests /\ ToSet(batch) \subseteq Requests
    BY <1>1, SeqSets
  <2>8. ToSet(Advanced.tg) = (ToSet(tg) \cup ToSet(batch)) \ {l}
    BY <1>6, <2>6, <2>7
  <2>9. {l} \in SUBSET ToSet(batch) /\ \A x \in {l} : Executed(x).len = Executed(x).prompt
    BY <2>1, <2>3
  <2>10. QED BY <2>5, <2>6, <2>8, <2>9
<1>9. QED BY <1>7, <1>8

\* The message that answers the requests of s, some of which are done.
Message(s, done) ==
  [i \in DOMAIN s |->
     [id |-> s[i], idx |-> TokenNo(s[i]), kind |-> IF s[i] \in done THEN "last" ELSE "token"]]

\* It has one token of each of them, with its number.
LEMMA MessageFacts ==
  ASSUME NEW s \in Seq(Requests), Distinct(s), NEW done, \A x \in ToSet(s) : TokenNo(x) \in Nat
  PROVE  LET m == Message(s, done)
         IN  /\ m \in Seq(Responses)
             /\ \A x : x \notin ToSet(s) => Tokens(m, x) = {}
             /\ \A x \in ToSet(s) : \E j \in DOMAIN m :
                  Tokens(m, x) = {j} /\ m[j].idx = TokenNo(x)
<1> DEFINE m == Message(s, done)
           n == Len(s)
           e(i) == [id |-> s[i], idx |-> TokenNo(s[i]),
                    kind |-> IF s[i] \in done THEN "last" ELSE "token"]
<1>1. n \in Nat /\ DOMAIN s = 1..n /\ \A i \in 1..n : s[i] \in Requests /\ s[i] \in ToSet(s)
  BY LenProperties, ElementOfSeq DEF ToSet
<1>2. m = [i \in 1..n |-> e(i)]
  BY <1>1 DEF Message
<1>3. ASSUME NEW i \in 1..n
      PROVE  e(i) \in Responses /\ e(i).id = s[i] /\ e(i).idx = TokenNo(s[i])
             /\ e(i).kind \in {"token", "last"}
  <2>1. s[i] \in Requests /\ TokenNo(s[i]) \in Nat
    BY <1>1
  <2>2. QED BY <2>1 DEF Responses
<1> HIDE DEF m, e, n
<1>4. m \in Seq(Responses) /\ DOMAIN m = 1..n /\ \A i \in 1..n : m[i] = e(i)
  BY <1>1, <1>2, <1>3, IsASeq
<1>5. \A x : Tokens(m, x) = {i \in 1..n : s[i] = x}
  BY <1>3, <1>4 DEF Tokens
<1>6. ASSUME NEW x, x \notin ToSet(s) PROVE Tokens(m, x) = {}
  BY <1>1, <1>5, <1>6
<1>7. ASSUME NEW x \in ToSet(s)
      PROVE  \E j \in DOMAIN m : Tokens(m, x) = {j} /\ m[j].idx = TokenNo(x)
  <2>1. PICK j \in 1..n : s[j] = x
    BY <1>1 DEF ToSet
  <2>2. \A i \in 1..n : s[i] = x => i = j
    BY <1>1, <2>1 DEF Distinct
  <2>3. Tokens(m, x) = {j}
    BY <1>5, <2>1, <2>2
  <2>4. m[j].idx = TokenNo(x)
    BY <1>3, <1>4, <2>1
  <2>5. QED BY <1>4, <2>3, <2>4
<1>8. QED BY <1>4, <1>6, <1>7 DEF m

\* What Schedule does with the queues.
LEMMA ScheduleMoves ==
  ASSUME ServingInv, Schedule
  PROVE  \E X \in SUBSET ToSet(batch) : \E done \in SUBSET ToSet(Answered) :
           /\ \A x \in X : Executed(x).len = Executed(x).prompt
           /\ tg' \in Seq(Requests) /\ Distinct(tg')
           /\ ToSet(tg') = ((ToSet(tg) \cup ToSet(batch)) \ X) \ done
           /\ ce' \in Seq(Requests) /\ Distinct(ce')
           /\ ToSet(ce') = (ToSet(ce) \cup X) \ done
           /\ bound' = bound \ done
           /\ Release(done)
           /\ respQ' = IF Answered = <<>> THEN respQ ELSE Append(respQ, Message(Answered, done))
<1>1. TypeOK /\ Seqs
  BY TypeParts DEF ServingInv
<1> DEFINE done == {r \in ToSet(Answered) : IsDone(r)}
           rest == Requests \ done
<1>2. /\ tg' = Keep(Advanced.tg, rest) /\ ce' = Keep(Advanced.ce, rest)
      /\ bound' = bound \ done /\ Release(done)
      /\ respQ' = IF Answered = <<>> THEN respQ ELSE Append(respQ, Message(Answered, done))
  BY DEF Schedule, Message
<1>3. done \in SUBSET ToSet(Answered)
  OBVIOUS
<1> HIDE DEF done
<1>4. PICK X \in SUBSET ToSet(batch) :
           /\ Advanced.tg \in Seq(Requests) /\ Distinct(Advanced.tg)
           /\ ToSet(Advanced.tg) = (ToSet(tg) \cup ToSet(batch)) \ X
           /\ Advanced.ce \in Seq(Requests) /\ Distinct(Advanced.ce)
           /\ ToSet(Advanced.ce) = ToSet(ce) \cup X
           /\ \A x \in X : Executed(x).len = Executed(x).prompt
  BY AdvanceFacts
<1> DEFINE t == Advanced.tg
           c == Advanced.ce
<1>5. /\ t \in Seq(Requests) /\ Distinct(t) /\ c \in Seq(Requests) /\ Distinct(c)
      /\ tg' = Keep(t, rest) /\ ce' = Keep(c, rest)
  BY <1>2, <1>4
<1> HIDE DEF t, c
<1>6. /\ tg' \in Seq(Requests) /\ ToSet(tg') = ToSet(t) \cap rest /\ Distinct(tg')
      /\ ce' \in Seq(Requests) /\ ToSet(ce') = ToSet(c) \cap rest /\ Distinct(ce')
  <2> HIDE DEF rest
  <2>1. QED BY <1>5, KeepFacts
<1>7. ToSet(tg) \subseteq Requests /\ ToSet(batch) \subseteq Requests /\ ToSet(ce) \subseteq Requests
  BY <1>1, SeqSets
<1>8. /\ ToSet(tg') = ((ToSet(tg) \cup ToSet(batch)) \ X) \ done
      /\ ToSet(ce') = (ToSet(ce) \cup X) \ done
  BY <1>4, <1>6, <1>7 DEF t, c
<1>9. QED BY <1>2, <1>3, <1>4, <1>6, <1>8

\* The buffers after the batch ran.
LEMMA ScheduleBuf ==
  ASSUME ServingInv, Schedule, NEW X \in SUBSET ToSet(batch),
         \A x \in X : Executed(x).len = Executed(x).prompt,
         ToSet(ce)' \subseteq ToSet(ce) \cup X
  PROVE  BufInv' /\ buf' \in [Requests -> Buffers]
<1>1. TypeOK /\ Places /\ FreshApart /\ BufInv
  BY DEF ServingInv
<1>2. /\ UNCHANGED <<mode, api, reqQ, gated, loading>> /\ batch' = <<>>
      /\ prev' = (IF mode.overlap THEN batch ELSE <<>>)
  BY DEF Schedule, held
<1>3. \A x \in Requests : buf'[x] = Executed(x)
  BY DEF Schedule
<1>4. buf' \in [Requests -> Buffers]
  <2>1. buf' = [r \in Requests |-> Executed(r)]
    BY DEF Schedule
  <2>2. QED BY <2>1, ExecutedFacts
<1>5. ASSUME NEW x \in Requests PROVE BufOK(x)'
  <2> DEFINE u == Executed(x)
             t == buf[x]
  <2>1. /\ u \in Buffers /\ Sound(u, Prompt[x]) /\ ~u.chunked /\ u.prompt = t.prompt
        /\ x \notin ToSet(batch) => u.len = t.len /\ u.pend = 0
        /\ x \in ToSet(batch) /\ t.chunked => u.len = t.len /\ u.len = u.prompt /\ u.pend = 0
        /\ x \in ToSet(batch) /\ ~t.chunked =>
             u.len = t.len + 1 /\ u.pend = IF mode.overlap THEN 1 ELSE 0
    BY ExecutedFacts
  <2>2. /\ t.len \in Nat /\ t.prompt \in Nat /\ t.chunked \in BOOLEAN /\ mode.overlap \in BOOLEAN
        /\ t.prompt <= t.len
    BY BufFacts
  <2>3. BufOK(x)
    BY <1>1 DEF BufInv
  <2>4. x \in ToSet(prev)' <=> mode.overlap /\ x \in ToSet(batch)
    BY <1>2, EmptyQueue
  <2>5. buf'[x] = u
    BY <1>3
  <2>6. x \in Fresh' => u = NewBuffer(Prompt[x])
    <3>1. ASSUME x \in Fresh PROVE u = buf[x] /\ buf[x] = NewBuffer(Prompt[x])
      <4>1. x \notin ToSet(batch) /\ x \notin ToSet(prev)
        BY <1>1, <3>1 DEF FreshApart, Places
      <4>2. QED BY <2>3, <3>1, <4>1 DEF Executed, BufOK
    <3>2. Fresh' = Fresh
      BY <1>2, FreshSame
    <3>3. QED BY <3>1, <3>2
  <2>7. x \in ToSet(ce)' \cup ToSet(loading)' => u.len = u.prompt
    <3>1. x \in ToSet(ce) \cup ToSet(loading) => t.len = t.prompt /\ x \notin ToSet(batch)
      BY <1>1, <2>3 DEF BufOK, Places
    <3>2. x \in X => u.len = u.prompt
      OBVIOUS
    <3> HIDE DEF t, u
    <3>3. QED BY <1>2, <2>1, <3>1, <3>2
  <2> HIDE DEF t, u
  <2>8. u.pend = (IF x \in ToSet(prev)' /\ u.len # u.prompt THEN 1 ELSE 0)
    BY <2>1, <2>2, <2>4
  <2>9. QED BY <2>1, <2>5, <2>6, <2>7, <2>8 DEF BufOK
<1>6. ~mode'.overlap => prev' = <<>>
  BY <1>2
<1>7. QED BY <1>4, <1>5, <1>6 DEF BufInv

\* The tokens the batch adds to the streams.
LEMMA ScheduleStream ==
  ASSUME ServingInv, Schedule, NEW done,
         bound' \subseteq bound,
         respQ' = IF Answered = <<>> THEN respQ ELSE Append(respQ, Message(Answered, done))
  PROVE  StreamInv' /\ respQ' \in Seq(Seq(Responses))
<1>1. TypeOK /\ Seqs /\ Places /\ FreshApart /\ StreamInv /\ ClientTypes
  BY TypeParts DEF ServingInv
<1>2. /\ UNCHANGED <<mode, api, got, reqQ, gated>> /\ \A x \in Requests : buf'[x] = Executed(x)
  BY DEF Schedule, held
<1>3. /\ Answered \in Seq(Requests) /\ Distinct(Answered)
      /\ ToSet(Answered) \subseteq ToSet(tg) \cup ToSet(batch)
  BY AnswerFacts
<1>4. ToSet(Answered) \subseteq bound /\ bound \subseteq Requests
  BY <1>1, <1>3 DEF Places, TypeOK
<1> DEFINE M == Seq(Responses)
           m == Message(Answered, done)
<1>5. /\ m \in M
      /\ \A x : x \notin ToSet(Answered) => Tokens(m, x) = {}
      /\ \A x \in ToSet(Answered) : \E j \in DOMAIN m :
                  Tokens(m, x) = {j} /\ m[j].idx = TokenNo(x)
  <2>1. \A x \in ToSet(Answered) : TokenNo(x) \in Nat
    BY <1>4, RealizedFacts
  <2>2. QED BY <1>3, <2>1, MessageFacts
<1>6. respQ \in Seq(M)
  BY <1>1 DEF ClientTypes
<1> HIDE DEF M, m
<1>7. respQ' = IF Answered = <<>> THEN respQ ELSE Append(respQ, m)
  BY DEF m
<1>8. Answered = <<>> => ToSet(Answered) = {}
  BY EmptyQueue
<1>9. ASSUME NEW x, x \notin ToSet(Answered)
      PROVE  /\ Having(respQ', x) = Having(respQ, x)
             /\ \A g : Exact(respQ, x, g) => Exact(respQ', x, g)
  <2>1. CASE Answered = <<>>
    BY <1>7, <2>1
  <2>2. CASE Answered # <<>>
    BY <1>5, <1>6, <1>7, <1>9, <2>2, StreamAppend
  <2>3. QED BY <2>1, <2>2
<1>10. ASSUME NEW x \in ToSet(Answered), NEW g \in Nat, Exact(respQ, x, g),
              g + Cardinality(Having(respQ, x)) + 1 = TokenNo(x)
       PROVE  Exact(respQ', x, g)
  <2>1. respQ' = Append(respQ, m)
    BY <1>7, <1>8, <1>10
  <2>2. PICK j \in DOMAIN m : Tokens(m, x) = {j} /\ m[j].idx = TokenNo(x)
    BY <1>5
  <2>3. Cardinality(Having(respQ, x)) \in Nat
    BY <1>6, HavingFinite
  <2>4. m[j].idx = g + (Cardinality(Having(respQ, x)) + 1)
    BY <1>10, <2>2, <2>3
  <2>5. QED BY <1>5, <1>6, <1>10, <2>1, <2>2, <2>4, StreamAppend
<1>11. ASSUME NEW x \in ToSet(Answered)
       PROVE  Cardinality(Having(respQ', x)) = Cardinality(Having(respQ, x)) + 1
  <2>1. respQ' = Append(respQ, m) /\ Tokens(m, x) # {}
    BY <1>5, <1>7, <1>8
  <2>2. QED BY <1>5, <1>6, <2>1, StreamAppend
<1>12. ASSUME NEW x \in Requests, api[x] = "open"
       PROVE  /\ Exact(respQ', x, got[x])
              /\ x \in bound =>
                   got[x] + Cardinality(Having(respQ', x))
                     = Executed(x).len - Executed(x).pend - Prompt[x]
  <2> DEFINE t == buf[x]
             u == Executed(x)
             h == Cardinality(Having(respQ, x))
             k == Cardinality(Having(respQ', x))
  <2>1. /\ Exact(respQ, x, got[x])
        /\ x \in bound => got[x] + h = t.len - t.pend - Prompt[x]
    BY <1>1, <1>12 DEF StreamInv
  <2>2. /\ got[x] \in Nat /\ h \in Nat /\ t.len \in Nat /\ t.pend \in Nat /\ Prompt[x] \in Nat
    BY <1>1, <1>6, HavingFinite, BufFacts DEF TypeOK
  <2>3. /\ u.len \in Nat /\ u.pend \in Nat
    BY ExecutedFacts DEF Buffers
  <2>4. CASE x \notin ToSet(Answered)
    <3>1. x \in bound => u.len - u.pend = t.len - t.pend
      BY <2>4, RealizedFacts
    <3>2. k = h /\ Exact(respQ', x, got[x])
      BY <1>9, <2>1, <2>4
    <3> HIDE DEF t, u, h, k
    <3>3. x \in bound => got[x] + k = u.len - u.pend - Prompt[x]
      BY <2>1, <2>2, <2>3, <3>1, <3>2
    <3>4. QED BY <3>2, <3>3 DEF u, k
  <2>5. CASE x \in ToSet(Answered)
    <3>1. /\ x \in bound /\ TokenNo(x) = t.len - t.pend - Prompt[x] + 1
          /\ u.len - u.pend = t.len - t.pend + 1
      BY <1>4, <2>5, RealizedFacts
    <3>2. k = h + 1
      BY <1>11, <2>5
    <3>3. Exact(respQ, x, got[x])
      BY <2>1
    <3> HIDE DEF t, u, h, k
    <3>4. got[x] + h + 1 = TokenNo(x) /\ got[x] + k = u.len - u.pend - Prompt[x]
      BY <2>1, <2>2, <2>3, <3>1, <3>2
    <3>5. Exact(respQ', x, got[x])
      BY <1>10, <2>2, <2>5, <3>3, <3>4 DEF h
    <3>6. QED BY <3>4, <3>5 DEF u, k
  <2>6. QED BY <2>4, <2>5
<1>13. ASSUME NEW x \in Fresh' PROVE got'[x] = 0 /\ Having(respQ', x) = {}
  <2>1. x \in Fresh
    BY <1>2, <1>13, FreshSame
  <2>2. x \notin ToSet(Answered)
    BY <1>1, <1>4, <2>1 DEF FreshApart
  <2>3. QED BY <1>1, <1>2, <1>9, <2>1, <2>2 DEF StreamInv
<1>14. StreamInv'
  BY <1>2, <1>12, <1>13 DEF StreamInv
<1>15. respQ' \in Seq(M)
  BY <1>5, <1>6, <1>7, AppendProperties
<1>16. QED BY <1>14, <1>15 DEF M

\* _schedule.
LEMMA ScheduleStep == ASSUME ServingInv, Schedule PROVE ServingInv'
<1>1. /\ TypeOK /\ ClientTypes /\ Seqs /\ WorkTypes /\ Orders /\ Places /\ FreshApart
      /\ BufInv /\ Blocks /\ StreamInv /\ GenuineInv
  BY TypeParts DEF ServingInv
<1>2. /\ UNCHANGED <<mode, api, got, reqQ, cancelQ, gated, matcher, loading, landed, orphans,
                     budget>>
      /\ prev' = (IF mode.overlap THEN batch ELSE <<>>)
      /\ batch' = <<>> /\ cand' = <<>> /\ pc' = "cancel"
  BY DEF Schedule, held
<1>3. PICK X \in SUBSET ToSet(batch), done \in SUBSET ToSet(Answered) :
           /\ \A x \in X : Executed(x).len = Executed(x).prompt
           /\ tg' \in Seq(Requests) /\ Distinct(tg')
           /\ ToSet(tg') = ((ToSet(tg) \cup ToSet(batch)) \ X) \ done
           /\ ce' \in Seq(Requests) /\ Distinct(ce')
           /\ ToSet(ce') = (ToSet(ce) \cup X) \ done
           /\ bound' = bound \ done
           /\ Release(done)
           /\ respQ' = IF Answered = <<>> THEN respQ ELSE Append(respQ, Message(Answered, done))
  BY ScheduleMoves
<1>4. /\ done \subseteq ToSet(tg) \cup ToSet(batch)
      /\ done \cap (ToSet(ce) \cup ToSet(loading)) = {}
  BY <1>3, AnswerFacts
<1>5. ToSet(batch)' = {} /\ ToSet(cand)' = {}
  BY <1>2, EmptyQueue
<1>6. Fresh' = Fresh
  BY <1>2, FreshSame
<1>7. BufInv' /\ buf' \in [Requests -> Buffers]
  BY <1>3, ScheduleBuf
<1>8. StreamInv' /\ respQ' \in Seq(Seq(Responses))
  <2>1. bound' \subseteq bound
    BY <1>3
  <2>2. QED BY <1>3, <2>1, ScheduleStream
<1>9. Counted' /\ \A x \in Requests : blk'[x] = IF x \in Freed(done) THEN 0 ELSE blk[x]
  <2>1. done \in SUBSET Requests
    BY <1>1, <1>4, SeqSets
  <2>2. QED BY <1>1, <1>2, <1>3, <2>1, ReleaseMem
<1>10. Freed(done) = done
  BY <1>4 DEF Freed
<1>11. Blocks'
  <2>1. ASSUME NEW x \in Requests, blk'[x] > 0 PROVE x \in bound' \cup orphans'
    <3>1. x \notin done /\ blk[x] > 0
      BY <1>9, <1>10, <2>1
    <3>2. x \in bound \cup orphans
      BY <1>1, <3>1 DEF Blocks
    <3>3. QED BY <1>2, <1>3, <3>1, <3>2
  <2>2. QED BY <1>9, <2>1 DEF Blocks, Counted
<1>12. Backed'
  BY <1>5 DEF Backed
<1>13. MemTypes'
  BY <1>7, <1>9 DEF MemTypes, Counted
<1>14. GenuineInv'
  <2>1. ASSUME ~mode.onload, ~mode.chunked, NEW x \in ToSet(ce') PROVE blk'[x] = 0
    <3>1. x \notin X
      <4>1. ASSUME x \in X PROVE FALSE
        <5>1. x \in ToSet(batch) /\ x \in Requests
          BY <1>1, <4>1, SeqSets
        <5>2. ~buf[x].chunked
          BY <1>1, <2>1, <5>1 DEF BufInv, BufOK
        <5>3. Executed(x).len = buf[x].len + 1 /\ Executed(x).prompt = buf[x].prompt
          BY <5>1, <5>2, ExecutedFacts
        <5>4. buf[x].len \in Nat /\ buf[x].prompt \in Nat /\ buf[x].prompt <= buf[x].len
          BY <5>1, BufFacts
        <5>5. Executed(x).len = Executed(x).prompt
          BY <1>3, <4>1
        <5>6. QED BY <5>3, <5>4, <5>5
      <4>2. QED BY <4>1
    <3>2. x \in ToSet(ce) /\ x \in Requests
      BY <1>1, <1>3, <2>1, <3>1, SeqSets
    <3>3. blk[x] = 0
      BY <1>1, <2>1, <3>2 DEF GenuineInv
    <3>4. QED BY <1>9, <3>2, <3>3
  <2>2. QED BY <1>1, <1>2, <2>1 DEF GenuineInv, OnlyGenuineOOM
<1>15. FreshApart'
  <2>1. ToSet(reqQ)' \cap ToSet(gated)' = {}
    BY <1>1, <1>2 DEF FreshApart
  <2>2. \A x \in ToSet(reqQ)' \cup ToSet(gated)' : api'[x] # "new"
    BY <1>1, <1>2 DEF FreshApart
  <2>3. ToSet(prev)' \subseteq bound
    BY <1>1, <1>2, EmptyQueue DEF Places
  <2>4. Fresh' \cap (bound' \cup orphans' \cup ToSet(prev)') = {} /\ orphans' \cap bound' = {}
    BY <1>1, <1>2, <1>3, <1>6, <2>3 DEF FreshApart
  <2>5. QED BY <2>1, <2>2, <2>4 DEF FreshApart
<1>16. Places'
  <2>1. /\ ToSet(ce)' \cap ToSet(tg)' = {} /\ ToSet(ce)' \cap ToSet(loading)' = {}
        /\ ToSet(tg)' \cap ToSet(loading)' = {}
    BY <1>1, <1>2, <1>3 DEF Places
  <2>2. bound' = ToSet(ce)' \cup ToSet(tg)' \cup ToSet(loading)' \cup ToSet(batch)'
    BY <1>1, <1>2, <1>3, <1>4, <1>5 DEF Places
  <2>3. QED BY <1>2, <1>5, <2>1, <2>2 DEF Places
<1>17. Seqs' /\ Orders'
  BY <1>1, <1>2, <1>3, EmptyQueue DEF Seqs, Orders
<1>18. ClientTypes'
  BY <1>1, <1>2, <1>8 DEF ClientTypes
<1>19. WorkTypes'
  BY <1>1, <1>2, <1>3 DEF WorkTypes
<1>20. TypeOK'
  BY <1>13, <1>17, <1>18, <1>19, TypePartsNext
<1>21. QED BY <1>7, <1>8, <1>11, <1>12, <1>14, <1>15, <1>16, <1>17, <1>20 DEF ServingInv

-----------------------------------------------------------------------------
(* The theorems *)

\* A new worker satisfies the invariant: every request is fresh.
LEMMA ServingInit == Init => ServingInv
<1> SUFFICES ASSUME Init PROVE ServingInv
  OBVIOUS
<1>1. /\ mode \in Modes /\ api = [r \in Requests |-> "new"] /\ got = [r \in Requests |-> 0]
      /\ reqQ = <<>> /\ cancelQ = <<>> /\ respQ = <<>> /\ pc = "drain"
      /\ ce = <<>> /\ tg = <<>> /\ gated = <<>> /\ loading = <<>>
      /\ matcher = [r \in Requests |-> IF r \in mode.grammar THEN "unbuilt" ELSE "none"]
      /\ landed = {} /\ orphans = {} /\ bound = {}
      /\ buf = [r \in Requests |-> NewBuffer(Prompt[r])] /\ blk = [r \in Requests |-> 0]
      /\ free = mode.pool /\ batch = <<>> /\ budget = 0 /\ cand = <<>> /\ prev = <<>>
  BY DEF Init
<1>2. mode \in Configs /\ mode.pool \in Nat
  BY <1>1, ServingAssumption, ConfigFields
<1>3. ASSUME NEW r \in Requests
      PROVE  /\ buf[r] = NewBuffer(Prompt[r]) /\ buf[r] \in Buffers /\ Sound(buf[r], Prompt[r])
             /\ ~buf[r].chunked /\ buf[r].pend = 0 /\ buf[r].len = buf[r].prompt
  <2>1. buf[r] = NewBuffer(Prompt[r]) /\ Prompt[r] \in Nat \ {0} /\ Prompt[r] <= Prompt[r]
    BY <1>1, ServingAssumption
  <2>2. QED BY <2>1, NewSound
<1>4. ToSet(<<>>) = {} /\ Distinct(<<>>)
  BY EmptyQueue
<1>5. Seqs /\ Orders
  BY <1>1, <1>4 DEF Seqs, Orders
<1>6. ClientTypes
  <2>1. respQ \in Seq(Seq(Responses)) /\ Len(reqQ) = 0
    BY <1>1
  <2>2. QED BY <1>1, <1>2, <2>1, ServingAssumption DEF ClientTypes
<1>7. WorkTypes
  BY <1>1 DEF WorkTypes
<1>8. MemTypes
  <2>1. buf \in [Requests -> Buffers]
    BY <1>1, <1>3
  <2>2. QED BY <1>1, <1>2, <2>1 DEF MemTypes
<1>9. Places
  BY <1>1, <1>4 DEF Places
<1>10. FreshApart
  BY <1>1, <1>4 DEF FreshApart
<1>11. BufInv
  <2>1. ToSet(batch) = {} /\ ToSet(prev) = {} /\ ToSet(ce) = {} /\ ToSet(loading) = {}
    BY <1>1, <1>4
  <2>2. ASSUME NEW r \in Requests PROVE BufOK(r)
    BY <1>3, <2>1 DEF BufOK
  <2>3. QED BY <1>1, <2>2 DEF BufInv
<1>12. Backed
  BY <1>1, <1>4 DEF Backed
<1>13. Blocks
  <2>1. \A r \in Requests : blk[r] = 0
    BY <1>1
  <2>2. HeldBlocks(Requests) = {}
    BY <1>2, <2>1, CellsZero, HeldCells
  <2>3. Cardinality(HeldBlocks(Requests)) = 0
    BY <2>2, FS_EmptySet
  <2>4. QED BY <1>1, <1>2, <2>1, <2>3 DEF Blocks
<1>14. StreamInv
  <2>1. \A r : Having(respQ, r) = {}
    BY <1>1 DEF Having
  <2>2. Fresh \subseteq Requests
    BY <1>5, SeqSets DEF Fresh
  <2>3. QED BY <1>1, <2>1, <2>2 DEF StreamInv
<1>15. GenuineInv
  BY <1>1, <1>4 DEF GenuineInv, OnlyGenuineOOM
<1>16. TypeOK
  BY <1>5, <1>6, <1>7, <1>8, TypeParts
<1>17. QED BY <1>5, <1>9, <1>10, <1>11, <1>12, <1>13, <1>14, <1>15, <1>16 DEF ServingInv

\* A step that changes nothing.
LEMMA ServingStutter == ASSUME ServingInv, UNCHANGED vars PROVE ServingInv'
<1>1. UNCHANGED <<mode, api, got, reqQ, cancelQ, respQ, pc, ce, tg, gated, matcher, loading,
                  landed, orphans, bound, buf, blk, free, batch, budget, cand, prev>>
  BY DEF vars, queues, held, memory, building
<1>2. TypeOK' /\ Orders' /\ Places' /\ FreshApart'
  BY <1>1 DEF ServingInv, TypeOK, Orders, Places, FreshApart, Fresh
<1>3. BufInv' /\ Backed' /\ Blocks'
  BY <1>1 DEF ServingInv, BufInv, BufOK, Backed, Blocks, Fresh, HeldBlocks
<1>4. StreamInv' /\ GenuineInv'
  BY <1>1 DEF ServingInv, StreamInv, GenuineInv, Fresh, OnlyGenuineOOM, Need
<1>5. QED BY <1>2, <1>3, <1>4 DEF ServingInv

\* Every step of the worker, of its clients and of what they wait for keeps
\* the invariant.
LEMMA ServingStep == ServingInv /\ [Next]_vars => ServingInv'
<1> SUFFICES ASSUME ServingInv, [Next]_vars PROVE ServingInv'
  OBVIOUS
<1>1. CASE Drain
  BY <1>1, DrainStep
<1>2. CASE Plan
  BY <1>2, PlanStep
<1>3. CASE Batching
  BY <1>3, BatchingStep
<1>4. CASE NoProgress
  BY <1>4, NoProgressStep
<1>5. CASE Schedule
  BY <1>5, ScheduleStep
<1>6. CASE DrainCancels
  BY <1>6, CancelStep
<1>7. CASE ClientStep
  BY <1>7, SubmitStep, AbandonStep DEF ClientStep
<1>8. CASE Route
  BY <1>8, RouteStep
<1>9. CASE \E r \in Requests : MatcherBuilt(r) \/ LoadLands(r)
  BY <1>9, BuiltStep, LoadStep
<1>10. CASE UNCHANGED vars
  BY <1>10, ServingStutter
<1>11. QED
  <2>1. CASE SchedulerStep
    BY <1>1, <1>2, <1>3, <1>4, <1>5, <1>6, <2>1 DEF SchedulerStep, Batching
  <2>2. QED BY <1>7, <1>8, <1>9, <1>10, <2>1 DEF Next

\* The worker and the API process keep the inductive invariant.
THEOREM ServingInvariant == Spec => []ServingInv
<1>1. Init => ServingInv
  BY ServingInit
<1>2. ServingInv /\ [Next]_vars => ServingInv'
  BY ServingStep
<1>3. QED BY <1>1, <1>2, PTL DEF Spec

\* How often a request is in a queue that has no request twice.
LEMMA CountOne ==
  ASSUME NEW S, NEW s \in Seq(S), Distinct(s), NEW r
  PROVE  Cardinality({i \in DOMAIN s : s[i] = r}) = IF r \in ToSet(s) THEN 1 ELSE 0
<1> DEFINE n == Len(s)
           at == {i \in DOMAIN s : s[i] = r}
<1>1. n \in Nat /\ DOMAIN s = 1..n
  BY LenProperties
<1>2. CASE r \in ToSet(s)
  <2>1. PICK j \in DOMAIN s : s[j] = r
    BY <1>1, <1>2 DEF ToSet
  <2>2. at = {j}
    BY <2>1 DEF Distinct
  <2>3. QED BY <1>2, <2>2, FS_Singleton
<1>3. CASE r \notin ToSet(s)
  <2>1. at = {}
    BY <1>1, <1>3 DEF ToSet
  <2>2. QED BY <1>3, <2>1, FS_EmptySet
<1>4. QED BY <1>2, <1>3

\* Every block is free or is held for a request that the worker knows or whose
\* load is in flight: no interleaving of preemption, cancellation, cordon and
\* completion (release, reset_context, cancel) loses one or frees it twice.
THEOREM NoBlockIsLost == Spec => []NoBlockLost
<1>1. ServingInv => NoBlockLost
  BY DEF ServingInv, NoBlockLost, Blocks
<1>2. QED BY <1>1, ServingInvariant, PTL

\* A bound request is in exactly one queue, or in the batch, and there once;
\* a request that waits for its grammar is not in the batch.
THEOREM EveryRequestInOnePlace == Spec => []OnePlace
<1>1. ServingInv => OnePlace
  <2> SUFFICES ASSUME ServingInv, NEW r \in Requests
               PROVE  LET times(s) == Cardinality({i \in DOMAIN s : s[i] = r})
                          inBatch  == IF r \in ToSet(tg) THEN 0 ELSE times(batch)
                      IN  /\ times(ce) + times(tg) + times(loading) + inBatch
                               = (IF r \in bound THEN 1 ELSE 0)
                          /\ times(gated) + times(batch) <= 1
    BY DEF OnePlace
  <2> DEFINE times(s) == Cardinality({i \in DOMAIN s : s[i] = r})
             is(s) == IF r \in ToSet(s) THEN 1 ELSE 0
  <2>1. Seqs /\ Orders /\ Places /\ FreshApart
    BY TypeParts DEF ServingInv
  <2>2. /\ times(ce) = is(ce) /\ times(tg) = is(tg) /\ times(loading) = is(loading)
        /\ times(batch) = is(batch) /\ times(gated) = is(gated)
    BY <2>1, CountOne DEF Seqs, Orders
  <2> HIDE DEF times
  <2>3. is(ce) + is(tg) + is(loading) + (IF r \in ToSet(tg) THEN 0 ELSE is(batch))
          = (IF r \in bound THEN 1 ELSE 0)
    BY <2>1 DEF Places
  <2>4. is(gated) + is(batch) <= 1
    BY <2>1 DEF Places, FreshApart, Fresh
  <2> HIDE DEF is
  <2>5. QED BY <2>2, <2>3, <2>4 DEF times
<1>2. QED BY <1>1, ServingInvariant, PTL

\* When a batch goes to the pipeline each member has the blocks for what the
\* forward pass writes, whatever was preempted after it was chosen.
THEOREM EveryBatchIsBacked == Spec => []BatchBacked
<1>1. ServingInv => BatchBacked
  BY DEF ServingInv, BatchBacked, Backed
<1>2. QED BY <1>1, ServingInvariant, PTL

\* The client of every open stream gets the tokens of its request in order
\* and each once, with and without overlap, chunks, preemptions and loads.
THEOREM EveryStreamIsExact == Spec => []StreamExact
<1>1. ServingInv => StreamExact
  BY QueuedHaving DEF ServingInv, StreamInv
<1>2. QED BY <1>1, ServingInvariant, PTL

\* Where prompts are not chunked and no connector loads KV, the worker gives
\* up only over a request that alone needs more blocks than the pool has.
THEOREM WithoutChunksOnlyGenuineOOM ==
  Spec => [](~mode.chunked /\ ~mode.onload => OnlyGenuineOOM)
<1>1. ServingInv => (~mode.chunked /\ ~mode.onload => OnlyGenuineOOM)
  BY DEF ServingInv, GenuineInv
<1>2. QED BY <1>1, ServingInvariant, PTL

=============================================================================
