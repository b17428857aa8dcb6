------------------------------- MODULE Lemmas -------------------------------
(***************************************************************************)
(* Facts about numbers, finite sets and queues that the proofs of several  *)
(* components need.                                                        *)
(***************************************************************************)
EXTENDS Integers, Sequences, FiniteSets, SequencesExt, FiniteSetTheorems, SequenceTheorems,
        WellFoundedInduction, TLAPS

-----------------------------------------------------------------------------
(* Numbers and finite sets *)

\* A set of natural numbers that is not empty has a least element.
LEMMA Least ==
  ASSUME NEW T \in SUBSET Nat, T # {} PROVE \E x \in T : \A y \in T : x <= y
<1> DEFINE R == StrictSubsetOrdering(Nat)
           F == FiniteSubsetsOf(Nat)
           U == {0..n : n \in T}
<1>1. IsWellFoundedOn(R, F)
  BY FS_StrictSubsetOrderingWellFounded
<1>2. U \subseteq F
  <2>1. \A n \in T : 0..n \subseteq Nat /\ IsFiniteSet(0..n)
    BY FS_Interval
  <2>2. QED BY <2>1 DEF FiniteSubsetsOf
<1>3. U # {}
  OBVIOUS
<1> HIDE DEF U, R, F
<1>4. PICK a \in U : \A b \in U : ~ (<<b, a>> \in R)
  BY <1>1, <1>2, <1>3, WFMin
<1>5. PICK x \in T : a = 0..x
  BY DEF U
<1>6. ASSUME NEW y \in T, ~(x <= y) PROVE FALSE
  <2>1. 0..y \in U
    BY DEF U
  <2>2. 0..y \subseteq 0..x /\ 0..y # 0..x
    <3>1. x \in 0..x /\ x \notin 0..y
      BY <1>6
    <3>2. QED BY <1>6, <3>1
  <2>3. <<0..y, 0..x>> \in R
    BY <2>2, <1>2, <1>5, <2>1 DEF R, StrictSubsetOrdering, F, FiniteSubsetsOf
  <2>4. QED BY <2>1, <2>3, <1>4, <1>5
<1>7. QED BY <1>6

\* A finite set has a subset of any smaller size.
LEMMA SubsetOfSize ==
  ASSUME NEW S, IsFiniteSet(S), NEW k \in Nat, k <= Cardinality(S) PROVE kSubset(k, S) # {}
<1> DEFINE n == Cardinality(S)
<1>1. n \in Nat /\ ExistsBijection(1..n, S)
  BY FS_CardinalityType
<1>2. PICK f \in Bijection(1..n, S) : TRUE
  BY <1>1 DEF ExistsBijection
<1> HIDE DEF n
<1>3. f \in [1..n -> S] /\ \A a, b \in 1..n : f[a] = f[b] => a = b
  BY <1>2 DEF Bijection, Injection, IsInjective
<1>4. 1..k \subseteq 1..n
  BY <1>1 DEF n
<1> DEFINE T == {f[i] : i \in 1..k}
           g == [i \in 1..k |-> f[i]]
<1>5. T \in SUBSET S
  BY <1>3, <1>4
<1>6. g \in Bijection(1..k, T)
  BY <1>3, <1>4 DEF Bijection, Injection, IsInjective, Surjection
<1>7. IsFiniteSet(1..k) /\ Cardinality(1..k) = k
  BY FS_Interval
<1> HIDE DEF T, g
<1>8. Cardinality(T) = k
  BY <1>6, <1>7, FS_Bijection DEF ExistsBijection
<1>9. QED BY <1>5, <1>8 DEF kSubset

-----------------------------------------------------------------------------
(* Queues *)

\* The elements of a sequence are different.
Distinct(s) == \A i, j \in DOMAIN s : s[i] = s[j] => i = j

\* Putting an element that is not in the queue at its end.
LEMMA AppendFacts ==
  ASSUME NEW S, NEW s \in Seq(S), NEW e \in S
  PROVE  /\ Append(s, e) \in Seq(S)
         /\ ToSet(Append(s, e)) = ToSet(s) \cup {e}
         /\ Distinct(s) /\ e \notin ToSet(s) => Distinct(Append(s, e))
<1> DEFINE n == Len(s)
           t == Append(s, e)
<1>1. /\ t \in Seq(S) /\ n \in Nat /\ DOMAIN s = 1..n /\ DOMAIN t = 1..(n + 1) /\ t[n + 1] = e
      /\ \A i \in 1..n : t[i] = s[i]
  BY AppendProperties
<1> HIDE DEF n, t
<1>2. \A i \in 1..(n + 1) : i \in 1..n \/ i = n + 1
  BY <1>1
<1>3. \A i \in 1..n : i \in 1..(n + 1)
  BY <1>1
<1>4. n + 1 \in 1..(n + 1)
  BY <1>1
<1>5. ToSet(t) = ToSet(s) \cup {e}
  BY <1>1, <1>2, <1>3, <1>4 DEF ToSet
<1>6. ASSUME Distinct(s), e \notin ToSet(s) PROVE Distinct(t)
  <2>1. \A i \in 1..n : t[i] # e
    BY <1>1, <1>6 DEF ToSet
  <2>2. \A i, j \in 1..n : t[i] = t[j] => i = j
    BY <1>1, <1>6 DEF Distinct
  <2>3. QED BY <1>1, <1>2, <2>1, <2>2 DEF Distinct
<1>7. QED BY <1>1, <1>5, <1>6 DEF t

\* Taking the first element of a queue.
LEMMA TailFacts ==
  ASSUME NEW S, NEW s \in Seq(S), s # <<>>
  PROVE  /\ Head(s) \in S /\ Tail(s) \in Seq(S)
         /\ ToSet(s) = ToSet(Tail(s)) \cup {Head(s)}
         /\ Distinct(s) => Distinct(Tail(s)) /\ Head(s) \notin ToSet(Tail(s))
<1> DEFINE n == Len(s)
           t == Tail(s)
<1>1. /\ t \in Seq(S) /\ n \in Nat /\ n >= 1 /\ DOMAIN s = 1..n /\ DOMAIN t = 1..(n - 1)
      /\ Head(s) = s[1] /\ Head(s) \in S /\ \A i \in 1..(n - 1) : t[i] = s[i + 1]
  BY HeadTailProperties
<1> HIDE DEF n, t
<1>2. \A i \in 1..(n - 1) : i + 1 \in 1..n /\ i + 1 # 1
  BY <1>1
<1>3. \A j \in 1..n : j = 1 \/ (j - 1 \in 1..(n - 1) /\ (j - 1) + 1 = j)
  BY <1>1
<1>4. 1 \in 1..n
  BY <1>1
<1>5. \A j \in 1..n : j = 1 \/ \E i \in 1..(n - 1) : t[i] = s[j]
  BY <1>1, <1>3
<1>d. \A i \in 1..(n - 1) : \E j \in 1..n : t[i] = s[j]
  BY <1>1, <1>2
<1>6. ToSet(s) = ToSet(t) \cup {Head(s)}
  <2> DEFINE D == 1..n
             E == 1..(n - 1)
  <2>1. /\ DOMAIN s = D /\ DOMAIN t = E /\ Head(s) = s[1] /\ 1 \in D
        /\ \A j \in D : j = 1 \/ \E i \in E : t[i] = s[j]
        /\ \A i \in E : \E j \in D : t[i] = s[j]
    BY <1>1, <1>4, <1>5, <1>d
  <2> HIDE DEF D, E
  <2>2. QED BY <2>1 DEF ToSet
<1>7. ASSUME Distinct(s) PROVE Distinct(t) /\ Head(s) \notin ToSet(t)
  <2>1. \A i, j \in 1..(n - 1) : t[i] = t[j] => i + 1 = j + 1
    <3>1. SUFFICES ASSUME NEW i \in 1..(n - 1), NEW j \in 1..(n - 1), t[i] = t[j]
                   PROVE  i + 1 = j + 1
      OBVIOUS
    <3>2. i + 1 \in DOMAIN s /\ j + 1 \in DOMAIN s /\ s[i + 1] = s[j + 1]
      BY <1>1, <1>2, <3>1
    <3>3. QED BY <1>7, <3>2 DEF Distinct
  <2>2. \A i, j \in 1..(n - 1) : i + 1 = j + 1 => i = j
    BY <1>1
  <2>3. \A i \in 1..(n - 1) : t[i] # s[1]
    BY <1>1, <1>2, <1>4, <1>7 DEF Distinct
  <2>4. QED BY <1>1, <2>1, <2>2, <2>3 DEF Distinct, ToSet
<1>8. QED BY <1>1, <1>6, <1>7 DEF t

\* The empty queue.
LEMMA EmptyQueue == ToSet(<<>>) = {} /\ Distinct(<<>>)
<1>1. DOMAIN <<>> = {}
  OBVIOUS
<1>2. QED BY <1>1 DEF ToSet, Distinct

\* A queue with no element is empty.
LEMMA NoElements ==
  ASSUME NEW S, NEW s \in Seq(S), ToSet(s) = {} PROVE s = <<>>
<1>1. SUFFICES ASSUME s # <<>> PROVE FALSE
  OBVIOUS
<1>2. ToSet(s) = ToSet(Tail(s)) \cup {Head(s)}
  BY <1>1, TailFacts
<1>3. QED BY <1>2

\* Putting one queue after another.
LEMMA ConcatFacts ==
  ASSUME NEW S, NEW s \in Seq(S), NEW t \in Seq(S)
  PROVE  /\ s \o t \in Seq(S)
         /\ ToSet(s \o t) = ToSet(s) \cup ToSet(t)
         /\ Distinct(s) /\ Distinct(t) /\ ToSet(s) \cap ToSet(t) = {} => Distinct(s \o t)
<1> DEFINE m == Len(s)
           n == Len(t)
           u == s \o t
<1>1. /\ m \in Nat /\ n \in Nat /\ u \in Seq(S) /\ Len(u) = m + n
      /\ \A i \in 1..(m + n) : u[i] = IF i <= m THEN s[i] ELSE t[i - m]
  BY ConcatProperties, LenProperties
<1>2. DOMAIN s = 1..m /\ DOMAIN t = 1..n /\ DOMAIN u = 1..(m + n)
  BY <1>1, LenProperties
<1> HIDE DEF m, n, u
<1>3. \A i \in 1..m : i \in 1..(m + n) /\ u[i] = s[i]
  BY <1>1
<1>4. \A i \in 1..n : m + i \in 1..(m + n) /\ u[m + i] = t[i]
  <2>1. ASSUME NEW i \in 1..n PROVE m + i \in 1..(m + n) /\ ~(m + i <= m) /\ (m + i) - m = i
    BY <1>1
  <2>2. QED BY <1>1, <2>1
<1>5. ASSUME NEW i \in 1..(m + n)
      PROVE  \/ i \in 1..m /\ u[i] = s[i]
             \/ i - m \in 1..n /\ i = (i - m) + m /\ u[i] = t[i - m]
  BY <1>1
<1>6. ToSet(u) = ToSet(s) \cup ToSet(t)
  <2>1. ASSUME NEW x \in ToSet(u) PROVE x \in ToSet(s) \cup ToSet(t)
    <3>1. PICK i \in 1..(m + n) : x = u[i]
      BY <1>2 DEF ToSet
    <3>2. QED BY <1>2, <1>5, <3>1 DEF ToSet
  <2>2. ASSUME NEW x \in ToSet(s) PROVE x \in ToSet(u)
    BY <1>2, <1>3 DEF ToSet
  <2>3. ASSUME NEW x \in ToSet(t) PROVE x \in ToSet(u)
    <3>1. PICK i \in 1..n : x = t[i]
      BY <1>2 DEF ToSet
    <3>2. QED BY <1>2, <1>4, <3>1 DEF ToSet
  <2>4. QED BY <2>1, <2>2, <2>3
<1>7. ASSUME Distinct(s), Distinct(t), ToSet(s) \cap ToSet(t) = {} PROVE Distinct(u)
  <2>1. SUFFICES ASSUME NEW i \in 1..(m + n), NEW j \in 1..(m + n), u[i] = u[j] PROVE i = j
    BY <1>2 DEF Distinct
  <2>2. ASSUME NEW k \in 1..m, NEW l \in 1..n PROVE s[k] # t[l]
    BY <1>2, <1>7 DEF ToSet
  <2>3. CASE i \in 1..m /\ u[i] = s[i] /\ j \in 1..m /\ u[j] = s[j]
    BY <1>2, <1>7, <2>1, <2>3 DEF Distinct
  <2>4. CASE i - m \in 1..n /\ i = (i - m) + m /\ u[i] = t[i - m]
             /\ j - m \in 1..n /\ j = (j - m) + m /\ u[j] = t[j - m]
    <3>1. i - m = j - m
      BY <1>2, <1>7, <2>1, <2>4 DEF Distinct
    <3>2. QED BY <1>1, <3>1
  <2>5. QED BY <1>5, <2>1, <2>2, <2>3, <2>4
<1>8. QED BY <1>1, <1>6, <1>7 DEF u

\* A queue of one.
LEMMA OneFacts ==
  ASSUME NEW S, NEW e \in S
  PROVE  <<e>> \in Seq(S) /\ ToSet(<<e>>) = {e} /\ Distinct(<<e>>)
<1>1. DOMAIN <<e>> = {1} /\ <<e>>[1] = e
  OBVIOUS
<1>2. QED BY <1>1 DEF ToSet, Distinct

\* Putting an element that is not in the queue at its front.
LEMMA PrependFacts ==
  ASSUME NEW S, NEW s \in Seq(S), NEW e \in S
  PROVE  /\ <<e>> \o s \in Seq(S)
         /\ ToSet(<<e>> \o s) = ToSet(s) \cup {e}
         /\ Distinct(s) /\ e \notin ToSet(s) => Distinct(<<e>> \o s)
<1> DEFINE o == <<e>>
<1>1. o \in Seq(S) /\ ToSet(o) = {e} /\ Distinct(o)
  BY OneFacts
<1> HIDE DEF o
<1>2. /\ o \o s \in Seq(S) /\ ToSet(o \o s) = {e} \cup ToSet(s)
      /\ Distinct(s) /\ {e} \cap ToSet(s) = {} => Distinct(o \o s)
  BY <1>1, ConcatFacts
<1>3. QED BY <1>2 DEF o

\* Part of a queue.
LEMMA PartFacts ==
  ASSUME NEW S, NEW s \in Seq(S), NEW m \in Nat \ {0}, NEW n \in Nat, n <= Len(s)
  PROVE  /\ SubSeq(s, m, n) \in Seq(S)
         /\ ToSet(SubSeq(s, m, n)) = {s[i] : i \in m..n}
         /\ Distinct(s) => Distinct(SubSeq(s, m, n))
<1> DEFINE u == SubSeq(s, m, n)
           l == Len(s)
           k == Len(u)
<1>1. l \in Nat /\ DOMAIN s = 1..l /\ \A i \in 1..l : s[i] \in S
  BY LenProperties, ElementOfSeq
<1>2. n <= l
  OBVIOUS
<1> HIDE DEF l
<1>3. \A i \in m..n : i \in 1..l /\ s[i] \in S
  BY <1>1, <1>2
<1>4. u \in Seq(S) /\ k = (IF m <= n THEN n - m + 1 ELSE 0)
      /\ \A i \in 1..(n - m + 1) : u[i] = s[m + i - 1]
  BY <1>3, SubSeqProperties
<1>5. DOMAIN u = 1..k
  BY <1>4, LenProperties
<1> HIDE DEF u, k
<1>6. k \in Nat /\ \A i \in 1..k : m + i - 1 \in m..n /\ u[i] = s[m + i - 1]
  BY <1>4
<1>7. \A j \in m..n : j - m + 1 \in 1..k /\ m + (j - m + 1) - 1 = j
  BY <1>4
<1>a. \A j \in m..n : u[j - m + 1] = s[j]
  BY <1>6, <1>7
<1>8. ToSet(u) = {s[i] : i \in m..n}
  <2>1. ASSUME NEW x \in ToSet(u) PROVE x \in {s[i] : i \in m..n}
    <3>1. PICK i \in 1..k : x = u[i]
      BY <1>5 DEF ToSet
    <3>2. QED BY <1>6, <3>1
  <2>2. ASSUME NEW j \in m..n PROVE s[j] \in ToSet(u)
    BY <1>5, <1>7, <1>a DEF ToSet
  <2>3. QED BY <2>1, <2>2
<1>9. ASSUME Distinct(s) PROVE Distinct(u)
  <2>1. SUFFICES ASSUME NEW i \in 1..k, NEW j \in 1..k, u[i] = u[j] PROVE i = j
    BY <1>5 DEF Distinct
  <2>2. m + i - 1 = m + j - 1
    BY <1>1, <1>3, <1>6, <1>9, <2>1 DEF Distinct
  <2>3. QED BY <1>6, <2>2
<1>10. QED BY <1>4, <1>8, <1>9 DEF u

\* Cutting a queue in two.
LEMMA SplitFacts ==
  ASSUME NEW S, NEW s \in Seq(S), Distinct(s), NEW n \in Nat, n <= Len(s)
  PROVE  LET u == SubSeq(s, 1, n)
             v == SubSeq(s, n + 1, Len(s))
         IN  /\ u \in Seq(S) /\ v \in Seq(S) /\ Distinct(u) /\ Distinct(v)
             /\ ToSet(s) = ToSet(u) \cup ToSet(v) /\ ToSet(u) \cap ToSet(v) = {}
<1> DEFINE u == SubSeq(s, 1, n)
           v == SubSeq(s, n + 1, Len(s))
           l == Len(s)
<1>1. l \in Nat /\ DOMAIN s = 1..l
  BY LenProperties
<1>2. u \in Seq(S) /\ Distinct(u) /\ ToSet(u) = {s[i] : i \in 1..n}
  BY PartFacts
<1>3. v \in Seq(S) /\ Distinct(v) /\ ToSet(v) = {s[i] : i \in (n + 1)..l}
  <2>1. n + 1 \in Nat \ {0}
    OBVIOUS
  <2> DEFINE k == n + 1
  <2> HIDE DEF k
  <2>2. l <= Len(s)
    BY <1>1 DEF l
  <2>3. SubSeq(s, k, l) \in Seq(S) /\ Distinct(SubSeq(s, k, l)) /\ ToSet(SubSeq(s, k, l)) = {s[i] : i \in k..l}
    <3>1. k \in Nat \ {0}
      BY DEF k
    <3> HIDE DEF l
    <3>2. QED BY <1>1, <2>2, <3>1, PartFacts
  <2>4. QED BY <2>3 DEF k
<1>4. n <= l
  OBVIOUS
<1> HIDE DEF u, v, l
<1>5. \A i \in 1..l : i \in 1..n \/ i \in (n + 1)..l
  BY <1>1
<1>6. \A i \in 1..n : i \in 1..l
  BY <1>1, <1>4
<1>7. \A i \in (n + 1)..l : i \in 1..l
  BY <1>1
<1>8. \A i \in 1..n : \A j \in (n + 1)..l : i # j
  BY <1>1
<1>9. ToSet(s) = ToSet(u) \cup ToSet(v)
  BY <1>1, <1>2, <1>3, <1>5, <1>6, <1>7 DEF ToSet
<1>10. ToSet(u) \cap ToSet(v) = {}
  BY <1>1, <1>2, <1>3, <1>6, <1>7, <1>8 DEF Distinct
<1>11. QED BY <1>2, <1>3, <1>9, <1>10 DEF u, v, l

\* Taking the last element of a queue.
LEMMA FrontFacts ==
  ASSUME NEW S, NEW s \in Seq(S), s # <<>>
  PROVE  /\ Last(s) \in S /\ Front(s) \in Seq(S)
         /\ ToSet(s) = ToSet(Front(s)) \cup {Last(s)}
         /\ Distinct(s) => Distinct(Front(s)) /\ Last(s) \notin ToSet(Front(s))
<1> DEFINE l == Len(s)
<1>1. l \in Nat /\ l # 0 /\ DOMAIN s = 1..l /\ \A i \in 1..l : s[i] \in S
  BY LenProperties, EmptySeq, ElementOfSeq
<1>2. /\ Front(s) \in Seq(S) /\ ToSet(Front(s)) = {s[i] : i \in 1..(l - 1)}
      /\ Distinct(s) => Distinct(Front(s))
  <2>1. l - 1 \in Nat /\ l - 1 <= Len(s)
    BY <1>1
  <2> DEFINE k == l - 1
  <2>2. k \in Nat /\ k <= Len(s)
    BY <2>1
  <2>3. Front(s) = SubSeq(s, 1, k)
    BY DEF Front
  <2> HIDE DEF k
  <2>4. /\ SubSeq(s, 1, k) \in Seq(S) /\ ToSet(SubSeq(s, 1, k)) = {s[i] : i \in 1..k}
        /\ Distinct(s) => Distinct(SubSeq(s, 1, k))
    BY <2>2, PartFacts
  <2>5. QED BY <2>3, <2>4 DEF k
<1>3. Last(s) = s[l]
  BY DEF Last
<1> HIDE DEF l
<1>4. l \in 1..l
  BY <1>1
<1>5. \A i \in 1..l : i = l \/ i \in 1..(l - 1)
  BY <1>1
<1>6. \A i \in 1..(l - 1) : i \in 1..l /\ i # l
  BY <1>1
<1>7. ToSet(s) = ToSet(Front(s)) \cup {Last(s)}
  BY <1>1, <1>2, <1>3, <1>4, <1>5, <1>6 DEF ToSet
<1>8. ASSUME Distinct(s) PROVE Last(s) \notin ToSet(Front(s))
  BY <1>1, <1>2, <1>3, <1>4, <1>6, <1>8 DEF Distinct
<1>9. QED BY <1>1, <1>2, <1>3, <1>4, <1>7, <1>8

\* A queue in the opposite order.
LEMMA ReverseFacts ==
  ASSUME NEW S, NEW s \in Seq(S)
  PROVE  /\ Reverse(s) \in Seq(S) /\ ToSet(Reverse(s)) = ToSet(s)
         /\ Distinct(s) => Distinct(Reverse(s))
<1> DEFINE l == Len(s)
           u == Reverse(s)
<1>1. l \in Nat /\ DOMAIN s = 1..l /\ \A i \in 1..l : s[i] \in S
  BY LenProperties, ElementOfSeq
<1>2. u = [i \in 1..l |-> s[(l - i) + 1]]
  BY DEF Reverse
<1> HIDE DEF u, l
<1>3. \A i \in 1..l : (l - i) + 1 \in 1..l /\ (l - ((l - i) + 1)) + 1 = i
  BY <1>1
<1>4. DOMAIN u = 1..l /\ \A i \in 1..l : u[i] = s[(l - i) + 1]
  BY <1>2
<1>5. u \in [1..l -> S]
  BY <1>1, <1>2, <1>3
<1>6. u \in Seq(S)
  BY <1>1, <1>5
<1>7. ToSet(u) = ToSet(s)
  <2>1. ASSUME NEW i \in 1..l PROVE u[i] \in ToSet(s)
    BY <1>1, <1>3, <1>4 DEF ToSet
  <2>2. ASSUME NEW i \in 1..l PROVE s[i] \in ToSet(u)
    <3>1. u[(l - i) + 1] = s[i]
      BY <1>3, <1>4
    <3>2. QED BY <1>3, <1>4, <3>1 DEF ToSet
  <2>3. QED BY <1>1, <1>4, <2>1, <2>2 DEF ToSet
<1>8. ASSUME Distinct(s) PROVE Distinct(u)
  <2>1. SUFFICES ASSUME NEW i \in 1..l, NEW j \in 1..l, u[i] = u[j] PROVE i = j
    BY <1>4 DEF Distinct
  <2>2. (l - i) + 1 = (l - j) + 1
    BY <1>1, <1>3, <1>4, <1>8, <2>1 DEF Distinct
  <2>3. QED BY <1>1, <2>2
<1>9. QED BY <1>6, <1>7, <1>8 DEF u

=============================================================================
