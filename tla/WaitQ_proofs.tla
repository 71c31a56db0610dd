---------------------------- MODULE WaitQ_proofs -----------------------------
(***************************************************************************)
(* Facts about wait queues and waiter counts that the proofs about the     *)
(* channels share.                                                         *)
(***************************************************************************)
EXTENDS WaitQ, FiniteSets, FiniteSetTheorems, SequenceTheorems, WellFoundedInduction, NaturalsInduction, TLAPS

------------------------------------------------------------------------------
(* Wait queues.                                                            *)

\* waitq_push: the queue's elements are the old ones and the new one.
LEMMA PushFacts ==
    ASSUME NEW S, NEW q \in Seq(S), NEW t \in S
    PROVE  /\ Append(q, t) \in Seq(S)
           /\ Append(q, t) # << >>
           /\ Elems(Append(q, t)) = Elems(q) \cup {t}
           /\ Distinct(q) /\ t \notin Elems(q) => Distinct(Append(q, t))
<1> DEFINE a == Append(q, t)
<1>1. /\ a \in Seq(S) /\ Len(a) = Len(q) + 1 /\ a[Len(q) + 1] = t
      /\ \A i \in 1..Len(q) : a[i] = q[i]
  BY AppendProperties
<1>2. DOMAIN a = 1..(Len(q) + 1) /\ DOMAIN q = 1..Len(q) /\ Len(q) \in Nat
  BY <1>1, LenProperties
<1> HIDE DEF a
<1>3. a # << >>
  BY <1>1, <1>2, EmptySeq
<1>4. Elems(a) = Elems(q) \cup {t}
  <2>1. \A i \in 1..(Len(q) + 1) : a[i] \in Elems(q) \cup {t}
    BY <1>1, <1>2 DEF Elems
  <2>2. \A i \in 1..Len(q) : q[i] \in Elems(a)
    BY <1>1, <1>2 DEF Elems
  <2>3. t \in Elems(a)
    BY <1>1, <1>2 DEF Elems
  <2> QED BY <1>2, <2>1, <2>2, <2>3 DEF Elems
<1>5. ASSUME Distinct(q), t \notin Elems(q) PROVE Distinct(a)
  <2>1. \A i \in 1..Len(q) : q[i] # t
    BY <1>2, <1>5 DEF Elems
  <2> QED BY <1>1, <1>2, <1>5, <2>1 DEF Distinct
<1> QED BY <1>1, <1>3, <1>4, <1>5 DEF a

\* waitq_pop: the head leaves, and in a queue of distinct waiters for good.
LEMMA PopFacts ==
    ASSUME NEW S, NEW q \in Seq(S), q # << >>
    PROVE  /\ Tail(q) \in Seq(S)
           /\ Head(q) \in S /\ Head(q) \in Elems(q)
           /\ Elems(Tail(q)) \subseteq Elems(q)
           /\ Elems(q) = Elems(Tail(q)) \cup {Head(q)}
           /\ Distinct(q) => Distinct(Tail(q)) /\ Head(q) \notin Elems(Tail(q))
<1> DEFINE b == Tail(q)
           n == Len(q) - 1
<1>1. /\ b \in Seq(S) /\ Len(b) = n
      /\ \A i \in 1..Len(b) : b[i] = q[i + 1]
      /\ Head(q) \in S
  BY HeadTailProperties
<1>2. DOMAIN b = 1..n /\ DOMAIN q = 1..(n + 1) /\ n \in Nat /\ Head(q) = q[1]
  <2>1. Len(q) \in Nat /\ Len(q) # 0
    BY EmptySeq, LenProperties
  <2> QED BY <1>1, <2>1, LenProperties
<1> HIDE DEF b, n
<1>3. Head(q) \in Elems(q)
  BY <1>2 DEF Elems
<1>4. Elems(b) \subseteq Elems(q)
  BY <1>1, <1>2 DEF Elems
<1>5. \A i \in 1..(n + 1) : i = 1 \/ (i - 1 \in 1..n /\ q[i] = b[i - 1])
  BY <1>1, <1>2
<1>6. Elems(q) \subseteq Elems(b) \cup {Head(q)}
  BY <1>2, <1>5 DEF Elems
<1>7. ASSUME Distinct(q) PROVE Distinct(b) /\ Head(q) \notin Elems(b)
  <2>1. Distinct(b)
    <3> SUFFICES ASSUME NEW i \in 1..n, NEW j \in 1..n, b[i] = b[j] PROVE i = j
      BY <1>2 DEF Distinct
    <3>1. q[i + 1] = q[j + 1] /\ i + 1 \in DOMAIN q /\ j + 1 \in DOMAIN q
      BY <1>1, <1>2
    <3>2. i + 1 = j + 1
      BY <1>7, <3>1 DEF Distinct
    <3> QED BY <3>2
  <2>2. ASSUME NEW i \in 1..n, b[i] = q[1] PROVE FALSE
    <3>1. q[i + 1] = q[1] /\ i + 1 \in DOMAIN q /\ 1 \in DOMAIN q
      BY <1>1, <1>2, <2>2
    <3>2. i + 1 = 1
      BY <1>7, <3>1 DEF Distinct
    <3> QED BY <3>2
  <2> QED BY <1>2, <2>1, <2>2 DEF Elems
<1> QED BY <1>1, <1>3, <1>4, <1>6, <1>7 DEF b

\* A nonempty set of naturals has a least element.
LEMMA LeastElement ==
    ASSUME NEW A \in SUBSET Nat, A # {}
    PROVE  \E k \in A : \A j \in A : k <= j
<1>1. PICK x \in A : \A y \in A : <<y, x>> \notin OpToRel(<, Nat)
  BY WFMin, NatLessThanWellFounded
<1>2. \A y \in A : ~(y < x)
  BY <1>1 DEF OpToRel
<1> QED BY <1>2

\* waitq_remove brings nothing new into the queue and touches no other waiter.
LEMMA RemoveFacts ==
    ASSUME NEW S, NEW q \in Seq(S), NEW t
    PROVE  /\ Without(q, t) \in Seq(S)
           /\ Elems(Without(q, t)) \subseteq Elems(q)
           /\ \A u \in Elems(q) : u # t => u \in Elems(Without(q, t))
           /\ q = << >> => Without(q, t) = << >>
           /\ Distinct(q) => Distinct(Without(q, t)) /\ t \notin Elems(Without(q, t))
<1> DEFINE at == {i \in DOMAIN q : q[i] = t}
           k == CHOOSE k \in at : \A j \in at : k <= j
           f == SubSeq(q, 1, k - 1)
           g == SubSeq(q, k + 1, Len(q))
<1>0. DOMAIN q = 1..Len(q) /\ Len(q) \in Nat
  BY LenProperties
<1>1. CASE at = {}
  <2>1. Without(q, t) = q
    BY <1>1 DEF Without
  <2>2. t \notin Elems(q)
    BY <1>1 DEF Elems
  <2> QED BY <2>1, <2>2
<1>2. CASE at # {}
  <2>0. Without(q, t) = f \o g
    BY <1>2 DEF Without
  <2>1. k \in at
    <3>1. at \in SUBSET Nat
      BY <1>0
    <3>2. \E i \in at : \A j \in at : i <= j
      BY <1>2, <3>1, LeastElement
    <3> QED BY <3>2
  <2> HIDE DEF k
  <2>2. k \in 1..Len(q) /\ k \in Int /\ Len(q) \in Int /\ q[k] = t
    BY <1>0, <2>1
  <2> HIDE DEF at
  <2>3. /\ f \in Seq(S) /\ Len(f) = k - 1
        /\ \A i \in 1..(k - 1) : f[i] = q[i]
    <3>1. \A i \in 1..(k - 1) : q[i] \in S
      BY <1>0, <2>2, ElementOfSeq
    <3>2. /\ f \in Seq(S) /\ Len(f) = IF 1 <= k - 1 THEN (k - 1) - 1 + 1 ELSE 0
          /\ \A i \in 1..((k - 1) - 1 + 1) : f[i] = q[1 + i - 1]
      BY <2>2, <3>1, SubSeqProperties
    <3> QED BY <2>2, <3>2
  <2>4. /\ g \in Seq(S) /\ Len(g) = Len(q) - k
        /\ \A i \in 1..(Len(q) - k) : g[i] = q[k + i]
    <3>1. \A i \in (k + 1)..Len(q) : q[i] \in S
      BY <1>0, <2>2, ElementOfSeq
    <3>2. k + 1 \in Int
      BY <2>2
    <3>3. /\ g \in Seq(S) /\ Len(g) = IF k + 1 <= Len(q) THEN Len(q) - (k + 1) + 1 ELSE 0
          /\ \A i \in 1..(Len(q) - (k + 1) + 1) : g[i] = q[(k + 1) + i - 1]
      BY <2>2, <3>1, <3>2, SubSeqProperties
    <3> HIDE DEF g
    <3>4. Len(g) = Len(q) - k
      BY <2>2, <3>3
    <3>5. \A i \in 1..(Len(q) - k) : g[i] = q[k + i]
      <4> TAKE i \in 1..(Len(q) - k)
      <4>1. i \in 1..(Len(q) - (k + 1) + 1) /\ (k + 1) + i - 1 = k + i
        BY <2>2
      <4> QED BY <3>3, <4>1
    <3> QED BY <3>3, <3>4, <3>5
  <2> HIDE DEF f, g
  <2>5. /\ f \o g \in Seq(S) /\ Len(f \o g) = Len(q) - 1
        /\ \A i \in 1..(Len(q) - 1) :
              (f \o g)[i] = IF i <= k - 1 THEN f[i] ELSE g[i - (k - 1)]
    <3>1. /\ f \o g \in Seq(S) /\ Len(f \o g) = Len(f) + Len(g)
          /\ \A i \in 1..(Len(f) + Len(g)) :
                (f \o g)[i] = IF i <= Len(f) THEN f[i] ELSE g[i - Len(f)]
      BY <2>3, <2>4, ConcatProperties
    <3>2. Len(f) + Len(g) = Len(q) - 1
      BY <2>2, <2>3, <2>4
    <3> QED BY <2>3, <3>1, <3>2
  <2>6. DOMAIN (f \o g) = 1..(Len(q) - 1)
    BY <2>5, LenProperties
  <2>7. \A i \in 1..(Len(q) - 1) : (f \o g)[i] = IF i <= k - 1 THEN q[i] ELSE q[i + 1]
    <3> TAKE i \in 1..(Len(q) - 1)
    <3>1. CASE i <= k - 1
      <4>1. i \in 1..(k - 1)
        BY <2>2, <3>1
      <4> QED BY <2>3, <2>5, <3>1, <4>1
    <3>2. CASE ~(i <= k - 1)
      <4>1. i - (k - 1) \in 1..(Len(q) - k) /\ k + (i - (k - 1)) = i + 1
        BY <2>2, <3>2
      <4> DEFINE j == i - (k - 1)
      <4>2. (f \o g)[i] = g[j]
        BY <2>5, <3>2
      <4>3. g[j] = q[k + j]
        BY <2>4, <4>1
      <4> QED BY <3>2, <4>1, <4>2, <4>3
    <3> QED BY <3>1, <3>2
  <2>8. \A i \in 1..(Len(q) - 1) : (f \o g)[i] \in Elems(q)
    <3> TAKE i \in 1..(Len(q) - 1)
    <3>1. i \in DOMAIN q /\ i + 1 \in DOMAIN q
      BY <1>0
    <3> QED BY <2>7, <3>1 DEF Elems
  <2>9. ASSUME NEW u \in Elems(q), u # t PROVE u \in Elems(f \o g)
    <3>1. PICK i \in 1..Len(q) : q[i] = u
      BY <1>0 DEF Elems
    <3>2. i # k
      BY <2>2, <2>9, <3>1
    <3>3. CASE i < k
      <4>1. i \in 1..(Len(q) - 1) /\ (f \o g)[i] = u
        <5>1. i \in 1..(Len(q) - 1) /\ i <= k - 1
          BY <1>0, <2>2, <3>3
        <5> QED BY <2>7, <3>1, <5>1
      <4> QED BY <2>6, <4>1 DEF Elems
    <3>4. CASE i > k
      <4>1. i - 1 \in 1..(Len(q) - 1) /\ (f \o g)[i - 1] = u
        <5>1. i - 1 \in 1..(Len(q) - 1) /\ ~(i - 1 <= k - 1) /\ (i - 1) + 1 = i
          BY <1>0, <2>2, <3>4
        <5> QED BY <2>7, <3>1, <5>1
      <4> QED BY <2>6, <4>1 DEF Elems
    <3> QED BY <2>2, <3>2, <3>3, <3>4
  <2>10. q # << >>
    BY <1>0, <2>2, EmptySeq
  <2>11. ASSUME Distinct(q) PROVE Distinct(f \o g) /\ t \notin Elems(f \o g)
    <3> DEFINE at2(i) == IF i <= k - 1 THEN i ELSE i + 1
    <3>1. \A i \in 1..(Len(q) - 1) : at2(i) \in DOMAIN q /\ (f \o g)[i] = q[at2(i)] /\ at2(i) # k
      <4> TAKE i \in 1..(Len(q) - 1)
      <4>1. at2(i) \in DOMAIN q /\ at2(i) # k
        BY <1>0, <2>2
      <4>2. (f \o g)[i] = q[at2(i)]
        BY <2>7
      <4> QED BY <4>1, <4>2
    <3>2. \A i, j \in 1..(Len(q) - 1) : at2(i) = at2(j) => i = j
      BY <2>2
    <3> HIDE DEF at2
    <3>3. Distinct(f \o g)
      BY <2>6, <2>11, <3>1, <3>2 DEF Distinct
    <3>4. \A i \in 1..(Len(q) - 1) : (f \o g)[i] # t
      BY <1>0, <2>2, <2>11, <3>1 DEF Distinct
    <3> QED BY <2>6, <3>3, <3>4 DEF Elems
  <2>12. Elems(f \o g) \subseteq Elems(q)
    BY <2>6, <2>8 DEF Elems
  <2> QED BY <2>0, <2>5, <2>9, <2>10, <2>11, <2>12
<1> QED BY <1>1, <1>2

\* The elements of the two queues chan_close walks.
LEMMA ConcatFacts ==
    ASSUME NEW S, NEW q \in Seq(S), NEW p \in Seq(S)
    PROVE  Elems(q \o p) = Elems(q) \cup Elems(p)
<1>1. /\ q \o p \in Seq(S) /\ Len(q \o p) = Len(q) + Len(p)
      /\ \A i \in 1..(Len(q) + Len(p)) :
            (q \o p)[i] = IF i <= Len(q) THEN q[i] ELSE p[i - Len(q)]
  BY ConcatProperties
<1>2. /\ DOMAIN (q \o p) = 1..(Len(q) + Len(p))
      /\ DOMAIN q = 1..Len(q) /\ DOMAIN p = 1..Len(p) /\ Len(q) \in Nat /\ Len(p) \in Nat
  BY <1>1, LenProperties
<1>3. \A i \in 1..(Len(q) + Len(p)) : (q \o p)[i] \in Elems(q) \cup Elems(p)
  BY <1>1, <1>2 DEF Elems
<1>4. \A i \in 1..Len(q) : q[i] \in Elems(q \o p)
  BY <1>1, <1>2 DEF Elems
<1>5. ASSUME NEW i \in 1..Len(p) PROVE p[i] \in Elems(q \o p)
  <2>1. i + Len(q) \in DOMAIN (q \o p) /\ (q \o p)[i + Len(q)] = p[i]
    BY <1>1, <1>2
  <2> QED BY <2>1 DEF Elems
<1> QED BY <1>2, <1>3, <1>4, <1>5 DEF Elems

\* The empty queue.
LEMMA EmptyFacts == Elems(<< >>) = {} /\ Distinct(<< >>)
BY DEF Elems, Distinct

\* The members of a queue of threads of a kind are of that kind.
LEMMA ElemsIn ==
    ASSUME NEW S, NEW q \in Seq(S)
    PROVE  Elems(q) \subseteq S /\ (q = << >> <=> Elems(q) = {})
<1>1. DOMAIN q = 1..Len(q) /\ Len(q) \in Nat /\ \A i \in 1..Len(q) : q[i] \in S
  BY LenProperties, ElementOfSeq
<1>2. ASSUME Elems(q) = {} PROVE q = << >>
  <2>1. Len(q) = 0
    <3>1. 1 \notin DOMAIN q
      BY <1>2 DEF Elems
    <3> QED BY <1>1, <3>1
  <2> QED BY <2>1, EmptySeq
<1> QED BY <1>1, <1>2, EmptyFacts DEF Elems

\* waitq_push_front.
LEMMA FrontFacts ==
    ASSUME NEW S, NEW q \in Seq(S), NEW t \in S
    PROVE  /\ <<t>> \o q \in Seq(S)
           /\ Elems(<<t>> \o q) = Elems(q) \cup {t}
           /\ Distinct(q) /\ t \notin Elems(q) => Distinct(<<t>> \o q)
<1>1. <<t>> \in Seq(S) /\ Elems(<<t>>) = {t}
  BY DEF Elems
<1>2. PICK p \in Seq(S) : p = <<t>>
  BY <1>1
<1>3. p \o q \in Seq(S)
  BY <1>1, <1>2, ConcatProperties
<1>4. Elems(p \o q) = Elems(p) \cup Elems(q)
  BY ConcatFacts
<1>5. ASSUME Distinct(q), t \notin Elems(q) PROVE Distinct(p \o q)
  <2>1. /\ Len(p) = 1 /\ p[1] = t /\ Len(q) \in Nat /\ DOMAIN q = 1..Len(q)
        /\ Len(p \o q) = 1 + Len(q)
        /\ \A i \in 1..(1 + Len(q)) : (p \o q)[i] = IF i <= 1 THEN p[i] ELSE q[i - 1]
    BY <1>2, ConcatProperties, LenProperties
  <2>2. DOMAIN (p \o q) = 1..(1 + Len(q))
    BY <1>3, <2>1, LenProperties
  <2>3. \A i \in 1..(1 + Len(q)) : \/ i = 1 /\ (p \o q)[i] = t
                                   \/ i # 1 /\ i - 1 \in DOMAIN q /\ (p \o q)[i] = q[i - 1] /\ q[i - 1] # t
    <3> TAKE i \in 1..(1 + Len(q))
    <3>1. CASE i = 1
      BY <2>1, <3>1
    <3>2. CASE i # 1
      <4>1. i - 1 \in DOMAIN q /\ (p \o q)[i] = q[i - 1]
        BY <2>1, <3>2
      <4> QED BY <1>5, <3>2, <4>1 DEF Elems
    <3> QED BY <3>1, <3>2
  <2>4. ASSUME NEW i \in 1..(1 + Len(q)), NEW j \in 1..(1 + Len(q)), (p \o q)[i] = (p \o q)[j] PROVE i = j
    <3>1. CASE i = 1 \/ j = 1
      BY <2>3, <2>4, <3>1
    <3>2. CASE i # 1 /\ j # 1
      <4>1. i - 1 = j - 1
        BY <1>5, <2>3, <2>4, <3>2 DEF Distinct
      <4> QED BY <4>1
    <3> QED BY <3>1, <3>2
  <2> QED BY <2>2, <2>4 DEF Distinct
<1> QED BY <1>1, <1>2, <1>3, <1>4, <1>5

------------------------------------------------------------------------------
(* The waiter counts.                                                      *)

\* One more registered thread, one more in the count.
LEMMA CountUp ==
    ASSUME NEW A, NEW t, t \notin A, IsFiniteSet(A)
    PROVE  /\ IsFiniteSet(A \cup {t})
           /\ Cardinality(A \cup {t}) = Cardinality(A) + 1
           /\ Cardinality(A) \in Nat
BY FS_AddElement, FS_CardinalityType

\* One thread less; the count was not zero.
LEMMA CountDown ==
    ASSUME NEW A, NEW t, t \in A, IsFiniteSet(A)
    PROVE  /\ IsFiniteSet(A \ {t})
           /\ Cardinality(A \ {t}) = Cardinality(A) - 1
           /\ Cardinality(A) - 1 \in Nat
<1>1. /\ IsFiniteSet(A \ {t})
      /\ Cardinality(A \ {t}) = Cardinality(A) - 1
  BY FS_RemoveElement
<1>2. Cardinality(A \ {t}) \in Nat
  BY <1>1, FS_CardinalityType
<1> QED BY <1>1, <1>2

\* A queue without repetition is no longer than the set its threads are from.
LEMMA QueueBound ==
    ASSUME NEW S, NEW q \in Seq(S), Distinct(q), NEW A, Elems(q) \subseteq A, IsFiniteSet(A)
    PROVE  Len(q) <= Cardinality(A)
<1>1. DOMAIN q = 1..Len(q) /\ Len(q) \in Nat
  BY LenProperties
<1>2. q \in [1..Len(q) -> A]
  <2>1. \A i \in 1..Len(q) : q[i] \in A
    BY <1>1 DEF Elems
  <2>2. q = [i \in 1..Len(q) |-> q[i]]
    BY <1>1
  <2> QED BY <2>1, <2>2
<1>3. q \in Injection(1..Len(q), A)
  BY <1>1, <1>2 DEF Distinct, Injection, IsInjective
<1>4. Cardinality(1..Len(q)) <= Cardinality(A)
  BY <1>3, FS_Injection
<1>5. Cardinality(1..Len(q)) = Len(q)
  BY <1>1, FS_Interval
<1> QED BY <1>4, <1>5
==============================================================================
