---------------------------- MODULE Select_proofs ----------------------------
(***************************************************************************)
(* The locks of chan_select are free of deadlock, for every number of      *)
(* threads and channels, all programs and all orders of their cases.       *)
(***************************************************************************)
EXTENDS Select, FiniteSetTheorems, FunctionTheorems, SequenceTheorems, WellFoundedInduction, TLAPS

------------------------------------------------------------------------------
(* Finite sets of channels in the order of their addresses.                *)

\* How many elements of S are below c.
Rank(S, c) == Cardinality({d \in S : d < c})

\* Ranks are below the cardinality and grow with the element.
LEMMA RankFacts ==
    ASSUME NEW S \in SUBSET Nat, IsFiniteSet(S)
    PROVE  /\ Cardinality(S) \in Nat
           /\ \A c \in S : Rank(S, c) \in 0..(Cardinality(S) - 1)
           /\ \A c, d \in S : c < d => Rank(S, c) < Rank(S, d)
<1>0. Cardinality(S) \in Nat
  BY FS_CardinalityType
<1>1. ASSUME NEW c \in S PROVE Rank(S, c) \in Nat /\ Rank(S, c) < Cardinality(S)
  <2> DEFINE T == {d \in S : d < c}
  <2>1. T \in SUBSET S /\ T # S
    BY <1>1
  <2> HIDE DEF T
  <2>2. IsFiniteSet(T) /\ Cardinality(T) <= Cardinality(S) /\ Cardinality(S) # Cardinality(T)
    BY <2>1, FS_Subset
  <2>3. Cardinality(T) \in Nat
    BY <2>2, FS_CardinalityType
  <2>4. Rank(S, c) = Cardinality(T)
    BY DEF Rank, T
  <2> QED BY <1>0, <2>2, <2>3, <2>4
<1>2. ASSUME NEW c \in S, NEW d \in S, c < d PROVE Rank(S, c) < Rank(S, d)
  <2> DEFINE T == {e \in S : e < c}
             U == {e \in S : e < d}
  <2>0. c \in U /\ c \notin T /\ U \in SUBSET S
    BY <1>2
  <2>5. ASSUME NEW e \in T PROVE e \in U
    <3>1. e \in Nat /\ c \in Nat /\ d \in Nat /\ e < c
      OBVIOUS
    <3> QED BY <1>2, <3>1
  <2>1. T \in SUBSET U /\ T # U /\ U \in SUBSET S
    BY <2>0, <2>5
  <2>4. Rank(S, c) = Cardinality(T) /\ Rank(S, d) = Cardinality(U)
    BY DEF Rank
  <2> HIDE DEF T, U
  <2>2. IsFiniteSet(U)
    BY <2>1, FS_Subset
  <2>3. Cardinality(T) <= Cardinality(U) /\ Cardinality(U) # Cardinality(T)
    BY <2>1, <2>2, FS_Subset
  <2> QED BY <1>1, <2>3, <2>4
<1> QED BY <1>0, <1>1, <1>2

\* Every rank below the cardinality is somebody's.
LEMMA RankOnto ==
    ASSUME NEW S \in SUBSET Nat, IsFiniteSet(S), NEW r \in 0..(Cardinality(S) - 1)
    PROVE  \E c \in S : Rank(S, c) = r
<1> DEFINE n == Cardinality(S)
           T == 0..(n - 1)
           f == [c \in S |-> Rank(S, c)]
<1>0. n \in Nat /\ n # 0
  BY RankFacts
<1>1. IsFiniteSet(T) /\ Cardinality(T) = n
  <2>1. 0 \in Int /\ n - 1 \in Int
    BY <1>0
  <2>2. IsFiniteSet(T) /\ Cardinality(T) = IF 0 > n - 1 THEN 0 ELSE (n - 1) - 0 + 1
    BY <2>1, FS_Interval
  <2> HIDE DEF n, T
  <2> QED BY <1>0, <2>2
<1>2. f \in Injection(S, T)
  <2>1. f \in [S -> T]
    BY RankFacts
  <2>2. \A c, d \in S : f[c] = f[d] => c = d
    <3> SUFFICES ASSUME NEW c \in S, NEW d \in S, c # d PROVE f[c] # f[d]
      OBVIOUS
    <3>1. Rank(S, c) < Rank(S, d) \/ Rank(S, d) < Rank(S, c)
      BY RankFacts
    <3>2. Rank(S, c) \in Nat /\ Rank(S, d) \in Nat
      BY <1>0, RankFacts
    <3> QED BY <3>1, <3>2
  <2> QED BY <2>1, <2>2 DEF Injection, IsInjective
<1> HIDE DEF f, T
<1>3. f \in Surjection(S, T)
  BY <1>1, <1>2, FS_Injection
<1>4. \E c \in S : f[c] = r
  BY <1>3 DEF Surjection, T
<1> QED BY <1>4 DEF f

\* The elements of S in increasing order, as sort_order lists them.
Nth(S, k) == CHOOSE c \in S : Rank(S, c) = k - 1
Sorted(S) == [k \in 1..Cardinality(S) |-> Nth(S, k)]

\* Sorting lists only elements of S, in strictly increasing order.
LEMMA SortedFacts ==
    ASSUME NEW S \in SUBSET Nat, IsFiniteSet(S)
    PROVE  /\ Cardinality(S) \in Nat
           /\ Len(Sorted(S)) = Cardinality(S)
           /\ \A k \in 1..Cardinality(S) : Sorted(S)[k] \in S
           /\ \A j, k \in 1..Cardinality(S) : j < k => Sorted(S)[j] < Sorted(S)[k]
<1> DEFINE n == Cardinality(S)
           q == Sorted(S)
<1>0. n \in Nat
  BY RankFacts
<1>1. ASSUME NEW k \in 1..n PROVE q[k] \in S /\ Rank(S, q[k]) = k - 1
  <2>1. q[k] = CHOOSE c \in S : Rank(S, c) = k - 1
    BY DEF Sorted, Nth
  <2>2. k - 1 \in 0..(n - 1)
    BY <1>0
  <2>3. \E c \in S : Rank(S, c) = k - 1
    BY <2>2, RankOnto
  <2> HIDE DEF q
  <2> QED BY <2>1, <2>3
<1>2. Len(q) = n
  <2>1. q = [k \in 1..n |-> q[k]]
    BY DEF Sorted
  <2> HIDE DEF q
  <2>2. q \in [1..n -> S]
    BY <1>1, <2>1
  <2> QED BY <1>0, <2>2, SeqDef, LenProperties
<1> HIDE DEF q, n
<1>3. ASSUME NEW j \in 1..n, NEW k \in 1..n, j < k PROVE q[j] < q[k]
  <2>1. q[j] \in S /\ q[k] \in S /\ Rank(S, q[j]) = j - 1 /\ Rank(S, q[k]) = k - 1
    BY <1>1
  <2>2. q[j] \in Nat /\ q[k] \in Nat
    BY <2>1
  <2>3. CASE q[k] < q[j]
    <3>1. k - 1 < j - 1
      BY <2>1, <2>3, RankFacts
    <3> QED BY <1>0, <1>3, <3>1
  <2>4. CASE q[k] = q[j]
    BY <1>0, <1>3, <2>1, <2>4
  <2> QED BY <2>2, <2>3, <2>4
<1> QED BY <1>0, <1>1, <1>2, <1>3 DEF q, n

\* A nonempty set of naturals has a least element.
LEMMA Least ==
    ASSUME NEW A \in SUBSET Nat, A # {}
    PROVE  \E k \in A : \A j \in A : k <= j
<1>1. PICK x \in A : \A y \in A : <<y, x>> \notin OpToRel(<, Nat)
  BY WFMin, NatLessThanWellFounded
<1>2. \A y \in A : ~(y < x)
  BY <1>1 DEF OpToRel
<1> QED BY <1>2

\* A nonempty finite set of naturals has a greatest element.
LEMMA Greatest ==
    ASSUME NEW S \in SUBSET Nat, IsFiniteSet(S), S # {}
    PROVE  \E c \in S : \A d \in S : d <= c
<1> DEFINE n == Cardinality(S)
           A == {n - Rank(S, c) : c \in S}
<1>0. n \in Nat /\ \A c \in S : Rank(S, c) \in 0..(n - 1)
  BY RankFacts
<1> HIDE DEF n
<1>1. A \in SUBSET Nat /\ A # {}
  BY <1>0
<1>2. PICK k \in A : \A j \in A : k <= j
  BY <1>1, Least
<1>3. PICK c \in S : k = n - Rank(S, c)
  BY <1>2
<1>4. ASSUME NEW d \in S, c < d PROVE FALSE
  <2>1. Rank(S, c) < Rank(S, d) /\ n - Rank(S, d) \in A
    BY <1>4, RankFacts
  <2>2. n - Rank(S, c) <= n - Rank(S, d)
    BY <1>2, <1>3, <2>1
  <2>3. Rank(S, c) \in Nat /\ Rank(S, d) \in Nat
    BY <1>0
  <2> HIDE DEF A
  <2> QED BY <1>0, <2>1, <2>2, <2>3
<1> QED BY <1>4

------------------------------------------------------------------------------
(* The invariant at one thread.                                            *)

\* The channels of a call, and the order in which it locks them.
ChansOf(c) == {c.cases[i][2] : i \in DOMAIN c.cases}

\* lock_all takes each channel of the call once, in increasing order.
LEMMA LockOrderFacts ==
    ASSUME NEW t, th[t].todo \in Seq(Calls), th[t].todo # << >>
    PROVE  /\ LockOrder(t) = Sorted(ChansOf(This(t)))
           /\ Len(LockOrder(t)) \in Nat /\ Len(LockOrder(t)) >= 1
           /\ \A k \in 1..Len(LockOrder(t)) : LockOrder(t)[k] \in Chans /\ LockOrder(t)[k] \in Nat
           /\ \A j, k \in 1..Len(LockOrder(t)) : j < k => LockOrder(t)[j] < LockOrder(t)[k]
<1> DEFINE c == This(t)
           D == {"send", "recv", "close"} \X Chans
           S == ChansOf(c)
<1>1. c \in Calls
  BY DEF This
<1>2. c.cases \in Seq(D) /\ c.cases # << >>
  BY <1>1 DEF Calls
<1> HIDE DEF c
<1>3. Len(c.cases) \in Nat /\ DOMAIN c.cases = 1..Len(c.cases) /\ 1 \in DOMAIN c.cases
  BY <1>2
<1>4. \A i \in DOMAIN c.cases : c.cases[i][2] \in Chans
  BY <1>2, <1>3
<1>5. S \in SUBSET Chans /\ c.cases[1][2] \in S
  BY <1>3, <1>4 DEF ChansOf
<1>6. IsFiniteSet(Chans) /\ Chans \in SUBSET Nat
  BY SelectAssumption
<1> HIDE DEF S
<1>7. IsFiniteSet(S) /\ S \in SUBSET Nat /\ S # {}
  BY <1>5, <1>6, FS_Subset
<1>8. LockOrder(t) = Sorted(S)
  BY DEF LockOrder, Sorted, Nth, Rank, S, ChansOf, c
<1>9. Cardinality(S) # 0
  BY <1>7, FS_EmptySet
<1>10. /\ Cardinality(S) \in Nat /\ Len(Sorted(S)) = Cardinality(S)
       /\ \A k \in 1..Cardinality(S) : Sorted(S)[k] \in S
       /\ \A j, k \in 1..Cardinality(S) : j < k => Sorted(S)[j] < Sorted(S)[k]
  BY <1>7, SortedFacts
<1>11. /\ Len(Sorted(S)) \in Nat /\ Len(Sorted(S)) >= 1
       /\ \A k \in 1..Len(Sorted(S)) : Sorted(S)[k] \in Chans /\ Sorted(S)[k] \in Nat
       /\ \A j, k \in 1..Len(Sorted(S)) : j < k => Sorted(S)[j] < Sorted(S)[k]
  <2>1. Len(Sorted(S)) \in Nat /\ Len(Sorted(S)) >= 1
    BY <1>9, <1>10
  <2>2. \A k \in 1..Len(Sorted(S)) : Sorted(S)[k] \in S
    BY <1>10
  <2>3. \A c1 \in S : c1 \in Chans /\ c1 \in Nat
    BY <1>5, <1>6
  <2>4. \A j, k \in 1..Len(Sorted(S)) : j < k => Sorted(S)[j] < Sorted(S)[k]
    BY <1>10
  <2> QED BY <2>1, <2>2, <2>3, <2>4
<1>12. LockOrder(t) = Sorted(ChansOf(This(t)))
  BY <1>8 DEF S, c
<1> QED BY <1>8, <1>11, <1>12

\* What the invariant says: no set of threads is locked up.
LEMMA LockInvSafe == LockInv => NoLockCycle
<1> SUFFICES ASSUME LockInv,
                    NEW S \in SUBSET Threads, S # {},
                    \A t \in S : \E c \in Wants(t) : ch[c].lock \in S
             PROVE  FALSE
  BY DEF NoLockCycle
<1>0. IsFiniteSet(Chans) /\ Chans \in SUBSET Nat
  BY SelectAssumption
\* What a waiting thread holds lies below what it waits for.
<1>1. ASSUME NEW u \in S, NEW c \in Chans, ch[c].lock = u, NEW d \in Wants(u)
      PROVE  d \in Chans /\ c < d
  <2>1. LocksOf(u)
    BY DEF LockInv
  <2>2. th[u].pc \in {"lock", "relock", "sLock", "rLock", "cLock"}
    BY DEF Wants, At
  <2>3. th[u].pc \notin Lockless
    BY <1>1, <2>1 DEF LocksOf
  <2>4. th[u].pc \in {"lock", "relock"} /\ d = LockOrder(u)[th[u].i]
    BY <2>2, <2>3 DEF Lockless, Wants, At
  <2>5. th[u].i \in 1..Len(LockOrder(u)) /\ \E k \in 1..(th[u].i - 1) : c = LockOrder(u)[k]
    BY <1>1, <2>1, <2>4 DEF LocksOf
  <2>6. th[u].todo \in Seq(Calls) /\ th[u].todo # << >>
    BY <2>1, <2>4 DEF LocksOf, At
  <2>7. Len(LockOrder(u)) \in Nat
    BY <2>6, LockOrderFacts
  <2>8. PICK k \in 1..(th[u].i - 1) : c = LockOrder(u)[k]
    BY <2>5
  <2>9. k \in 1..Len(LockOrder(u)) /\ k < th[u].i
    BY <2>5, <2>7
  <2> QED BY <2>4, <2>5, <2>6, <2>8, <2>9, LockOrderFacts
<1> DEFINE W == {c \in Chans : ch[c].lock \in S /\ \E t \in S : c \in Wants(t)}
\* Everybody waits for a channel held in S: a thread of S that holds one waits
\* for a later one.
<1>2. ASSUME NEW t \in S, NEW c \in Wants(t), ch[c].lock \in S, c \in Chans
      PROVE  \E d \in W : c < d
  <2> DEFINE u == ch[c].lock
  <2>1. u \in S
    BY <1>2
  <2>2. PICK d \in Wants(u) : ch[d].lock \in S
    BY <2>1
  <2>3. d \in Chans /\ c < d
    BY <1>1, <1>2, <2>1
  <2> QED BY <2>1, <2>2, <2>3
<1>3. \A c \in W : \E d \in W : c < d
  BY <1>2
<1>4. W \in SUBSET Chans
  OBVIOUS
<1>5. W # {}
  <2>1. PICK t \in S : TRUE
    OBVIOUS
  <2>2. PICK c \in Wants(t) : ch[c].lock \in S
    BY <2>1
  <2>3. CASE c \in Chans
    BY <1>2, <2>2, <2>3
  <2>4. CASE c \notin Chans
    <3>1. LocksOf(t)
      BY DEF LockInv
    <3>2. th[t].pc \in {"lock", "relock", "sLock", "rLock", "cLock"}
      BY DEF Wants, At
    <3>3. th[t].todo \in Seq(Calls) /\ th[t].todo # << >>
      BY <3>1, <3>2 DEF LocksOf, At
    <3>4. CASE th[t].pc \in {"lock", "relock"}
      <4>1. c = LockOrder(t)[th[t].i] /\ th[t].i \in 1..Len(LockOrder(t))
        BY <3>1, <3>4 DEF LocksOf, Wants, At
      <4> QED BY <2>4, <3>3, <4>1, LockOrderFacts
    <3>5. CASE th[t].pc \notin {"lock", "relock"}
      <4>1. c = This(t).cases[1][2]
        BY <3>1, <3>2, <3>5 DEF LocksOf, Wants, At, Chan, Case
      <4>2. This(t).cases \in Seq({"send", "recv", "close"} \X Chans) /\ This(t).cases # << >>
        <5>1. This(t) \in Calls
          BY <3>3 DEF This
        <5> QED BY <5>1 DEF Calls
      <4> QED BY <2>4, <4>1, <4>2
    <3> QED BY <3>4, <3>5
  <2> QED BY <2>3, <2>4
<1> HIDE DEF W
<1>6. IsFiniteSet(W) /\ W \in SUBSET Nat
  BY <1>0, <1>4, FS_Subset
<1>7. PICK c \in W : \A d \in W : d <= c
  BY <1>5, <1>6, Greatest
<1>8. PICK d \in W : c < d
  BY <1>3
<1> QED BY <1>6, <1>7, <1>8

------------------------------------------------------------------------------
(* How a step changes the locks.                                           *)

\* The channels C are those of the state with other contents, same locks.
SameLocks(C) ==
    /\ DOMAIN C = Chans
    /\ \A c \in Chans : ChanShape(C[c]) /\ C[c].lock = ch[c].lock

\* The same, with the locks of t released.
Released(C, t) ==
    /\ DOMAIN C = Chans
    /\ \A c \in Chans : ChanShape(C[c]) /\ C[c].lock = IF ch[c].lock = t THEN None ELSE ch[c].lock

\* Replacing one channel by one with the same lock.
LEMMA SameEdit ==
    ASSUME LockInv, NEW c, NEW r, c \in Chans => ChanShape(r) /\ r.lock = ch[c].lock
    PROVE  SameLocks([ch EXCEPT ![c] = r])
BY DEF SameLocks, LockInv

\* Editing the contents of a channel leaves its lock alone.
LEMMA EditFacts ==
    ASSUME LockInv, NEW k, NEW a, NEW b, NEW c, NEW d
    PROVE  /\ SameLocks([ch EXCEPT ![k].buf = a])
           /\ SameLocks([ch EXCEPT ![k].rq = a])
           /\ SameLocks([ch EXCEPT ![k].sq = a])
           /\ SameLocks([ch EXCEPT ![k].sc = a])
           /\ SameLocks([ch EXCEPT ![k].rc = a])
           /\ SameLocks([ch EXCEPT ![k].buf = a, ![k].rq = b])
           /\ SameLocks([ch EXCEPT ![k].buf = a, ![k].sq = b])
           /\ SameLocks([ch EXCEPT ![k].sq = a, ![k].sc = b])
           /\ SameLocks([ch EXCEPT ![k].rq = a, ![k].sq = b, ![k].sc = c])
           /\ SameLocks([ch EXCEPT ![k].sq = a, ![k].rq = b, ![k].rc = c])
           /\ SameLocks([ch EXCEPT ![k].buf = a, ![k].sq = b, ![k].sc = c])
           /\ SameLocks([ch EXCEPT ![k].closed = a, ![k].sq = b, ![k].rq = c, ![k].buf = d])
BY DEF SameLocks, LockInv, ChanShape

\* unlock_all on edited channels.
LEMMA UnlockFacts ==
    ASSUME NEW C, SameLocks(C), NEW t
    PROVE  Released(Unlock(C, t), t)
<1> DEFINE U == Unlock(C, t)
<1>1. DOMAIN U = Chans /\ \A c \in Chans : U[c] = IF C[c].lock = t THEN [C[c] EXCEPT !.lock = None] ELSE C[c]
  BY DEF Unlock
<1> HIDE DEF U
<1>2. ASSUME NEW c \in Chans
      PROVE  ChanShape(U[c]) /\ U[c].lock = IF ch[c].lock = t THEN None ELSE ch[c].lock
  <2>1. ChanShape(C[c]) /\ C[c].lock = ch[c].lock
    BY DEF SameLocks
  <2>2. CASE ch[c].lock = t
    <3>1. U[c] = [C[c] EXCEPT !.lock = None]
      BY <1>1, <2>1, <2>2
    <3> QED BY <2>1, <2>2, <3>1 DEF ChanShape
  <2>3. CASE ch[c].lock # t
    BY <1>1, <2>1, <2>3
  <2> QED BY <2>2, <2>3
<1> QED BY <1>1, <1>2 DEF Released, U

\* The locks of the state itself.
LEMMA SameSelf == LockInv => SameLocks(ch)
BY DEF SameLocks, LockInv

\* Threads are not None.
LEMMA NotNone == \A t \in Threads : t # None
BY SelectAssumption DEF None

\* The order of the locks is a matter of the call alone.
LEMMA SameOrder ==
    ASSUME NEW t, This(t)' = This(t)
    PROVE  LockOrder(t)' = LockOrder(t)
<1>1. LockOrder(t) = Sorted(ChansOf(This(t)))
  BY DEF LockOrder, Sorted, Nth, Rank, ChansOf
<1>2. LockOrder(t)' = Sorted(ChansOf(This(t)'))
  BY DEF LockOrder, Sorted, Nth, Rank, ChansOf
<1> QED BY <1>1, <1>2

\* A step of t that leaves the others' positions and locks as they are keeps
\* the invariant if it keeps it at t.
LEMMA LocksFrame ==
    ASSUME LockInv, NEW t \in Threads,
           DOMAIN ch' = Chans, \A c \in Chans : ChanShape(ch'[c]),
           DOMAIN th' = Threads, \A u \in Threads : ThreadShape(th'[u]),
           \A u \in Threads : u # t => /\ th'[u].pc = th[u].pc /\ th'[u].i = th[u].i
                                       /\ th'[u].todo = th[u].todo /\ th'[u].next = th[u].next,
           \A c \in Chans : ch'[c].lock \in {ch[c].lock, t, None},
           LocksOf(t)'
    PROVE  LockInv'
<1>1. ASSUME NEW u \in Threads, u # t PROVE LocksOf(u)'
  <2>1. LocksOf(u)
    BY DEF LockInv
  <2>2. {c \in Chans : ch'[c].lock = u} \subseteq {c \in Chans : ch[c].lock = u}
    BY <1>1, NotNone
  <2>3. LockOrder(u)' = LockOrder(u)
    <3>1. This(u)' = This(u)
      BY <1>1 DEF This
    <3> QED BY <3>1, SameOrder
  <2> QED BY <1>1, <2>1, <2>2, <2>3 DEF LocksOf, At
<1> QED BY <1>1 DEF LockInv

\* The step changes the locals of t only, and those within its call.
Moves(t) ==
    /\ DOMAIN th' = Threads /\ ThreadShape(th'[t]) /\ th'[t].todo = th[t].todo
    /\ \A u \in Threads : u # t => th'[u] = th[u]

\* Moves keep the invariant if they keep it at t.
LEMMA MoveFrame ==
    ASSUME LockInv, NEW t \in Threads, Moves(t),
           SameLocks(ch') \/ Released(ch', t),
           LocksOf(t)'
    PROVE  LockInv'
<1>1. \A u \in Threads : ThreadShape(th'[u])
  BY DEF LockInv, Moves
<1>2. /\ DOMAIN ch' = Chans /\ \A c \in Chans : ChanShape(ch'[c])
      /\ \A c \in Chans : ch'[c].lock \in {ch[c].lock, t, None}
  BY DEF SameLocks, Released
<1>3. DOMAIN th' = Threads /\ \A u \in Threads : u # t => th'[u] = th[u]
  BY DEF Moves
<1> QED BY <1>1, <1>2, <1>3, LocksFrame

\* A move inside a call that takes and releases no lock.
LEMMA Move ==
    ASSUME LockInv, NEW t \in Threads, Moves(t), SameLocks(ch'), th[t].pc # "idle",
           th'[t].pc \in Lockless => th[t].pc \in Lockless,
           th'[t].pc \in {"lock", "relock"} => th[t].pc \in Lockless /\ th'[t].i = 1,
           th'[t].pc \in {"sGate", "sPush", "sLock", "rLock", "cLock"} => th'[t].i = 1,
           th'[t].pc \in {"deliver", "dPop"} => th'[t].next \in {"sPark", "done"}
    PROVE  LockInv'
<1>1. LocksOf(t) /\ th[t].todo \in Seq(Calls) /\ th[t].todo # << >> /\ th'[t].todo = th[t].todo
  BY DEF LockInv, LocksOf, At, Moves
<1>2. {c \in Chans : ch'[c].lock = t} = {c \in Chans : ch[c].lock = t}
  BY DEF SameLocks
<1>3. LockOrder(t)' = LockOrder(t)
  <2>1. This(t)' = This(t)
    BY <1>1 DEF This
  <2> QED BY <2>1, SameOrder
<1>4. Len(LockOrder(t)) \in Nat /\ Len(LockOrder(t)) >= 1
  BY <1>1, LockOrderFacts
<1>5. LocksOf(t)'
  <2>1. th'[t].pc \in Lockless => {c \in Chans : ch'[c].lock = t} = {}
    BY <1>1, <1>2 DEF LocksOf
  <2>2. th'[t].pc \in {"lock", "relock"} =>
           /\ th'[t].i \in 1..Len(LockOrder(t))
           /\ {c \in Chans : ch'[c].lock = t} \subseteq {LockOrder(t)[k] : k \in 1..(th'[t].i - 1)}
    BY <1>1, <1>2, <1>4 DEF LocksOf
  <2> QED BY <1>1, <1>3, <2>1, <2>2 DEF LocksOf, At
<1> QED BY <1>5, MoveFrame

\* A move inside a call that releases every lock of t and parks.
LEMMA MoveParked ==
    ASSUME LockInv, NEW t \in Threads, Moves(t), Released(ch', t), th[t].pc # "idle", th'[t].pc = "parked"
    PROVE  LockInv'
<1>1. LocksOf(t) /\ th[t].todo \in Seq(Calls) /\ th[t].todo # << >> /\ th'[t].todo = th[t].todo
  BY DEF LockInv, LocksOf, At, Moves
<1>2. {c \in Chans : ch'[c].lock = t} = {}
  BY NotNone DEF Released
<1>3. LocksOf(t)'
  BY <1>1, <1>2 DEF LocksOf, At
<1> QED BY <1>3, MoveFrame

\* The forms in which the steps change a thread's locals.
LEMMA MoveForms ==
    ASSUME LockInv, NEW t \in Threads, NEW l, NEW j, NEW x
    PROVE  /\ th' = [th EXCEPT ![t].pc = l] =>
                 Moves(t) /\ th'[t].pc = l /\ th'[t].i = th[t].i /\ th'[t].next = th[t].next
           /\ th' = [th EXCEPT ![t].i = j] =>
                 Moves(t) /\ th'[t].pc = th[t].pc /\ th'[t].i = j /\ th'[t].next = th[t].next
           /\ th' = [th EXCEPT ![t].pc = l, ![t].i = j] =>
                 Moves(t) /\ th'[t].pc = l /\ th'[t].i = j /\ th'[t].next = th[t].next
           /\ th' = [th EXCEPT ![t].i = j, ![t].pc = l] =>
                 Moves(t) /\ th'[t].pc = l /\ th'[t].i = j /\ th'[t].next = th[t].next
           /\ th' = [th EXCEPT ![t].pc = l, ![t].w = x] =>
                 Moves(t) /\ th'[t].pc = l /\ th'[t].i = th[t].i /\ th'[t].next = th[t].next
           /\ th' = [th EXCEPT ![t].pc = l, ![t].next = x] =>
                 Moves(t) /\ th'[t].pc = l /\ th'[t].i = th[t].i /\ th'[t].next = x
           /\ th' = [th EXCEPT ![t].pc = l, ![t].i = j, ![t].next = x] =>
                 Moves(t) /\ th'[t].pc = l /\ th'[t].i = j /\ th'[t].next = x
<1>1. t \in DOMAIN th /\ ThreadShape(th[t]) /\ DOMAIN th = Threads
  BY DEF LockInv
<1> QED BY <1>1 DEF Moves, ThreadShape

\* What a thread does after a call returned is again a list of calls.
LEMMA AfterFacts ==
    ASSUME NEW c \in Calls, NEW i, NEW res
    PROVE  After(c, i, res) \in Seq(Calls)
<1> DEFINE D == {"send", "recv", "close"} \X Chans
           kept == [k \in 1..(Len(c.cases) - 1) |-> c.cases[IF k < i THEN k ELSE k + 1]]
<1>1. c.cases \in Seq(D) /\ c.loop \in {"once", "drain", "until2", "whileOK"}
  BY DEF Calls
<1>2. kept \in Seq(D)
  <2>1. Len(c.cases) \in Nat /\ \A k \in 1..Len(c.cases) : c.cases[k] \in D
    BY <1>1
  <2>2. \A k \in 1..(Len(c.cases) - 1) : k \in 1..Len(c.cases) /\ k + 1 \in 1..Len(c.cases)
    BY <2>1
  <2>3. \A k \in 1..(Len(c.cases) - 1) : kept[k] \in D
    BY <2>1, <2>2
  <2>4. PICK n \in Nat : 1..(Len(c.cases) - 1) = 1..n
    <3>1. CASE Len(c.cases) = 0
      <4>1. 1..(Len(c.cases) - 1) = 1..0
        BY <3>1
      <4> QED BY <4>1
    <3>2. CASE Len(c.cases) # 0
      <4>1. Len(c.cases) - 1 \in Nat
        BY <2>1, <3>2
      <4> QED BY <4>1
    <3> QED BY <3>1, <3>2
  <2>5. kept \in [1..n -> D]
    BY <2>3, <2>4
  <2>6. Seq(D) = UNION {[1..m -> D] : m \in Nat}
    BY SeqDef
  <2> QED BY <2>5, <2>6
<1> HIDE DEF kept
<1>3. kept # << >> => [c EXCEPT !.cases = kept] \in Calls
  BY <1>2 DEF Calls
<1>4. << >> \in Seq(Calls) /\ <<c>> \in Seq(Calls) /\ (kept # << >> => <<[c EXCEPT !.cases = kept]>> \in Seq(Calls))
  BY <1>3
<1>5. After(c, i, res) \in {<< >>, <<c>>} \cup (IF kept # << >> THEN {<<[c EXCEPT !.cases = kept]>>} ELSE {})
  BY <1>1 DEF After, kept
<1> QED BY <1>4, <1>5

\* A call returns: its locks are released and its thread is at rest.
LEMMA ReturnStep ==
    ASSUME LockInv, NEW t \in Threads, th[t].pc # "idle", NEW i, NEW res, NEW W, Return(t, i, res, W),
           \/ SameLocks(ch') /\ th[t].pc \in Lockless
           \/ Released(ch', t)
    PROVE  LockInv'
<1>1. LocksOf(t) /\ th[t].todo \in Seq(Calls) /\ th[t].todo # << >>
  BY DEF LockInv, LocksOf, At
<1>2. PICK rest : rest = After(This(t), i, res) \o Tail(th[t].todo)
  OBVIOUS
<1>3. rest \in Seq(Calls)
  <2>1. This(t) \in Calls
    BY <1>1 DEF This
  <2>2. After(This(t), i, res) \in Seq(Calls)
    BY <2>1, AfterFacts
  <2> QED BY <1>1, <1>2, <2>2
<1>4. th' = [x \in Threads |->
               IF x = t THEN [th[t] EXCEPT !.pc = "idle", !.todo = rest, !.i = 1, !.start = 1,
                                           !.w = NoMsg, !.gone = FALSE, !.next = "idle"]
               ELSE [th[x] EXCEPT !.gone = @ \/ (th[x].pc = "wake" /\ th[x].w[1] = t)]]
  BY <1>2 DEF Return
<1>5. \A u \in Threads : ThreadShape(th[u])
  BY DEF LockInv
<1>6. DOMAIN th' = Threads /\ \A u \in Threads : ThreadShape(th'[u])
  BY <1>4, <1>5 DEF ThreadShape
<1>7. ASSUME NEW u \in Threads, u # t
      PROVE  /\ th'[u].pc = th[u].pc /\ th'[u].i = th[u].i
             /\ th'[u].todo = th[u].todo /\ th'[u].next = th[u].next
  BY <1>4, <1>5, <1>7 DEF ThreadShape
<1>8. th'[t].pc = "idle" /\ th'[t].todo = rest
  BY <1>4, <1>5 DEF ThreadShape
<1>9. {c \in Chans : ch'[c].lock = t} = {}
  BY <1>1, NotNone DEF SameLocks, Released, LocksOf
<1>10. LocksOf(t)'
  BY <1>3, <1>8, <1>9 DEF LocksOf, At
<1>11. /\ DOMAIN ch' = Chans /\ \A c \in Chans : ChanShape(ch'[c])
       /\ \A c \in Chans : ch'[c].lock \in {ch[c].lock, t, None}
  BY DEF SameLocks, Released
<1> HIDE DEF LockInv, ThreadShape, ChanShape
<1> QED BY <1>6, <1>7, <1>10, <1>11, LocksFrame

------------------------------------------------------------------------------
(* The steps.                                                              *)

\* A thread calls.
LEMMA BeginStep ==
    ASSUME LockInv, NEW t \in Threads, Begin(t)
    PROVE  LockInv'
<1>1. LocksOf(t) /\ th[t].pc = "idle" /\ th[t].todo # << >> /\ th[t].todo \in Seq(Calls)
  BY DEF LockInv, LocksOf, Begin, At
<1>2. PICK l : th' = [th EXCEPT ![t].i = 1, ![t].pc = l] /\ l \in {"scan", "sGate", "sLock", "rLock", "cLock"}
  <2>1. This(t) \in Calls
    BY <1>1 DEF This
  <2>2. This(t).op \in {"select", "send", "recv", "close"}
    BY <2>1 DEF Calls
  <2> QED BY <2>2 DEF Begin
<1>3. Moves(t) /\ th'[t].pc = l /\ th'[t].i = 1
  <2>1. t \in DOMAIN th /\ ThreadShape(th[t]) /\ DOMAIN th = Threads
    BY DEF LockInv
  <2> QED BY <1>2, <2>1 DEF Moves, ThreadShape
<1>4. ch' = ch
  BY DEF Begin
<1>5. LocksOf(t)'
  BY <1>1, <1>2, <1>3, <1>4 DEF LocksOf, At, Moves, Lockless
<1> QED BY <1>3, <1>4, <1>5, SameSelf, MoveFrame

\* The next case of the fast path, or the locks.
LEMMA AdvanceStep ==
    ASSUME LockInv, NEW t \in Threads, Advance(t), ch' = ch, th[t].pc \in {"gate", "ring"}
    PROVE  LockInv'
<1>1. PICK j : \/ th' = [th EXCEPT ![t].pc = "lock", ![t].i = 1]
               \/ th' = [th EXCEPT ![t].pc = "gate", ![t].i = j]
  BY DEF Advance
<1>2. Moves(t) /\ (th'[t].pc = "gate" \/ (th'[t].pc = "lock" /\ th'[t].i = 1))
  <2>1. t \in DOMAIN th /\ ThreadShape(th[t]) /\ DOMAIN th = Threads
    BY DEF LockInv
  <2> QED BY <1>1, <2>1 DEF Moves, ThreadShape
<1>3. SameLocks(ch')
  BY SameSelf
<1> QED BY <1>2, <1>3, Move DEF Lockless

\* chan_select_fast takes no lock.
LEMMA FastStep ==
    ASSUME LockInv, NEW t \in Threads, SelectClosed(t) \/ SelectGate(t) \/ SelectRing(t)
    PROVE  LockInv'
<1>1. CASE SelectClosed(t)
  <2>1. ch' = ch /\ th[t].pc = "scan" /\ SameLocks(ch') /\ th[t].pc \in Lockless
    BY <1>1, SameSelf DEF SelectClosed, At, Lockless
  <2>2. CASE \E i, res, W : Return(t, i, res, W)
    BY <2>1, <2>2, ReturnStep
  <2>3. CASE ~\E i, res, W : Return(t, i, res, W)
    <3>1. /\ Moves(t)
          /\ th'[t].pc \in {"scan", "gate"}
      <4>1. t \in DOMAIN th /\ ThreadShape(th[t]) /\ DOMAIN th = Threads
        BY DEF LockInv
      <4>2. PICK j, k, r : \/ th' = [th EXCEPT ![t].i = j]
                           \/ th' = [th EXCEPT ![t].pc = "gate", ![t].i = j, ![t].start = k, ![t].rr = r]
        BY <1>1, <2>3 DEF SelectClosed
      <4> QED BY <2>1, <4>1, <4>2 DEF Moves, ThreadShape
    <3> QED BY <2>1, <3>1, Move DEF Lockless
  <2> QED BY <2>2, <2>3
<1>2. CASE SelectGate(t)
  <2>1. ch' = ch /\ th[t].pc = "gate" /\ SameLocks(ch') /\ th[t].pc \in Lockless
    BY <1>2, SameSelf DEF SelectGate, At, Lockless
  <2>2. CASE \E i, res, W : Return(t, i, res, W)
    BY <2>1, <2>2, ReturnStep
  <2>3. CASE Advance(t)
    BY <2>1, <2>3, AdvanceStep
  <2>4. CASE Goto(t, "ring")
    <3>1. Moves(t) /\ th'[t].pc = "ring"
      BY <2>4, MoveForms DEF Goto
    <3> QED BY <2>1, <3>1, Move DEF Lockless
  <2> QED BY <1>2, <2>2, <2>3, <2>4 DEF SelectGate
<1>3. CASE SelectRing(t)
  <2>1. th[t].pc = "ring" /\ th[t].pc \in Lockless
    BY <1>3 DEF SelectRing, At, Lockless
  <2>2. CASE ch' = ch /\ Advance(t)
    BY <2>1, <2>2, AdvanceStep
  <2>3. CASE ~(ch' = ch /\ Advance(t))
    <3>1. \E i, res, W : Return(t, i, res, W)
      BY <1>3, <2>3 DEF SelectRing
    <3>2. PICK a : ch' = [ch EXCEPT ![Chan(t)].buf = a]
      BY <1>3, <2>3 DEF SelectRing
    <3>3. SameLocks(ch')
      BY <3>2, EditFacts
    <3> QED BY <2>1, <3>1, <3>3, ReturnStep
  <2> QED BY <2>2, <2>3
<1> QED BY <1>1, <1>2, <1>3

\* lock_all: one more lock of the order is taken, above all those held.
LEMMA LockStep ==
    ASSUME LockInv, NEW t \in Threads, SelectLock(t)
    PROVE  LockInv'
<1> DEFINE c == LockOrder(t)[th[t].i]
           held == {d \in Chans : ch[d].lock = t}
<1>1. /\ LocksOf(t) /\ th[t].pc \in {"lock", "relock"}
      /\ th[t].todo \in Seq(Calls) /\ th[t].todo # << >>
  BY DEF LockInv, LocksOf, SelectLock, At
<1>2. /\ th[t].i \in 1..Len(LockOrder(t))
      /\ held \subseteq {LockOrder(t)[k] : k \in 1..(th[t].i - 1)}
  BY <1>1 DEF LocksOf
<1>3. PICK n \in Nat : n = Len(LockOrder(t)) /\ n >= 1
  BY <1>1, LockOrderFacts
<1>4. c \in Chans
  BY <1>1, <1>2, LockOrderFacts
<1>5. /\ ch' = [ch EXCEPT ![c].lock = t]
      /\ \/ th[t].i < n /\ th' = [th EXCEPT ![t].i = @ + 1]
         \/ ~(th[t].i < n) /\ th' = [th EXCEPT ![t].i = 1, ![t].pc = IF At(t, "lock") THEN "ready" ELSE "cleanup"]
  BY <1>3 DEF SelectLock
<1> HIDE DEF c
<1>6. /\ DOMAIN ch' = Chans /\ \A d \in Chans : ChanShape(ch'[d])
      /\ \A d \in Chans : ch'[d].lock = IF d = c THEN t ELSE ch[d].lock
  BY <1>4, <1>5 DEF LockInv, ChanShape
<1>7. t \in DOMAIN th /\ ThreadShape(th[t]) /\ DOMAIN th = Threads
  BY DEF LockInv
<1>8. Moves(t)
  BY <1>5, <1>7 DEF Moves, ThreadShape
<1>9. \A u \in Threads : ThreadShape(th'[u])
  BY <1>8 DEF LockInv, Moves
<1>10. LocksOf(t)'
  <2>1. CASE th[t].i < n
    <3>1. th'[t].pc = th[t].pc /\ th'[t].i = th[t].i + 1
      BY <1>5, <1>7, <2>1 DEF ThreadShape
    <3>2. LockOrder(t)' = LockOrder(t)
      <4>1. This(t)' = This(t)
        BY <1>8 DEF This, Moves
      <4> QED BY <4>1, SameOrder
    <3>3. th[t].i + 1 \in 1..n
      BY <1>2, <1>3, <2>1
    <3>4. ASSUME NEW d \in Chans, ch'[d].lock = t PROVE \E k \in 1..th[t].i : d = LockOrder(t)[k]
      <4>1. CASE d = c
        BY <1>2, <4>1 DEF c
      <4>2. CASE d # c
        <5>1. d \in held
          BY <1>6, <3>4, <4>2
        <5>2. PICK k \in 1..(th[t].i - 1) : d = LockOrder(t)[k]
          BY <1>2, <5>1
        <5>3. k \in 1..th[t].i
          BY <1>2, <1>3
        <5> QED BY <5>2, <5>3
      <4> QED BY <4>1, <4>2
    <3>5. (th[t].i + 1) - 1 = th[t].i
      BY <1>2, <1>3
    <3>6. th'[t].pc \in {"lock", "relock"} /\ th'[t].todo \in Seq(Calls) /\ th'[t].todo # << >>
      BY <1>1, <1>8, <3>1 DEF Moves
    <3>7. /\ th'[t].i \in 1..Len(LockOrder(t)')
          /\ {d \in Chans : ch'[d].lock = t} \subseteq {LockOrder(t)'[k] : k \in 1..(th'[t].i - 1)}
      <4>1. {d \in Chans : ch'[d].lock = t} \subseteq {LockOrder(t)[k] : k \in 1..((th[t].i + 1) - 1)}
        BY <3>4, <3>5
      <4> QED BY <1>3, <3>1, <3>2, <3>3, <4>1
    <3> QED BY <3>6, <3>7 DEF LocksOf, At, Lockless
  <2>2. CASE ~(th[t].i < n)
    <3>1. th'[t].pc \in {"ready", "cleanup"}
      BY <1>5, <1>7, <2>2 DEF ThreadShape
    <3> QED BY <1>1, <1>8, <3>1 DEF LocksOf, At, Lockless, Moves
  <2> QED BY <2>1, <2>2
<1>11. \A d \in Chans : ch'[d].lock \in {ch[d].lock, t, None}
  BY <1>6
<1>12. \A u \in Threads : u # t => th'[u] = th[u]
  BY <1>8 DEF Moves
<1>13. DOMAIN th' = Threads
  BY <1>8 DEF Moves
<1> QED BY <1>6, <1>9, <1>10, <1>11, <1>12, <1>13, LocksFrame

\* Between lock_all and unlock_all.
LEMMA LockedStep ==
    ASSUME LockInv, NEW t \in Threads,
           \/ SelectPick(t) \/ SelectWouldBlock(t) \/ SelectPark(t) \/ ExecBuffered(t) \/ ExecPop(t)
    PROVE  LockInv'
<1>1. CASE SelectPick(t)
  <2>1. PICK j : th' = [th EXCEPT ![t].pc = "exec", ![t].i = j]
    BY <1>1 DEF SelectPick
  <2>2. Moves(t) /\ th'[t].pc = "exec" /\ th[t].pc = "ready"
    BY <1>1, <2>1, MoveForms DEF SelectPick, At
  <2>3. SameLocks(ch')
    BY <1>1, SameSelf DEF SelectPick
  <2> QED BY <2>2, <2>3, Move DEF Lockless
<1>2. CASE SelectWouldBlock(t)
  <2>1. ch' = Unlock(ch, t) /\ th[t].pc = "ready" /\ Return(t, 0, "WOULDBLOCK", wt)
    BY <1>2 DEF SelectWouldBlock, At
  <2>2. Released(ch', t)
    BY <2>1, SameSelf, UnlockFacts
  <2> QED BY <2>1, <2>2, ReturnStep
<1>3. CASE SelectPark(t)
  <2>1. PICK C : /\ C = [c \in Chans |-> [ch[c] EXCEPT !.sq = @ \o Stubs(t, "send", c), !.rq = @ \o Stubs(t, "recv", c)]]
                 /\ ch' = Unlock(C, t)
    BY <1>3 DEF SelectPark
  <2>2. SameLocks(C)
    BY <2>1 DEF SameLocks, ChanShape, LockInv
  <2>3. Released(ch', t)
    BY <2>1, <2>2, UnlockFacts
  <2>4. Moves(t) /\ th'[t].pc = "parked" /\ th[t].pc = "ready"
    BY <1>3, MoveForms DEF SelectPark, Goto, At
  <2> QED BY <2>3, <2>4, MoveParked
<1>4. CASE ExecBuffered(t)
  <2>1. PICK a : ch' = ch \/ ch' = [ch EXCEPT ![Chan(t)].rq = a]
    BY <1>4 DEF ExecBuffered
  <2>2. SameLocks(ch')
    <3>1. SameLocks([ch EXCEPT ![Chan(t)].rq = a])
      BY EditFacts
    <3> QED BY <2>1, <3>1, SameSelf
  <2>3. PICK l : Goto(t, l) /\ l \in {"execPush", "execPop"}
    BY <1>4 DEF ExecBuffered
  <2>4. Moves(t) /\ th'[t].pc \in {"execPush", "execPop"} /\ th[t].pc = "exec"
    BY <1>4, <2>3, MoveForms DEF ExecBuffered, Goto, At
  <2> QED BY <2>2, <2>4, Move DEF Lockless
<1>5. CASE ExecPop(t)
  <2>1. PICK a : ch' = ch \/ ch' = [ch EXCEPT ![Chan(t)].buf = a]
    BY <1>5 DEF ExecPop
  <2>2. SameLocks(ch')
    <3>1. SameLocks([ch EXCEPT ![Chan(t)].buf = a])
      BY EditFacts
    <3> QED BY <2>1, <3>1, SameSelf
  <2>3. Moves(t) /\ th'[t].pc = "execHelp" /\ th[t].pc = "execPop"
    BY <1>5, MoveForms DEF ExecPop, Goto, At
  <2> QED BY <2>2, <2>3, Move DEF Lockless
<1> QED BY <1>1, <1>2, <1>3, <1>4, <1>5

\* execute_case_locked and what follows a park: the call returns after unlock_all.
LEMMA ExecStep ==
    ASSUME LockInv, NEW t \in Threads,
           ExecMeet(t) \/ ExecPush(t) \/ ExecHelp(t) \/ SelectCleanup(t)
    PROVE  LockInv'
<1>0. th[t].pc # "idle"
  BY DEF ExecMeet, ExecPush, ExecHelp, SelectCleanup, At
<1>1. \E i, res, W : Return(t, i, res, W)
  <2>1. CASE ExecMeet(t)
    BY <2>1 DEF ExecMeet
  <2>2. CASE ExecPush(t)
    BY <2>2 DEF ExecPush
  <2>3. CASE ExecHelp(t)
    BY <2>3 DEF ExecHelp
  <2>4. CASE SelectCleanup(t)
    BY <2>4 DEF SelectCleanup
  <2> QED BY <2>1, <2>2, <2>3, <2>4
<1>2. \E C : SameLocks(C) /\ ch' = Unlock(C, t)
  <2>1. CASE ExecMeet(t)
    <3>1. PICK a : \/ ch' = Unlock([ch EXCEPT ![Chan(t)].rq = a], t)
                   \/ ch' = Unlock([ch EXCEPT ![Chan(t)].sq = a], t)
      BY <2>1 DEF ExecMeet
    <3>2. SameLocks([ch EXCEPT ![Chan(t)].rq = a]) /\ SameLocks([ch EXCEPT ![Chan(t)].sq = a])
      BY EditFacts
    <3> QED BY <3>1, <3>2
  <2>2. CASE ExecPush(t)
    <3>1. PICK a, b : ch' = Unlock([ch EXCEPT ![Chan(t)].buf = a, ![Chan(t)].rq = b], t)
      BY <2>2 DEF ExecPush
    <3>2. SameLocks([ch EXCEPT ![Chan(t)].buf = a, ![Chan(t)].rq = b])
      BY EditFacts
    <3> QED BY <3>1, <3>2
  <2>3. CASE ExecHelp(t)
    <3>1. PICK a, b : ch' = Unlock([ch EXCEPT ![Chan(t)].buf = a, ![Chan(t)].sq = b], t)
      BY <2>3 DEF ExecHelp
    <3>2. SameLocks([ch EXCEPT ![Chan(t)].buf = a, ![Chan(t)].sq = b])
      BY EditFacts
    <3> QED BY <3>1, <3>2
  <2>4. CASE SelectCleanup(t)
    <3>1. PICK C : /\ C = [c \in Chans |-> [ch[c] EXCEPT !.sq = Without(@, t), !.rq = Without(@, t)]]
                   /\ ch' = Unlock(C, t)
      BY <2>4 DEF SelectCleanup
    <3>2. SameLocks(C)
      BY <3>1 DEF SameLocks, ChanShape, LockInv
    <3> QED BY <3>1, <3>2
  <2> QED BY <2>1, <2>2, <2>3, <2>4
<1>3. Released(ch', t)
  BY <1>2, UnlockFacts
<1> QED BY <1>0, <1>1, <1>3, ReturnStep

\* A select comes back from its park, woken or not, and takes its locks anew.
LEMMA WakeupStep ==
    ASSUME LockInv, NEW t \in Threads, SelectWoken(t) \/ SelectTimeout(t)
    PROVE  LockInv'
<1>1. PICK x : th' = [th EXCEPT ![t].pc = "relock", ![t].i = 1, ![t].next = x]
  BY DEF SelectWoken, SelectTimeout, Wakeup
<1>2. Moves(t) /\ th'[t].pc = "relock" /\ th'[t].i = 1 /\ th[t].pc = "parked"
  <2>1. t \in DOMAIN th /\ ThreadShape(th[t]) /\ DOMAIN th = Threads
    BY DEF LockInv
  <2> QED BY <1>1, <2>1 DEF Moves, ThreadShape, SelectWoken, SelectTimeout, At
<1>3. SameLocks(ch')
  BY SameSelf DEF SelectWoken, SelectTimeout
<1> QED BY <1>2, <1>3, Move DEF Lockless

\* chan_send up to its lock, and the rest of its slow path under it.
LEMMA SendStep ==
    ASSUME LockInv, NEW t \in Threads,
           SendGate(t) \/ SendPush(t) \/ SendPark(t) \/ SendAgain(t) \/ UnlockOK(t)
    PROVE  LockInv'
<1>0. LocksOf(t)
  BY DEF LockInv
<1>1. CASE SendGate(t)
  <2>1. SameLocks(ch') /\ th[t].pc = "sGate"
    BY <1>1, SameSelf DEF SendGate, At
  <2>2. PICK l : Goto(t, l) /\ l \in {"sLock", "sPush"}
    BY <1>1 DEF SendGate
  <2>3. Moves(t) /\ th'[t].pc \in {"sLock", "sPush"} /\ th'[t].i = th[t].i
    BY <2>2, MoveForms DEF Goto
  <2>4. th[t].i = 1
    BY <1>0, <2>1 DEF LocksOf
  <2> QED BY <2>1, <2>3, <2>4, Move DEF Lockless
<1>2. CASE SendPush(t)
  <2>1. th[t].pc = "sPush" /\ th[t].pc \in Lockless
    BY <1>2 DEF SendPush, At, Lockless
  <2>2. CASE Goto(t, "sLock") /\ ch' = ch
    <3>1. Moves(t) /\ th'[t].pc = "sLock" /\ th'[t].i = th[t].i
      BY <2>2, MoveForms DEF Goto
    <3>2. th[t].i = 1
      BY <1>0, <2>1 DEF LocksOf
    <3>3. SameLocks(ch')
      BY <2>2, SameSelf
    <3> QED BY <2>1, <3>1, <3>2, <3>3, Move
  <2>3. CASE ~(Goto(t, "sLock") /\ ch' = ch)
    <3>1. PICK a : ch' = [ch EXCEPT ![Chan(t)].buf = a]
      BY <1>2, <2>3 DEF SendPush
    <3>2. Return(t, 1, "OK", wt)
      BY <1>2, <2>3 DEF SendPush
    <3>3. SameLocks(ch')
      BY <3>1, EditFacts
    <3> QED BY <2>1, <3>2, <3>3, ReturnStep
  <2> QED BY <2>2, <2>3
<1>3. CASE SendPark(t)
  <2>1. PICK a, b : ch' = [ch EXCEPT ![Chan(t)].sq = a, ![Chan(t)].sc = b]
    BY <1>3 DEF SendPark
  <2>2. SameLocks(ch')
    <3>1. SameLocks([ch EXCEPT ![Chan(t)].sq = a, ![Chan(t)].sc = b])
      BY EditFacts
    <3> QED BY <2>1, <3>1
  <2>3. Moves(t) /\ th'[t].pc = "sAgain" /\ th[t].pc = "sPark"
    BY <1>3, MoveForms DEF SendPark, Goto, At
  <2> QED BY <2>2, <2>3, Move DEF Lockless
<1>4. CASE SendAgain(t)
  <2>1. th[t].pc = "sAgain"
    BY <1>4 DEF SendAgain, At
  <2>2. CASE Goto(t, "parked") /\ ch' = Unlock(ch, t)
    <3>1. Moves(t) /\ th'[t].pc = "parked"
      BY <2>2, MoveForms DEF Goto
    <3>2. Released(ch', t)
      BY <2>2, SameSelf, UnlockFacts
    <3> QED BY <2>1, <3>1, <3>2, MoveParked
  <2>3. CASE ~(Goto(t, "parked") /\ ch' = Unlock(ch, t))
    <3>1. PICK a, b, c : ch' = [ch EXCEPT ![Chan(t)].buf = a, ![Chan(t)].sq = b, ![Chan(t)].sc = c]
      BY <1>4, <2>3 DEF SendAgain
    <3>2. SameLocks([ch EXCEPT ![Chan(t)].buf = a, ![Chan(t)].sq = b, ![Chan(t)].sc = c])
      BY EditFacts
    <3>3. Moves(t) /\ th'[t].pc = "deliver" /\ th'[t].next = "done"
      <4>1. th' = [th EXCEPT ![t].pc = "deliver", ![t].next = "done"]
        BY <1>4, <2>3 DEF SendAgain, Deliver
      <4>2. t \in DOMAIN th /\ ThreadShape(th[t]) /\ DOMAIN th = Threads
        BY DEF LockInv
      <4> QED BY <4>1, <4>2 DEF Moves, ThreadShape
    <3> QED BY <2>1, <3>1, <3>2, <3>3, Move DEF Lockless
  <2> QED BY <2>2, <2>3
<1>5. CASE UnlockOK(t)
  <2>1. ch' = Unlock(ch, t) /\ th[t].pc = "done" /\ Return(t, 1, "OK", wt)
    BY <1>5 DEF UnlockOK, At
  <2>2. Released(ch', t)
    BY <2>1, SameSelf, UnlockFacts
  <2> QED BY <2>1, <2>2, ReturnStep
<1> QED BY <1>1, <1>2, <1>3, <1>4, <1>5

\* chan_deliver_ring_to_receivers_locked, under the lock of its caller.
LEMMA DeliverStep ==
    ASSUME LockInv, NEW t \in Threads, DeliverClaim(t) \/ DeliverPop(t)
    PROVE  LockInv'
<1>1. th[t].pc \in {"deliver", "dPop"} /\ th[t].next \in {"sPark", "done"}
  BY DEF LockInv, LocksOf, DeliverClaim, DeliverPop, At
<1>2. SameLocks(ch')
  <2>1. PICK a : ch' = ch \/ ch' = [ch EXCEPT ![Chan(t)].rq = a] \/ ch' = [ch EXCEPT ![Chan(t)].buf = a]
    BY DEF DeliverClaim, DeliverPop
  <2>2. SameLocks([ch EXCEPT ![Chan(t)].rq = a]) /\ SameLocks([ch EXCEPT ![Chan(t)].buf = a])
    BY EditFacts
  <2> QED BY <2>1, <2>2, SameSelf
<1>3. Moves(t) /\ th'[t].pc \in {"deliver", "dPop", "sPark", "done"} /\ th'[t].next = th[t].next
  <2>1. PICK l, x : /\ th' = [th EXCEPT ![t].pc = l] \/ th' = [th EXCEPT ![t].pc = l, ![t].w = x]
                    /\ l \in {"deliver", "dPop", th[t].next}
    BY DEF DeliverClaim, DeliverPop, Goto
  <2>2. t \in DOMAIN th /\ ThreadShape(th[t]) /\ DOMAIN th = Threads
    BY DEF LockInv
  <2>3. Moves(t) /\ th'[t].pc = l /\ th'[t].next = th[t].next
    BY <2>1, <2>2 DEF Moves, ThreadShape
  <2> QED BY <1>1, <2>1, <2>3
<1> QED BY <1>1, <1>2, <1>3, Move DEF Lockless

\* The locked parts of chan_send on an unbuffered channel and of chan_recv,
\* chan_close, and the wake-ups: the lock is free before and after.
LEMMA DirectShort ==
    ASSUME LockInv, NEW t \in Threads, th[t].pc \in Lockless, th[t].pc # "idle", SameLocks(ch'),
           \/ \E i, res, W : Return(t, i, res, W)
           \/ \E x : th' = [th EXCEPT ![t].pc = "wake", ![t].w = x]
           \/ Goto(t, "parked")
    PROVE  LockInv'
<1>1. CASE \E i, res, W : Return(t, i, res, W)
  BY <1>1, ReturnStep
<1>2. CASE \E x : th' = [th EXCEPT ![t].pc = "wake", ![t].w = x]
  <2>1. PICK x : th' = [th EXCEPT ![t].pc = "wake", ![t].w = x]
    BY <1>2
  <2>2. t \in DOMAIN th /\ ThreadShape(th[t]) /\ DOMAIN th = Threads
    BY DEF LockInv
  <2>3. Moves(t) /\ th'[t].pc = "wake"
    BY <2>1, <2>2 DEF Moves, ThreadShape
  <2> QED BY <2>3, Move
<1>3. CASE Goto(t, "parked")
  <2>1. Moves(t) /\ th'[t].pc = "parked"
    BY <1>3, MoveForms DEF Goto
  <2> QED BY <2>1, Move
<1> QED BY <1>1, <1>2, <1>3

\* chan_send takes its lock: it keeps it on a buffered channel only.
LEMMA SendLockStep ==
    ASSUME LockInv, NEW t \in Threads, SendLock(t)
    PROVE  LockInv'
<1> DEFINE c == Chan(t)
<1>0. th[t].pc = "sLock" /\ th[t].pc \in Lockless
  BY DEF SendLock, At, Lockless
<1>1. CASE ch' = ch /\ Return(t, 1, "CLOSED", wt)
  BY <1>0, <1>1, SameSelf, DirectShort
<1>2. CASE Meet(t, First(ch[c].rq), Msg(t), [ch EXCEPT ![c].rq = Behind(@)])
  <2>1. PICK a : ch' = [ch EXCEPT ![c].rq = a]
    BY <1>2 DEF Meet
  <2>2. SameLocks(ch')
    BY <2>1, EditFacts
  <2>3. \E x : th' = [th EXCEPT ![t].pc = "wake", ![t].w = x]
    BY <1>2 DEF Meet
  <2> QED BY <1>0, <2>2, <2>3, DirectShort
<1>3. CASE Park(t, [ch EXCEPT ![c].rq = << >>, ![c].sq = Append(@, <<t, 1>>), ![c].sc = @ + 1])
  <2>1. PICK a, b : ch' = [ch EXCEPT ![c].rq = << >>, ![c].sq = a, ![c].sc = b]
    BY <1>3 DEF Park
  <2>2. SameLocks([ch EXCEPT ![c].rq = << >>, ![c].sq = a, ![c].sc = b])
    BY EditFacts
  <2>3. Goto(t, "parked")
    BY <1>3 DEF Park
  <2> QED BY <1>0, <2>1, <2>2, <2>3, DirectShort
<1>4. CASE /\ ch' = [ch EXCEPT ![c].lock = t, ![c].buf = IF Full(c) THEN @ ELSE Append(@, Msg(t))]
           /\ Deliver(t, IF Full(c) THEN "sPark" ELSE "done")
  <2>1. PICK a, x : /\ ch' = [ch EXCEPT ![c].lock = t, ![c].buf = a]
                    /\ th' = [th EXCEPT ![t].pc = "deliver", ![t].next = x]
                    /\ x \in {"sPark", "done"}
    BY <1>4 DEF Deliver
  <2> HIDE DEF c
  <2>2. /\ DOMAIN ch' = Chans /\ \A d \in Chans : ChanShape(ch'[d])
        /\ \A d \in Chans : ch'[d].lock \in {ch[d].lock, t, None}
    BY <2>1 DEF LockInv, ChanShape
  <2>3. t \in DOMAIN th /\ ThreadShape(th[t]) /\ DOMAIN th = Threads
    BY DEF LockInv
  <2>4. Moves(t) /\ th'[t].pc = "deliver" /\ th'[t].next = x
    BY <2>1, <2>3 DEF Moves, ThreadShape
  <2>5. /\ DOMAIN th' = Threads /\ \A u \in Threads : ThreadShape(th'[u])
        /\ \A u \in Threads : u # t => th'[u] = th[u]
    BY <2>4 DEF LockInv, Moves
  <2>6. LocksOf(t)'
    BY <1>0, <2>1, <2>4 DEF LocksOf, LockInv, At, Lockless, Moves
  <2> QED BY <2>2, <2>5, <2>6, LocksFrame
<1> QED BY <1>1, <1>2, <1>3, <1>4 DEF SendLock

\* The other direct steps.
LEMMA DirectRest ==
    ASSUME LockInv, NEW t \in Threads, RecvLock(t) \/ Wake(t) \/ Woken(t) \/ Close(t)
    PROVE  LockInv'
<1> DEFINE c == Chan(t)
<1>1. CASE RecvLock(t)
  <2>0. th[t].pc = "rLock" /\ th[t].pc \in Lockless
    BY <1>1 DEF RecvLock, At, Lockless
  <2>1. PICK a, b, d : \/ ch' = [ch EXCEPT ![c].sq = a]
                       \/ ch' = [ch EXCEPT ![c].sq = a, ![c].rq = b, ![c].rc = d]
    <3>1. \/ ch' = [ch EXCEPT ![c].sq = Behind(ch[c].sq)]
          \/ ch' = [ch EXCEPT ![c].sq = << >>]
          \/ ch' = [ch EXCEPT ![c].sq = << >>, ![c].rq = Append(ch[c].rq, <<t, 1>>), ![c].rc = ch[c].rc + 1]
      BY <1>1 DEF RecvLock, Park
    <3> QED BY <3>1
  <2>2. SameLocks([ch EXCEPT ![c].sq = a]) /\ SameLocks([ch EXCEPT ![c].sq = a, ![c].rq = b, ![c].rc = d])
    BY EditFacts
  <2>3. \/ \E i, res, W : Return(t, i, res, W)
        \/ \E x : th' = [th EXCEPT ![t].pc = "wake", ![t].w = x]
        \/ Goto(t, "parked")
    BY <1>1 DEF RecvLock, Park
  <2> QED BY <2>0, <2>1, <2>2, <2>3, DirectShort
<1>2. CASE Wake(t)
  <2>1. th[t].pc = "wake" /\ th[t].pc \in Lockless /\ ch' = ch
    BY <1>2 DEF Wake, At, Lockless
  <2>2. \E i, res, W : Return(t, i, res, W)
    BY <1>2 DEF Wake
  <2> QED BY <2>1, <2>2, SameSelf, DirectShort
<1>3. CASE Woken(t)
  <2>0. th[t].pc = "parked" /\ th[t].pc \in Lockless
    BY <1>3 DEF Woken, At, Lockless
  <2>1. PICK a : ch' = [ch EXCEPT ![c].sc = a] \/ ch' = [ch EXCEPT ![c].rc = a]
    BY <1>3 DEF Woken
  <2>2. SameLocks([ch EXCEPT ![c].sc = a]) /\ SameLocks([ch EXCEPT ![c].rc = a])
    BY EditFacts
  <2>3. \E i, res, W : Return(t, i, res, W)
    BY <1>3 DEF Woken
  <2> QED BY <2>0, <2>1, <2>2, <2>3, DirectShort
<1>4. CASE Close(t)
  <2>0. th[t].pc = "cLock" /\ th[t].pc \in Lockless
    BY <1>4 DEF Close, At, Lockless
  <2>1. PICK e : \/ ch' = ch
                 \/ ch' = [ch EXCEPT ![c].closed = TRUE, ![c].sq = << >>, ![c].rq = << >>, ![c].buf = e]
    <3>1. CASE ch' = ch
      BY <3>1
    <3>2. CASE ch' # ch
      <4>1. \E e : ch' = [ch EXCEPT ![c].closed = TRUE, ![c].sq = << >>, ![c].rq = << >>, ![c].buf = e]
        BY <1>4, <3>2 DEF Close
      <4> QED BY <4>1
    <3> QED BY <3>1, <3>2
  <2>2. SameLocks([ch EXCEPT ![c].closed = TRUE, ![c].sq = << >>, ![c].rq = << >>, ![c].buf = e])
    BY EditFacts
  <2>3. \E i, res, W : Return(t, i, res, W)
    BY <1>4 DEF Close
  <2> QED BY <2>0, <2>1, <2>2, <2>3, SameSelf, DirectShort
<1> QED BY <1>1, <1>2, <1>3, <1>4

------------------------------------------------------------------------------
(* The theorem.                                                            *)

\* Initially no lock is held.
LEMMA LockInit == Init => LockInv
<1> SUFFICES ASSUME Init PROVE LockInv
  OBVIOUS
<1>1. \A t \in Threads : prog[t] \in Seq(Calls)
  BY SelectAssumption DEF Init
<1>2. /\ DOMAIN ch = Chans /\ \A c \in Chans : ChanShape(ch[c]) /\ ch[c].lock = None
  BY DEF Init, ChanShape
<1>3. /\ DOMAIN th = Threads /\ \A t \in Threads : ThreadShape(th[t])
      /\ \A t \in Threads : th[t].pc = "idle" /\ th[t].todo = prog[t]
  BY DEF Init, ThreadShape
<1>4. ASSUME NEW t \in Threads PROVE LocksOf(t)
  BY <1>1, <1>2, <1>3, NotNone DEF LocksOf, At
<1> QED BY <1>2, <1>3, <1>4 DEF LockInv

\* Every step keeps the invariant.
LEMMA LockStepAll == LockInv /\ [Next]_vars => LockInv'
<1> SUFFICES ASSUME LockInv, [Next]_vars PROVE LockInv'
  OBVIOUS
<1>1. CASE Next
  <2>1. PICK t \in Threads : Begin(t) \/ SelectStep(t) \/ DirectStep(t)
    BY <1>1 DEF Next
  <2>2. CASE Begin(t)
    BY <2>2, BeginStep
  <2>3. CASE SelectStep(t)
    BY <2>3, FastStep, LockStep, LockedStep, ExecStep, WakeupStep DEF SelectStep
  <2>4. CASE DirectStep(t)
    BY <2>4, SendStep, DeliverStep, SendLockStep, DirectRest DEF DirectStep
  <2> QED BY <2>1, <2>2, <2>3, <2>4
<1>2. CASE UNCHANGED vars
  <2>1. ch' = ch /\ th' = th
    BY <1>2 DEF vars
  <2>2. \A t \in Threads : LockOrder(t)' = LockOrder(t)
    BY <2>1, SameOrder DEF This
  <2> QED BY <2>1, <2>2 DEF LockInv, LocksOf, At
<1> QED BY <1>1, <1>2

\* lock_all's order, unlock_all on every way out and the single locks of the
\* direct calls keep every set of threads from waiting for one another's locks
\* for ever, whatever the channels, the threads and their programs.
THEOREM LocksFree == Spec => []NoLockCycle
<1>1. Spec => []LockInv
  BY LockInit, LockStepAll, PTL DEF Spec
<1> QED BY <1>1, LockInvSafe, PTL
==============================================================================
