---------------------------- MODULE RingLF_refines ---------------------------
(***************************************************************************)
(* The lock-free ring implements the bounded FIFO queue of RingQueue, for  *)
(* every number of threads, every capacity, modulus and burst length.      *)
(***************************************************************************)
EXTENDS RingLF_proofs, SequenceTheorems

------------------------------------------------------------------------------
(* The positions of the ring as slots, and runs read from them.            *)

\* The slot of position x.
Slot(x) == x % Capacity

\* The n elements that start at position x of the buffer buf.
ReadFrom(buf, x, n) == [i \in 1..n |-> buf[SlotOf(x, i - 1)]]

Buffers == [0..(Capacity - 1) -> Items]

\* Slots exist, and positions less than a capacity apart have their own.
LEMMA SlotApart ==
    /\ \A x \in Nat : Slot(x) \in 0..(Capacity - 1)
    /\ \A x, y \in Nat : x - y < Capacity /\ y - x < Capacity /\ Slot(x) = Slot(y) => x = y
    /\ \A x \in Nat, i \in Nat : i < Capacity => SlotOf(x, i) = Slot(x + i)
<1>0. Capacity \in Nat /\ Capacity > 0
  BY SizeAssumption
<1>1. ASSUME NEW x \in Nat PROVE Slot(x) \in 0..(Capacity - 1)
  <2>1. x \in Int
    OBVIOUS
  <2> QED BY <1>0, <2>1, DivMod, Zenon DEF Slot
<1>2. ASSUME NEW x \in Nat, NEW y \in Nat, x - y < Capacity, y - x < Capacity, Slot(x) = Slot(y)
      PROVE  x = y
  <2>1. x \in Int /\ y \in Int
    OBVIOUS
  <2>2. x % Capacity = y % Capacity
    BY <1>2 DEF Slot
  <2> QED BY <1>0, <1>2, <2>1, <2>2, ModEq, Zenon
<1>3. ASSUME NEW x \in Nat, NEW i \in Nat, i < Capacity PROVE SlotOf(x, i) = Slot(x + i)
  BY <1>3, SlotFacts, Zenon DEF Slot
<1> QED BY <1>1, <1>2, <1>3

\* A run of at most Capacity elements is a sequence of them.
LEMMA ReadFacts ==
    ASSUME NEW buf \in Buffers, NEW x \in Nat, NEW n \in Nat, n <= Capacity
    PROVE  /\ ReadFrom(buf, x, n) \in Seq(Items)
           /\ Len(ReadFrom(buf, x, n)) = n
           /\ \A i \in 1..n : ReadFrom(buf, x, n)[i] = buf[Slot(x + (i - 1))]
<1> DEFINE r == ReadFrom(buf, x, n)
<1>0. Capacity \in Nat
  BY SizeAssumption
<1>1. ASSUME NEW i \in 1..n
      PROVE  r[i] = buf[Slot(x + (i - 1))] /\ r[i] \in Items
  <2>1. i - 1 \in Nat /\ i - 1 < Capacity /\ x + (i - 1) \in Nat
    BY <1>0
  <2>2. r[i] = buf[SlotOf(x, i - 1)]
    BY DEF ReadFrom
  <2>3. SlotOf(x, i - 1) = Slot(x + (i - 1)) /\ Slot(x + (i - 1)) \in 0..(Capacity - 1)
    BY <2>1, SlotApart
  <2> QED BY <2>2, <2>3 DEF Buffers
<1>2. r \in [1..n -> Items]
  <2>1. r = [i \in 1..n |-> r[i]]
    BY DEF ReadFrom
  <2> HIDE DEF r
  <2> QED BY <1>1, <2>1
<1> HIDE DEF r
<1>3. r \in Seq(Items)
  BY <1>2, SeqDef
<1>4. Len(r) = n
  BY <1>2, <1>3, LenProperties
<1> QED BY <1>1, <1>3, <1>4 DEF r

\* The empty run.
LEMMA ReadEmpty == \A buf, x : ReadFrom(buf, x, 0) = << >>
<1> SUFFICES ASSUME NEW buf, NEW x PROVE ReadFrom(buf, x, 0) = << >>
  OBVIOUS
<1>1. 1..0 = {}
  OBVIOUS
<1> QED BY <1>1 DEF ReadFrom

\* A run is its first m elements followed by the others.
LEMMA ReadSplit ==
    ASSUME NEW buf \in Buffers, NEW x \in Nat, NEW m \in Nat, NEW n \in Nat, m + n <= Capacity
    PROVE  /\ ReadFrom(buf, x, m + n) = ReadFrom(buf, x, m) \o ReadFrom(buf, x + m, n)
           /\ SubSeq(ReadFrom(buf, x, m + n), 1, m) = ReadFrom(buf, x, m)
           /\ SubSeq(ReadFrom(buf, x, m + n), m + 1, m + n) = ReadFrom(buf, x + m, n)
<1> DEFINE r == ReadFrom(buf, x, m + n)
           a == ReadFrom(buf, x, m)
           b == ReadFrom(buf, x + m, n)
<1>0. Capacity \in Nat /\ m + n \in Nat /\ x + m \in Nat /\ m <= Capacity /\ n <= Capacity
  BY SizeAssumption
<1>1. r \in Seq(Items) /\ Len(r) = m + n /\ \A i \in 1..(m + n) : r[i] = buf[Slot(x + (i - 1))]
  BY <1>0, ReadFacts
<1>2. a \in Seq(Items) /\ Len(a) = m /\ \A i \in 1..m : a[i] = buf[Slot(x + (i - 1))]
  BY <1>0, ReadFacts
<1>3. b \in Seq(Items) /\ Len(b) = n /\ \A i \in 1..n : b[i] = buf[Slot((x + m) + (i - 1))]
  BY <1>0, ReadFacts
<1> HIDE DEF r, a, b
<1>4. \A i \in 1..m : r[i] = a[i]
  <2> TAKE i \in 1..m
  <2>1. i \in 1..(m + n)
    OBVIOUS
  <2> QED BY <1>1, <1>2, <2>1
<1>5. \A i \in 1..n : r[m + i] = b[i]
  <2> TAKE i \in 1..n
  <2>1. m + i \in 1..(m + n) /\ x + ((m + i) - 1) = (x + m) + (i - 1)
    OBVIOUS
  <2> QED BY <1>1, <1>3, <2>1
<1>6. r = a \o b
  <2> DEFINE c == a \o b
  <2>1. /\ c \in Seq(Items) /\ Len(c) = m + n
        /\ \A i \in 1..(m + n) : c[i] = IF i <= m THEN a[i] ELSE b[i - m]
    BY <1>2, <1>3, ConcatProperties
  <2> HIDE DEF c
  <2>2. ASSUME NEW i \in 1..(m + n) PROVE r[i] = c[i]
    <3>1. CASE i <= m
      BY <1>4, <2>1, <3>1
    <3>2. CASE ~(i <= m)
      <4>1. i - m \in 1..n /\ m + (i - m) = i
        BY <3>2
      <4>2. r[m + (i - m)] = b[i - m]
        BY <1>5, <4>1
      <4> QED BY <2>1, <3>2, <4>1, <4>2
    <3> QED BY <3>1, <3>2
  <2> QED BY <1>1, <2>1, <2>2, SeqEqual DEF c
<1>7. SubSeq(r, 1, m) = a
  <2> DEFINE c == SubSeq(r, 1, m)
  <2>1. \A i \in 1..m : r[i] \in Items
    BY <1>0, <1>1, ElementOfSeq
  <2>2. 1 \in Int /\ m \in Int
    OBVIOUS
  <2>3. /\ c \in Seq(Items) /\ Len(c) = IF 1 <= m THEN m - 1 + 1 ELSE 0
        /\ \A i \in 1..(m - 1 + 1) : c[i] = r[1 + i - 1]
    BY <2>1, <2>2, SubSeqProperties
  <2> HIDE DEF c
  <2>4. Len(c) = m /\ \A i \in 1..m : c[i] = r[i]
    BY <2>3
  <2> QED BY <1>2, <1>4, <2>3, <2>4, SeqEqual DEF c
<1>8. SubSeq(r, m + 1, m + n) = b
  <2> DEFINE c == SubSeq(r, m + 1, m + n)
  <2>1. \A i \in (m + 1)..(m + n) : r[i] \in Items
    BY <1>0, <1>1, ElementOfSeq
  <2>2. m + 1 \in Int /\ m + n \in Int
    OBVIOUS
  <2>3. /\ c \in Seq(Items) /\ Len(c) = IF m + 1 <= m + n THEN (m + n) - (m + 1) + 1 ELSE 0
        /\ \A i \in 1..((m + n) - (m + 1) + 1) : c[i] = r[(m + 1) + i - 1]
    BY <2>1, <2>2, SubSeqProperties
  <2> HIDE DEF c
  <2>4. Len(c) = n
    BY <2>3
  <2>5. \A i \in 1..n : c[i] = r[m + i]
    <3> TAKE i \in 1..n
    <3>1. i \in 1..((m + n) - (m + 1) + 1) /\ (m + 1) + i - 1 = m + i
      OBVIOUS
    <3> QED BY <2>3, <3>1
  <2> QED BY <1>3, <1>5, <2>3, <2>4, <2>5, SeqEqual DEF c
<1> QED BY <1>6, <1>7, <1>8 DEF r, a, b

\* Writing at a position outside a run, less than a capacity away from all of
\* it, leaves the run as it was.
LEMMA WriteElsewhere ==
    ASSUME NEW buf \in Buffers, NEW x \in Nat, NEW n \in Nat, n <= Capacity,
           NEW y \in Nat, NEW v \in Items,
           x + n <= y, y - x < Capacity
    PROVE  ReadFrom([buf EXCEPT ![Slot(y)] = v], x, n) = ReadFrom(buf, x, n)
<1> DEFINE new == [buf EXCEPT ![Slot(y)] = v]
           a == ReadFrom(new, x, n)
           b == ReadFrom(buf, x, n)
<1>0. Capacity \in Nat /\ Slot(y) \in 0..(Capacity - 1)
  BY SizeAssumption, SlotApart
<1>1. new \in Buffers /\ \A s \in 0..(Capacity - 1) : s # Slot(y) => new[s] = buf[s]
  BY <1>0 DEF Buffers
<1> HIDE DEF new
<1>2. a \in Seq(Items) /\ Len(a) = n /\ \A i \in 1..n : a[i] = new[Slot(x + (i - 1))]
  BY <1>1, ReadFacts
<1>3. b \in Seq(Items) /\ Len(b) = n /\ \A i \in 1..n : b[i] = buf[Slot(x + (i - 1))]
  BY ReadFacts
<1> HIDE DEF a, b
<1>4. ASSUME NEW i \in 1..n PROVE a[i] = b[i]
  <2> DEFINE z == x + (i - 1)
  <2>1. z \in Nat /\ z # y /\ z - y < Capacity /\ y - z < Capacity
    BY <1>0
  <2> HIDE DEF z
  <2>2. Slot(z) # Slot(y) /\ Slot(z) \in 0..(Capacity - 1)
    BY <2>1, SlotApart
  <2>3. new[Slot(z)] = buf[Slot(z)]
    BY <1>1, <2>2
  <2> QED BY <1>2, <1>3, <2>3 DEF z
<1>5. a = b
  BY <1>2, <1>3, <1>4, SeqEqual
<1> QED BY <1>5 DEF a, b, new

------------------------------------------------------------------------------
(* The steps that move no message.                                         *)

\* A thread outside its copy loop moves, or enters it as a producer.
Aside(t, f) ==
    /\ call' = [call EXCEPT ![t] = f]
    /\ call[t].pc # "copy"
    /\ f.pc = "copy" => t \in Producers /\ f.done = 0
    /\ UNCHANGED <<prodTail, consHead, slots, sent, got>>

\* Every step is such a step or one of the five that touch messages.
LEMMA StepKinds ==
    ASSUME Inv, [Next]_vars
    PROVE  \/ UNCHANGED vars
           \/ \E t \in Threads, f \in Calls : Aside(t, f)
           \/ \E p \in Producers : CopyIn(p) \/ CommitProd(p)
           \/ \E c \in Consumers : CasConsHead(c) \/ CopyOut(c) \/ CommitCons(c)
<1> USE InvFacts
<1>0. NoCall \in Calls /\ NoCall.pc = "idle"
  BY BoundAssumption DEF NoCall, Calls
<1>a. ASSUME NEW t \in Threads, call[t].pc # "copy", Return(t), UNCHANGED <<cursors, slots, sent, got>>
      PROVE  Aside(t, NoCall)
  BY <1>0, <1>a DEF Aside, Return, cursors
<1>b. ASSUME NEW t \in Threads, NEW o \in {"one", "burst"}, NEW n \in 1..MaxBurst, Call(t, o, n)
      PROVE  \E f \in Calls : Aside(t, f)
  <2> DEFINE f == [call[t] EXCEPT !.pc = "load", !.op = o, !.n = n]
  <2>1. f \in Calls /\ f.pc = "load"
    BY DEF Calls
  <2>2. Aside(t, f)
    BY <1>b, <2>1 DEF Aside, Call, cursors
  <2> QED BY <2>1, <2>2
<1>c. ASSUME NEW t \in Threads, NEW head \in Nat, LoadHead(t, head)
      PROVE  \E f \in Calls : Aside(t, f)
  <2> DEFINE f == [call[t] EXCEPT !.pc = "check", !.old = head]
  <2>1. f \in Calls /\ f.pc = "check"
    BY DEF Calls
  <2>2. Aside(t, f)
    BY <1>c, <2>1 DEF Aside, LoadHead, cursors
  <2> QED BY <2>1, <2>2
<1>d. ASSUME NEW t \in Threads, CasFails(t)
      PROVE  \E f \in Calls : Aside(t, f)
  <2> DEFINE f == [call[t] EXCEPT !.pc = "load"]
  <2>1. f \in Calls /\ f.pc = "load"
    BY DEF Calls
  <2>2. Aside(t, f)
    BY <1>d, <2>1 DEF Aside, CasFails, cursors
  <2> QED BY <2>1, <2>2
<1>e. ASSUME NEW t \in Threads, NEW limit \in Nat, call[t].pc = "check", Take(t, limit)
      PROVE  \E f \in Calls : Aside(t, f)
  <2> DEFINE k == IF call[t].op = "one" \/ call[t].n < limit THEN call[t].n ELSE limit
             f == [call[t] EXCEPT !.pc = "cas", !.k = k]
  <2>0. k \in Nat
    BY DEF Calls
  <2>1. f \in Calls /\ f.pc = "cas"
    BY <2>0 DEF Calls
  <2>2. Aside(t, f)
    BY <1>e, <2>1 DEF Aside, Take, cursors
  <2> QED BY <2>1, <2>2
<1>f. ASSUME NEW p \in Producers, CasProdHead(p)
      PROVE  \E f \in Calls : Aside(p, f)
  <2> DEFINE f == [call[p] EXCEPT !.pc = "copy"]
  <2>0. p \in Threads /\ call[p] \in Calls /\ call[p].pc = "cas" /\ call[p].done = 0
    BY <1>f DEF CasProdHead, CasHead, Side, Local
  <2>1. f \in Calls /\ f.done = call[p].done
    BY <2>0 DEF Calls
  <2>2. Aside(p, f)
    BY <1>f, <2>0, <2>1 DEF Aside, CasProdHead, CasHead
  <2> QED BY <2>1, <2>2
<1>1. ASSUME NEW p \in Producers, ProducerStep(p), ~CopyIn(p), ~CommitProd(p)
      PROVE  \E f \in Calls : Aside(p, f)
  <2>0. p \in Threads
    OBVIOUS
  <2>1. CASE LoadProdHead(p)
    BY <1>c, <2>0, <2>1 DEF LoadProdHead
  <2>2. CASE ReturnFull(p)
    BY <1>0, <1>a, <2>0, <2>2 DEF ReturnFull, AtCheck
  <2>3. CASE CheckFree(p)
    <3>1. call[p].pc = "check" /\ Take(p, FreeEntries(p))
      BY <2>3 DEF CheckFree, AtCheck
    <3>2. FreeEntries(p) \in Nat
      BY <3>1, FreeFacts
    <3> QED BY <1>e, <2>0, <3>1, <3>2
  <2> QED BY <1>1, <1>d, <1>f, <2>0, <2>1, <2>2, <2>3 DEF ProducerStep
<1>2. ASSUME NEW c \in Consumers, ConsumerStep(c), ~CasConsHead(c), ~CopyOut(c), ~CommitCons(c)
      PROVE  \E f \in Calls : Aside(c, f)
  <2>0. c \in Threads
    OBVIOUS
  <2>1. CASE LoadConsHead(c)
    BY <1>c, <2>0, <2>1 DEF LoadConsHead
  <2>2. CASE ReturnEmpty(c)
    BY <1>0, <1>a, <2>0, <2>2 DEF ReturnEmpty, AtCheck
  <2>3. CASE CheckAvail(c)
    <3>1. call[c].pc = "check" /\ Take(c, Avail(c))
      BY <2>3 DEF CheckAvail, AtCheck
    <3>2. Avail(c) \in Nat
      BY <3>1, AvailFacts
    <3> QED BY <1>e, <2>0, <3>1, <3>2
  <2> QED BY <1>2, <1>d, <2>0, <2>1, <2>2, <2>3 DEF ConsumerStep
<1>3. ASSUME NEW o \in Observers, CountLoadTail(o) \/ CountLoadHead(o)
      PROVE  o \in Threads /\ \E f \in Calls : Aside(o, f)
  <2> DEFINE f == [call[o] EXCEPT !.pc = "count", !.old = prodTail]
  <2>0. o \in Threads
    BY DEF Threads
  <2>1. f \in Calls /\ f.pc = "count"
    BY <2>0 DEF Calls
  <2>2. CASE CountLoadTail(o)
    <3>1. Aside(o, f)
      BY <2>1, <2>2 DEF Aside, CountLoadTail, cursors
    <3> QED BY <2>0, <2>1, <3>1
  <2>3. CASE CountLoadHead(o)
    BY <1>0, <1>a, <2>0, <2>3 DEF CountLoadHead
  <2> QED BY <1>3, <2>2, <2>3
<1>4. \A p \in Producers : \A o \in {"one", "burst"}, n \in 1..MaxBurst :
          CallPush(p, o, n) => \E f \in Calls : Aside(p, f)
  BY <1>b DEF CallPush
<1>5. \A c \in Consumers : \A o \in {"one", "burst"}, n \in 1..MaxBurst :
          CallPop(c, o, n) => \E f \in Calls : Aside(c, f)
  BY <1>b DEF CallPop
<1> QED BY <1>1, <1>2, <1>3, <1>4, <1>5 DEF Next

------------------------------------------------------------------------------
(* A producer's copies survive until its commit.                           *)

\* What CopyIn does, in terms of positions.
LEMMA CopyInFacts ==
    ASSUME Inv, NEW p \in Producers, CopyIn(p)
    PROVE  LET y == call[p].old + call[p].done
               v == <<p, sent[p] + call[p].done + 1>>
           IN  /\ y \in Nat /\ v \in Items
               /\ prodTail <= y /\ y < prodHead
               /\ slots' = [slots EXCEPT ![Slot(y)] = v]
<1> USE InvFacts
<1>1. /\ call[p] \in Calls /\ call[p].pc = "copy" /\ call[p].done < call[p].k
      /\ slots' = [slots EXCEPT ![SlotOf(call[p].old, call[p].done)] = <<p, sent[p] + call[p].done + 1>>]
  BY DEF CopyIn, Copying
<1>2. /\ call[p].k <= call[p].n /\ sent[p] + call[p].n <= MaxItems /\ sent[p] \in Nat
      /\ prodTail <= call[p].old /\ call[p].old + call[p].k <= prodHead
  BY <1>1 DEF Inv, TypeOK, Side, Local
<1>3. /\ call[p].old \in Nat /\ call[p].done \in Nat /\ call[p].k \in Nat /\ call[p].n \in Nat
  BY <1>1 DEF Calls
<1>4. <<p, sent[p] + call[p].done + 1>> \in Items
  <2>1. sent[p] + call[p].done + 1 \in 1..MaxItems
    BY <1>1, <1>2, <1>3, BoundAssumption
  <2> QED BY <2>1 DEF Items
<1>5. call[p].done < Capacity
  BY <1>1, <1>2, <1>3, SizeAssumption
<1>6. SlotOf(call[p].old, call[p].done) = Slot(call[p].old + call[p].done)
  BY <1>3, <1>5, SlotApart
<1> QED BY <1>1, <1>2, <1>3, <1>4, <1>6

\* The copies of q survive a step that leaves its slots and its call alone.
LEMMA CopiedFrame ==
    ASSUME Inv, Copied, NEW q \in Producers, call[q].pc = "copy",
           call'[q] = call[q], sent'[q] = sent[q],
           \A i \in 0..(call[q].done - 1) :
               slots'[SlotOf(call[q].old, i)] = slots[SlotOf(call[q].old, i)]
    PROVE  \A i \in 0..(call'[q].done - 1) :
               slots'[SlotOf(call'[q].old, i)] = <<q, sent'[q] + i + 1>>
BY DEF Copied

\* Every step keeps Copied.
LEMMA CopiedStep == Inv /\ Copied /\ [Next]_vars => Copied'
<1> SUFFICES ASSUME Inv, Copied, [Next]_vars PROVE Copied'
  OBVIOUS
<1> USE InvFacts
<1>0. \A o : \A i : SlotOf(o, i)' = SlotOf(o, i)
  BY DEF SlotOf, U32
<1>S. SUFFICES ASSUME NEW q \in Producers, call'[q].pc = "copy"
               PROVE  \A i \in 0..(call'[q].done - 1) :
                         slots'[SlotOf(call'[q].old, i)] = <<q, sent'[q] + i + 1>>
  BY DEF Copied, SlotOf, U32
<1>1. CASE UNCHANGED vars
  <2>1. call' = call /\ sent' = sent /\ slots' = slots
    BY <1>1 DEF vars
  <2> QED BY <1>S, <2>1, CopiedFrame
<1>2. ASSUME NEW t \in Threads, NEW f \in Calls, Aside(t, f)
      PROVE  \A i \in 0..(call'[q].done - 1) :
                slots'[SlotOf(call'[q].old, i)] = <<q, sent'[q] + i + 1>>
  <2>1. slots' = slots /\ sent' = sent
    BY <1>2 DEF Aside
  <2>2. CASE q = t
    <3>1. call'[q].done = 0
      BY <1>S, <1>2, <2>2 DEF Aside
    <3>2. 0..(0 - 1) = {}
      OBVIOUS
    <3> QED BY <3>1, <3>2
  <2>3. CASE q # t
    <3>1. call'[q] = call[q]
      BY <1>2, <2>3 DEF Aside
    <3> QED BY <1>S, <2>1, <3>1, CopiedFrame
  <2> QED BY <2>2, <2>3
<1>3. ASSUME NEW p \in Producers, CopyIn(p)
      PROVE  \A i \in 0..(call'[q].done - 1) :
                slots'[SlotOf(call'[q].old, i)] = <<q, sent'[q] + i + 1>>
  <2> DEFINE y == call[p].old + call[p].done
             v == <<p, sent[p] + call[p].done + 1>>
  <2>1. /\ y \in Nat /\ v \in Items /\ prodTail <= y /\ y < prodHead
        /\ slots' = [slots EXCEPT ![Slot(y)] = v]
    BY <1>3, CopyInFacts
  <2>2. /\ call[p].pc = "copy" /\ call[p].done < call[p].k
        /\ call' = [call EXCEPT ![p] = [call[p] EXCEPT !.done = call[p].done + 1]]
        /\ sent' = sent
    BY <1>3 DEF CopyIn, Copying, CopyOne
  <2>3. /\ call[p] \in Calls /\ call[q] \in Calls
        /\ call[p].old \in Nat /\ call[p].done \in Nat /\ call[p].k \in Nat
        /\ call[q].old \in Nat /\ call[q].done \in Nat /\ call[q].k \in Nat
    BY DEF Calls
  <2>4. call[q].pc = "copy"
    BY <1>S, <2>2, <2>3 DEF Calls
  <2>5. /\ prodTail <= call[q].old /\ call[q].old + call[q].k <= prodHead /\ call[q].done <= call[q].k
    BY <2>4 DEF Side, Local
  <2>6. slots \in Buffers /\ Slot(y) \in 0..(Capacity - 1)
    BY <2>1, SlotApart DEF Inv, TypeOK, Buffers
  <2>7. ASSUME NEW i \in 0..(call[q].done - 1), call[q].old + i # y
        PROVE  slots'[SlotOf(call[q].old, i)] = slots[SlotOf(call[q].old, i)]
    <3> DEFINE z == call[q].old + i
    <3>1. z \in Nat /\ z # y /\ z - y < Capacity /\ y - z < Capacity /\ i \in Nat /\ i < Capacity
      BY <2>1, <2>3, <2>5, <2>7, SizeAssumption
    <3>2. SlotOf(call[q].old, i) = Slot(z)
      BY <2>3, <3>1, SlotApart
    <3> HIDE DEF z, y
    <3>3. Slot(z) # Slot(y) /\ Slot(z) \in 0..(Capacity - 1)
      BY <2>1, <3>1, SlotApart
    <3> HIDE DEF v
    <3>4. slots'[Slot(z)] = slots[Slot(z)]
      BY <2>1, <2>6, <3>3 DEF Buffers
    <3> QED BY <3>2, <3>4
  <2>8. CASE q # p
    <3>1. call'[q] = call[q] /\ sent'[q] = sent[q]
      BY <2>2, <2>8
    <3>2. \/ call[p].old + call[p].k <= call[q].old
          \/ call[q].old + call[q].k <= call[p].old
      BY <2>2, <2>4, <2>8 DEF Side, Disjoint
    <3>3. \A i \in 0..(call[q].done - 1) : call[q].old + i # y
      BY <2>2, <2>3, <2>5, <3>2
    <3> HIDE DEF y, v
    <3> QED BY <2>4, <2>7, <3>1, <3>3, CopiedFrame
  <2>9. CASE q = p
    <3>1. call'[p].done = call[p].done + 1 /\ call'[p].old = call[p].old /\ sent'[p] = sent[p]
      BY <2>2, <2>3 DEF Calls
    <3> SUFFICES ASSUME NEW i \in 0..call[p].done
                 PROVE  slots'[SlotOf(call[p].old, i)] = <<p, sent[p] + i + 1>>
      BY <2>3, <2>9, <3>1
    <3>2. CASE i = call[p].done
      <4>1. SlotOf(call[p].old, i) = Slot(y)
        <5>1. i \in Nat /\ i < Capacity
          BY <2>2, <2>3, <2>5, <2>9, <3>2, SizeAssumption
        <5> QED BY <2>3, <3>2, <5>1, SlotApart
      <4> HIDE DEF y
      <4>2. slots'[Slot(y)] = v
        BY <2>1, <2>6 DEF Buffers
      <4> QED BY <3>2, <4>1, <4>2
    <3>3. CASE i # call[p].done
      <4>1. i \in 0..(call[p].done - 1) /\ call[p].old + i # y
        BY <2>3, <3>3
      <4>2. slots'[SlotOf(call[p].old, i)] = slots[SlotOf(call[p].old, i)]
        BY <2>7, <2>9, <4>1
      <4> QED BY <2>2, <4>1, <4>2 DEF Copied
    <3> QED BY <3>2, <3>3
  <2> QED BY <2>8, <2>9
<1>4. ASSUME NEW p \in Producers, CommitProd(p)
      PROVE  \A i \in 0..(call'[q].done - 1) :
                slots'[SlotOf(call'[q].old, i)] = <<q, sent'[q] + i + 1>>
  <2>1. q # p
    BY <1>S, <1>4 DEF CommitProd, Return, NoCall
  <2>2. call'[q] = call[q] /\ sent'[q] = sent[q] /\ slots' = slots
    BY <1>4, <2>1 DEF CommitProd, Return, Inv, TypeOK
  <2> QED BY <1>S, <2>2, CopiedFrame
<1>5. ASSUME NEW c \in Consumers, CasConsHead(c) \/ CopyOut(c) \/ CommitCons(c)
      PROVE  \A i \in 0..(call'[q].done - 1) :
                slots'[SlotOf(call'[q].old, i)] = <<q, sent'[q] + i + 1>>
  <2>1. call'[q] = call[q] /\ sent' = sent /\ slots' = slots
    BY <1>5, ThreadsAssumption DEF CasConsHead, CasHead, CopyOut, CopyOne, CommitCons, Return
  <2> QED BY <1>S, <2>1, CopiedFrame
<1> QED BY <1>1, <1>2, <1>3, <1>4, <1>5, StepKinds

\* What a producer has copied of its run is in its slots until it commits.
THEOREM CopiesKept == Spec => []Copied
<1>1. Init => Copied
  BY DEF Init, Copied, NoCall, Threads
<1> QED BY <1>1, CopiedStep, Invariance, PTL DEF Spec

------------------------------------------------------------------------------
(* The refinement.                                                         *)

\* The abstract queue and the abstract history of the consumers.
QueueBar == Read(consHead, prodTail - consHead)
GotBar == [c \in Consumers |-> got[c] \o Pending(c)]

\* The abstract state before and after a step, read from the buffer.
LEMMA BarFacts ==
    /\ QueueBar = ReadFrom(slots, consHead, prodTail - consHead)
    /\ QueueBar' = ReadFrom(slots', consHead', prodTail' - consHead')
    /\ \A c \in Consumers : call[c].pc = "copy" =>
          GotBar[c] = got[c] \o ReadFrom(slots, call[c].old + call[c].done, call[c].k - call[c].done)
    /\ \A c \in Consumers : call'[c].pc = "copy" =>
          GotBar'[c] = got'[c] \o ReadFrom(slots', call'[c].old + call'[c].done, call'[c].k - call'[c].done)
    /\ \A c \in Consumers : call[c].pc # "copy" => GotBar[c] = got[c] \o << >>
    /\ \A c \in Consumers : call'[c].pc # "copy" => GotBar'[c] = got'[c] \o << >>
    /\ GotBar = [c \in Consumers |-> GotBar[c]] /\ GotBar' = [c \in Consumers |-> GotBar'[c]]
BY DEF QueueBar, GotBar, Pending, Read, ReadFrom, SlotOf, U32

\* What the invariant says of the abstract queue and of a consumer's run.
LEMMA RunFacts ==
    ASSUME Inv
    PROVE  /\ slots \in Buffers
           /\ prodTail - consHead \in Nat /\ prodTail - consHead <= Capacity
           /\ \A c \in Consumers :
                 /\ got[c] \in Seq(Items)
                 /\ call[c].old \in Nat /\ call[c].done \in Nat /\ call[c].k \in Nat
                 /\ call[c].pc = "copy" =>
                       /\ call[c].old + call[c].done \in Nat
                       /\ call[c].k - call[c].done \in Nat
                       /\ call[c].k <= Capacity
                       /\ consTail <= call[c].old /\ call[c].old + call[c].k <= consHead
<1> USE InvFacts, SizeAssumption
<1>1. slots \in Buffers /\ \A c \in Consumers : got[c] \in Seq(Items)
  BY DEF Inv, TypeOK, Buffers
<1>2. prodTail - consHead \in Nat /\ prodTail - consHead <= Capacity
  OBVIOUS
<1>3. ASSUME NEW c \in Consumers
      PROVE  /\ call[c].old \in Nat /\ call[c].done \in Nat /\ call[c].k \in Nat
             /\ call[c].pc = "copy" =>
                   /\ call[c].old + call[c].done \in Nat
                   /\ call[c].k - call[c].done \in Nat
                   /\ call[c].k <= Capacity
                   /\ consTail <= call[c].old /\ call[c].old + call[c].k <= consHead
  <2>1. call[c].old \in Nat /\ call[c].done \in Nat /\ call[c].k \in Nat
    BY DEF Calls
  <2>2. call[c].pc = "copy" => /\ call[c].done <= call[c].k
                               /\ consTail <= call[c].old /\ call[c].old + call[c].k <= consHead
    BY DEF Side, Local
  <2> QED BY <2>1, <2>2
<1> QED BY <1>1, <1>2, <1>3

\* A step that leaves consumer c and all slots alone leaves its history.
LEMMA SameGot ==
    ASSUME NEW c \in Consumers, call'[c] = call[c], got'[c] = got[c], slots' = slots
    PROVE  GotBar'[c] = GotBar[c]
BY BarFacts

\* Two abstract histories that agree everywhere are the same.
LEMMA GotExt ==
    ASSUME \A c \in Consumers : GotBar'[c] = GotBar[c]
    PROVE  GotBar' = GotBar
BY BarFacts

\* Moves outside the copy loops are invisible.
LEMMA AsideStutters ==
    ASSUME Inv, NEW t \in Threads, NEW f \in Calls, Aside(t, f)
    PROVE  QueueBar' = QueueBar /\ sent' = sent /\ GotBar' = GotBar
<1>1. /\ slots' = slots /\ consHead' = consHead /\ prodTail' = prodTail /\ sent' = sent /\ got' = got
      /\ call' = [call EXCEPT ![t] = f] /\ call[t].pc # "copy" /\ (f.pc = "copy" => t \in Producers)
  BY DEF Aside
<1>2. QueueBar' = QueueBar
  BY <1>1, BarFacts
<1>3. ASSUME NEW c \in Consumers PROVE GotBar'[c] = GotBar[c]
  <2>1. CASE c = t
    <3>1. call'[c] = f /\ f.pc # "copy"
      BY <1>1, <2>1, InvFacts, ThreadsAssumption
    <3> QED BY <1>1, <2>1, <3>1, BarFacts
  <2>2. CASE c # t
    <3>1. call'[c] = call[c] /\ got'[c] = got[c]
      BY <1>1, <2>2, InvFacts
    <3> QED BY <1>1, <3>1, SameGot
  <2> QED BY <2>1, <2>2
<1> QED BY <1>1, <1>2, <1>3, GotExt

\* Copying in is invisible: the written slot is in nobody's view.
LEMMA CopyInStutters ==
    ASSUME Inv, NEW p \in Producers, CopyIn(p)
    PROVE  QueueBar' = QueueBar /\ sent' = sent /\ GotBar' = GotBar
<1>0. /\ slots \in Buffers /\ Capacity \in Nat
      /\ prodHead \in Nat /\ prodTail \in Nat /\ consHead \in Nat /\ consTail \in Nat
      /\ consTail <= consHead /\ consHead <= prodTail /\ prodHead <= consTail + Capacity
  BY InvFacts, RunFacts, SizeAssumption
<1> DEFINE y == call[p].old + call[p].done
           v == <<p, sent[p] + call[p].done + 1>>
<1>1. /\ y \in Nat /\ v \in Items /\ prodTail <= y /\ y < prodHead
      /\ slots' = [slots EXCEPT ![Slot(y)] = v]
  BY CopyInFacts
<1>2. /\ UNCHANGED <<prodTail, consHead, sent, got>>
      /\ \A c \in Consumers : call'[c] = call[c]
  BY ThreadsAssumption DEF CopyIn, CopyOne, cursors
<1> HIDE DEF y, v
<1>3. QueueBar' = QueueBar
  <2> DEFINE n == prodTail - consHead
  <2>1. n \in Nat /\ n <= Capacity /\ consHead + n <= y /\ y - consHead < Capacity
    BY <1>0, <1>1, RunFacts
  <2> HIDE DEF n
  <2>2. ReadFrom([slots EXCEPT ![Slot(y)] = v], consHead, n) = ReadFrom(slots, consHead, n)
    <3>1. slots \in Buffers /\ consHead \in Nat /\ y \in Nat /\ v \in Items
      BY <1>0, <1>1
    <3> QED BY <2>1, <3>1, WriteElsewhere
  <2> QED BY <1>1, <1>2, <2>2, BarFacts DEF n
<1>4. ASSUME NEW c \in Consumers PROVE GotBar'[c] = GotBar[c]
  <2>1. CASE call[c].pc = "copy"
    <3> DEFINE x == call[c].old + call[c].done
               n == call[c].k - call[c].done
    <3>0. /\ call[c].old \in Nat /\ call[c].done \in Nat /\ call[c].k \in Nat
          /\ call[c].k - call[c].done \in Nat /\ call[c].k <= Capacity
          /\ consTail <= call[c].old /\ call[c].old + call[c].k <= consHead
      BY <2>1, RunFacts
    <3>1. x \in Nat /\ n \in Nat /\ n <= Capacity /\ x + n <= y /\ y - x < Capacity
      BY <1>0, <1>1, <3>0
    <3>2. GotBar[c] = got[c] \o ReadFrom(slots, x, n)
      BY <2>1, BarFacts
    <3>3. GotBar'[c] = got[c] \o ReadFrom(slots', x, n)
      BY <1>2, <2>1, BarFacts
    <3> HIDE DEF x, n
    <3>4. ReadFrom([slots EXCEPT ![Slot(y)] = v], x, n) = ReadFrom(slots, x, n)
      <4>1. slots \in Buffers /\ y \in Nat /\ v \in Items
        BY <1>0, <1>1
      <4> QED BY <3>1, <4>1, WriteElsewhere
    <3> QED BY <1>1, <3>2, <3>3, <3>4
  <2>2. CASE call[c].pc # "copy"
    BY <1>2, <2>2, BarFacts
  <2> QED BY <2>1, <2>2
<1> QED BY <1>2, <1>3, <1>4, GotExt

\* Copying out is invisible: the message moves from the consumer's pending
\* run to its history.
LEMMA CopyOutStutters ==
    ASSUME Inv, NEW c \in Consumers, CopyOut(c)
    PROVE  QueueBar' = QueueBar /\ sent' = sent /\ GotBar' = GotBar
<1>0. slots \in Buffers /\ Capacity \in Nat /\ got[c] \in Seq(Items)
  BY RunFacts, SizeAssumption
<1> DEFINE x == call[c].old + call[c].done
           n == call[c].k - call[c].done - 1
           item == slots[SlotOf(call[c].old, call[c].done)]
<1>1. /\ c \in Threads /\ call[c] \in Calls /\ call[c].pc = "copy" /\ call[c].done < call[c].k
      /\ call' = [call EXCEPT ![c] = [call[c] EXCEPT !.done = call[c].done + 1]]
      /\ got' = [got EXCEPT ![c] = Append(got[c], item)]
      /\ UNCHANGED <<prodTail, consHead, slots, sent>>
  BY InvFacts DEF CopyOut, Copying, CopyOne, cursors
<1>2. QueueBar' = QueueBar
  BY <1>1, BarFacts
<1>3. ASSUME NEW d \in Consumers, d # c PROVE GotBar'[d] = GotBar[d]
  <2>1. call'[d] = call[d] /\ got'[d] = got[d]
    BY <1>1, <1>3, InvFacts DEF Inv, TypeOK
  <2> QED BY <1>1, <2>1, SameGot
<1>4. GotBar'[c] = GotBar[c]
  <2>0. /\ call[c].old \in Nat /\ call[c].done \in Nat /\ call[c].k \in Nat /\ call[c].k <= Capacity
    BY <1>1, RunFacts
  <2>1. x \in Nat /\ x + 1 \in Nat /\ n \in Nat /\ 1 + n <= Capacity /\ 1 <= Capacity /\ n <= Capacity
        /\ call[c].k - call[c].done = 1 + n
        /\ call[c].old + (call[c].done + 1) = x + 1
        /\ call[c].k - (call[c].done + 1) = n
    <3> DEFINE o == call[c].old
               d == call[c].done
               k == call[c].k
    <3>1. Capacity \in Nat /\ o \in Nat /\ d \in Nat /\ k \in Nat /\ k <= Capacity /\ d < k
      <4>1. call[c].done < call[c].k
        BY <1>1
      <4> QED BY <1>0, <2>0, <4>1
    <3> HIDE DEF o, d, k
    <3>2. /\ o + d \in Nat /\ (o + d) + 1 \in Nat /\ k - d - 1 \in Nat
          /\ 1 + (k - d - 1) <= Capacity /\ 1 <= Capacity /\ k - d - 1 <= Capacity
          /\ k - d = 1 + (k - d - 1) /\ o + (d + 1) = (o + d) + 1 /\ k - (d + 1) = k - d - 1
      BY <3>1
    <3> QED BY <3>2, Zenon DEF o, d, k
  <2>2. /\ call'[c].pc = "copy" /\ call'[c].old = call[c].old /\ call'[c].k = call[c].k
        /\ call'[c].done = call[c].done + 1
    BY <1>1, InvFacts DEF Calls
  <2>3. GotBar[c] = got[c] \o ReadFrom(slots, x, 1 + n)
    BY <1>1, <2>1, BarFacts
  <2>4. GotBar'[c] = Append(got[c], item) \o ReadFrom(slots, x + 1, n)
    <3>1. got'[c] = Append(got[c], item)
      BY <1>1, InvFacts DEF Inv, TypeOK
    <3>2. GotBar'[c] = got'[c] \o ReadFrom(slots', call'[c].old + call'[c].done, call'[c].k - call'[c].done)
      BY <2>2, BarFacts
    <3> HIDE DEF x, n, item
    <3> QED BY <1>1, <2>1, <2>2, <3>1, <3>2
  <2> DEFINE g == got[c]
             b == ReadFrom(slots, x + 1, n)
             a == ReadFrom(slots, x, 1)
  <2>5. a = << item >> /\ item \in Items
    <3>1. a \in Seq(Items) /\ Len(a) = 1 /\ a[1] = slots[Slot(x + (1 - 1))]
      <4>1. 1 \in Nat /\ 1 \in 1..1
        OBVIOUS
      <4> QED BY <1>0, <2>1, <4>1, ReadFacts, Zenon
    <3>2. x + (1 - 1) = x
      BY <2>1
    <3>3. SlotOf(call[c].old, call[c].done) = Slot(x)
      <4>1. call[c].done < Capacity
        BY <1>0, <1>1, <2>0
      <4> QED BY <2>0, <4>1, SlotApart
    <3>4. a[1] = item
      BY <3>1, <3>2, <3>3
    <3> HIDE DEF a, item, x
    <3>5. item \in Items
      BY <3>1, <3>4, ElementOfSeq
    <3>6. << item >> \in Seq(Items) /\ Len(<< item >>) = 1 /\ << item >>[1] = item
      BY <3>5
    <3>7. a = << item >>
      BY <3>1, <3>4, <3>6, SeqEqual
    <3> QED BY <3>5, <3>7
  <2>6. ReadFrom(slots, x, 1 + n) = a \o b
    <3>1. slots \in Buffers /\ x \in Nat /\ 1 \in Nat /\ n \in Nat /\ 1 + n <= Capacity
      BY <1>0, <2>1
    <3> HIDE DEF x, n
    <3> QED BY <3>1, ReadSplit, Zenon
  <2>7. b \in Seq(Items) /\ g \in Seq(Items) /\ << item >> \in Seq(Items)
    BY <1>0, <2>1, <2>5, ReadFacts
  <2> HIDE DEF g, b, a, item, x, n
  <2>8. Append(g, item) = g \o << item >>
    BY <2>5, <2>7, AppendIsConcat
  <2>9. (g \o << item >>) \o b = g \o (<< item >> \o b)
    BY <2>7, ConcatAssociative
  <2> QED BY <2>3, <2>4, <2>5, <2>6, <2>8, <2>9 DEF g, b
<1> QED BY <1>1, <1>2, <1>3, <1>4, GotExt

\* Releasing the slots is invisible: nothing is pending any more.
LEMMA CommitConsStutters ==
    ASSUME Inv, NEW c \in Consumers, CommitCons(c)
    PROVE  QueueBar' = QueueBar /\ sent' = sent /\ GotBar' = GotBar
<1>1. /\ c \in Threads /\ call[c].pc = "copy" /\ call[c].done = call[c].k
      /\ call' = [call EXCEPT ![c] = NoCall]
      /\ UNCHANGED <<prodTail, consHead, slots, sent, got>>
  BY InvFacts DEF CommitCons, MyTurn, Return
<1>2. QueueBar' = QueueBar
  BY <1>1, BarFacts
<1>3. ASSUME NEW d \in Consumers, d # c PROVE GotBar'[d] = GotBar[d]
  <2>1. call'[d] = call[d] /\ got'[d] = got[d]
    BY <1>1, <1>3, InvFacts
  <2> QED BY <1>1, <2>1, SameGot
<1>4. GotBar'[c] = GotBar[c]
  <2>1. call'[c].pc = "idle" /\ call[c].k - call[c].done = 0
    BY <1>1, InvFacts, RunFacts DEF NoCall
  <2>2. GotBar[c] = got[c] \o << >>
    <3>1. GotBar[c] = got[c] \o ReadFrom(slots, call[c].old + call[c].done, call[c].k - call[c].done)
      BY <1>1, BarFacts
    <3>2. ReadFrom(slots, call[c].old + call[c].done, 0) = << >>
      BY ReadEmpty
    <3> QED BY <2>1, <3>1, <3>2
  <2> QED BY <1>1, <2>1, <2>2, BarFacts
<1> QED BY <1>1, <1>2, <1>3, <1>4, GotExt

\* A commit is an Enqueue of the producer's run: its messages are all in their
\* slots, right behind the ones committed before.
LEMMA CommitEnqueues ==
    ASSUME Inv, Copied, NEW p \in Producers, CommitProd(p)
    PROVE  \E n \in 1..MaxBurst :
              /\ Len(QueueBar) + n <= Capacity
              /\ QueueBar' = QueueBar \o [i \in 1..n |-> <<p, sent[p] + i>>]
              /\ sent' = [sent EXCEPT ![p] = @ + n]
              /\ GotBar' = GotBar
<1> DEFINE k == call[p].k
           m == prodTail - consHead
           b == ReadFrom(slots, prodTail, k)
<1>1. /\ p \in Threads /\ call[p] \in Calls /\ MyTurn(p, prodTail)
      /\ call[p].pc = "copy" /\ call[p].done = call[p].k
      /\ prodTail' = prodTail + call[p].k
      /\ sent' = [sent EXCEPT ![p] = @ + call[p].k]
      /\ UNCHANGED <<consHead, slots, got>>
      /\ \A c \in Consumers : call'[c] = call[c]
  BY InvFacts, ThreadsAssumption DEF CommitProd, MyTurn, Return
<1>2. /\ slots \in Buffers /\ Capacity \in Nat /\ prodTail \in Nat /\ consHead \in Nat /\ m \in Nat
      /\ m <= Capacity /\ consTail \in Nat /\ prodHead \in Nat
      /\ consTail <= consHead /\ prodHead <= consTail + Capacity
  BY InvFacts, RunFacts, SizeAssumption
<1>3. /\ call[p].old \in Nat /\ k \in Nat /\ k \in 1..MaxBurst
      /\ prodTail <= call[p].old /\ call[p].old + k <= prodHead
  <2>1. call[p].old \in Nat /\ k \in Nat /\ call[p].n \in 1..MaxBurst
    BY <1>1 DEF Calls
  <2>2. k >= 1 /\ k <= call[p].n /\ prodTail <= call[p].old /\ call[p].old + k <= prodHead
    BY <1>1, InvFacts DEF Side, Local
  <2> QED BY <2>1, <2>2, BoundAssumption
<1>4. call[p].old = prodTail
  <2>1. call[p].old - prodTail < Modulus
    <3>1. Modulus \in Nat /\ Modulus > Capacity
      BY SizeAssumption
    <3>2. consHead <= prodTail
      BY InvFacts
    <3> HIDE DEF k, m
    <3> QED BY <1>2, <1>3, <3>1, <3>2
  <2>2. p \in Threads /\ prodTail \in Nat /\ MyTurn(p, prodTail) /\ prodTail <= call[p].old
    BY <1>1, <1>2, <1>3
  <2> QED BY <2>1, <2>2, TurnExact
<1>5. m + k <= Capacity /\ consHead + m = prodTail /\ (prodTail + k) - consHead = m + k
  <2> HIDE DEF k
  <2> QED BY <1>2, <1>3, <1>4
<1>6. b = [i \in 1..k |-> <<p, sent[p] + i>>]
  <2>1. b = [i \in 1..k |-> slots[SlotOf(prodTail, i - 1)]]
    BY DEF ReadFrom
  <2>2. ASSUME NEW i \in 1..k PROVE slots[SlotOf(prodTail, i - 1)] = <<p, sent[p] + i>>
    <3>1. \A j \in 0..(k - 1) : slots[SlotOf(prodTail, j)] = <<p, sent[p] + j + 1>>
      BY <1>1, <1>4 DEF Copied
    <3>2. i - 1 \in 0..(k - 1) /\ sent[p] + (i - 1) + 1 = sent[p] + i
      <4>1. sent[p] \in Nat
        BY DEF Inv, TypeOK
      <4> HIDE DEF k
      <4> QED BY <1>3, <4>1
    <3> HIDE DEF k
    <3> QED BY <3>1, <3>2
  <2> HIDE DEF b, k
  <2> QED BY <2>1, <2>2
<1>7. QueueBar' = QueueBar \o b
  <2>1. QueueBar = ReadFrom(slots, consHead, m) /\ QueueBar' = ReadFrom(slots, consHead, m + k)
    <3>1. prodTail' = prodTail + k /\ slots' = slots /\ consHead' = consHead
      BY <1>1
    <3>2. prodTail' - consHead' = m + k
      <4> HIDE DEF m, k
      <4>1. prodTail' - consHead' = (prodTail + k) - consHead
        BY <3>1
      <4> QED BY <1>5, <4>1
    <3> HIDE DEF k
    <3> QED BY <3>1, <3>2, BarFacts
  <2>2. slots \in Buffers /\ consHead \in Nat /\ m \in Nat /\ k \in Nat /\ m + k <= Capacity
    BY <1>2, <1>3, <1>5
  <2> HIDE DEF m, k
  <2>3. ReadFrom(slots, consHead, m + k)
          = ReadFrom(slots, consHead, m) \o ReadFrom(slots, consHead + m, k)
    BY <2>2, ReadSplit, Zenon
  <2> QED BY <1>5, <2>1, <2>3
<1>8. Len(QueueBar) = m
  <2>1. slots \in Buffers /\ consHead \in Nat /\ m \in Nat /\ m <= Capacity
    BY <1>2
  <2>2. QueueBar = ReadFrom(slots, consHead, m)
    BY BarFacts
  <2> HIDE DEF m
  <2> QED BY <2>1, <2>2, ReadFacts
<1>9. GotBar' = GotBar
  BY <1>1, SameGot, GotExt
<1> HIDE DEF m, b
<1> QED BY <1>1, <1>3, <1>5, <1>6, <1>7, <1>8, <1>9

\* A consumer's successful CAS is a Dequeue of the run it reserves.
LEMMA CasDequeues ==
    ASSUME Inv, NEW c \in Consumers, CasConsHead(c)
    PROVE  \E n \in 1..MaxBurst :
              /\ n <= Len(QueueBar)
              /\ GotBar' = [GotBar EXCEPT ![c] = @ \o SubSeq(QueueBar, 1, n)]
              /\ QueueBar' = SubSeq(QueueBar, n + 1, Len(QueueBar))
              /\ sent' = sent
<1> DEFINE k == call[c].k
           n == prodTail - consHead - k
           m == prodTail - consHead
<1>1. /\ c \in Threads /\ call[c] \in Calls /\ CasHead(c, consHead) /\ call[c].pc = "cas"
      /\ call'[c].pc = "copy" /\ call'[c].k = call[c].k
      /\ call'[c].old = call[c].old /\ call'[c].done = call[c].done
      /\ consHead' = consHead + call[c].k
      /\ UNCHANGED <<prodTail, slots, sent, got>>
      /\ \A d \in Consumers : d # c => call'[d] = call[d]
  BY InvFacts DEF CasConsHead, CasHead, Calls
<1>2. /\ slots \in Buffers /\ Capacity \in Nat /\ prodTail \in Nat /\ consHead \in Nat /\ m \in Nat
      /\ m <= Capacity
  BY InvFacts, RunFacts, SizeAssumption
<1>3. /\ call[c].old = consHead /\ k \in Nat /\ k \in 1..MaxBurst /\ call[c].done = 0
      /\ consHead + k <= prodTail
  <2>1. call[c].old \in Nat /\ k \in Nat /\ call[c].n \in 1..MaxBurst
    BY <1>1 DEF Calls
  <2>2. /\ k >= 1 /\ k <= call[c].n /\ call[c].old <= consHead /\ call[c].done = 0
        /\ call[c].old = consHead => consHead + k <= prodTail
    BY <1>1, InvFacts DEF Side, Local
  <2>3. call[c].old = consHead
    BY <1>1, <1>2, <2>2, CasExact
  <2> QED BY <2>1, <2>2, <2>3, BoundAssumption
<1>4. n \in Nat /\ k + n = m /\ k <= m /\ prodTail - (consHead + k) = n
  <2> HIDE DEF k
  <2> QED BY <1>2, <1>3
<1>5. slots \in Buffers /\ consHead \in Nat /\ k \in Nat /\ n \in Nat /\ k + n <= Capacity
  BY <1>2, <1>3, <1>4
<1>6. QueueBar = ReadFrom(slots, consHead, k + n) /\ Len(QueueBar) = m
  <2>1. QueueBar = ReadFrom(slots, consHead, m)
    BY BarFacts
  <2> HIDE DEF k, n, m
  <2>2. Len(ReadFrom(slots, consHead, m)) = m
    BY <1>2, ReadFacts
  <2> QED BY <1>4, <2>1, <2>2
<1>7. QueueBar' = ReadFrom(slots, consHead + k, n)
  <2>1. prodTail' - consHead' = n /\ slots' = slots /\ consHead' = consHead + k
    BY <1>1, <1>4
  <2> HIDE DEF k, n
  <2> QED BY <2>1, BarFacts
<1>8. /\ SubSeq(QueueBar, 1, k) = ReadFrom(slots, consHead, k)
      /\ SubSeq(QueueBar, k + 1, k + n) = ReadFrom(slots, consHead + k, n)
  <2> HIDE DEF k, n
  <2> QED BY <1>5, <1>6, ReadSplit, Zenon
<1>9. GotBar'[c] = GotBar[c] \o SubSeq(QueueBar, 1, k)
  <2>1. GotBar[c] = got[c] \o << >>
    BY <1>1, BarFacts
  <2>2. got[c] \o << >> = got[c]
    BY RunFacts, ConcatEmptySeq
  <2>3. GotBar'[c] = got'[c] \o ReadFrom(slots', call'[c].old + call'[c].done, call'[c].k - call'[c].done)
    BY <1>1, BarFacts
  <2>4. call'[c].old + call'[c].done = consHead /\ call'[c].k - call'[c].done = k
    BY <1>1, <1>2, <1>3
  <2>5. slots' = slots /\ got' = got
    BY <1>1
  <2> HIDE DEF k
  <2> QED BY <1>8, <2>1, <2>2, <2>3, <2>4, <2>5
<1>10. GotBar' = [GotBar EXCEPT ![c] = @ \o SubSeq(QueueBar, 1, k)]
  <2>1. ASSUME NEW d \in Consumers, d # c PROVE GotBar'[d] = GotBar[d]
    BY <1>1, <2>1, SameGot
  <2>2. GotBar = [d \in Consumers |-> GotBar[d]] /\ GotBar' = [d \in Consumers |-> GotBar'[d]]
    BY BarFacts
  <2> HIDE DEF k
  <2> QED BY <1>9, <2>1, <2>2
<1>11. QueueBar' = SubSeq(QueueBar, k + 1, Len(QueueBar)) /\ k <= Len(QueueBar) /\ sent' = sent
  BY <1>1, <1>4, <1>6, <1>7, <1>8
<1> QED BY <1>3, <1>10, <1>11

\* The initial states of the ring are empty queues.
LEMMA InitQueue == Init => Queue!Init
<1> SUFFICES ASSUME Init PROVE Queue!Init
  OBVIOUS
<1>1. prodTail - consHead = 0
  BY BoundAssumption DEF Init
<1>2. QueueBar = << >>
  BY <1>1, BarFacts, ReadEmpty
<1>3. \A c \in Consumers : got[c] \o Pending(c) = << >>
  <2> TAKE c \in Consumers
  <2>1. got[c] = << >> /\ call[c].pc = "idle"
    BY DEF Init, NoCall, Threads
  <2>2. Pending(c) = << >>
    BY <2>1 DEF Pending
  <2>3. << >> \o << >> = << >>
    BY ConcatEmptySeq, EmptySeq
  <2> QED BY <2>1, <2>2, <2>3
<1> QED BY <1>2, <1>3 DEF Init, Queue!Init, QueueBar

\* Every step of the ring is a step of the queue or leaves it unchanged.
LEMMA StepQueue == Inv /\ Copied /\ [Next]_vars => [Queue!Next]_(Queue!vars)
<1> SUFFICES ASSUME Inv, Copied, [Next]_vars PROVE [Queue!Next]_(Queue!vars)
  OBVIOUS
<1>0. ASSUME QueueBar' = QueueBar, sent' = sent, GotBar' = GotBar
      PROVE  [Queue!Next]_(Queue!vars)
  BY <1>0 DEF Queue!vars, QueueBar, GotBar
<1>1. CASE UNCHANGED vars
  <2>1. UNCHANGED <<prodTail, consHead, slots, call, sent, got>>
    BY <1>1 DEF vars, cursors
  <2> QED BY <1>0, <2>1, BarFacts, SameGot, GotExt
<1>2. CASE \E t \in Threads, f \in Calls : Aside(t, f)
  BY <1>0, <1>2, AsideStutters
<1>3. ASSUME NEW p \in Producers, CopyIn(p) PROVE [Queue!Next]_(Queue!vars)
  BY <1>0, <1>3, CopyInStutters
<1>4. ASSUME NEW c \in Consumers, CopyOut(c) PROVE [Queue!Next]_(Queue!vars)
  BY <1>0, <1>4, CopyOutStutters
<1>5. ASSUME NEW c \in Consumers, CommitCons(c) PROVE [Queue!Next]_(Queue!vars)
  BY <1>0, <1>5, CommitConsStutters
<1>6. ASSUME NEW p \in Producers, CommitProd(p) PROVE [Queue!Next]_(Queue!vars)
  <2> PICK n \in 1..MaxBurst :
              /\ Len(QueueBar) + n <= Capacity
              /\ QueueBar' = QueueBar \o [i \in 1..n |-> <<p, sent[p] + i>>]
              /\ sent' = [sent EXCEPT ![p] = @ + n]
              /\ GotBar' = GotBar
    BY <1>6, CommitEnqueues
  <2>1. Queue!Enqueue(p, n)
    BY DEF Queue!Enqueue, Queue!Batch, QueueBar, GotBar
  <2> QED BY <2>1 DEF Queue!Next
<1>7. ASSUME NEW c \in Consumers, CasConsHead(c) PROVE [Queue!Next]_(Queue!vars)
  <2> PICK n \in 1..MaxBurst :
              /\ n <= Len(QueueBar)
              /\ GotBar' = [GotBar EXCEPT ![c] = @ \o SubSeq(QueueBar, 1, n)]
              /\ QueueBar' = SubSeq(QueueBar, n + 1, Len(QueueBar))
              /\ sent' = sent
    BY <1>7, CasDequeues
  <2>1. Queue!Dequeue(c, n)
    BY DEF Queue!Dequeue, QueueBar, GotBar
  <2> QED BY <2>1 DEF Queue!Next
<1> QED BY <1>1, <1>2, <1>3, <1>4, <1>5, <1>6, <1>7, StepKinds

\* The lock-free ring is a linearizable bounded FIFO queue, whatever the
\* number of threads and the wrap of its cursors.
THEOREM RingImplementsQueue == Spec => ImplementsQueue
BY InitQueue, StepQueue, Invariance, CopiesKept, PTL DEF Spec, ImplementsQueue, Queue!Spec

------------------------------------------------------------------------------
(* ring_lf_count.                                                          *)

\* The commits made since a count loaded prod.tail only advance it.
LEMMA CountInvStep == Inv /\ CountInv /\ [Next]_vars => CountInv'
<1> SUFFICES ASSUME Inv, CountInv, [Next]_vars, NEW o \in Observers, call'[o].pc = "count"
             PROVE  call'[o].old <= prodTail'
  BY DEF CountInv
<1>0. /\ o \in Threads /\ o \notin Producers /\ o \notin Consumers /\ prodTail \in Nat
      /\ call \in [Threads -> Calls]
  BY InvFacts, ThreadsAssumption DEF Threads
<1>1. prodTail' >= prodTail
  <2>1. CASE prodTail' = prodTail
    BY <1>0, <2>1
  <2>2. ASSUME NEW p \in Producers, CommitProd(p) PROVE prodTail' >= prodTail
    <3>1. prodTail' = prodTail + call[p].k /\ call[p].k \in Nat
      BY <2>2, InvFacts DEF CommitProd, Calls
    <3> QED BY <1>0, <3>1
  <2> QED BY <2>1, <2>2, StepKinds DEF Aside, CopyIn, CasConsHead, CopyOut, CommitCons, vars, cursors
<1>2. CASE call'[o] = call[o]
  <2>1. call[o].old <= prodTail /\ call[o].old \in Nat
    BY <1>0, <1>2 DEF CountInv, Calls
  <2>2. prodTail' \in Nat
    BY InvStep DEF Inv, TypeOK
  <2> QED BY <1>0, <1>1, <1>2, <2>1, <2>2
<1>3. CASE CountLoadTail(o)
  BY <1>0, <1>3 DEF CountLoadTail, cursors, Calls
<1>4. CASE CountLoadHead(o)
  BY <1>0, <1>4 DEF CountLoadHead, Return, NoCall
<1>5. ASSUME NEW t \in Threads, t # o, NEW f, call' = [call EXCEPT ![t] = f]
      PROVE  call'[o] = call[o]
  BY <1>0, <1>5
<1>6. CASE UNCHANGED vars
  BY <1>2, <1>6 DEF vars
<1>7. ASSUME NEW p \in Producers,
             ProducerStep(p) \/ \E m \in {"one", "burst"}, n \in 1..MaxBurst : CallPush(p, m, n)
      PROVE  call'[o] = call[o]
  BY <1>0, <1>7 DEF ProducerStep, LoadProdHead, LoadHead, ReturnFull, Return, CheckFree, Take,
     CasProdHead, CasHead, CasFails, CopyIn, CopyOne, CommitProd, CallPush, Call
<1>8. ASSUME NEW c \in Consumers,
             ConsumerStep(c) \/ \E m \in {"one", "burst"}, n \in 1..MaxBurst : CallPop(c, m, n)
      PROVE  call'[o] = call[o]
  BY <1>0, <1>8 DEF ConsumerStep, LoadConsHead, LoadHead, ReturnEmpty, Return, CheckAvail, Take,
     CasConsHead, CasHead, CasFails, CopyOut, CopyOne, CommitCons, CallPop, Call
<1>9. ASSUME NEW u \in Observers, u # o, CountLoadTail(u) \/ CountLoadHead(u)
      PROVE  call'[o] = call[o]
  BY <1>0, <1>9 DEF CountLoadTail, CountLoadHead, Return
<1> QED BY <1>2, <1>3, <1>4, <1>6, <1>7, <1>8, <1>9 DEF Next

\* A count that is not behind the consumers never exceeds the true length.
LEMMA CountStep ==
    ASSUME Inv, CountInv, NEW o \in Observers, CountLoadHead(o),
           CountResult(o) > prodTail - consHead
    PROVE  call[o].old < consHead
<1>1. o \in Threads /\ call[o] \in Calls /\ call[o].pc = "count" /\ call[o].old <= prodTail
  BY InvFacts DEF Threads, CountInv, CountLoadHead
<1>2. /\ call[o].old \in Nat /\ prodTail \in Nat /\ consHead \in Nat /\ consTail \in Nat /\ prodHead \in Nat
      /\ consTail <= consHead /\ prodTail <= prodHead /\ prodHead <= consTail + Capacity
      /\ Capacity \in Nat /\ Modulus \in Nat /\ Modulus > Capacity
  BY <1>1, InvFacts, SizeAssumption DEF Calls
<1>3. SUFFICES ASSUME call[o].old >= consHead PROVE FALSE
  BY <1>2
<1>4. call[o].old - consHead \in Nat /\ call[o].old - consHead < Modulus
  BY <1>1, <1>2, <1>3
<1>5. U32(call[o].old - consHead) = call[o].old - consHead
  BY <1>4, U32Small
<1> QED BY <1>1, <1>2, <1>5 DEF CountResult

\* ring_lf_count overstates the number of messages only when it wraps.
THEOREM CountsAreBounded == Spec => CountOverstatesOnlyByWrap
<1>1. Init => CountInv
  BY DEF Init, CountInv, NoCall, Threads
<1>2. Spec => []CountInv
  BY <1>1, CountInvStep, Invariance, PTL DEF Spec
<1>3. Inv /\ CountInv =>
          [\A o \in Observers :
              CountLoadHead(o) /\ CountResult(o) > prodTail - consHead
                => call[o].old < consHead]_vars
  BY CountStep
<1> QED BY <1>2, <1>3, Invariance, PTL DEF CountOverstatesOnlyByWrap
==============================================================================
