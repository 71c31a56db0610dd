----------------------------- MODULE RingLF_proofs ---------------------------
(***************************************************************************)
(* Proofs about the lock-free ring, for every number of threads, every     *)
(* capacity, modulus and burst length that satisfy RingLF's assumptions.   *)
(***************************************************************************)
EXTENDS RingLF, TLAPS

------------------------------------------------------------------------------
(* Arithmetic of wrapping cursors.                                         *)

\* Division with remainder.
LEMMA DivMod ==
    ASSUME NEW m \in Nat, m > 0, NEW a \in Int
    PROVE  a \div m \in Int /\ a % m \in 0..(m - 1) /\ a = m * (a \div m) + (a % m)
BY SMT

\* A multiple of m other than zero is at least m away from zero.
LEMMA MulBound ==
    ASSUME NEW m \in Nat, m > 0, NEW q \in Int
    PROVE  /\ m * q \in Int
           /\ q >= 1 => m * q >= m
           /\ q <= -1 => m * q <= -m
           /\ q = 0 => m * q = 0
BY SMT

\* The remainder is determined by the division equation.
LEMMA ModUnique ==
    ASSUME NEW m \in Nat, m > 0, NEW q \in Int, NEW r \in 0..(m - 1)
    PROVE  (m * q + r) % m = r
<1> DEFINE a == m * q + r
           d == a \div m
           s == a % m
<1>1. a \in Int
  BY MulBound
<1>2. d \in Int /\ s \in 0..(m - 1) /\ a = m * d + s
  BY <1>1, DivMod
<1> HIDE DEF d, s
<1>3. m * (q - d) = s - r
  BY <1>2 DEF a
<1>4. q - d \in Int
  BY <1>2
<1>5. q - d = 0
  BY <1>2, <1>3, <1>4, MulBound
<1>6. s = r
  BY <1>2, <1>3, <1>5
<1> QED BY <1>6 DEF s

\* Two values less than m apart that agree modulo m are equal: what makes a
\* comparison of wrapped cursors exact.
LEMMA ModEq ==
    ASSUME NEW m \in Nat, m > 0, NEW a \in Int, NEW b \in Int,
           a - b < m, b - a < m, a % m = b % m
    PROVE  a = b
<1> DEFINE x == a \div m
           y == b \div m
           s == a % m
           u == b % m
<1>0. s = u
  OBVIOUS
<1>1. x \in Int /\ s \in 0..(m - 1) /\ a = m * x + s
  BY DivMod
<1>2. y \in Int /\ u \in 0..(m - 1) /\ b = m * y + u
  BY DivMod
<1> HIDE DEF x, y, s, u
<1>3. a - b = m * (x - y)
  BY <1>0, <1>1, <1>2
<1>4. x - y \in Int
  BY <1>1, <1>2
<1> QED BY <1>3, <1>4, MulBound

\* Reducing by a multiple of c first does not change the remainder by c: the
\* slot index is the same before and after the cursor wraps.
LEMMA ModMod ==
    ASSUME NEW c \in Nat, c > 0, NEW m \in Nat, m > 0, m % c = 0, NEW a \in Int
    PROVE  (a % m) % c = a % c
<1> DEFINE d == m \div c
           x == a \div m
           s == a % m
           y == s \div c
           r == s % c
<1>1. d \in Int /\ m = c * d
  BY DivMod
<1>2. x \in Int /\ s \in Int /\ a = m * x + s
  BY DivMod
<1>3. y \in Int /\ r \in 0..(c - 1) /\ s = c * y + r
  BY <1>2, DivMod
<1> HIDE DEF d, x, s, y, r
<1>4. a = c * (d * x + y) + r /\ d * x + y \in Int
  BY <1>1, <1>2, <1>3
<1>5. a % c = r
  BY <1>3, <1>4, ModUnique
<1> QED BY <1>5 DEF r, s

\* U32 is exact on 0 .. Modulus - 1.
LEMMA U32Small ==
    ASSUME NEW a \in Nat, a < Modulus
    PROVE  U32(a) = a
BY SizeAssumption DEF U32

\* U32 always returns a natural number, and cursors closer than Modulus are
\* equal when their wrapped values are.
LEMMA U32Facts ==
    /\ \A a \in Int : U32(a) \in 0..(Modulus - 1)
    /\ \A a, b \in Nat : a <= b /\ b - a < Modulus /\ U32(a) = U32(b) => a = b
<1>1. Modulus \in Nat /\ Modulus > 0
  BY SizeAssumption
<1>2. \A a \in Int : U32(a) \in 0..(Modulus - 1)
  BY <1>1, DivMod DEF U32
<1>3. ASSUME NEW a \in Nat, NEW b \in Nat, a <= b, b - a < Modulus, U32(a) = U32(b)
      PROVE  a = b
  <2>1. a \in Int /\ b \in Int /\ a - b < Modulus /\ b - a < Modulus
    BY <1>1, <1>3
  <2>2. a % Modulus = b % Modulus
    BY <1>3 DEF U32
  <2> QED BY <1>1, <2>1, <2>2, ModEq, Zenon
<1> QED BY <1>2, <1>3

\* The slot of position x + i is the i-th of a run that starts at x, with the
\* split at the end of the buffer.
LEMMA SlotFacts ==
    ASSUME NEW x \in Nat, NEW i \in Nat, i < Capacity
    PROVE  SlotOf(x, i) = (x + i) % Capacity /\ SlotOf(x, i) \in 0..(Capacity - 1)
<1> DEFINE q == x \div Capacity
           r == x % Capacity
<1>0. /\ Capacity \in Nat /\ Capacity > 0
      /\ Modulus \in Nat /\ Modulus > 0 /\ Modulus % Capacity = 0
  BY SizeAssumption
<1>1. q \in Int /\ r \in 0..(Capacity - 1) /\ x = Capacity * q + r
  BY <1>0, DivMod
<1>2. U32(x) % Capacity = r
  <2>1. x \in Int
    OBVIOUS
  <2> QED BY <1>0, <2>1, ModMod, Zenon DEF U32
<1> HIDE DEF q, r
<1>3. CASE i < Capacity - r
  <2>1. SlotOf(x, i) = r + i
    BY <1>2, <1>3 DEF SlotOf
  <2>2. x + i = Capacity * q + (r + i) /\ r + i \in 0..(Capacity - 1)
    BY <1>0, <1>1, <1>3
  <2>3. (Capacity * q + (r + i)) % Capacity = r + i
    BY <2>2, <1>0, <1>1, ModUnique, Zenon
  <2> QED BY <2>1, <2>2, <2>3, Zenon
<1>4. CASE ~(i < Capacity - r)
  <2>1. SlotOf(x, i) = i - (Capacity - r)
    BY <1>2, <1>4 DEF SlotOf
  <2>2. x + i = Capacity * (q + 1) + (i - (Capacity - r)) /\ q + 1 \in Int
    BY <1>0, <1>1
  <2>3. i - (Capacity - r) \in 0..(Capacity - 1)
    BY <1>0, <1>1, <1>4
  <2>4. (Capacity * (q + 1) + (i - (Capacity - r))) % Capacity = i - (Capacity - r)
    BY <2>2, <2>3, <1>0, ModUnique, Zenon
  <2> QED BY <2>1, <2>2, <2>3, <2>4, Zenon
<1> QED BY <1>3, <1>4

------------------------------------------------------------------------------
(* One side of the ring under the steps that can disturb it.               *)

\* A step of any thread that neither takes nor releases a run keeps the side,
\* and so does the growth of its limit.
LEMMA SideQuiet ==
    ASSUME NEW S, S \subseteq Threads, NEW calls \in [Threads -> Calls],
           NEW tail \in Nat, NEW head \in Nat, NEW limit \in Nat, NEW limit2 \in Nat,
           Side(S, calls, tail, head, limit), limit <= limit2,
           NEW t \in Threads, NEW f \in Calls,
           t \in S => /\ Local(f, tail, head, limit2)
                      /\ calls[t].pc # "copy" /\ f.pc # "copy"
    PROVE  Side(S, [calls EXCEPT ![t] = f], tail, head, limit2)
<1> DEFINE new == [calls EXCEPT ![t] = f]
<1>0. /\ new[t] = f
      /\ \A u \in S : u # t => new[u] = calls[u]
      /\ t \in S => calls[t].pc # "copy" /\ f.pc # "copy"
  OBVIOUS
<1> HIDE DEF new
<1>1. ASSUME NEW u \in S PROVE Local(new[u], tail, head, limit2)
  <2>1. CASE u = t
    BY <1>0, <2>1
  <2>2. CASE u # t
    <3>1. Local(calls[u], tail, head, limit) /\ calls[u] \in Calls
      BY DEF Side
    <3> QED BY <1>0, <2>2, <3>1 DEF Local, Calls
  <2> QED BY <2>1, <2>2
<1>2. Disjoint(S, new)
  BY <1>0 DEF Side, Disjoint
<1>3. Tiled(S, new, tail, head)
  BY <1>0 DEF Side, Tiled
<1> QED BY <1>1, <1>2, <1>3 DEF Side, new

\* A successful CAS appends the caller's run to the reserved ones.
LEMMA SideReserve ==
    ASSUME NEW S, S \subseteq Threads, NEW calls \in [Threads -> Calls],
           NEW tail \in Nat, NEW head \in Nat, NEW limit \in Nat, tail <= head,
           Side(S, calls, tail, head, limit),
           NEW t \in S, calls[t].pc = "cas", calls[t].old = head
    PROVE  Side(S, [calls EXCEPT ![t] = [calls[t] EXCEPT !.pc = "copy"]],
                tail, head + calls[t].k, limit)
<1> DEFINE f == [calls[t] EXCEPT !.pc = "copy"]
           new == [calls EXCEPT ![t] = f]
<1>0. /\ new[t] = f
      /\ \A u \in S : u # t => new[u] = calls[u]
      /\ f.pc = "copy" /\ f.op = calls[t].op /\ f.n = calls[t].n /\ f.old = calls[t].old
      /\ f.k = calls[t].k /\ f.done = calls[t].done
      /\ \A u \in S : Local(calls[u], tail, head, limit) /\ calls[u] \in Calls
  BY DEF Side, Calls
<1> HIDE DEF new, f
<1>1. ASSUME NEW u \in S PROVE Local(new[u], tail, head + calls[t].k, limit)
  BY <1>0 DEF Local, Calls
<1>2. Disjoint(S, new)
  <2>1. \A u \in S : u # t /\ calls[u].pc = "copy" => calls[u].old + calls[u].k <= head
    BY <1>0 DEF Local
  <2> QED BY <1>0, <2>1 DEF Side, Disjoint
<1>3. Tiled(S, new, tail, head + calls[t].k)
  <2> SUFFICES ASSUME NEW x \in tail..((head + calls[t].k) - 1)
               PROVE  \E u \in S : new[u].pc = "copy" /\ new[u].old <= x /\ x < new[u].old + new[u].k
    BY DEF Tiled
  <2>1. CASE x < head
    <3>1. x \in tail..(head - 1)
      BY <2>1, <1>0 DEF Calls
    <3>2. PICK u \in S : calls[u].pc = "copy" /\ calls[u].old <= x /\ x < calls[u].old + calls[u].k
      BY <3>1 DEF Side, Tiled
    <3> QED BY <1>0, <3>2
  <2>2. CASE ~(x < head)
    BY <2>2, <1>0 DEF Calls
  <2> QED BY <2>1, <2>2
<1>4. Side(S, new, tail, head + calls[t].k, limit)
  BY <1>1, <1>2, <1>3 DEF Side
<1> QED BY <1>4 DEF new, f

\* Copying an element changes no run.
LEMMA SideCopy ==
    ASSUME NEW S, S \subseteq Threads, NEW calls \in [Threads -> Calls],
           NEW tail \in Nat, NEW head \in Nat, NEW limit \in Nat,
           Side(S, calls, tail, head, limit),
           NEW t \in S, calls[t].pc = "copy", calls[t].done < calls[t].k
    PROVE  Side(S, [calls EXCEPT ![t] = [calls[t] EXCEPT !.done = calls[t].done + 1]], tail, head, limit)
<1> DEFINE f == [calls[t] EXCEPT !.done = calls[t].done + 1]
           new == [calls EXCEPT ![t] = f]
<1>0. /\ new[t] = f
      /\ \A u \in S : u # t => new[u] = calls[u]
      /\ f.pc = calls[t].pc /\ f.op = calls[t].op /\ f.n = calls[t].n /\ f.old = calls[t].old
      /\ f.k = calls[t].k /\ f.done = calls[t].done + 1
      /\ \A u \in S : Local(calls[u], tail, head, limit) /\ calls[u] \in Calls
  BY DEF Side, Calls
<1> HIDE DEF new, f
<1>1. ASSUME NEW u \in S PROVE Local(new[u], tail, head, limit)
  BY <1>0 DEF Local, Calls
<1>2. Disjoint(S, new)
  BY <1>0 DEF Side, Disjoint
<1>3. Tiled(S, new, tail, head)
  BY <1>0 DEF Side, Tiled
<1>4. Side(S, new, tail, head, limit)
  BY <1>1, <1>2, <1>3 DEF Side
<1> QED BY <1>4 DEF new, f

\* The commit of the oldest run releases exactly that run.
LEMMA SideCommit ==
    ASSUME NEW S, S \subseteq Threads, NEW calls \in [Threads -> Calls],
           NEW tail \in Nat, NEW head \in Nat, NEW limit \in Nat,
           Side(S, calls, tail, head, limit),
           NEW t \in S, calls[t].pc = "copy", calls[t].old = tail
    PROVE  /\ Side(S, [calls EXCEPT ![t] = NoCall], tail + calls[t].k, head, limit)
           /\ tail + calls[t].k <= head
<1> DEFINE new == [calls EXCEPT ![t] = NoCall]
<1>0. /\ new[t] = NoCall
      /\ \A u \in S : u # t => new[u] = calls[u]
      /\ \A u \in S : Local(calls[u], tail, head, limit) /\ calls[u] \in Calls
  BY DEF Side
<1> HIDE DEF new
<1>1. \A u \in S : u # t /\ calls[u].pc = "copy" => tail + calls[t].k <= calls[u].old
  BY <1>0 DEF Side, Disjoint, Local, Calls
<1>2. ASSUME NEW u \in S PROVE Local(new[u], tail + calls[t].k, head, limit)
  <2>1. CASE u = t
    BY <1>0, <2>1 DEF Local, NoCall
  <2>2. CASE u # t
    BY <1>0, <1>1, <2>2 DEF Local, Calls
  <2> QED BY <2>1, <2>2
<1>3. Disjoint(S, new)
  BY <1>0 DEF Side, Disjoint, NoCall
<1>4. ASSUME NEW x \in (tail + calls[t].k)..(head - 1)
      PROVE  \E u \in S : new[u].pc = "copy" /\ new[u].old <= x /\ x < new[u].old + new[u].k
  <2>1. x \in tail..(head - 1) /\ ~(x < tail + calls[t].k)
    BY <1>0 DEF Calls
  <2>2. PICK u \in S : calls[u].pc = "copy" /\ calls[u].old <= x /\ x < calls[u].old + calls[u].k
    BY <2>1 DEF Side, Tiled
  <2>3. u # t
    BY <2>1, <2>2
  <2> QED BY <1>0, <2>2, <2>3
<1>5. tail + calls[t].k <= head
  BY <1>0 DEF Local
<1> QED BY <1>2, <1>3, <1>4, <1>5 DEF Side, Tiled, new

------------------------------------------------------------------------------
(* The invariant is inductive.                                             *)

\* The empty ring with idle threads satisfies the invariant (ring_lf_init).
LEMMA InvInit == Init => Inv
<1> SUFFICES ASSUME Init PROVE Inv
  OBVIOUS
<1> USE SizeAssumption, BoundAssumption
<1>1. NoCall \in Calls
  BY DEF NoCall, Calls
<1>2. TypeOK
  BY <1>1 DEF Init, TypeOK, Items
<1>3. CursorOrder
  BY DEF Init, CursorOrder
<1>4. \A t \in Threads : call[t] = NoCall
  BY DEF Init
<1>5. /\ \A t \in Producers : Local(call[t], prodTail, prodHead, consTail + Capacity)
      /\ \A t \in Consumers : Local(call[t], consTail, consHead, prodTail)
  BY <1>4 DEF Local, NoCall, Threads
<1>6. Disjoint(Producers, call) /\ Disjoint(Consumers, call)
  BY <1>4 DEF Disjoint, NoCall, Threads
<1>7. Tiled(Producers, call, prodTail, prodHead) /\ Tiled(Consumers, call, consTail, consHead)
  BY DEF Init, Tiled
<1>8. \A p \in Producers : call[p].pc = "idle"
  BY <1>4 DEF NoCall, Threads
<1> QED BY <1>2, <1>3, <1>5, <1>6, <1>7, <1>8 DEF Inv, Side

\* The facts of the invariant in the form the steps below use them.
LEMMA InvFacts ==
    ASSUME Inv
    PROVE  /\ prodHead \in Nat /\ prodTail \in Nat /\ consHead \in Nat /\ consTail \in Nat
           /\ consTail + Capacity \in Nat
           /\ consTail <= consHead /\ consHead <= prodTail
           /\ prodTail <= prodHead /\ prodHead <= consTail + Capacity
           /\ call \in [Threads -> Calls]
           /\ Producers \subseteq Threads /\ Consumers \subseteq Threads
           /\ Side(Producers, call, prodTail, prodHead, consTail + Capacity)
           /\ Side(Consumers, call, consTail, consHead, prodTail)
BY SizeAssumption DEF Inv, TypeOK, CursorOrder, Threads

\* A step that moves no cursor and neither takes nor releases a run.
LEMMA QuietStep ==
    ASSUME Inv, NEW t \in Threads, NEW f \in Calls,
           call' = [call EXCEPT ![t] = f],
           UNCHANGED <<cursors, slots, sent, got>>,
           t \in Producers \cup Consumers => call[t].pc # "copy" /\ f.pc # "copy",
           t \in Producers => /\ Local(f, prodTail, prodHead, consTail + Capacity)
                              /\ f.pc # "idle" => sent[t] + f.n <= MaxItems,
           t \in Consumers => Local(f, consTail, consHead, prodTail)
    PROVE  Inv'
<1> USE InvFacts
<1>1. UNCHANGED <<prodHead, prodTail, consHead, consTail>>
  BY DEF cursors
<1>2. TypeOK'
  BY <1>1 DEF Inv, TypeOK
<1>3. CursorOrder'
  BY <1>1 DEF Inv, CursorOrder
<1>4. Side(Producers, [call EXCEPT ![t] = f], prodTail, prodHead, consTail + Capacity)
  <2>1. t \in Producers => Local(f, prodTail, prodHead, consTail + Capacity)
                           /\ call[t].pc # "copy" /\ f.pc # "copy"
    OBVIOUS
  <2>2. consTail + Capacity <= consTail + Capacity
    OBVIOUS
  <2> QED BY <2>1, <2>2, SideQuiet, Zenon
<1>5. Side(Consumers, [call EXCEPT ![t] = f], consTail, consHead, prodTail)
  <2>1. t \in Consumers => Local(f, consTail, consHead, prodTail)
                           /\ call[t].pc # "copy" /\ f.pc # "copy"
    OBVIOUS
  <2>2. prodTail <= prodTail
    OBVIOUS
  <2> QED BY <2>1, <2>2, SideQuiet, Zenon
<1>6. \A p \in Producers : call'[p].pc # "idle" => sent'[p] + call'[p].n <= MaxItems
  BY DEF Inv
<1> QED BY <1>1, <1>2, <1>3, <1>4, <1>5, <1>6 DEF Inv

\* Entering push, pop or a burst reserves nothing and keeps the invariant.
LEMMA CallKeepsInv ==
    ASSUME Inv, NEW t \in Producers \cup Consumers, NEW o \in {"one", "burst"},
           NEW n \in 1..MaxBurst, t \in Producers => sent[t] + n <= MaxItems,
           Call(t, o, n)
    PROVE  Inv'
<1> DEFINE f == [call[t] EXCEPT !.pc = "load", !.op = o, !.n = n]
<1>1. t \in Threads /\ call[t] \in Calls
  BY InvFacts
<1>2. /\ f \in Calls /\ f.pc = "load" /\ f.op = o /\ f.n = n /\ f.done = call[t].done
      /\ call[t].pc = "idle" /\ (o = "one" => n = 1)
  BY <1>1 DEF Calls, Call
<1>3. call[t].done = 0
  BY <1>2, InvFacts DEF Side, Local
<1> HIDE DEF f
<1>4. \A tail, head, limit : Local(f, tail, head, limit)
  BY <1>2, <1>3 DEF Local
<1>5. call' = [call EXCEPT ![t] = f] /\ UNCHANGED <<cursors, slots, sent, got>>
  BY DEF Call, f
<1> QED BY <1>1, <1>2, <1>4, <1>5, QuietStep

\* Loading the head at the start of a round keeps the invariant.
LEMMA LoadKeepsInv ==
    ASSUME Inv, NEW t \in Producers \cup Consumers,
           \/ t \in Producers /\ LoadHead(t, prodHead)
           \/ t \in Consumers /\ LoadHead(t, consHead)
    PROVE  Inv'
<1> DEFINE head == IF t \in Producers THEN prodHead ELSE consHead
           f == [call[t] EXCEPT !.pc = "check", !.old = head]
<1>1. t \in Threads /\ call[t] \in Calls /\ head \in Nat
  BY InvFacts
<1>2. /\ call[t].pc = "load" /\ call' = [call EXCEPT ![t] = f]
      /\ UNCHANGED <<cursors, slots, sent, got>>
  BY ThreadsAssumption DEF LoadHead
<1>3. /\ f \in Calls /\ f.pc = "check" /\ f.op = call[t].op /\ f.n = call[t].n
      /\ f.done = call[t].done /\ f.old = head
  BY <1>1 DEF Calls
<1>4. call[t].done = 0 /\ (call[t].op = "one" => call[t].n = 1)
  BY <1>2, InvFacts DEF Side, Local
<1>5. t \in Producers => sent[t] + f.n <= MaxItems
  BY <1>2, <1>3 DEF Inv
<1>6. /\ t \in Producers => f.old <= prodHead
      /\ t \in Consumers => f.old <= consHead
  BY <1>3, InvFacts, ThreadsAssumption
<1> HIDE DEF f, head
<1>7. /\ t \in Producers => Local(f, prodTail, prodHead, consTail + Capacity)
      /\ t \in Consumers => Local(f, consTail, consHead, prodTail)
  BY <1>3, <1>4, <1>6 DEF Local
<1> QED BY <1>1, <1>2, <1>3, <1>5, <1>7, QuietStep

\* Returning without having reserved anything: full, empty, or a count.
LEMMA ReturnKeepsInv ==
    ASSUME Inv, NEW t \in Threads, Return(t), call[t].pc # "copy",
           UNCHANGED <<cursors, slots, sent, got>>
    PROVE  Inv'
<1>1. NoCall \in Calls /\ NoCall.pc = "idle"
  BY BoundAssumption DEF NoCall, Calls
<1>2. \A tail, head, limit : Local(NoCall, tail, head, limit)
  BY DEF NoCall, Local
<1>3. call' = [call EXCEPT ![t] = NoCall]
  BY DEF Return
<1> QED BY <1>1, <1>2, <1>3, QuietStep

\* A failed compare-exchange goes back to the load and keeps the invariant.
LEMMA CasFailsKeepsInv ==
    ASSUME Inv, NEW t \in Producers \cup Consumers, CasFails(t)
    PROVE  Inv'
<1> DEFINE f == [call[t] EXCEPT !.pc = "load"]
<1>1. t \in Threads /\ call[t] \in Calls
  BY InvFacts
<1>2. /\ call[t].pc = "cas" /\ call' = [call EXCEPT ![t] = f]
      /\ UNCHANGED <<cursors, slots, sent, got>>
  BY DEF CasFails
<1>3. /\ f \in Calls /\ f.pc = "load" /\ f.op = call[t].op /\ f.n = call[t].n
      /\ f.done = call[t].done
  BY <1>1 DEF Calls
<1>4. call[t].done = 0 /\ (call[t].op = "one" => call[t].n = 1)
  BY <1>2, InvFacts DEF Side, Local
<1>5. t \in Producers => sent[t] + f.n <= MaxItems
  BY <1>2, <1>3 DEF Inv
<1> HIDE DEF f
<1>6. \A tail, head, limit : Local(f, tail, head, limit)
  BY <1>3, <1>4 DEF Local
<1> QED BY <1>1, <1>2, <1>3, <1>5, <1>6, QuietStep

\* The clamp of the run: at least one element, at most what was asked and, if
\* the computed limit is not zero, at most that.
LEMMA TakeKeepsInv ==
    ASSUME Inv, NEW t \in Producers \cup Consumers, call[t].pc = "check",
           NEW free \in Nat, Take(t, free),
           call[t].op = "burst" => free >= 1,
           t \in Producers /\ call[t].old = prodHead =>
               free >= 1 /\ prodHead + free <= consTail + Capacity,
           t \in Consumers /\ call[t].old = consHead =>
               free >= 1 /\ consHead + free <= prodTail
    PROVE  Inv'
<1> DEFINE k == IF call[t].op = "one" \/ call[t].n < free THEN call[t].n ELSE free
           f == [call[t] EXCEPT !.pc = "cas", !.k = k]
<1>1. t \in Threads /\ call[t] \in Calls
  BY InvFacts
<1>2. call' = [call EXCEPT ![t] = f] /\ UNCHANGED <<cursors, slots, sent, got>>
  BY DEF Take
<1>3. k \in Nat /\ k >= 1 /\ k <= call[t].n
  BY <1>1, BoundAssumption DEF Calls
<1>4. /\ f \in Calls /\ f.pc = "cas" /\ f.op = call[t].op /\ f.n = call[t].n
      /\ f.done = call[t].done /\ f.k = k /\ f.old = call[t].old
  BY <1>1, <1>3 DEF Calls
<1>5. /\ call[t].done = 0 /\ (call[t].op = "one" => call[t].n = 1)
      /\ t \in Producers => call[t].old <= prodHead
      /\ t \in Consumers => call[t].old <= consHead
  BY InvFacts DEF Side, Local
<1>6. free >= 1 => k <= free
  BY <1>1, <1>5, BoundAssumption DEF Calls
<1>7. t \in Producers => sent[t] + f.n <= MaxItems
  BY <1>4 DEF Inv
<1> HIDE DEF f, k
<1>8. t \in Producers => Local(f, prodTail, prodHead, consTail + Capacity)
  BY <1>3, <1>4, <1>5, <1>6, InvFacts, SizeAssumption DEF Local
<1>9. t \in Consumers => Local(f, consTail, consHead, prodTail)
  BY <1>3, <1>4, <1>5, <1>6, InvFacts DEF Local
<1> QED BY <1>1, <1>2, <1>4, <1>7, <1>8, <1>9, QuietStep

\* The unsigned subtractions of the full test are exact when the loaded head
\* is still the current one.
LEMMA FreeFacts ==
    ASSUME Inv, NEW p \in Producers, call[p].pc = "check"
    PROVE  /\ Used(p) \in Nat /\ FreeEntries(p) \in Nat
           /\ call[p].old = prodHead =>
                 /\ Used(p) = prodHead - consTail
                 /\ FreeEntries(p) = Capacity - Used(p)
<1> USE SizeAssumption
<1>1. call[p].old \in Nat /\ consTail \in Nat /\ prodHead \in Nat
  BY InvFacts DEF Calls
<1>2. Used(p) \in Nat
  BY <1>1, U32Facts DEF Used
<1>3. FreeEntries(p) \in Nat
  BY <1>2, U32Facts DEF FreeEntries
<1>4. ASSUME call[p].old = prodHead
      PROVE  Used(p) = prodHead - consTail /\ FreeEntries(p) = Capacity - Used(p)
  <2>1. prodHead - consTail \in Nat /\ prodHead - consTail <= Capacity
    BY <1>1, InvFacts
  <2>2. Used(p) = prodHead - consTail
    BY <1>4, <2>1, U32Small DEF Used
  <2>3. Capacity - Used(p) \in Nat /\ Capacity - Used(p) < Modulus
    BY <2>1, <2>2
  <2>4. FreeEntries(p) = Capacity - Used(p)
    BY <2>3, U32Small DEF FreeEntries
  <2> QED BY <2>2, <2>4
<1> QED BY <1>2, <1>3, <1>4

\* What a consumer's avail = pt - ch amounts to.
LEMMA AvailFacts ==
    ASSUME Inv, NEW c \in Consumers, call[c].pc = "check"
    PROVE  /\ Avail(c) \in Nat
           /\ call[c].old = consHead => Avail(c) = prodTail - consHead
<1> USE SizeAssumption
<1>1. call[c].old \in Nat /\ prodTail \in Nat /\ consHead \in Nat
  BY InvFacts DEF Calls
<1>2. Avail(c) \in Nat
  BY <1>1, U32Facts DEF Avail
<1>3. ASSUME call[c].old = consHead
      PROVE  Avail(c) = prodTail - consHead
  <2>1. prodTail - consHead \in Nat /\ prodTail - consHead < Modulus
    BY <1>1, InvFacts
  <2> QED BY <1>3, <2>1, U32Small DEF Avail
<1> QED BY <1>2, <1>3

\* A producer's run, computed from free_entries, fits if its head is current.
LEMMA CheckFreeKeepsInv ==
    ASSUME Inv, NEW p \in Producers, CheckFree(p)
    PROVE  Inv'
<1> DEFINE free == FreeEntries(p)
<1>1. call[p].pc = "check" /\ ~SeesFull(p) /\ Take(p, free)
  BY DEF CheckFree, AtCheck
<1>2. free \in Nat /\ Used(p) \in Nat
  BY <1>1, FreeFacts
<1>3. call[p].op = "burst" => free >= 1
  BY <1>1, <1>2 DEF SeesFull
<1>4. call[p].op \in {"one", "burst"}
  BY InvFacts DEF Calls
<1>5. call[p].old = prodHead => free >= 1 /\ prodHead + free <= consTail + Capacity
  BY <1>1, <1>2, <1>3, <1>4, FreeFacts, InvFacts, SizeAssumption DEF SeesFull
<1> HIDE DEF free
<1>6. p \notin Consumers
  BY ThreadsAssumption
<1> QED BY <1>1, <1>2, <1>3, <1>5, <1>6, TakeKeepsInv

\* A consumer's run, computed from avail, fits if its head is current.
LEMMA CheckAvailKeepsInv ==
    ASSUME Inv, NEW c \in Consumers, CheckAvail(c)
    PROVE  Inv'
<1> DEFINE free == Avail(c)
<1>1. call[c].pc = "check" /\ ~SeesEmpty(c) /\ Take(c, free)
  BY DEF CheckAvail, AtCheck
<1>2. free \in Nat
  BY <1>1, AvailFacts
<1>3. call[c].op = "burst" => free >= 1
  BY <1>1, <1>2 DEF SeesEmpty
<1>4. call[c].op \in {"one", "burst"}
  BY InvFacts DEF Calls
<1>5. call[c].old = consHead => free >= 1 /\ consHead + free <= prodTail
  BY <1>1, <1>2, <1>3, <1>4, AvailFacts, InvFacts, SizeAssumption DEF SeesEmpty
<1> HIDE DEF free
<1>6. c \notin Producers
  BY ThreadsAssumption
<1> QED BY <1>1, <1>2, <1>3, <1>5, <1>6, TakeKeepsInv

\* A CAS that succeeds found the very value it had loaded.
LEMMA CasExact ==
    ASSUME Inv, NEW t \in Threads, NEW head \in Nat, CasHead(t, head), call[t].old <= head
    PROVE  call[t].old = head
<1>1. call[t].old \in Nat
  BY InvFacts DEF Calls
<1> QED BY <1>1, U32Facts, SizeAssumption DEF CasHead, NotLapped

\* A producer's successful CAS on prod.head keeps the invariant.
LEMMA CasProdKeepsInv ==
    ASSUME Inv, NEW p \in Producers, CasProdHead(p)
    PROVE  Inv'
<1> USE InvFacts
<1> DEFINE f == [call[p] EXCEPT !.pc = "copy"]
<1>1. /\ p \in Threads /\ p \notin Consumers /\ call[p] \in Calls /\ call[p].pc = "cas"
      /\ call' = [call EXCEPT ![p] = f] /\ CasHead(p, prodHead)
      /\ prodHead' = prodHead + call[p].k
      /\ UNCHANGED <<prodTail, consHead, consTail, slots, sent, got>>
  BY ThreadsAssumption DEF CasProdHead, CasHead
<1>2. f \in Calls /\ f.n = call[p].n
  BY <1>1 DEF Calls
<1>3. call[p].old = prodHead
  BY <1>1, CasExact DEF Side, Local
<1>4. call[p].k \in Nat /\ prodHead + call[p].k <= consTail + Capacity
  BY <1>1, <1>3 DEF Side, Local, Calls
<1>5. Side(Producers, [call EXCEPT ![p] = f], prodTail, prodHead + call[p].k, consTail + Capacity)
  BY <1>1, <1>3, SideReserve
<1>6. Side(Consumers, [call EXCEPT ![p] = f], consTail, consHead, prodTail)
  <2>1. prodTail <= prodTail
    OBVIOUS
  <2> QED BY <1>1, <1>2, <2>1, SideQuiet, Zenon
<1>7. TypeOK'
  BY <1>1, <1>2, <1>4 DEF Inv, TypeOK
<1>8. CursorOrder'
  BY <1>1, <1>4 DEF CursorOrder
<1>9. \A q \in Producers : call'[q].pc # "idle" => sent'[q] + call'[q].n <= MaxItems
  BY <1>1, <1>2 DEF Inv
<1> HIDE DEF f
<1> QED BY <1>1, <1>5, <1>6, <1>7, <1>8, <1>9 DEF Inv

\* A consumer's successful CAS on cons.head keeps the invariant.
LEMMA CasConsKeepsInv ==
    ASSUME Inv, NEW c \in Consumers, CasConsHead(c)
    PROVE  Inv'
<1> USE InvFacts
<1> DEFINE f == [call[c] EXCEPT !.pc = "copy"]
<1>1. /\ c \in Threads /\ c \notin Producers /\ call[c] \in Calls /\ call[c].pc = "cas"
      /\ call' = [call EXCEPT ![c] = f] /\ CasHead(c, consHead)
      /\ consHead' = consHead + call[c].k
      /\ UNCHANGED <<prodHead, prodTail, consTail, slots, sent, got>>
  BY ThreadsAssumption DEF CasConsHead, CasHead
<1>2. f \in Calls
  BY <1>1 DEF Calls
<1>3. call[c].old = consHead
  BY <1>1, CasExact DEF Side, Local
<1>4. call[c].k \in Nat /\ consHead + call[c].k <= prodTail
  BY <1>1, <1>3 DEF Side, Local, Calls
<1>5. Side(Consumers, [call EXCEPT ![c] = f], consTail, consHead + call[c].k, prodTail)
  BY <1>1, <1>3, SideReserve
<1>6. Side(Producers, [call EXCEPT ![c] = f], prodTail, prodHead, consTail + Capacity)
  <2>1. consTail + Capacity <= consTail + Capacity
    BY SizeAssumption
  <2> QED BY <1>1, <1>2, <2>1, SideQuiet, Zenon
<1>7. TypeOK'
  BY <1>1, <1>2, <1>4 DEF Inv, TypeOK
<1>8. CursorOrder'
  BY <1>1, <1>4 DEF CursorOrder
<1>9. \A q \in Producers : call'[q].pc # "idle" => sent'[q] + call'[q].n <= MaxItems
  BY <1>1 DEF Inv
<1> HIDE DEF f
<1> QED BY <1>1, <1>5, <1>6, <1>7, <1>8, <1>9 DEF Inv

\* Copying one element into a reserved slot keeps the invariant.
LEMMA CopyInKeepsInv ==
    ASSUME Inv, NEW p \in Producers, CopyIn(p)
    PROVE  Inv'
<1> USE InvFacts
<1> DEFINE f == [call[p] EXCEPT !.done = call[p].done + 1]
<1>1. /\ p \in Threads /\ p \notin Consumers /\ call[p] \in Calls
      /\ call[p].pc = "copy" /\ call[p].done < call[p].k
      /\ call' = [call EXCEPT ![p] = f]
      /\ UNCHANGED <<prodHead, prodTail, consHead, consTail, sent, got>>
  BY ThreadsAssumption DEF CopyIn, Copying, CopyOne, cursors
<1>2. f \in Calls /\ f.n = call[p].n
  BY <1>1 DEF Calls
<1>3. slots' \in [0..(Capacity - 1) -> Items]
  <2>1. call[p].k <= call[p].n /\ sent[p] + call[p].n <= MaxItems
    BY <1>1 DEF Inv, Side, Local
  <2>2. sent[p] + call[p].done + 1 \in 1..MaxItems
    BY <1>1, <2>1, BoundAssumption DEF Inv, TypeOK, Calls
  <2>3. <<p, sent[p] + call[p].done + 1>> \in Items
    BY <2>2 DEF Items
  <2> QED BY <2>3 DEF CopyIn, Inv, TypeOK
<1>4. Side(Producers, [call EXCEPT ![p] = f], prodTail, prodHead, consTail + Capacity)
  BY <1>1, SideCopy
<1>5. Side(Consumers, [call EXCEPT ![p] = f], consTail, consHead, prodTail)
  <2>1. prodTail <= prodTail
    OBVIOUS
  <2> QED BY <1>1, <1>2, <2>1, SideQuiet, Zenon
<1>6. TypeOK'
  BY <1>1, <1>2, <1>3 DEF Inv, TypeOK
<1>7. CursorOrder'
  BY <1>1 DEF CursorOrder
<1>8. \A q \in Producers : call'[q].pc # "idle" => sent'[q] + call'[q].n <= MaxItems
  BY <1>1, <1>2 DEF Inv
<1> HIDE DEF f
<1> QED BY <1>1, <1>4, <1>5, <1>6, <1>7, <1>8 DEF Inv

\* Copying one element out of a reserved slot keeps the invariant.
LEMMA CopyOutKeepsInv ==
    ASSUME Inv, NEW c \in Consumers, CopyOut(c)
    PROVE  Inv'
<1> USE InvFacts
<1> DEFINE f == [call[c] EXCEPT !.done = call[c].done + 1]
           item == slots[SlotOf(call[c].old, call[c].done)]
<1>1. /\ c \in Threads /\ c \notin Producers /\ call[c] \in Calls
      /\ call[c].pc = "copy" /\ call[c].done < call[c].k
      /\ call' = [call EXCEPT ![c] = f]
      /\ got' = [got EXCEPT ![c] = Append(got[c], item)]
      /\ UNCHANGED <<prodHead, prodTail, consHead, consTail, slots, sent>>
  BY ThreadsAssumption DEF CopyOut, Copying, CopyOne, cursors
<1>2. f \in Calls
  <2>1. call[c].done + 1 \in Nat
    BY <1>1 DEF Calls
  <2> QED BY <1>1, <2>1 DEF Calls
<1>3. item \in Items
  <2>1. consTail <= call[c].old /\ call[c].old + call[c].k <= consHead
    BY <1>1 DEF Side, Local
  <2>2. call[c].old \in Nat /\ call[c].done \in Nat /\ call[c].done < Capacity
    BY <1>1, <2>1, SizeAssumption DEF Calls
  <2>3. SlotOf(call[c].old, call[c].done) \in 0..(Capacity - 1)
    BY <2>2, SlotFacts
  <2> QED BY <2>3 DEF Inv, TypeOK
<1>4. Side(Consumers, [call EXCEPT ![c] = f], consTail, consHead, prodTail)
  BY <1>1, SideCopy
<1>5. Side(Producers, [call EXCEPT ![c] = f], prodTail, prodHead, consTail + Capacity)
  <2>1. consTail + Capacity <= consTail + Capacity
    BY SizeAssumption
  <2> QED BY <1>1, <1>2, <2>1, SideQuiet, Zenon
<1> HIDE DEF item
<1>6. TypeOK'
  <2>1. got' \in [Consumers -> Seq(Items)]
    BY <1>1, <1>3 DEF Inv, TypeOK
  <2> QED BY <1>1, <1>2, <2>1 DEF Inv, TypeOK
<1>7. CursorOrder'
  BY <1>1 DEF CursorOrder
<1>8. \A q \in Producers : call'[q].pc # "idle" => sent'[q] + call'[q].n <= MaxItems
  BY <1>1 DEF Inv
<1> HIDE DEF f
<1> QED BY <1>1, <1>4, <1>5, <1>6, <1>7, <1>8 DEF Inv

\* A thread that leaves the wait loop of phase 3 holds the oldest run.
LEMMA TurnExact ==
    ASSUME Inv, NEW t \in Threads, NEW tail \in Nat, MyTurn(t, tail),
           tail <= call[t].old, call[t].old - tail < Modulus
    PROVE  call[t].old = tail
<1>1. call[t].old \in Nat
  BY InvFacts DEF Calls
<1> QED BY <1>1, U32Facts DEF MyTurn

\* A producer's commit, the store of prod.tail, keeps the invariant.
LEMMA CommitProdKeepsInv ==
    ASSUME Inv, NEW p \in Producers, CommitProd(p)
    PROVE  Inv'
<1> USE InvFacts, SizeAssumption
<1>1. /\ p \in Threads /\ p \notin Consumers /\ call[p] \in Calls
      /\ MyTurn(p, prodTail) /\ call[p].pc = "copy"
      /\ call' = [call EXCEPT ![p] = NoCall]
      /\ prodTail' = prodTail + call[p].k
      /\ sent' = [sent EXCEPT ![p] = sent[p] + call[p].k]
      /\ UNCHANGED <<prodHead, consHead, consTail, slots, got>>
  BY ThreadsAssumption DEF CommitProd, MyTurn, Return
<1>2. NoCall \in Calls /\ NoCall.pc = "idle"
  BY BoundAssumption DEF NoCall, Calls
<1>3. /\ call[p].old \in Nat /\ call[p].k \in Nat
      /\ prodTail <= call[p].old /\ call[p].old + call[p].k <= prodHead
  BY <1>1 DEF Side, Local, Calls
<1>4. call[p].old = prodTail
  <2>1. call[p].old - prodTail < Modulus
    BY <1>3
  <2> QED BY <1>1, <1>3, <2>1, TurnExact
<1>5. /\ Side(Producers, [call EXCEPT ![p] = NoCall], prodTail + call[p].k, prodHead, consTail + Capacity)
      /\ prodTail + call[p].k <= prodHead
  BY <1>1, <1>4, SideCommit
<1>6. Side(Consumers, [call EXCEPT ![p] = NoCall], consTail, consHead, prodTail + call[p].k)
  <2>1. prodTail <= prodTail + call[p].k /\ prodTail + call[p].k \in Nat
    BY <1>3
  <2> QED BY <1>1, <1>2, <2>1, SideQuiet, Zenon
<1>7. TypeOK'
  <2>0. sent \in [Producers -> Nat]
    BY DEF Inv, TypeOK
  <2>1. prodTail' \in Nat /\ sent' \in [Producers -> Nat]
    BY <1>1, <1>3, <2>0
  <2>2. call' \in [Threads -> Calls]
    BY <1>1, <1>2
  <2> QED BY <1>1, <2>1, <2>2 DEF Inv, TypeOK
<1>8. CursorOrder'
  BY <1>1, <1>3, <1>5 DEF CursorOrder
<1>9. ASSUME NEW q \in Producers, call'[q].pc # "idle"
      PROVE  sent'[q] + call'[q].n <= MaxItems
  <2>1. q # p
    BY <1>1, <1>2, <1>9
  <2>2. sent'[q] = sent[q] /\ call'[q] = call[q]
    BY <1>1, <2>1 DEF Inv, TypeOK
  <2> QED BY <1>9, <2>2 DEF Inv
<1> QED BY <1>1, <1>5, <1>6, <1>7, <1>8, <1>9 DEF Inv

\* A consumer's commit, the store of cons.tail, keeps the invariant.
LEMMA CommitConsKeepsInv ==
    ASSUME Inv, NEW c \in Consumers, CommitCons(c)
    PROVE  Inv'
<1> USE InvFacts, SizeAssumption
<1>1. /\ c \in Threads /\ c \notin Producers /\ call[c] \in Calls
      /\ MyTurn(c, consTail) /\ call[c].pc = "copy"
      /\ call' = [call EXCEPT ![c] = NoCall]
      /\ consTail' = consTail + call[c].k
      /\ UNCHANGED <<prodHead, prodTail, consHead, slots, sent, got>>
  BY ThreadsAssumption DEF CommitCons, MyTurn, Return
<1>2. NoCall \in Calls /\ NoCall.pc = "idle"
  BY BoundAssumption DEF NoCall, Calls
<1>3. /\ call[c].old \in Nat /\ call[c].k \in Nat
      /\ consTail <= call[c].old /\ call[c].old + call[c].k <= consHead
  BY <1>1 DEF Side, Local, Calls
<1>4. call[c].old = consTail
  <2>1. call[c].old - consTail < Modulus
    BY <1>3
  <2> QED BY <1>1, <1>3, <2>1, TurnExact
<1>5. /\ Side(Consumers, [call EXCEPT ![c] = NoCall], consTail + call[c].k, consHead, prodTail)
      /\ consTail + call[c].k <= consHead
  BY <1>1, <1>4, SideCommit
<1>6. Side(Producers, [call EXCEPT ![c] = NoCall], prodTail, prodHead, consTail + call[c].k + Capacity)
  <2>1. /\ consTail + Capacity <= consTail + call[c].k + Capacity
        /\ consTail + call[c].k + Capacity \in Nat
    BY <1>3
  <2> QED BY <1>1, <1>2, <2>1, SideQuiet, Zenon
<1>7. TypeOK'
  BY <1>1, <1>2, <1>3 DEF Inv, TypeOK
<1>8. CursorOrder'
  BY <1>1, <1>3, <1>5 DEF CursorOrder
<1>9. \A q \in Producers : call'[q].pc # "idle" => sent'[q] + call'[q].n <= MaxItems
  BY <1>1 DEF Inv
<1> QED BY <1>1, <1>5, <1>6, <1>7, <1>8, <1>9 DEF Inv

\* ring_lf_count changes nothing but the observer's locals.
LEMMA CountKeepsInv ==
    ASSUME Inv, NEW o \in Observers, CountLoadTail(o) \/ CountLoadHead(o)
    PROVE  Inv'
<1> DEFINE f == [call[o] EXCEPT !.pc = "count", !.old = prodTail]
<1>1. o \in Threads /\ o \notin Producers /\ o \notin Consumers /\ call[o] \in Calls
  BY InvFacts, ThreadsAssumption DEF Threads
<1>2. f \in Calls
  BY <1>1, InvFacts DEF Calls
<1>3. CASE CountLoadTail(o)
  <2>1. call' = [call EXCEPT ![o] = f] /\ UNCHANGED <<cursors, slots, sent, got>>
    BY <1>3 DEF CountLoadTail
  <2> HIDE DEF f
  <2> QED BY <1>1, <1>2, <2>1, QuietStep
<1>4. CASE CountLoadHead(o)
  BY <1>1, <1>4, ReturnKeepsInv DEF CountLoadHead
<1> QED BY <1>3, <1>4

\* Every step of the ring keeps the invariant.
LEMMA InvStep == Inv /\ [Next]_vars => Inv'
<1> SUFFICES ASSUME Inv, [Next]_vars PROVE Inv'
  OBVIOUS
<1>1. CASE UNCHANGED vars
  <2>1. /\ UNCHANGED <<prodHead, prodTail, consHead, consTail>>
        /\ slots' = slots /\ call' = call /\ sent' = sent /\ got' = got
    BY <1>1 DEF vars, cursors
  <2>2. TypeOK' /\ CursorOrder'
    BY <2>1 DEF Inv, TypeOK, CursorOrder
  <2> QED BY <2>1, <2>2 DEF Inv
<1>2. ASSUME NEW p \in Producers, ProducerStep(p) PROVE Inv'
  <2>1. p \in Threads
    BY DEF Threads
  <2>2. CASE LoadProdHead(p)
    BY <2>2, LoadKeepsInv DEF LoadProdHead
  <2>3. CASE ReturnFull(p)
    BY <2>1, <2>3, ReturnKeepsInv DEF ReturnFull, AtCheck
  <2> QED BY <1>2, <2>2, <2>3, CheckFreeKeepsInv, CasProdKeepsInv, CasFailsKeepsInv,
             CopyInKeepsInv, CommitProdKeepsInv DEF ProducerStep
<1>3. ASSUME NEW c \in Consumers, ConsumerStep(c) PROVE Inv'
  <2>1. c \in Threads
    BY DEF Threads
  <2>2. CASE LoadConsHead(c)
    BY <2>2, LoadKeepsInv DEF LoadConsHead
  <2>3. CASE ReturnEmpty(c)
    BY <2>1, <2>3, ReturnKeepsInv DEF ReturnEmpty, AtCheck
  <2> QED BY <1>3, <2>2, <2>3, CheckAvailKeepsInv, CasConsKeepsInv, CasFailsKeepsInv,
             CopyOutKeepsInv, CommitConsKeepsInv DEF ConsumerStep
<1>4. ASSUME NEW p \in Producers, NEW o \in {"one", "burst"}, NEW n \in 1..MaxBurst,
             CallPush(p, o, n)
      PROVE  Inv'
  BY <1>4, CallKeepsInv DEF CallPush
<1>5. ASSUME NEW c \in Consumers, NEW o \in {"one", "burst"}, NEW n \in 1..MaxBurst,
             CallPop(c, o, n)
      PROVE  Inv'
  BY <1>5, CallKeepsInv, ThreadsAssumption DEF CallPop
<1> QED BY <1>1, <1>2, <1>3, <1>4, <1>5, CountKeepsInv DEF Next

\* Every reachable state satisfies the inductive invariant: the cursors are
\* ordered and each side's reserved runs tile the gap between its cursors.
THEOREM Invariance == Spec => []Inv
BY InvInit, InvStep, PTL DEF Spec

------------------------------------------------------------------------------
(* What the invariant gives.                                               *)

\* The positions held by two threads differ and lie within one capacity.
LEMMA PositionsApart ==
    ASSUME Inv, NEW t \in Producers \cup Consumers, NEW u \in Producers \cup Consumers, t # u,
           call[t].pc = "copy", call[u].pc = "copy",
           NEW i \in 0..(call[t].k - 1), NEW j \in 0..(call[u].k - 1)
    PROVE  /\ call[t].old \in Nat /\ call[u].old \in Nat /\ i \in Nat /\ j \in Nat
           /\ i < Capacity /\ j < Capacity
           /\ call[t].old + i # call[u].old + j
           /\ (call[t].old + i) - (call[u].old + j) < Capacity
           /\ (call[u].old + j) - (call[t].old + i) < Capacity
<1> USE InvFacts, SizeAssumption
<1>1. /\ t \in Threads /\ u \in Threads
      /\ call[t].old \in Nat /\ call[u].old \in Nat /\ call[t].k \in Nat /\ call[u].k \in Nat
  BY DEF Calls
<1>2. /\ t \in Producers => prodTail <= call[t].old /\ call[t].old + call[t].k <= prodHead
      /\ t \in Consumers => consTail <= call[t].old /\ call[t].old + call[t].k <= consHead
      /\ u \in Producers => prodTail <= call[u].old /\ call[u].old + call[u].k <= prodHead
      /\ u \in Consumers => consTail <= call[u].old /\ call[u].old + call[u].k <= consHead
  BY DEF Side, Local
<1>3. \/ call[t].old + call[t].k <= call[u].old
      \/ call[u].old + call[u].k <= call[t].old
  <2>1. CASE (t \in Producers /\ u \in Producers) \/ (t \in Consumers /\ u \in Consumers)
    BY <2>1 DEF Side, Disjoint
  <2>2. CASE (t \in Producers /\ u \in Consumers) \/ (t \in Consumers /\ u \in Producers)
    BY <1>1, <1>2, <2>2
  <2> QED BY <2>1, <2>2
<1> QED BY <1>1, <1>2, <1>3

\* Distinct positions less than one capacity apart lie in distinct slots.
LEMMA InvExclusive == Inv => SlotExclusive
<1> SUFFICES ASSUME Inv, NEW t \in Producers \cup Consumers, NEW u \in Producers \cup Consumers,
                    t # u, call[t].pc = "copy", call[u].pc = "copy",
                    NEW i \in 0..(call[t].k - 1), NEW j \in 0..(call[u].k - 1),
                    SlotOf(call[t].old, i) = SlotOf(call[u].old, j)
             PROVE  FALSE
  BY DEF SlotExclusive
<1> DEFINE x == call[t].old + i
           y == call[u].old + j
<1>1. /\ call[t].old \in Nat /\ call[u].old \in Nat /\ i \in Nat /\ j \in Nat
      /\ i < Capacity /\ j < Capacity
      /\ x # y /\ x - y < Capacity /\ y - x < Capacity
  BY PositionsApart
<1>2. x \in Int /\ y \in Int /\ Capacity \in Nat /\ Capacity > 0
  BY <1>1, SizeAssumption
<1>3. x % Capacity = y % Capacity
  BY <1>1, SlotFacts
<1> HIDE DEF x, y
<1> QED BY <1>1, <1>2, <1>3, ModEq, Zenon

\* The run that covers the tail starts at it, so its owner may commit.
LEMMA InvCommitter == Inv => CommitterExists
<1> SUFFICES ASSUME Inv PROVE CommitterExists
  OBVIOUS
<1> USE InvFacts
<1>1. ASSUME prodTail < prodHead
      PROVE  \E p \in Producers : call[p].pc = "copy" /\ call[p].old = prodTail
  <2>1. prodTail \in prodTail..(prodHead - 1)
    BY <1>1
  <2>2. PICK p \in Producers : call[p].pc = "copy" /\ call[p].old <= prodTail
    BY <2>1 DEF Side, Tiled
  <2>3. prodTail <= call[p].old /\ call[p].old \in Nat
    BY <2>2 DEF Side, Local, Calls
  <2> QED BY <2>2, <2>3
<1>2. ASSUME consTail < consHead
      PROVE  \E c \in Consumers : call[c].pc = "copy" /\ call[c].old = consTail
  <2>1. consTail \in consTail..(consHead - 1)
    BY <1>2
  <2>2. PICK c \in Consumers : call[c].pc = "copy" /\ call[c].old <= consTail
    BY <2>1 DEF Side, Tiled
  <2>3. consTail <= call[c].old /\ call[c].old \in Nat
    BY <2>2 DEF Side, Local, Calls
  <2> QED BY <2>2, <2>3
<1> QED BY <1>1, <1>2 DEF CommitterExists

\* Every variable keeps its type; in particular no copy leaves the buffer and
\* no burst moves more than it was asked to.
THEOREM TypeCorrect == Spec => []TypeOK
BY Invariance, PTL DEF Inv

\* Reservation and commit never pass each other, for any number of threads,
\* any capacity and any wrap of the uint32_t cursors.
THEOREM CursorsOrdered == Spec => []CursorOrder
BY Invariance, PTL DEF Inv

\* No two threads ever hold the same slot: the memcpys never race.
THEOREM NoSlotRace == Spec => []SlotExclusive
BY Invariance, InvExclusive, PTL

\* Phase 3 never waits for nobody.
THEOREM CommitNeverOrphaned == Spec => []CommitterExists
BY Invariance, InvCommitter, PTL

\* A pop that returns empty loaded the current head.
LEMMA EmptyStep ==
    ASSUME Inv, NEW c \in Consumers, ReturnEmpty(c)
    PROVE  consHead = prodTail
<1> USE InvFacts, SizeAssumption
<1>1. /\ call[c].pc = "check" /\ call[c].old \in Nat /\ call[c].old <= consHead
      /\ consHead + Capacity - call[c].old < Modulus
  BY DEF ReturnEmpty, AtCheck, NotLapped, Calls, Side, Local
<1>2. call[c].old <= prodTail /\ prodTail - call[c].old < Modulus
  BY <1>1
<1>3. U32(prodTail) = U32(call[c].old)
  <2>1. CASE call[c].op = "one"
    BY <2>1 DEF ReturnEmpty, SeesEmpty
  <2>2. CASE call[c].op # "one"
    <3>1. prodTail - call[c].old \in Nat
      BY <1>1, <1>2
    <3>2. Avail(c) = prodTail - call[c].old
      BY <1>2, <3>1, U32Small DEF Avail
    <3>3. Avail(c) = 0
      BY <2>2 DEF ReturnEmpty, SeesEmpty
    <3> QED BY <1>1, <3>2, <3>3
  <2> QED BY <2>1, <2>2
<1>4. call[c].old = prodTail
  BY <1>1, <1>2, <1>3, U32Facts
<1> QED BY <1>1, <1>4

\* Pop and dequeue_burst report empty only when the ring is empty.
THEOREM EmptyReportsAreReal == Spec => EmptyIsReal
<1>1. Inv /\ [Next]_vars =>
          [\A c \in Consumers : ReturnEmpty(c) => consHead = prodTail]_vars
  BY EmptyStep
<1> QED BY <1>1, Invariance, PTL DEF Spec, EmptyIsReal

\* An enqueue burst that returns full loaded the current head.
LEMMA BurstFullStep ==
    ASSUME Inv, NEW p \in Producers, ReturnFull(p), call[p].op = "burst"
    PROVE  prodHead - consTail = Capacity
<1> USE InvFacts, SizeAssumption
<1>1. /\ call[p].pc = "check" /\ call[p].old \in Nat /\ call[p].old <= prodHead
      /\ prodHead + Capacity - call[p].old < Modulus
  BY DEF ReturnFull, AtCheck, NotLapped, Calls, Side, Local
<1>2. Used(p) \in 0..(Modulus - 1) /\ FreeEntries(p) = 0
  BY <1>1, U32Facts DEF Used, ReturnFull, SeesFull
<1>3. Used(p) = Capacity
  <2>1. U32(Capacity - Used(p)) = 0
    BY <1>2 DEF FreeEntries
  <2>2. Capacity - Used(p) < Modulus /\ -(Capacity - Used(p)) < Modulus
    BY <1>2
  <2>3. U32(0) = 0
    BY U32Small
  <2>4. /\ Modulus \in Nat /\ Modulus > 0 /\ Capacity - Used(p) \in Int /\ 0 \in Int
        /\ (Capacity - Used(p)) - 0 < Modulus /\ 0 - (Capacity - Used(p)) < Modulus
    BY <1>2, <2>2
  <2>5. (Capacity - Used(p)) % Modulus = 0 % Modulus
    BY <2>1, <2>3, Zenon DEF U32
  <2>6. Capacity - Used(p) = 0
    BY <2>4, <2>5, ModEq, Zenon
  <2> QED BY <1>2, <2>6
<1>4. call[p].old - consTail = Capacity
  <2> DEFINE d == call[p].old - consTail
  <2>1. d \in Int /\ d <= Capacity /\ Capacity - d < Modulus
    BY <1>1
  <2>2. CASE d >= 0
    <3>1. U32(d) = d
      BY <2>1, <2>2, U32Small
    <3> QED BY <1>3, <3>1 DEF Used
  <2>3. CASE d < 0
    <3> HIDE DEF d
    <3>1. /\ Modulus \in Nat /\ Modulus > 0 /\ Capacity \in Int
          /\ d - Capacity < Modulus /\ Capacity - d < Modulus
      BY <2>1, <2>3
    <3>2. U32(d) = U32(Capacity)
      BY <1>3, U32Small DEF Used, d
    <3>3. d % Modulus = Capacity % Modulus
      BY <3>2, Zenon DEF U32
    <3>4. d = Capacity
      BY <2>1, <3>1, <3>3, ModEq, Zenon
    <3> QED BY <2>3, <3>4
  <2> QED BY <2>1, <2>2, <2>3
<1> QED BY <1>1, <1>4

\* A burst that returns 0 found every slot in use (a single push may not).
THEOREM BurstFullReportsAreReal == Spec => BurstFullIsReal
<1>1. Inv /\ [Next]_vars =>
          [\A p \in Producers : ReturnFull(p) /\ call[p].op = "burst"
                                => prodHead - consTail = Capacity]_vars
  BY BurstFullStep
<1> QED BY <1>1, Invariance, PTL DEF Spec, BurstFullIsReal
==============================================================================
