------------------------------- MODULE RingLF --------------------------------
(***************************************************************************)
(* The lock-free multi-producer multi-consumer ring of libchan             *)
(* (src/src/ring_lf.c): ring_lf_push, ring_lf_pop, the two burst variants  *)
(* and ring_lf_count.  Every atomic access of the code is one action.      *)
(*                                                                         *)
(* The C cursors are uint32_t and wrap.  The model keeps the number of     *)
(* slots ever reserved or committed; the value the code holds is U32 of    *)
(* it, and every comparison and subtraction of the code is done on U32.    *)
(*                                                                         *)
(* The ring's atomics are read as sequentially consistent: the cursors are *)
(* only ever advanced, and the acquire wait-load before each release store *)
(* (ring_lf.c:58-70) orders slot accesses along each tail.                 *)
(***************************************************************************)
EXTENDS Integers, Sequences

CONSTANTS
    Producers, Consumers,  \* threads calling push / pop and their bursts
    Observers,             \* threads calling ring_lf_count (chan_len)
    Capacity,              \* number of slots, a power of two in the code
    Modulus,               \* 2^32 in the code
    MaxBurst,              \* largest n passed to a burst
    MaxItems,              \* bound: messages each producer pushes
    Start                  \* the ring has already passed this many messages

Threads == Producers \cup Consumers \cup Observers

ASSUME ThreadsAssumption ==
    /\ Producers \cap Consumers = {}
    /\ Producers \cap Observers = {}
    /\ Consumers \cap Observers = {}
ASSUME SizeAssumption ==
    /\ Capacity \in Nat \ {0}
    /\ Modulus \in Nat /\ Modulus > Capacity
    /\ Modulus % Capacity = 0
ASSUME BoundAssumption ==
    MaxBurst \in Nat \ {0} /\ MaxItems \in Nat /\ Start \in Nat

VARIABLES
    prodHead, prodTail,  \* prod.head, prod.tail: reserved, committed
    consHead, consTail,  \* cons.head, cons.tail
    slots,               \* the buffer
    call,                \* the call each thread is in: its pc and locals
    sent,                \* history: messages of p the ring has accepted
    got                  \* history: messages copied out to c

cursors == <<prodHead, prodTail, consHead, consTail>>
vars == <<cursors, slots, call, sent, got>>

\* Conversion to uint32_t.
U32(x) == x % Modulus

\* The slot of cursor value x: (ph & mask), then memcpy split at the wrap.
SlotOf(x, i) ==
    LET idx   == U32(x) % Capacity
        first == Capacity - idx
    IN  IF i < first THEN idx + i ELSE i - first

NoItem == <<"none", 0>>
Items == (Producers \X (1..MaxItems)) \cup {NoItem}

\* The locals of a call: which function it is ("one": push or pop, "burst"),
\* the length n asked of a burst, the head it loaded (old: ph or ch; pt in a
\* count), the length k of the reserved run and how much of it is copied.
NoCall == [pc |-> "idle", op |-> "one", n |-> 1, old |-> 0, k |-> 0, done |-> 0]

Init ==
    /\ prodHead = Start /\ prodTail = Start
    /\ consHead = Start /\ consTail = Start
    /\ slots = [s \in 0..(Capacity - 1) |-> NoItem]
    /\ call = [t \in Threads |-> NoCall]
    /\ sent = [p \in Producers |-> 0]
    /\ got = [c \in Consumers |-> << >>]

Return(t) == call' = [call EXCEPT ![t] = NoCall]

------------------------------------------------------------------------------
(* Entering a call: a push or pop (n = 1), or a burst of n > 0.            *)

Call(t, o, n) ==
    /\ call[t].pc = "idle"
    /\ o = "one" => n = 1
    /\ call' = [call EXCEPT ![t] = [call[t] EXCEPT !.pc = "load", !.op = o, !.n = n]]
    /\ UNCHANGED <<cursors, slots, sent, got>>

CallPush(p, o, n) == sent[p] + n <= MaxItems /\ Call(p, o, n)

CallPop(c, o, n) == Call(c, o, n)

\* Each round of the reservation loop starts by loading the head.
LoadHead(t, head) ==
    /\ call[t].pc = "load"
    /\ call' = [call EXCEPT ![t] = [call[t] EXCEPT !.pc = "check", !.old = head]]
    /\ UNCHANGED <<cursors, slots, sent, got>>

\* Bound on how long a thread may sleep since it loaded the head: the cursors
\* do not go once around all Modulus values meanwhile.
NotLapped(t, head) == head + Capacity - call[t].old < Modulus

AtCheck(t, head) == call[t].pc = "check" /\ NotLapped(t, head)

\* Mutant of CasHead: the head is advanced whether or not it moved.
CasHeadBlind(t, head) ==
    /\ call[t].pc = "cas"
    /\ NotLapped(t, head)
    /\ call' = [call EXCEPT ![t] = [call[t] EXCEPT !.pc = "copy"]]

\* The head is compared with the loaded one and advanced over the run.
CasHead(t, head) ==
    /\ call[t].pc = "cas"
    /\ NotLapped(t, head)
    /\ U32(head) = U32(call[t].old)
    /\ call' = [call EXCEPT ![t] = [call[t] EXCEPT !.pc = "copy"]]

\* The compare-exchange fails, because the head moved or spuriously (it is
\* the weak form): the loop starts again.
CasFails(t) ==
    /\ call[t].pc = "cas"
    /\ call' = [call EXCEPT ![t] = [call[t] EXCEPT !.pc = "load"]]
    /\ UNCHANGED <<cursors, slots, sent, got>>

\* A run of at most n elements out of the limit just computed is wanted.
Take(t, limit) ==
    /\ call' = [call EXCEPT ![t] = [call[t] EXCEPT
                   !.pc = "cas",
                   !.k = IF call[t].op = "one" \/ call[t].n < limit
                         THEN call[t].n ELSE limit]]
    /\ UNCHANGED <<cursors, slots, sent, got>>

\* Mutant of Copying: the copy loop runs one element too far.
CopyingTooFar(t) == call[t].pc = "copy" /\ call[t].done <= call[t].k

Copying(t) == call[t].pc = "copy" /\ call[t].done < call[t].k

CopyOne(t) == call' = [call EXCEPT ![t] = [call[t] EXCEPT !.done = call[t].done + 1]]

\* Mutants of MyTurn: a commit that does not wait for its predecessors, one
\* that publishes the run before it is copied, and one that waits for the
\* position after its own.
MyTurnUnordered(t, tail) == call[t].pc = "copy" /\ call[t].done = call[t].k
MyTurnEarly(t, tail) == call[t].pc = "copy" /\ U32(tail) = U32(call[t].old)
MyTurnNever(t, tail) ==
    /\ call[t].pc = "copy" /\ call[t].done = call[t].k
    /\ U32(tail) = U32(call[t].old + 1)

\* All of the run is copied and every predecessor on this side has committed.
MyTurn(t, tail) ==
    /\ call[t].pc = "copy" /\ call[t].done = call[t].k
    /\ U32(tail) = U32(call[t].old)

------------------------------------------------------------------------------
(* Producers: ring_lf_push and ring_lf_enqueue_burst.                      *)

\* ph - ct, with the cons.tail loaded now, after the head.
Used(p) == U32(call[p].old - consTail)

\* Mutant of FreeEntries: one slot is always kept free.
FreeEntriesOneLess(p) == U32(Capacity - 1 - Used(p))

FreeEntries(p) == U32(Capacity - Used(p))

\* Mutant of SeesFull: push compares with > instead of >=.
SeesFullLate(p) == IF call[p].op = "one" THEN Used(p) > Capacity
                                         ELSE FreeEntries(p) = 0

\* push compares the difference with the capacity, a burst subtracts it from
\* the capacity and compares with zero.
SeesFull(p) == IF call[p].op = "one" THEN Used(p) >= Capacity
                                     ELSE FreeEntries(p) = 0

LoadProdHead(p) == LoadHead(p, prodHead)

ReturnFull(p) ==
    /\ AtCheck(p, prodHead) /\ SeesFull(p)
    /\ Return(p)
    /\ UNCHANGED <<cursors, slots, sent, got>>

CheckFree(p) ==
    /\ AtCheck(p, prodHead) /\ ~SeesFull(p)
    /\ Take(p, FreeEntries(p))

CasProdHead(p) ==
    /\ CasHead(p, prodHead)
    /\ prodHead' = prodHead + call[p].k
    /\ UNCHANGED <<prodTail, consHead, consTail, slots, sent, got>>

CopyIn(p) ==
    /\ Copying(p)
    /\ slots' = [slots EXCEPT ![SlotOf(call[p].old, call[p].done)] =
                    <<p, sent[p] + call[p].done + 1>>]
    /\ CopyOne(p)
    /\ UNCHANGED <<cursors, sent, got>>

CommitProd(p) ==
    /\ MyTurn(p, prodTail)
    /\ prodTail' = prodTail + call[p].k
    /\ sent' = [sent EXCEPT ![p] = @ + call[p].k]
    /\ Return(p)
    /\ UNCHANGED <<prodHead, consHead, consTail, slots, got>>

------------------------------------------------------------------------------
(* Consumers: ring_lf_pop and ring_lf_dequeue_burst.                       *)

\* pt - ch, with the prod.tail loaded now, after the head.
Avail(c) == U32(prodTail - call[c].old)

\* Mutant of SeesEmpty: a pop leaves the last message in the ring.
SeesEmptyEarly(c) == Avail(c) <= 1

\* pop compares the two cursors, a burst their difference with zero.
SeesEmpty(c) == IF call[c].op = "one" THEN U32(prodTail) = U32(call[c].old)
                                      ELSE Avail(c) = 0

LoadConsHead(c) == LoadHead(c, consHead)

ReturnEmpty(c) ==
    /\ AtCheck(c, consHead) /\ SeesEmpty(c)
    /\ Return(c)
    /\ UNCHANGED <<cursors, slots, sent, got>>

CheckAvail(c) ==
    /\ AtCheck(c, consHead) /\ ~SeesEmpty(c)
    /\ Take(c, Avail(c))

CasConsHead(c) ==
    /\ CasHead(c, consHead)
    /\ consHead' = consHead + call[c].k
    /\ UNCHANGED <<prodHead, prodTail, consTail, slots, sent, got>>

CopyOut(c) ==
    /\ Copying(c)
    /\ got' = [got EXCEPT ![c] = Append(@, slots[SlotOf(call[c].old, call[c].done)])]
    /\ CopyOne(c)
    /\ UNCHANGED <<cursors, slots, sent>>

CommitCons(c) ==
    /\ MyTurn(c, consTail)
    /\ consTail' = consTail + call[c].k
    /\ Return(c)
    /\ UNCHANGED <<prodHead, prodTail, consHead, slots, sent, got>>

------------------------------------------------------------------------------
(* ring_lf_count: two unsynchronised loads, pt and then ch.                *)

\* Mutant of CountLoadTail: the count reads prod.head, the reservations.
CountLoadReserved(o) ==
    /\ call[o].pc = "idle"
    /\ call' = [call EXCEPT ![o] = [call[o] EXCEPT !.pc = "count", !.old = prodHead]]
    /\ UNCHANGED <<cursors, slots, sent, got>>

CountLoadTail(o) ==
    /\ call[o].pc = "idle"
    /\ call' = [call EXCEPT ![o] = [call[o] EXCEPT !.pc = "count", !.old = prodTail]]
    /\ UNCHANGED <<cursors, slots, sent, got>>

CountResult(o) == U32(call[o].old - consHead)

CountLoadHead(o) ==
    /\ call[o].pc = "count"
    /\ Return(o)
    /\ UNCHANGED <<cursors, slots, sent, got>>

------------------------------------------------------------------------------
ProducerStep(p) ==
    \/ LoadProdHead(p) \/ ReturnFull(p) \/ CheckFree(p)
    \/ CasProdHead(p) \/ CasFails(p) \/ CopyIn(p) \/ CommitProd(p)

ConsumerStep(c) ==
    \/ LoadConsHead(c) \/ ReturnEmpty(c) \/ CheckAvail(c)
    \/ CasConsHead(c) \/ CasFails(c) \/ CopyOut(c) \/ CommitCons(c)

Next ==
    \/ \E p \in Producers :
          ProducerStep(p) \/ \E o \in {"one", "burst"}, n \in 1..MaxBurst : CallPush(p, o, n)
    \/ \E c \in Consumers :
          ConsumerStep(c) \/ \E o \in {"one", "burst"}, n \in 1..MaxBurst : CallPop(c, o, n)
    \/ \E o \in Observers : CountLoadTail(o) \/ CountLoadHead(o)

Spec == Init /\ [][Next]_vars

\* The scheduler runs every thread that has reserved slots until it commits.
Fairness ==
    /\ \A p \in Producers : WF_vars(CopyIn(p)) /\ WF_vars(CommitProd(p))
    /\ \A c \in Consumers : WF_vars(CopyOut(c)) /\ WF_vars(CommitCons(c))

FairSpec == Spec /\ Fairness

------------------------------------------------------------------------------
(* Properties.                                                             *)

Calls == [pc : {"idle", "load", "check", "cas", "copy", "count"},
          op : {"one", "burst"}, n : 1..MaxBurst, old : Nat, k : Nat, done : Nat]

\* Type invariant: every cursor, slot and local keeps its type.
TypeOK ==
    /\ prodHead \in Nat /\ prodTail \in Nat /\ consHead \in Nat /\ consTail \in Nat
    /\ slots \in [0..(Capacity - 1) -> Items]
    /\ call \in [Threads -> Calls]
    /\ sent \in [Producers -> Nat]
    /\ got \in [Consumers -> Seq(Items)]

\* The four cursors stay in order and never span more than the capacity:
\* consumers stay behind the committed messages, and producers never reserve a
\* slot a consumer still reads, whatever the interleaving of loads and CASes.
CursorOrder ==
    /\ consTail <= consHead
    /\ consHead <= prodTail
    /\ prodTail <= prodHead
    /\ prodHead <= consTail + Capacity

\* No two threads, on either side, ever hold the same slot of the buffer
\* between their reservation and their commit: the memcpys of ring_lf.c never
\* race on a slot, across the wrap of the buffer and of the uint32_t cursors.
SlotExclusive ==
    \A t, u \in Producers \cup Consumers : t # u =>
        \A i \in 0..(call[t].k - 1), j \in 0..(call[u].k - 1) :
            (call[t].pc = "copy" /\ call[u].pc = "copy") =>
                SlotOf(call[t].old, i) # SlotOf(call[u].old, j)

\* Whenever slots are reserved and not committed, the thread whose turn it is
\* to commit exists: the wait loop of phase 3 never waits for nobody.
CommitterExists ==
    /\ prodTail < prodHead =>
          \E p \in Producers : call[p].pc = "copy" /\ call[p].old = prodTail
    /\ consTail < consHead =>
          \E c \in Consumers : call[c].pc = "copy" /\ call[c].old = consTail

\* ring_lf_pop and ring_lf_dequeue_burst report an empty ring only when no
\* committed message is left unreserved at that moment.
EmptyIsReal ==
    [][\A c \in Consumers : ReturnEmpty(c) => consHead = prodTail]_vars

\* ring_lf_enqueue_burst reports a full ring only when every slot is in use.
\* (A single push may report it of a ring with free slots: when cons.tail has
\* passed the prod.head it loaded, ph - ct wraps below zero.)
BurstFullIsReal ==
    [][\A p \in Producers : ReturnFull(p) /\ call[p].op = "burst"
                            => prodHead - consTail = Capacity]_vars

\* A count overstates the committed, unread messages only by wrapping below
\* zero, after consumers took messages past the prod.tail it loaded: pt is
\* loaded before ch, so commits between the two loads are never counted.
CountOverstatesOnlyByWrap ==
    [][\A o \in Observers :
          CountLoadHead(o) /\ CountResult(o) > prodTail - consHead
            => call[o].old < consHead]_vars

\* Every reservation is committed: no thread spins for ever in phase 3.
ReservationCommitted ==
    \A t \in Producers \cup Consumers : call[t].pc = "copy" ~> call[t].pc = "idle"

------------------------------------------------------------------------------
(* The inductive invariant of the proofs (module RingLF_proofs).  One side *)
(* of the ring is its threads S, its two cursors and the limit its head    *)
(* must not pass.                                                          *)

\* What a thread may rely on at each step of its call f.  The limit may be
\* stale in a "cas" whose head moved: that CAS fails.
Local(f, tail, head, limit) ==
    /\ f.pc # "count"
    /\ f.op = "one" => f.n = 1
    /\ f.pc # "copy" => f.done = 0
    /\ f.pc \in {"check", "cas"} => f.old <= head
    /\ f.pc \in {"cas", "copy"} => f.k >= 1 /\ f.k <= f.n
    /\ f.pc = "cas" /\ f.old = head => head + f.k <= limit
    /\ f.pc = "copy" => f.done <= f.k /\ tail <= f.old /\ f.old + f.k <= head

\* Two reserved runs of one side never overlap.
Disjoint(S, calls) ==
    \A t, u \in S : t # u /\ calls[t].pc = "copy" /\ calls[u].pc = "copy" =>
        \/ calls[t].old + calls[t].k <= calls[u].old
        \/ calls[u].old + calls[u].k <= calls[t].old

\* Every reserved and uncommitted position belongs to somebody's run.
Tiled(S, calls, tail, head) ==
    \A x \in tail..(head - 1) :
        \E t \in S : /\ calls[t].pc = "copy"
                     /\ calls[t].old <= x /\ x < calls[t].old + calls[t].k

Side(S, calls, tail, head, limit) ==
    /\ \A t \in S : Local(calls[t], tail, head, limit)
    /\ Disjoint(S, calls)
    /\ Tiled(S, calls, tail, head)

Inv ==
    /\ TypeOK
    /\ CursorOrder
    /\ Side(Producers, call, prodTail, prodHead, consTail + Capacity)
    /\ Side(Consumers, call, consTail, consHead, prodTail)
    /\ \A p \in Producers : call[p].pc # "idle" => sent[p] + call[p].n <= MaxItems

\* What a producer has copied of its run is still in its slots.
Copied ==
    \A p \in Producers : call[p].pc = "copy" =>
        \A i \in 0..(call[p].done - 1) :
            slots[SlotOf(call[p].old, i)] = <<p, sent[p] + i + 1>>

\* A count in progress loaded a prod.tail that has not gone back since.
CountInv ==
    \A o \in Observers : call[o].pc = "count" => call[o].old <= prodTail

------------------------------------------------------------------------------
(* The ring implements the bounded queue of module RingQueue.  A message   *)
(* enters the queue when its producer commits and leaves it when a         *)
(* consumer's CAS reserves it; what a consumer has reserved and not yet    *)
(* copied is read from the slots, where nobody may overwrite it.           *)
Read(x, n) == [i \in 1..n |-> slots[SlotOf(x, i - 1)]]

Pending(c) == IF call[c].pc = "copy"
              THEN Read(call[c].old + call[c].done, call[c].k - call[c].done)
              ELSE << >>

Queue == INSTANCE RingQueue WITH
    queue <- Read(consHead, prodTail - consHead),
    got <- [c \in Consumers |-> got[c] \o Pending(c)]

\* The ring is a linearizable bounded FIFO queue: no message is lost,
\* duplicated, reordered or overwritten before it is read.
ImplementsQueue == Queue!Spec
==============================================================================
