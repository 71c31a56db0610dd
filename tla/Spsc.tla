-------------------------------- MODULE Spsc ---------------------------------
(***************************************************************************)
(* A channel made by chan_create_spsc: one producer, one consumer, cursors *)
(* cached by their owners, no fence between the ring operation and the     *)
(* look at the other side's waiter count, and a bounded backstop behind    *)
(* the park.                                                               *)
(*                                                                         *)
(* Without a fence a store may become visible after a later load has been  *)
(* done.  The stores of the fast paths therefore go through a store buffer *)
(* of their thread, drained one by one at any time, and completely before  *)
(* a locked instruction or a mutex operation (the x86 memory model).       *)
(*                                                                         *)
(* The contract leaves at most one waiter a side, so a wait queue is a     *)
(* flag.  The two sides of the code mirror each other: an action is for    *)
(* the thread t of either side where both do the same.                     *)
(***************************************************************************)
EXTENDS Integers, Sequences, FiniteSets, Park

CONSTANTS
    P, C, K,             \* the producer, the consumer, a thread that closes
    Capacity,
    Forms,               \* the pairs of call forms of the two sides to choose from
    MaxCalls,            \* bound: calls of each side
    MaxCloses            \* bound: calls of chan_close

ASSUME SpscAssumption ==
    /\ Parkers = {P, C} /\ P # C /\ K \notin {P, C}
    /\ Capacity \in Nat \ {0} /\ MaxCalls \in Nat /\ MaxCloses \in {0, 1}
    /\ Forms \subseteq [{P, C} -> {"block", "try", "timed"}]

Threads == {P, C, K}
Peer(t) == IF t = P THEN C ELSE P

VARIABLES
    mem,                 \* the cursors in memory: prod.head/tail, cons.head/tail
    slots,
    cache,               \* prod.cached_cons_tail, cons.cached_prod_tail
    sb,                  \* stores of the fast paths not yet visible
    lock, closed,
    queued, cnt,         \* is t in its wait queue; send/recv_waiter_cnt
    form,                \* the form of the calls of each side; chosen in Init
    th,                  \* position of each thread in its call
    result, out,
    calls, accepted, refused, rcvd,
    stale                \* history: a wake came after its waiter had returned

ring  == <<mem, slots, cache, sb>>
state == <<lock, closed, queued, cnt>>
hist  == <<form, calls, accepted, refused, rcvd>>
vars  == <<park, ring, state, th, result, out, hist, stale>>

NoMsg == 0
Idle == [pc |-> "idle", next |-> "idle", w |-> P, phase |-> 1]

Init ==
    /\ ParkInit
    /\ mem = [ph |-> 0, pt |-> 0, chd |-> 0, ct |-> 0]
    /\ slots = [i \in 0..(Capacity - 1) |-> NoMsg]
    /\ cache = [t \in {P, C} |-> 0] /\ sb = [t \in {P, C} |-> << >>]
    /\ lock = FALSE /\ closed = FALSE
    /\ queued = [t \in {P, C} |-> FALSE] /\ cnt = [t \in {P, C} |-> 0]
    /\ form \in Forms
    /\ th = [t \in Threads |-> Idle]
    /\ result = [t \in {P, C} |-> "OK"] /\ out = NoMsg
    /\ calls = [t \in Threads |-> 0]
    /\ accepted = {} /\ refused = {} /\ rcvd = << >>
    /\ stale = FALSE

At(t, l) == th[t].pc = l
Goto(t, l) == th' = [th EXCEPT ![t].pc = l]
GotoNext(t, l, n) == th' = [th EXCEPT ![t].pc = l, ![t].next = n]

\* The call of t returns res.  A thread about to wake t is left with a pointer
\* into a stack frame that is gone.
Return(t, res) ==
    /\ th' = [x \in Threads |-> IF x = t THEN Idle
                                ELSE IF th[x].pc = "lateWake" /\ th[x].w = t THEN [th[x] EXCEPT !.phase = 2]
                                ELSE th[x]]
    /\ accepted' = IF t = P /\ res = "OK" THEN accepted \cup {calls[P]} ELSE accepted
    /\ refused' = IF t = P /\ res # "OK" THEN refused \cup {calls[P]} ELSE refused
    /\ rcvd' = IF t = C /\ res = "OK" THEN Append(rcvd, out) ELSE rcvd
    /\ out' = IF t = C THEN NoMsg ELSE out
    /\ UNCHANGED <<form, calls, stale>>

Enter(t) ==
    /\ At(t, "idle") /\ calls[t] < IF t = K THEN MaxCloses ELSE MaxCalls
    /\ calls' = [calls EXCEPT ![t] = @ + 1]
    /\ th' = [th EXCEPT ![t] = [Idle EXCEPT !.pc = IF t = P THEN "closed" ELSE IF t = C THEN "ring" ELSE "close"]]
    /\ UNCHANGED <<park, ring, state, result, out, form, accepted, refused, rcvd, stale>>

------------------------------------------------------------------------------
(* The lean fast path.                                                     *)

\* The oldest store of t becomes visible.
Flush(t) ==
    /\ sb[t] # << >>
    /\ mem' = [mem EXCEPT ![Head(sb[t])[1]] = Head(sb[t])[2]]
    /\ sb' = [sb EXCEPT ![t] = Tail(@)]
    /\ UNCHANGED <<park, slots, cache, state, th, result, out, hist, stale>>

\* The value of a cursor once the stores on the way to memory m are done.
LastStored(m, stores, f) ==
    LET at == {i \in DOMAIN stores : stores[i][1] = f} IN
    IF at = {} THEN m[f] ELSE stores[CHOOSE i \in at : \A j \in at : j <= i][2]

\* A cursor as its owner sees it.
Own(t, f) == LastStored(mem, sb[t], f)

\* Mutant of Lacks: the consumer compares its cursor for equality.
LacksEqual(t, c) == IF t = P THEN Own(P, "ph") - c >= Capacity ELSE Own(C, "chd") = c
\* Against the value c of the other side's cursor there is no room (no item).
Lacks(t, c) == IF t = P THEN Own(P, "ph") - c >= Capacity ELSE Own(C, "chd") - c >= 0

\* The other side's cursor is loaded only if the cached value does not do.
Reloaded(t) == IF ~Lacks(t, cache[t]) THEN cache[t] ELSE IF t = P THEN mem.ct ELSE mem.pt

SendClosed ==
    /\ At(P, "closed")
    /\ Goto(P, IF closed THEN "lock" ELSE "ring")
    /\ UNCHANGED <<park, ring, state, result, out, hist, stale>>

\* ring_spsc_push: the item, then prod.tail, then prod.head.
SpscPush ==
    LET ph == Own(P, "ph") IN
    /\ At(P, "ring")
    /\ cache' = [cache EXCEPT ![P] = Reloaded(P)]
    /\ \/ /\ Lacks(P, Reloaded(P))
          /\ Goto(P, "lock")
          /\ UNCHANGED <<slots, sb>>
       \/ /\ ~Lacks(P, Reloaded(P))
          /\ slots' = [slots EXCEPT ![ph % Capacity] = calls[P]]
          /\ sb' = [sb EXCEPT ![P] = @ \o <<<<"pt", ph + 1>>, <<"ph", ph + 1>>>>]
          /\ Goto(P, "count")
    /\ UNCHANGED <<park, mem, state, result, out, hist, stale>>

\* ring_spsc_pop: the item, then cons.tail, then cons.head.
SpscPop ==
    LET chd == Own(C, "chd") IN
    /\ At(C, "ring")
    /\ cache' = [cache EXCEPT ![C] = Reloaded(C)]
    /\ \/ /\ Lacks(C, Reloaded(C))
          /\ Goto(C, "lock")
          /\ UNCHANGED <<out, sb>>
       \/ /\ ~Lacks(C, Reloaded(C))
          /\ out' = slots[chd % Capacity]
          /\ sb' = [sb EXCEPT ![C] = @ \o <<<<"ct", chd + 1>>, <<"chd", chd + 1>>>>]
          /\ Goto(C, "count")
    /\ UNCHANGED <<park, mem, slots, state, result, hist, stale>>

\* The relaxed look at the other side's count: the item just published may
\* still be in the store buffer.
LookForWaiter(t) ==
    /\ At(t, "count")
    /\ \/ /\ cnt[Peer(t)] # 0
          /\ GotoNext(t, "helpLock", "done")
          /\ UNCHANGED <<out, hist, stale>>
       \/ /\ cnt[Peer(t)] = 0
          /\ Return(t, "OK")
    /\ UNCHANGED <<park, ring, state, result>>

------------------------------------------------------------------------------
(* Under the lock.  ring_push and ring_pop are the MPMC operations; they   *)
(* leave the caches alone.                                                 *)

Acquire(t) == ~lock /\ lock' = TRUE /\ (t # K => sb[t] = << >>)

CanPush == mem.ph - mem.ct < Capacity
CanPop == mem.pt # mem.chd
Can(t) == IF t = P THEN CanPush ELSE CanPop

\* ring_push of the producer's item; ring_pop into the consumer's buffer.
RingOp(t) ==
    IF t = P
    THEN /\ slots' = [slots EXCEPT ![mem.ph % Capacity] = calls[P]]
         /\ mem' = [mem EXCEPT !.ph = @ + 1, !.pt = @ + 1]
         /\ UNCHANGED <<cache, sb, out>>
    ELSE /\ out' = slots[mem.chd % Capacity]
         /\ mem' = [mem EXCEPT !.chd = @ + 1, !.ct = @ + 1]
         /\ UNCHANGED <<slots, cache, sb>>

HelpLock(t) ==
    /\ At(t, "helpLock") /\ Acquire(t)
    /\ Goto(t, "help")
    /\ UNCHANGED <<park, ring, closed, queued, cnt, result, out, hist, stale>>

\* chan_deliver_ring_to_receivers, chan_admit_senders_to_ring: the one waiter
\* of the other side is served if the ring allows it.
Help(t) ==
    LET w == Peer(t) IN
    /\ At(t, "help")
    /\ \/ /\ queued[w] /\ Can(w)
          /\ RingOp(w)
          /\ queued' = [queued EXCEPT ![w] = FALSE]
          /\ result' = [result EXCEPT ![w] = "OK"]
          /\ th' = [th EXCEPT ![t].pc = "wake", ![t].w = w]
       \/ /\ ~(queued[w] /\ Can(w))
          /\ Goto(t, th[t].next)
          /\ UNCHANGED <<ring, queued, result, out>>
    /\ UNCHANGED <<park, lock, closed, cnt, hist, stale>>

Wake(t) ==
    /\ At(t, "wake")
    /\ ParkSet(th[t].w)
    /\ Goto(t, IF backend = "futex" THEN "notify" ELSE th[t].next)
    /\ UNCHANGED <<ring, state, result, out, hist, stale>>

Notify(t) ==
    /\ At(t, "notify")
    /\ ParkNotify(th[t].w)
    /\ Goto(t, th[t].next)
    /\ UNCHANGED <<ring, state, result, out, hist, stale>>

Done(t) ==
    /\ At(t, "done")
    /\ lock' = FALSE
    /\ Return(t, "OK")
    /\ UNCHANGED <<park, ring, closed, queued, cnt, result>>

------------------------------------------------------------------------------
(* The slow path.                                                          *)

\* The producer: CLOSED; or its item goes into the ring and then to a parked
\* receiver; or it prepares to park, after a parked receiver has been served.
SendLock ==
    /\ At(P, "lock") /\ ~lock /\ sb[P] = << >>
    /\ \/ /\ closed
          /\ Return(P, "CLOSED")
          /\ UNCHANGED <<ring, lock>>
       \/ /\ ~closed /\ CanPush
          /\ lock' = TRUE
          /\ RingOp(P)
          /\ GotoNext(P, "help", "done")
          /\ UNCHANGED <<hist, stale>>
       \/ /\ ~closed /\ ~CanPush
          /\ lock' = TRUE
          /\ GotoNext(P, "help", "park")
          /\ UNCHANGED <<ring, out, hist, stale>>
    /\ UNCHANGED <<park, closed, queued, cnt, result>>

\* The consumer pops, and then pushes for a parked producer; or it takes the
\* parked producer's item directly; or it finds the channel closed.
RecvLock ==
    /\ At(C, "lock") /\ ~lock /\ sb[C] = << >>
    /\ \/ /\ CanPop
          /\ lock' = TRUE
          /\ RingOp(C)
          /\ Goto(C, "helpPush")
          /\ UNCHANGED <<queued, result, hist, stale>>
       \/ /\ ~CanPop /\ queued[P]
          /\ out' = calls[P]
          /\ queued' = [queued EXCEPT ![P] = FALSE]
          /\ result' = [result EXCEPT ![P] = "OK"]
          /\ th' = [th EXCEPT ![C].pc = "lateWake", ![C].w = P]
          /\ UNCHANGED <<ring, lock, hist, stale>>
       \/ /\ ~CanPop /\ ~queued[P] /\ closed
          /\ Return(C, "CLOSED")
          /\ UNCHANGED <<ring, lock, queued, result>>
       \/ /\ ~CanPop /\ ~queued[P] /\ ~closed
          /\ lock' = TRUE
          /\ Goto(C, "park")
          /\ UNCHANGED <<ring, queued, result, out, hist, stale>>
    /\ UNCHANGED <<park, closed, cnt>>

\* "Receiver helps push"; the producer is woken after the unlock.
RecvHelpPush ==
    /\ At(C, "helpPush")
    /\ lock' = FALSE
    /\ \/ /\ queued[P] /\ CanPush
          /\ RingOp(P)
          /\ queued' = [queued EXCEPT ![P] = FALSE]
          /\ result' = [result EXCEPT ![P] = "OK"]
          /\ th' = [th EXCEPT ![C].pc = "lateWake", ![C].w = P]
          /\ UNCHANGED <<hist, stale>>
       \/ /\ ~(queued[P] /\ CanPush)
          /\ Return(C, "OK")
          /\ UNCHANGED <<ring, queued, result>>
    /\ UNCHANGED <<park, closed, cnt>>

\* The wake after the unlock.  Its waiter may have come back from the backstop
\* or the timeout, found itself served and returned: the store then hits the
\* park of a later call that lies in the same place, or dead memory.
LateWake ==
    /\ At(C, "lateWake")
    /\ \/ ParkSet(th[C].w)
       \/ th[C].phase = 2 /\ UNCHANGED park
    /\ stale' = (stale \/ th[C].phase = 2)
    /\ Goto(C, "lateNotify")
    /\ UNCHANGED <<ring, state, result, out, hist>>

LateNotify ==
    /\ At(C, "lateNotify")
    /\ ParkNotify(th[C].w)
    /\ Return(C, "OK")
    /\ UNCHANGED <<ring, state, result>>

Register(t) ==
    /\ At(t, "park")
    /\ \/ /\ form[t] = "try"
          /\ lock' = FALSE
          /\ Return(t, "WOULDBLOCK")
          /\ UNCHANGED <<park, queued, cnt, result>>
       \/ /\ form[t] # "try"
          /\ ParkFresh(t)
          /\ result' = [result EXCEPT ![t] = "OK"]
          /\ queued' = [queued EXCEPT ![t] = TRUE]
          /\ cnt' = [cnt EXCEPT ![t] = @ + 1]
          /\ Goto(t, "again")
          /\ UNCHANGED <<lock, out, hist, stale>>
    /\ UNCHANGED <<ring, closed>>

\* The ring once more, after the registration.
Again(t) ==
    /\ At(t, "again")
    /\ \/ /\ Can(t)
          /\ RingOp(t)
          /\ queued' = [queued EXCEPT ![t] = FALSE]
          /\ cnt' = [cnt EXCEPT ![t] = @ - 1]
          /\ GotoNext(t, IF t = P THEN "help" ELSE "done", "done")
          /\ UNCHANGED lock
       \/ /\ ~Can(t)
          /\ lock' = FALSE
          /\ Goto(t, "parked")
          /\ UNCHANGED <<ring, queued, cnt, out>>
    /\ UNCHANGED <<park, closed, result, hist, stale>>

------------------------------------------------------------------------------
(* Parked.                                                                 *)

Sleep(t) ==
    /\ At(t, "parked") /\ ParkSleep(t)
    /\ UNCHANGED <<ring, state, th, result, out, hist, stale>>

Spurious(t) ==
    /\ At(t, "parked") /\ ParkSpurious(t)
    /\ UNCHANGED <<ring, state, th, result, out, hist, stale>>

Deregister(t) ==
    /\ cnt' = [cnt EXCEPT ![t] = @ - 1]
    /\ Return(t, result[t])
    /\ UNCHANGED <<ring, lock, closed, queued, result>>

Woken(t) == At(t, "parked") /\ ParkTrue(t) /\ Deregister(t)

\* The timeout of a timed call, or the first park of a blocking one.  The
\* backstop is long enough for every store made before it to become visible.
Timeout(t) ==
    /\ At(t, "parked")
    /\ form[t] = "timed" \/ (th[t].phase = 1 /\ sb[Peer(t)] = << >>)
    /\ ParkTimeout(t)
    /\ Goto(t, "timedOut")
    /\ UNCHANGED <<ring, state, result, out, hist, stale>>

\* Mutant of Backstop: the ring is not looked at again.
BackstopReparks(t) ==
    /\ At(t, "timedOut") /\ form[t] = "block" /\ ~lock
    /\ IF queued[t] THEN th' = [th EXCEPT ![t].pc = "parked", ![t].phase = 2] ELSE Goto(t, "served")
    /\ UNCHANGED <<park, ring, state, result, out, hist, stale>>

\* The backstop: still queued, so try the ring once more; else park for good.
\* The producer looks at the closed flag first, the consumer at the ring.
Backstop(t) ==
    LET refused1 == closed /\ (t = C => ~CanPop)
        takes == queued[t] /\ Can(t) /\ ~refused1
    IN  /\ At(t, "timedOut") /\ form[t] = "block" /\ ~lock
        /\ queued' = [queued EXCEPT ![t] = @ /\ ~takes /\ ~refused1]
        /\ result' = [result EXCEPT ![t] = IF ~queued[t] THEN @ ELSE IF refused1 THEN "CLOSED" ELSE "OK"]
        /\ IF takes THEN RingOp(t) ELSE UNCHANGED <<ring, out>>
        /\ IF queued'[t] THEN th' = [th EXCEPT ![t].pc = "parked", ![t].phase = 2] ELSE Goto(t, "served")
        /\ UNCHANGED <<park, lock, closed, cnt, hist, stale>>

\* A timed call: still queued means nobody served it.
TimedOut(t) ==
    /\ At(t, "timedOut") /\ form[t] = "timed" /\ ~lock
    /\ result' = [result EXCEPT ![t] = IF queued[t] THEN "TIMEOUT" ELSE @]
    /\ queued' = [queued EXCEPT ![t] = FALSE]
    /\ Goto(t, "served")
    /\ UNCHANGED <<park, ring, lock, closed, cnt, out, hist, stale>>

Served(t) == At(t, "served") /\ Deregister(t) /\ UNCHANGED park

------------------------------------------------------------------------------
(* chan_close: a parked producer, then a parked consumer.                  *)

Close ==
    /\ At(K, "close") /\ Acquire(K)
    /\ closed' = TRUE
    /\ \/ /\ queued[P]
          /\ queued' = [queued EXCEPT ![P] = FALSE]
          /\ result' = [result EXCEPT ![P] = "CLOSED"]
          /\ th' = [th EXCEPT ![K].pc = "wake", ![K].next = "closeRecv", ![K].w = P]
       \/ /\ ~queued[P]
          /\ Goto(K, "closeRecv")
          /\ UNCHANGED <<queued, result>>
    /\ UNCHANGED <<park, ring, cnt, out, hist, stale>>

CloseRecv ==
    /\ At(K, "closeRecv")
    /\ \/ /\ queued[C]
          /\ queued' = [queued EXCEPT ![C] = FALSE]
          /\ result' = [result EXCEPT ![C] = IF CanPop THEN "OK" ELSE "CLOSED"]
          /\ IF CanPop THEN RingOp(C) ELSE UNCHANGED <<ring, out>>
          /\ th' = [th EXCEPT ![K].pc = "wake", ![K].next = "done", ![K].w = C]
       \/ /\ ~queued[C]
          /\ Goto(K, "done")
          /\ UNCHANGED <<ring, queued, result, out>>
    /\ UNCHANGED <<park, lock, closed, cnt, hist, stale>>

------------------------------------------------------------------------------
Step(t) ==
    \/ LookForWaiter(t) \/ HelpLock(t) \/ Help(t) \/ Wake(t) \/ Notify(t) \/ Done(t)
    \/ Register(t) \/ Again(t) \/ Sleep(t) \/ Woken(t) \/ Timeout(t) \/ Backstop(t) \/ TimedOut(t) \/ Served(t)

SendStep == SendClosed \/ SpscPush \/ SendLock \/ Step(P)
RecvStep == SpscPop \/ RecvLock \/ RecvHelpPush \/ LateWake \/ LateNotify \/ Step(C)
CloseStep == Close \/ CloseRecv \/ Wake(K) \/ Notify(K) \/ Done(K)
CallSend == Enter(P)
CallRecv == Enter(C)
CallClose == Enter(K)

Next ==
    \/ CallSend \/ CallRecv \/ CallClose
    \/ SendStep \/ RecvStep \/ CloseStep
    \/ \E t \in {P, C} : Flush(t) \/ Spurious(t)

Spec == Init /\ [][Next]_vars

\* Threads keep running, stores become visible, the two sides make their
\* calls, and signals do not interrupt a timed park for ever; nothing is
\* assumed of chan_close.
FairSpec ==
    /\ Spec
    /\ WF_vars(SendStep) /\ WF_vars(RecvStep) /\ WF_vars(CloseStep)
    /\ WF_vars(CallSend) /\ WF_vars(CallRecv)
    /\ WF_vars(Flush(P)) /\ WF_vars(Flush(C)) /\ SF_vars(Timeout(P)) /\ SF_vars(Timeout(C))

------------------------------------------------------------------------------
(* Properties.                                                             *)

InRing == {slots[i % Capacity] : i \in Own(C, "chd")..(Own(P, "ph") - 1)}

\* Every item reported sent is in the ring, in the consumer's hand or received,
\* exactly once and in the order sent; one reported not sent is nowhere.
InOrderExactlyOnce ==
    ~stale =>
        LET all == {rcvd[i] : i \in DOMAIN rcvd} \cup InRing \cup ({out} \ {NoMsg}) IN
        /\ accepted \subseteq all /\ refused \cap all = {}
        /\ \A i, j \in DOMAIN rcvd : i < j => rcvd[i] < rcvd[j]
        /\ NoMsg \notin {rcvd[i] : i \in DOMAIN rcvd}

\* A parked thread whose word was set is up again, or its waker is about to
\* call FUTEX_WAKE for it.
NoSleepThroughWake ==
    \A t \in asleep : word[t] = 1 => \E x \in Threads : th[x].w = t /\ th[x].pc \in {"notify", "lateNotify"}

\* The types that NoSleepThroughWake needs (module Spsc_proofs).
Labels == {"idle", "closed", "ring", "count", "helpLock", "help", "wake", "notify", "done",
           "lock", "helpPush", "lateWake", "lateNotify", "park", "again", "parked", "timedOut",
           "served", "close", "closeRecv"}
Positions == [pc : Labels, next : Labels, w : Parkers, phase : {1, 2}]
WakeTypes ==
    /\ th \in [Threads -> Positions]
    /\ backend \in {"futex", "pthread"}
    /\ word \in [Parkers -> {0, 1}] /\ asleep \subseteq Parkers

\* Nothing but new calls and spurious wakeups can happen any more.
AtRest ==
    /\ \A t \in {P, C} : sb[t] = << >> /\ (At(t, "idle") \/ (t \in asleep /\ word[t] = 0))
    /\ \A t \in asleep : form[t] = "block" /\ th[t].phase = 2
    /\ At(K, "idle")

\* No side sleeps for good on a ring that has what it waits for, or on a
\* channel that is closed, although the fast paths have no fence.
NobodyStranded ==
    AtRest /\ ~stale => \A t \in asleep : ~Can(t) /\ ~closed

\* "deadlock-free WITHOUT any reliance on chan_close": blocking sends and
\* receives in equal number complete.
BlockingCompletes ==
    (\A t \in {P, C} : form[t] = "block") =>
        <>(stale \/ closed \/ \A t \in {P, C} : At(t, "idle") /\ calls[t] = MaxCalls)
==============================================================================
