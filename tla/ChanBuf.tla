------------------------------- MODULE ChanBuf -------------------------------
(***************************************************************************)
(* A buffered libchan channel shared by any number of direct senders and   *)
(* receivers (chan_send, chan_recv, their try and timeout forms, and the   *)
(* try bursts) and threads that close it: chan_send.c, chan_recv.c,        *)
(* chan_close and the lost-wakeup helpers of libchan_internal.h.  A burst  *)
(* is of one message here: runs of several are the subject of RingLF.      *)
(*                                                                         *)
(* A thread's position is a stack of labels: the code at the head runs,    *)
(* the rest is where the helper it is in returns to.  Every access to      *)
(* state that is not protected by ch->lock is a step of its own; code that *)
(* holds the lock and touches only what the lock protects is merged into   *)
(* the step before or after it.                                            *)
(*                                                                         *)
(* The ring is the one of module RingLF, at the grain of its three phases: *)
(* load of the head, check and CAS (one step: the opposite cursor only     *)
(* grows, so a check that passed still passes at a successful CAS), and    *)
(* ordered commit.  Its buffer is the log of everything ever reserved;     *)
(* prod.head is the length of the log.                                     *)
(***************************************************************************)
EXTENDS Integers, Sequences, FiniteSets, WaitQ

CONSTANTS
    Senders, Receivers,  \* threads calling chan_send / chan_recv
    Closers,             \* threads calling chan_close
    Capacity,            \* slots of the ring
    SendModes,           \* the forms of call senders make: "block", "try", "timed", "burst"
    RecvModes,           \* the same for receivers
    Spin,                \* LIBCHAN_FASTPATH_SPIN
    MaxCalls,            \* bound: calls each thread makes
    None                 \* no thread

Threads == Senders \cup Receivers \cup Closers

ASSUME ChanBufAssumption ==
    /\ Senders \cap Receivers = {} /\ Senders \cap Closers = {}
    /\ Receivers \cap Closers = {} /\ None \notin Threads
    /\ Capacity \in Nat \ {0} /\ Spin \in Nat /\ MaxCalls \in Nat
    /\ SendModes \cup RecvModes \subseteq {"block", "try", "timed", "burst"}

VARIABLES
    log, prodTail, consHead, consTail,  \* the ring
    lock,                \* holder of ch->lock, or None
    sendq, recvq,        \* send_waiters, recv_waiters
    sendCnt, recvCnt,    \* send_waiter_cnt, recv_waiter_cnt
    closed,
    th,                  \* each thread's position and locals
    word,                \* the word of its waiter's park
    result,              \* its waiter's result
    out,                 \* a receiver's destination buffer
    calls,               \* calls begun; names the message being sent
    accepted, refused,   \* history: messages whose send returned OK / an error
    rcvd                 \* history: what each receiver's OK calls returned

ring    == <<log, prodTail, consHead, consTail>>
queues  == <<sendq, recvq, sendCnt, recvCnt>>
waiters == <<word, result, out>>
hist    == <<calls, accepted, refused, rcvd>>
vars    == <<ring, lock, queues, closed, th, waiters, hist>>

NoMsg == <<None, 0>>

\* The message sender s is sending.
Msg(s) == <<s, calls[s]>>

\* at: stack of labels; w: the thread whose data the ring operation moves;
\* old: a cursor loaded, or the number of w's call once w is served;
\* ok, fail: where the ring operation returns to.
Idle == [at |-> <<"idle">>, mode |-> "block", w |-> None, old |-> 0,
         ok |-> << >>, fail |-> << >>, spin |-> 0]

Init ==
    /\ log = << >> /\ prodTail = 0 /\ consHead = 0 /\ consTail = 0
    /\ lock = None /\ closed = FALSE
    /\ sendq = << >> /\ recvq = << >> /\ sendCnt = 0 /\ recvCnt = 0
    /\ th = [t \in Threads |-> Idle]
    /\ word = [t \in Threads |-> 0]
    /\ result = [t \in Threads |-> "OK"]
    /\ out = [r \in Receivers |-> NoMsg]
    /\ calls = [t \in Threads |-> 0]
    /\ accepted = {} /\ refused = {}
    /\ rcvd = [r \in Receivers |-> << >>]

At(t, l) == Head(th[t].at) = l
Rest(t) == Tail(th[t].at)
Goto(t, at) == th' = [th EXCEPT ![t].at = at]

\* Starting a ring_push of w's message, or a ring_pop into w's buffer.
Push(t, w, ok, fail) == [th EXCEPT ![t].at = <<"pushLoad">>, ![t].w = w, ![t].ok = ok, ![t].fail = fail]
Pop(t, w, ok, fail) == [th EXCEPT ![t].at = <<"popLoad">>, ![t].w = w, ![t].ok = ok, ![t].fail = fail]

\* The call of t returns res to its caller.
Return(t, res) ==
    /\ th' = [th EXCEPT ![t] = Idle]
    /\ accepted' = IF t \in Senders /\ res = "OK" THEN accepted \cup {Msg(t)} ELSE accepted
    /\ refused' = IF t \in Senders /\ res # "OK" THEN refused \cup {Msg(t)} ELSE refused
    /\ rcvd' = IF t \in Receivers /\ res = "OK" THEN [rcvd EXCEPT ![t] = Append(@, out[t])] ELSE rcvd
    /\ out' = IF t \in Receivers /\ res = "OK" THEN [out EXCEPT ![t] = NoMsg] ELSE out
    /\ UNCHANGED calls

Acquire(t) == lock = None /\ lock' = t
Release(t) == lock' = None

Enter(t, m, at) ==
    /\ At(t, "idle") /\ calls[t] < MaxCalls
    /\ calls' = [calls EXCEPT ![t] = @ + 1]
    /\ th' = [th EXCEPT ![t].at = at, ![t].mode = m]
    /\ UNCHANGED <<ring, lock, queues, closed, waiters, accepted, refused, rcvd>>

------------------------------------------------------------------------------
(* ring_lf_push and ring_lf_pop.                                           *)

PushLoad(t) ==
    /\ At(t, "pushLoad")
    /\ th' = [th EXCEPT ![t].at = <<"pushCas">>, ![t].old = Len(log)]
    /\ UNCHANGED <<ring, lock, queues, closed, waiters, hist>>

\* (uint32_t)(ph - ct) >= capacity: also true when ct has passed the ph loaded.
SeenFull(ph, ct) == ph - ct \notin 0..(Capacity - 1)

\* ring_lf_enqueue_burst computes the free slots instead: none only at equality.
PushSeesFull(t) ==
    IF th[t].fail = <<"bNone">> THEN th[t].old - consTail = Capacity ELSE SeenFull(th[t].old, consTail)

PushFull(t) ==
    /\ At(t, "pushCas") /\ PushSeesFull(t)
    /\ Goto(t, th[t].fail)
    /\ UNCHANGED <<ring, lock, queues, closed, waiters, hist>>

PushCas(t) ==
    /\ At(t, "pushCas") /\ ~PushSeesFull(t)
    /\ \/ /\ Len(log) = th[t].old
          /\ log' = Append(log, Msg(th[t].w))
          /\ Goto(t, <<"pushCommit">>)
       \/ /\ Len(log) # th[t].old
          /\ Goto(t, <<"pushLoad">>)
          /\ UNCHANGED log
    /\ UNCHANGED <<prodTail, consHead, consTail, lock, queues, closed, waiters, hist>>

PushCommit(t) ==
    /\ At(t, "pushCommit") /\ prodTail = th[t].old
    /\ prodTail' = prodTail + 1
    /\ Goto(t, th[t].ok)
    /\ UNCHANGED <<log, consHead, consTail, lock, queues, closed, waiters, hist>>

PopLoad(t) ==
    /\ At(t, "popLoad")
    /\ th' = [th EXCEPT ![t].at = <<"popCas">>, ![t].old = consHead]
    /\ UNCHANGED <<ring, lock, queues, closed, waiters, hist>>

PopEmpty(t) ==
    /\ At(t, "popCas") /\ prodTail = th[t].old
    /\ Goto(t, th[t].fail)
    /\ UNCHANGED <<ring, lock, queues, closed, waiters, hist>>

PopCas(t) ==
    /\ At(t, "popCas") /\ prodTail # th[t].old
    /\ \/ /\ consHead = th[t].old
          /\ consHead' = consHead + 1
          /\ Goto(t, <<"popCommit">>)
       \/ /\ consHead # th[t].old
          /\ Goto(t, <<"popLoad">>)
          /\ UNCHANGED consHead
    /\ UNCHANGED <<log, prodTail, consTail, lock, queues, closed, waiters, hist>>

PopCommit(t) ==
    /\ At(t, "popCommit") /\ consTail = th[t].old
    /\ consTail' = consTail + 1
    /\ out' = [out EXCEPT ![th[t].w] = log[consTail + 1]]
    /\ Goto(t, th[t].ok)
    /\ UNCHANGED <<log, prodTail, consHead, lock, queues, closed, word, result, hist>>

RingStep(t) ==
    \/ PushLoad(t) \/ PushFull(t) \/ PushCas(t) \/ PushCommit(t)
    \/ PopLoad(t) \/ PopEmpty(t) \/ PopCas(t) \/ PopCommit(t)

------------------------------------------------------------------------------
(* The lost-wakeup helpers.  They loop, under the lock, until the ring     *)
(* looks empty (full) or nobody waits.                                     *)

HelperLock(t) ==
    /\ \/ At(t, "deliverLock") /\ Goto(t, <<"deliver">> \o Rest(t))
       \/ At(t, "admitLock") /\ Goto(t, <<"admit">> \o Rest(t))
    /\ Acquire(t)
    /\ UNCHANGED <<ring, queues, closed, waiters, hist>>

\* ring_empty: prod.tail is loaded first, cons.head in the next step.
DeliverLoad(t) ==
    /\ At(t, "deliver")
    /\ th' = [th EXCEPT ![t].at = <<"deliverTest">> \o Rest(t), ![t].old = prodTail]
    /\ UNCHANGED <<ring, lock, queues, closed, waiters, hist>>

DeliverTest(t) ==
    /\ At(t, "deliverTest")
    /\ IF th[t].old = consHead \/ recvq = << >>
       THEN Goto(t, Rest(t)) /\ UNCHANGED recvq
       ELSE /\ recvq' = Tail(recvq)
            /\ th' = Pop(t, Head(recvq), <<"delivered">> \o Rest(t), <<"undelivered">> \o Rest(t))
    /\ UNCHANGED <<ring, lock, sendq, sendCnt, recvCnt, closed, waiters, hist>>

\* ring_full: prod.head is loaded first, cons.tail in the next step.
AdmitLoad(t) ==
    /\ At(t, "admit")
    /\ th' = [th EXCEPT ![t].at = <<"admitTest">> \o Rest(t), ![t].old = Len(log)]
    /\ UNCHANGED <<ring, lock, queues, closed, waiters, hist>>

AdmitTest(t) ==
    /\ At(t, "admitTest")
    /\ IF SeenFull(th[t].old, consTail) \/ sendq = << >>
       THEN Goto(t, Rest(t)) /\ UNCHANGED sendq
       ELSE /\ sendq' = Tail(sendq)
            /\ th' = Push(t, Head(sendq), <<"admitted">> \o Rest(t), <<"unadmitted">> \o Rest(t))
    /\ UNCHANGED <<ring, lock, recvq, sendCnt, recvCnt, closed, waiters, hist>>

\* Mutant of HelperServed: the waiter is served and not woken.
HelperServedSilently(t) ==
    /\ \/ At(t, "delivered") /\ Goto(t, <<"deliver">> \o Rest(t))
       \/ At(t, "admitted") /\ Goto(t, <<"admit">> \o Rest(t))
    /\ result' = [result EXCEPT ![th[t].w] = "OK"]
    /\ UNCHANGED <<ring, lock, queues, closed, word, out, hist>>

\* The waiter in hand is served and woken, and the loop goes on.
HelperServed(t) ==
    /\ \/ At(t, "delivered") /\ Goto(t, <<"deliver">> \o Rest(t))
       \/ At(t, "admitted") /\ Goto(t, <<"admit">> \o Rest(t))
    /\ result' = [result EXCEPT ![th[t].w] = "OK"]
    /\ word' = [word EXCEPT ![th[t].w] = 1]
    /\ UNCHANGED <<ring, lock, queues, closed, out, hist>>

\* The ring operation lost a race: the waiter goes back to the front.
HelperMissed(t) ==
    /\ \/ At(t, "undelivered") /\ recvq' = <<th[t].w>> \o recvq /\ UNCHANGED sendq
       \/ At(t, "unadmitted") /\ sendq' = <<th[t].w>> \o sendq /\ UNCHANGED recvq
    /\ Goto(t, Rest(t))
    /\ UNCHANGED <<ring, lock, sendCnt, recvCnt, closed, waiters, hist>>

\* chan_unlock and return CHAN_OK.
UnlockOK(t) ==
    /\ At(t, "done")
    /\ Release(t) /\ Return(t, "OK")
    /\ UNCHANGED <<ring, queues, closed, word, result>>

HelperStep(t) ==
    \/ HelperLock(t) \/ DeliverLoad(t) \/ DeliverTest(t) \/ AdmitLoad(t) \/ AdmitTest(t)
    \/ HelperServed(t) \/ HelperMissed(t) \/ UnlockOK(t)

------------------------------------------------------------------------------
(* chan_send_impl, fast path.                                              *)

SendClosed(s) ==
    /\ At(s, "sClosed")
    /\ Goto(s, IF closed THEN <<"sLock">> ELSE <<"sSendCnt">>)
    /\ UNCHANGED <<ring, lock, queues, closed, waiters, hist>>

SendSendCnt(s) ==
    /\ At(s, "sSendCnt")
    /\ Goto(s, IF sendCnt # 0 THEN <<"sLock">> ELSE <<"sRecvCnt">>)
    /\ UNCHANGED <<ring, lock, queues, closed, waiters, hist>>

SendRecvCnt(s) ==
    /\ At(s, "sRecvCnt")
    /\ IF recvCnt # 0
       THEN Goto(s, <<"sLock">>)
       ELSE th' = [Push(s, s, <<"sPushed">>, IF th[s].spin >= Spin THEN <<"sLock">> ELSE <<"sClosed">>)
                     EXCEPT ![s].spin = @ + 1]
    /\ UNCHANGED <<ring, lock, queues, closed, waiters, hist>>

\* Mutant of SendPushed: the count is not looked at again after the push.
SendPushedNoRecheck(s) ==
    /\ At(s, "sPushed")
    /\ Return(s, "OK")
    /\ UNCHANGED <<ring, lock, queues, closed, word, result>>

SendPushed(s) ==
    /\ At(s, "sPushed")
    /\ \/ /\ recvCnt # 0
          /\ Goto(s, <<"deliverLock", "done">>)
          /\ UNCHANGED <<waiters, hist>>
       \/ /\ recvCnt = 0
          /\ Return(s, "OK")
          /\ UNCHANGED <<word, result>>
    /\ UNCHANGED <<ring, lock, queues, closed>>

(* chan_send_impl, slow path.                                              *)

\* Mutant of SendLock: the closed flag is not tested under the lock.
SendLockEvenClosed(s) ==
    /\ At(s, "sLock") /\ Acquire(s)
    /\ th' = Push(s, s, <<"deliver", "done">>, <<"deliver", "sPark">>)
    /\ UNCHANGED <<ring, queues, closed, waiters, hist>>

SendLock(s) ==
    /\ At(s, "sLock") /\ lock = None
    /\ \/ /\ closed
          /\ Return(s, "CLOSED")
          /\ UNCHANGED <<lock, word, result>>
       \/ /\ ~closed
          /\ Acquire(s)
          /\ th' = Push(s, s, <<"deliver", "done">>, <<"deliver", "sPark">>)
          /\ UNCHANGED <<waiters, hist>>
    /\ UNCHANGED <<ring, queues, closed>>

\* Mutant of SendPark: the sender queues itself without being counted.
SendParkUncounted(s) ==
    /\ At(s, "sPark")
    /\ \/ /\ th[s].mode = "try"
          /\ Release(s) /\ Return(s, "WOULDBLOCK")
          /\ UNCHANGED <<queues, word, result>>
       \/ /\ th[s].mode # "try"
          /\ word' = [word EXCEPT ![s] = 0]
          /\ result' = [result EXCEPT ![s] = "OK"]
          /\ sendq' = Append(sendq, s)
          /\ th' = Push(s, s, <<"sAgain">>, <<"unlockPark">>)
          /\ UNCHANGED <<lock, recvq, sendCnt, recvCnt, out, hist>>
    /\ UNCHANGED <<ring, closed>>

SendPark(s) ==
    /\ At(s, "sPark")
    /\ \/ /\ th[s].mode = "try"
          /\ Release(s) /\ Return(s, "WOULDBLOCK")
          /\ UNCHANGED <<queues, word, result>>
       \/ /\ th[s].mode # "try"
          /\ word' = [word EXCEPT ![s] = 0]
          /\ result' = [result EXCEPT ![s] = "OK"]
          /\ sendCnt' = sendCnt + 1
          /\ sendq' = Append(sendq, s)
          /\ th' = Push(s, s, <<"sAgain">>, <<"unlockPark">>)
          /\ UNCHANGED <<lock, recvq, recvCnt, out, hist>>
    /\ UNCHANGED <<ring, closed>>

SendAgain(s) ==
    /\ At(s, "sAgain")
    /\ sendq' = Without(sendq, s)
    /\ sendCnt' = sendCnt - 1
    /\ Goto(s, <<"deliver", "done">>)
    /\ UNCHANGED <<ring, lock, recvq, recvCnt, closed, waiters, hist>>

------------------------------------------------------------------------------
(* chan_recv_impl, fast path.                                              *)

RecvSendCnt(r) ==
    /\ At(r, "rSendCnt")
    /\ Goto(r, IF sendCnt # 0 THEN <<"rLock">> ELSE <<"rRecvCnt">>)
    /\ UNCHANGED <<ring, lock, queues, closed, waiters, hist>>

RecvRecvCnt(r) ==
    /\ At(r, "rRecvCnt")
    /\ IF recvCnt # 0 THEN Goto(r, <<"rLock">>) ELSE th' = Pop(r, r, <<"rPopped">>, <<"rEmpty">>)
    /\ UNCHANGED <<ring, lock, queues, closed, waiters, hist>>

RecvEmpty(r) ==
    /\ At(r, "rEmpty")
    /\ IF closed \/ th[r].spin >= Spin
       THEN Goto(r, <<"rLock">>)
       ELSE th' = [th EXCEPT ![r].at = <<"rSendCnt">>, ![r].spin = @ + 1]
    /\ UNCHANGED <<ring, lock, queues, closed, waiters, hist>>

\* Mutant of RecvPopped: the count is not looked at again after the pop.
RecvPoppedNoRecheck(r) ==
    /\ At(r, "rPopped")
    /\ Return(r, "OK")
    /\ UNCHANGED <<ring, lock, queues, closed, word, result>>

RecvPopped(r) ==
    /\ At(r, "rPopped")
    /\ \/ /\ sendCnt # 0
          /\ Goto(r, <<"admitLock", "done">>)
          /\ UNCHANGED <<waiters, hist>>
       \/ /\ sendCnt = 0
          /\ Return(r, "OK")
          /\ UNCHANGED <<word, result>>
    /\ UNCHANGED <<ring, lock, queues, closed>>

(* chan_recv_impl, slow path.                                              *)

\* Mutant of RecvLock: a parked sender is served before the ring is drained.
RecvLockMeetsFirst(r) ==
    /\ At(r, "rLock") /\ Acquire(r)
    /\ Goto(r, <<"rMeet">>)
    /\ UNCHANGED <<ring, queues, closed, waiters, hist>>

RecvLock(r) ==
    /\ At(r, "rLock") /\ Acquire(r)
    /\ th' = Pop(r, r, <<"rHelp">>, <<"rMeet">>)
    /\ UNCHANGED <<ring, queues, closed, waiters, hist>>

\* "Receiver helps push": a slot is free, admit the oldest parked sender.
RecvHelp(r) ==
    /\ At(r, "rHelp")
    /\ \/ /\ sendq = << >>
          /\ Release(r) /\ Return(r, "OK")
          /\ UNCHANGED <<sendq, word, result>>
       \/ /\ sendq # << >>
          /\ sendq' = Tail(sendq)
          /\ th' = Push(r, Head(sendq), <<"rHelped">>, <<"rHelpFailed">>)
          /\ UNCHANGED <<lock, waiters, hist>>
    /\ UNCHANGED <<ring, recvq, sendCnt, recvCnt, closed>>

RecvHelped(r) ==
    /\ At(r, "rHelped")
    /\ result' = [result EXCEPT ![th[r].w] = "OK"]
    /\ Release(r)
    /\ th' = [th EXCEPT ![r].at = <<"rWake">>, ![r].old = calls[th[r].w]]
    /\ UNCHANGED <<ring, queues, closed, word, out, hist>>

RecvHelpFailed(r) ==
    /\ At(r, "rHelpFailed")
    /\ sendq' = <<th[r].w>> \o sendq
    /\ Release(r) /\ Return(r, "OK")
    /\ UNCHANGED <<ring, recvq, sendCnt, recvCnt, closed, word, result>>

\* chan_park_wake after the unlock.  The waiter lives on the stack of a thread
\* that may have timed out and gone on to its next call: the store then hits
\* the waiter of that call, if it lies in the same place, or dead memory.
WakeOutcomes(r) ==
    {[word EXCEPT ![th[r].w] = 1]} \cup {u \in {word} : calls[th[r].w] # th[r].old}

RecvWake(r) ==
    /\ At(r, "rWake")
    /\ word' \in WakeOutcomes(r)
    /\ Return(r, "OK")
    /\ UNCHANGED <<ring, lock, queues, closed, result>>

\* Ring empty: direct rendezvous with a parked sender.
RecvMeet(r) ==
    /\ At(r, "rMeet") /\ sendq # << >>
    /\ sendq' = Tail(sendq)
    /\ out' = [out EXCEPT ![r] = Msg(Head(sendq))]
    /\ result' = [result EXCEPT ![Head(sendq)] = "OK"]
    /\ Release(r)
    /\ th' = [th EXCEPT ![r].at = <<"rWake">>, ![r].w = Head(sendq), ![r].old = calls[Head(sendq)]]
    /\ UNCHANGED <<ring, recvq, sendCnt, recvCnt, closed, word, hist>>

RecvPark(r) ==
    /\ At(r, "rMeet") /\ sendq = << >>
    /\ \/ /\ closed \/ th[r].mode = "try"
          /\ Release(r) /\ Return(r, IF closed THEN "CLOSED" ELSE "WOULDBLOCK")
          /\ UNCHANGED <<queues, word, result>>
       \/ /\ ~closed /\ th[r].mode # "try"
          /\ word' = [word EXCEPT ![r] = 0]
          /\ result' = [result EXCEPT ![r] = "OK"]
          /\ recvCnt' = recvCnt + 1
          /\ recvq' = Append(recvq, r)
          /\ th' = Pop(r, r, <<"rAgain">>, <<"unlockPark">>)
          /\ UNCHANGED <<lock, sendq, sendCnt, out, hist>>
    /\ UNCHANGED <<ring, closed>>

\* Mutant of RecvAgain: the receiver stays queued after popping by itself.
RecvAgainStillQueued(r) ==
    /\ At(r, "rAgain")
    /\ recvCnt' = recvCnt - 1
    /\ Release(r) /\ Return(r, "OK")
    /\ UNCHANGED <<ring, sendq, recvq, sendCnt, closed, word, result>>

RecvAgain(r) ==
    /\ At(r, "rAgain")
    /\ recvq' = Without(recvq, r)
    /\ recvCnt' = recvCnt - 1
    /\ Release(r) /\ Return(r, "OK")
    /\ UNCHANGED <<ring, sendq, sendCnt, closed, word, result>>

------------------------------------------------------------------------------
(* chan_try_send_burst and chan_try_recv_burst: straight to the ring, past *)
(* the waiter counts; then the same look at the other side's count.        *)

SendBurst(s) ==
    /\ At(s, "bSend")
    /\ IF closed THEN Goto(s, <<"bNone">>) ELSE th' = Push(s, s, <<"sPushed">>, <<"bNone">>)
    /\ UNCHANGED <<ring, lock, queues, closed, waiters, hist>>

RecvBurst(r) ==
    /\ At(r, "bRecv")
    /\ th' = Pop(r, r, <<"rPopped">>, <<"bNone">>)
    /\ UNCHANGED <<ring, lock, queues, closed, waiters, hist>>

\* Nothing was moved.
BurstNone(t) ==
    /\ At(t, "bNone")
    /\ Return(t, "WOULDBLOCK")
    /\ UNCHANGED <<ring, lock, queues, closed, word, result>>

------------------------------------------------------------------------------
(* Parking: chan_park_wait and what follows it.                            *)

UnlockPark(t) ==
    /\ At(t, "unlockPark")
    /\ Release(t)
    /\ Goto(t, <<"parked">>)
    /\ UNCHANGED <<ring, queues, closed, waiters, hist>>

Deregister(t) ==
    /\ sendCnt' = IF t \in Senders THEN sendCnt - 1 ELSE sendCnt
    /\ recvCnt' = IF t \in Receivers THEN recvCnt - 1 ELSE recvCnt
    /\ Return(t, result[t])
    /\ UNCHANGED <<ring, lock, sendq, recvq, closed, word, result>>

Woken(t) == At(t, "parked") /\ word[t] = 1 /\ Deregister(t)

Timeout(t) ==
    /\ At(t, "parked") /\ th[t].mode = "timed" /\ word[t] = 0
    /\ Goto(t, <<"timedOut">>)
    /\ UNCHANGED <<ring, lock, queues, closed, waiters, hist>>

\* Mutant of TimeoutLock: a timeout is reported even to a waiter just served.
TimeoutLockAlways(t) ==
    /\ At(t, "timedOut") /\ lock = None
    /\ result' = [result EXCEPT ![t] = "TIMEOUT"]
    /\ sendq' = Without(sendq, t) /\ recvq' = Without(recvq, t)
    /\ Goto(t, <<"timeoutDec">>)
    /\ UNCHANGED <<ring, lock, sendCnt, recvCnt, closed, word, out, hist>>

\* Still queued means nobody served us; otherwise the waiter's result stands.
TimeoutLock(t) ==
    /\ At(t, "timedOut") /\ lock = None
    /\ result' = [result EXCEPT ![t] =
                     IF t \in Elems(sendq) \cup Elems(recvq) THEN "TIMEOUT" ELSE @]
    /\ sendq' = Without(sendq, t) /\ recvq' = Without(recvq, t)
    /\ Goto(t, <<"timeoutDec">>)
    /\ UNCHANGED <<ring, lock, sendCnt, recvCnt, closed, word, out, hist>>

TimeoutReturn(t) == At(t, "timeoutDec") /\ Deregister(t)

ParkStep(t) ==
    \/ UnlockPark(t) \/ Woken(t) \/ Timeout(t) \/ TimeoutLock(t) \/ TimeoutReturn(t)

------------------------------------------------------------------------------
(* chan_close.                                                             *)

CloseLock(c) ==
    /\ At(c, "cLock") /\ lock = None
    /\ \/ /\ closed
          /\ Return(c, "CLOSED")
          /\ UNCHANGED <<lock, queues, closed, word, result>>
       \/ /\ ~closed
          /\ closed' = TRUE
          /\ Acquire(c)
          /\ LET woken == Elems(sendq) IN
             /\ result' = [t \in Threads |-> IF t \in woken THEN "CLOSED" ELSE result[t]]
             /\ word' = [t \in Threads |-> IF t \in woken THEN 1 ELSE word[t]]
          /\ sendq' = << >>
          /\ Goto(c, <<"cNext">>)
          /\ UNCHANGED <<recvq, sendCnt, recvCnt, out, hist>>
    /\ UNCHANGED ring

CloseNext(c) ==
    /\ At(c, "cNext")
    /\ \/ /\ recvq = << >>
          /\ Release(c) /\ Return(c, "OK")
          /\ UNCHANGED <<recvq, word, result>>
       \/ /\ recvq # << >>
          /\ recvq' = Tail(recvq)
          /\ th' = Pop(c, Head(recvq), <<"cGiven">>, <<"cRefused">>)
          /\ UNCHANGED <<lock, waiters, hist>>
    /\ UNCHANGED <<ring, sendq, sendCnt, recvCnt, closed>>

CloseServe(c) ==
    /\ At(c, "cGiven") \/ At(c, "cRefused")
    /\ result' = [result EXCEPT ![th[c].w] = IF At(c, "cGiven") THEN "OK" ELSE "CLOSED"]
    /\ word' = [word EXCEPT ![th[c].w] = 1]
    /\ Goto(c, <<"cNext">>)
    /\ UNCHANGED <<ring, lock, queues, closed, out, hist>>

------------------------------------------------------------------------------
SendStep(s) ==
    \/ SendClosed(s) \/ SendSendCnt(s) \/ SendRecvCnt(s) \/ SendPushed(s)
    \/ SendLock(s) \/ SendPark(s) \/ SendAgain(s) \/ SendBurst(s) \/ BurstNone(s)
    \/ RingStep(s) \/ HelperStep(s) \/ ParkStep(s)

RecvStep(r) ==
    \/ RecvSendCnt(r) \/ RecvRecvCnt(r) \/ RecvEmpty(r) \/ RecvPopped(r)
    \/ RecvLock(r) \/ RecvHelp(r) \/ RecvHelped(r) \/ RecvHelpFailed(r) \/ RecvWake(r)
    \/ RecvMeet(r) \/ RecvPark(r) \/ RecvAgain(r) \/ RecvBurst(r) \/ BurstNone(r)
    \/ RingStep(r) \/ HelperStep(r) \/ ParkStep(r)

CloseStep(c) == CloseLock(c) \/ CloseNext(c) \/ CloseServe(c) \/ RingStep(c)

CallSend(s) == \E m \in SendModes : Enter(s, m, IF m = "burst" THEN <<"bSend">> ELSE <<"sClosed">>)
CallRecv(r) == \E m \in RecvModes : Enter(r, m, IF m = "burst" THEN <<"bRecv">> ELSE <<"rSendCnt">>)
CallClose(c) == Enter(c, "block", <<"cLock">>)

Next ==
    \/ \E s \in Senders : CallSend(s) \/ SendStep(s)
    \/ \E r \in Receivers : CallRecv(r) \/ RecvStep(r)
    \/ \E c \in Closers : CallClose(c) \/ CloseStep(c)

Spec == Init /\ [][Next]_vars

\* Every thread inside a call keeps running, and the clients make all their
\* calls.
FairSpec ==
    /\ Spec
    /\ \A s \in Senders : WF_vars(SendStep(s)) /\ WF_vars(CallSend(s))
    /\ \A r \in Receivers : WF_vars(RecvStep(r)) /\ WF_vars(CallRecv(r))
    /\ \A c \in Closers : WF_vars(CloseStep(c))

------------------------------------------------------------------------------
(* Properties.                                                             *)

Messages == Senders \X (1..MaxCalls)
Results == {"OK", "CLOSED", "TIMEOUT", "WOULDBLOCK"}

\* Type invariant: every variable keeps its type; waiter counts stay natural.
TypeOK ==
    /\ log \in Seq(Messages)
    /\ prodTail \in Nat /\ consHead \in Nat /\ consTail \in Nat
    /\ lock \in Threads \cup {None} /\ closed \in BOOLEAN
    /\ sendq \in Seq(Senders) /\ recvq \in Seq(Receivers)
    /\ sendCnt \in Nat /\ recvCnt \in Nat
    /\ \A t \in Threads : th[t].w \in Threads \cup {None} /\ th[t].old \in Nat
    /\ word \in [Threads -> {0, 1}] /\ result \in [Threads -> Results]
    /\ out \in [Receivers -> Messages \cup {NoMsg}]
    /\ calls \in [Threads -> 0..MaxCalls]
    /\ accepted \subseteq Messages /\ refused \subseteq Messages
    /\ rcvd \in [Receivers -> Seq(Messages \cup {NoMsg})]

\* The places where a copy of message m is: the ring, a pop in progress, a
\* receiver's buffer, or what a receive has returned.
Copies(m) ==
    Cardinality({i \in (consHead + 1)..Len(log) : log[i] = m})
    + Cardinality({t \in Threads : At(t, "popCommit") /\ log[th[t].old + 1] = m})
    + Cardinality({r \in Receivers : out[r] = m})
    + Cardinality({x \in Receivers \X (1..(2 * MaxCalls)) :
                      x[2] <= Len(rcvd[x[1]]) /\ rcvd[x[1]][x[2]] = m})

\* A message whose send returned OK exists exactly once, in the channel or at
\* a receiver; one whose send failed exists nowhere; none is ever duplicated;
\* and every receive that returned OK returned a message.
ExactlyOnce ==
    /\ \A m \in Messages : /\ Copies(m) <= 1
                           /\ m \in accepted => Copies(m) = 1
                           /\ m \in refused => Copies(m) = 0
    /\ \A r \in Receivers : \A i \in DOMAIN rcvd[r] : rcvd[r][i] # NoMsg

\* A thread in a wait queue is counted, so the lock-free gates of the other
\* threads cannot overlook it; and only a thread inside a call is queued.
QueuedIsCounted ==
    /\ Len(sendq) <= sendCnt /\ Len(recvq) <= recvCnt
    /\ \A i \in DOMAIN sendq : th[sendq[i]].at # <<"idle">>
    /\ \A i \in DOMAIN recvq : th[recvq[i]].at # <<"idle">>

\* Each receiver gets the messages of one sender in the order they were sent,
\* although they may travel through the ring, the hand of a helper or a
\* direct rendezvous.
SenderOrder ==
    \A r \in Receivers : \A i, j \in DOMAIN rcvd[r] :
        i < j /\ rcvd[r][i][1] = rcvd[r][j][1] => rcvd[r][i][2] < rcvd[r][j][2]

\* Nothing can happen any more except new calls.
Parked(t) == At(t, "parked") /\ word[t] = 0
Quiescent == \A t \in Threads : At(t, "idle") \/ Parked(t)

\* No lost wakeup: when everything has come to rest, no receiver sleeps while
\* a message is in the ring or held by a sleeping sender.
NoStrandedReceiver ==
    Quiescent /\ ~closed =>
        \A r \in Receivers : Parked(r) =>
            consHead = Len(log) /\ \A s \in Senders : ~Parked(s)

\* No lost wakeup on the other side: no sender sleeps while a slot is free.
NoStrandedSender ==
    Quiescent /\ ~closed =>
        \A s \in Senders : Parked(s) => Len(log) - consTail >= Capacity

\* Once the channel is closed and everything has come to rest, nobody sleeps.
CloseWakesAll == Quiescent /\ closed => \A t \in Threads : ~Parked(t)

\* Senders and receivers that make the same number of blocking calls all
\* finish: no wakeup is lost on the way, and nobody waits for the lock or for
\* a commit for ever.
ExchangeCompletes ==
    <>(\A t \in Senders \cup Receivers : At(t, "idle") /\ calls[t] = MaxCalls)

------------------------------------------------------------------------------
(* The inductive invariants behind CloseWakesAll, TypeOK and               *)
(* QueuedIsCounted (module ChanBuf_proofs).                                *)

PushLabels == {"pushLoad", "pushCas", "pushCommit"}
PopLabels == {"popLoad", "popCas", "popCommit"}
RingLabels == PushLabels \cup PopLabels
HelperLabels == {"deliverLock", "deliver", "deliverTest", "delivered", "undelivered",
                 "admitLock", "admit", "admitTest", "admitted", "unadmitted"}
PlainLabels == RingLabels \cup
    {"idle", "done", "sClosed", "sSendCnt", "sRecvCnt", "sPushed", "sLock", "sPark", "sAgain",
     "rSendCnt", "rRecvCnt", "rEmpty", "rPopped", "rLock", "rHelp", "rHelped", "rHelpFailed", "rWake",
     "rMeet", "rAgain", "bSend", "bRecv", "bNone", "unlockPark", "parked", "timedOut", "timeoutDec",
     "cLock", "cNext", "cGiven", "cRefused"}

\* Stacks of labels: a helper returns to the end of a call or to SendPark.
Stacks == {<<l>> : l \in PlainLabels} \cup {<<l, r>> : l \in HelperLabels, r \in {"done", "sPark"}}

\* Where the ring operations return to, on success and on failure.
Exits ==
    ({<<"sPushed">>} \X {<<"sLock">>, <<"sClosed">>, <<"bNone">>})
    \cup ({<<"rPopped">>} \X {<<"rEmpty">>, <<"bNone">>})
    \cup {<<<<"deliver", "done">>, <<"deliver", "sPark">>>>, <<<<"sAgain">>, <<"unlockPark">>>>,
          <<<<"rAgain">>, <<"unlockPark">>>>, <<<<"rHelp">>, <<"rMeet">>>>,
          <<<<"rHelped">>, <<"rHelpFailed">>>>, <<<<"cGiven">>, <<"cRefused">>>>}
    \cup {<<<<"delivered", r>>, <<"undelivered", r>>>> : r \in {"done", "sPark"}}
    \cup {<<<<"admitted", r>>, <<"unadmitted", r>>>> : r \in {"done", "sPark"}}

\* What a thread is about: its position, or the one its ring operation serves.
InRing(t) == Head(th[t].at) \in RingLabels
Doing(t) == IF InRing(t) THEN Head(th[t].ok) ELSE Head(th[t].at)

\* On its way to SendPark, unless a push succeeds first.
Bottom(s) == s[Len(s)]
MayPark(t) == Bottom(IF InRing(t) THEN th[t].fail ELSE th[t].at) = "sPark"

Locking == {"deliver", "deliverTest", "delivered", "undelivered", "admit", "admitTest", "admitted",
            "unadmitted", "done", "sPark", "sAgain", "unlockPark", "rHelp", "rHelped", "rHelpFailed",
            "rMeet", "rAgain", "cNext", "cGiven", "cRefused"}
HasSender == {"admitted", "unadmitted", "rHelped", "rHelpFailed"}
HasReceiver == {"delivered", "undelivered", "cGiven", "cRefused"}
Closing == {"cNext", "cGiven", "cRefused"}
Registered == {"sAgain", "rAgain", "unlockPark", "parked", "timedOut", "timeoutDec"}

\* Positions are what the code allows, and only the holder of the lock is
\* where the lock is held.
FrameInv ==
    /\ DOMAIN th = Threads
    /\ \A t \in Threads :
          /\ {"at", "ok", "fail", "w", "old", "mode", "spin"} \subseteq DOMAIN th[t]
          /\ th[t].at \in Stacks
          /\ InRing(t) => <<th[t].ok, th[t].fail>> \in Exits
          /\ Doing(t) \in Locking \/ MayPark(t) => lock = t

Queued(t) == t \in Elems(sendq) \cup Elems(recvq)
InHand(t) == \E u \in Threads : Doing(u) \in HasSender \cup HasReceiver /\ th[u].w = t
ToWake(t) == \E u \in Threads : Doing(u) = "rWake" /\ th[u].w = t /\ th[u].old = calls[t]

\* A thread that sleeps, or is about to, is queued, in the hands of a thread
\* that holds the lock, or about to be woken by the receiver that served it.
SleepInv ==
    \A t \in Threads :
        /\ Doing(t) \in {"sAgain", "rAgain"} => Queued(t)
        /\ Doing(t) \in {"unlockPark", "parked", "timedOut"} /\ word[t] = 0 => Queued(t) \/ InHand(t) \/ ToWake(t)

\* After the close nobody holds a sender, or gets to queue as one, and the
\* receivers still queued are those the closing thread has yet to serve.
CloseInv ==
    closed => /\ sendq = << >>
              /\ \A t \in Threads : Doing(t) \notin HasSender /\ ~MayPark(t)
              /\ \A t \in Threads : Doing(t) \in HasReceiver => Doing(t) \in Closing
              /\ recvq # << >> => \E t \in Threads : Doing(t) \in Closing

\* The threads in the queues, in hands and on either side of a ring operation
\* are of the right kind, and a sender among them has begun a call.
HandOf(t) ==
    /\ Head(th[t].at) \in PushLabels \/ Doing(t) \in HasSender \cup {"rWake"} =>
          th[t].w \in Senders /\ calls[th[t].w] > 0
    /\ Head(th[t].at) \in PopLabels \/ Doing(t) \in HasReceiver => th[t].w \in Receivers

KindInv ==
    /\ sendq \in Seq(Senders) /\ recvq \in Seq(Receivers)
    /\ word \in [Threads -> {0, 1}] /\ calls \in [Threads -> 0..MaxCalls]
    /\ \A s \in Elems(sendq) : calls[s] > 0
    /\ \A t \in Threads : HandOf(t) /\ (Doing(t) # "idle" => calls[t] > 0)

\* The counts are those of the threads registered.
CountInv ==
    /\ IsFiniteSet({s \in Senders : Doing(s) \in Registered})
    /\ IsFiniteSet({r \in Receivers : Doing(r) \in Registered})
    /\ sendCnt = Cardinality({s \in Senders : Doing(s) \in Registered})
    /\ recvCnt = Cardinality({r \in Receivers : Doing(r) \in Registered})

Asleep(t) == Doing(t) \in {"parked", "timedOut"} /\ word[t] = 0

\* A thread is in queue q once, while it is registered and not woken; and a
\* thread that one of those at the labels H has in hand is asleep, not queued,
\* and in no other such hand.
Once(q, H) ==
    /\ Distinct(q)
    /\ \A r \in Elems(q) : Doing(r) \in Registered \ {"timeoutDec"} /\ word[r] = 0
    /\ \A u \in Threads : Doing(u) \in H =>
          /\ Asleep(th[u].w) /\ th[u].w \notin Elems(q)
          /\ \A v \in Threads : Doing(v) \in H /\ th[v].w = th[u].w => v = u

RecvOnce == Once(recvq, HasReceiver)

\* A receiver may still have to wake a sender after the unlock.  For senders
\* it is so only if none can time out in between.
SendOnce == Once(sendq, HasSender \cup {"rWake"})
TimedFree == "timed" \notin SendModes

NoTimeouts == TimedFree => \A s \in Senders : Doing(s) # "timedOut"

\* Senders make calls of the forms they are given.
ModeInv == \A s \in Senders : th[s].mode \in SendModes \cup {"block"}
==============================================================================
