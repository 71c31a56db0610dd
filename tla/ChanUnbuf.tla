------------------------------ MODULE ChanUnbuf ------------------------------
(***************************************************************************)
(* An unbuffered libchan channel (capacity 0): the rendezvous branches of  *)
(* chan_send_impl and chan_recv_impl and chan_close, with direct senders   *)
(* and receivers.  Everything but parking, waking and the waiter counts    *)
(* happens under ch->lock, so a critical section is one step; what the     *)
(* code does after chan_unlock is a step of its own.                       *)
(***************************************************************************)
EXTENDS Integers, Sequences, FiniteSets, WaitQ

CONSTANTS
    Senders, Receivers,  \* threads calling chan_send / chan_recv
    Closers,             \* threads calling chan_close
    Modes,               \* the forms of call made: "block", "try", "timed"
    MaxCalls,            \* bound: calls each thread makes
    None                 \* no thread

Threads == Senders \cup Receivers \cup Closers

ASSUME ChanUnbufAssumption ==
    /\ Senders \cap Receivers = {} /\ Senders \cap Closers = {}
    /\ Receivers \cap Closers = {} /\ None \notin Threads
    /\ MaxCalls \in Nat
    /\ Modes \subseteq {"block", "try", "timed"}

VARIABLES
    sendq, recvq,        \* send_waiters, recv_waiters
    sendCnt, recvCnt,    \* send_waiter_cnt, recv_waiter_cnt
    closed,
    pc,                  \* where each thread is in its call
    mode,                \* the form of that call
    peer,                \* the waiter a thread still has to wake: whose, which call
    word,                \* the word of a thread's park
    result,              \* its waiter's result
    out,                 \* a receiver's destination buffer
    calls,               \* calls begun; names the message being sent
    accepted, refused,   \* history: messages whose send returned OK / an error
    rcvd                 \* history: what each receiver's OK calls returned

queues  == <<sendq, recvq, sendCnt, recvCnt>>
locals  == <<pc, mode, peer>>
waiters == <<word, result, out>>
hist    == <<calls, accepted, refused, rcvd>>
vars    == <<queues, closed, locals, waiters, hist>>

NoMsg == <<None, 0>>
Msg(s) == <<s, calls[s]>>

Init ==
    /\ sendq = << >> /\ recvq = << >> /\ sendCnt = 0 /\ recvCnt = 0
    /\ closed = FALSE
    /\ pc = [t \in Threads |-> "idle"]
    /\ mode = [t \in Threads |-> "block"]
    /\ peer = [t \in Threads |-> NoMsg]
    /\ word = [t \in Threads |-> 0]
    /\ result = [t \in Threads |-> "OK"]
    /\ out = [r \in Receivers |-> NoMsg]
    /\ calls = [t \in Threads |-> 0]
    /\ accepted = {} /\ refused = {}
    /\ rcvd = [r \in Receivers |-> << >>]

Goto(t, l) == pc' = [pc EXCEPT ![t] = l]

\* The call of t returns res: an OK receive hands its buffer to the caller,
\* any other result tells the caller there is nothing in it.
Return(t, res) ==
    /\ Goto(t, "idle")
    /\ mode' = [mode EXCEPT ![t] = "block"]
    /\ peer' = [peer EXCEPT ![t] = NoMsg]
    /\ accepted' = IF t \in Senders /\ res = "OK" THEN accepted \cup {Msg(t)} ELSE accepted
    /\ refused' = IF t \in Senders /\ res # "OK" THEN refused \cup {Msg(t)} ELSE refused
    /\ rcvd' = IF t \in Receivers /\ res = "OK" THEN [rcvd EXCEPT ![t] = Append(@, out[t])] ELSE rcvd
    /\ out' = IF t \in Receivers THEN [out EXCEPT ![t] = NoMsg] ELSE out
    /\ UNCHANGED calls

Call(t, m) ==
    /\ pc[t] = "idle" /\ calls[t] < MaxCalls
    /\ calls' = [calls EXCEPT ![t] = @ + 1]
    /\ mode' = [mode EXCEPT ![t] = m]
    /\ Goto(t, "lock")
    /\ UNCHANGED <<queues, closed, peer, waiters, accepted, refused, rcvd>>

\* waiter_init, the count and the queue, then chan_unlock and chan_park_wait.
Register(t) ==
    /\ word' = [word EXCEPT ![t] = 0]
    /\ result' = [result EXCEPT ![t] = "OK"]
    /\ Goto(t, "parked")

\* A waiter was served; it is woken after the unlock.
Serve(t, w) ==
    /\ result' = [result EXCEPT ![w] = "OK"]
    /\ peer' = [peer EXCEPT ![t] = <<w, calls[w]>>]
    /\ Goto(t, "wake")

------------------------------------------------------------------------------
SendClosed(s) ==
    /\ pc[s] = "lock" /\ closed
    /\ Return(s, "CLOSED")
    /\ UNCHANGED <<queues, closed, word, result>>

SendMeet(s) ==
    /\ pc[s] = "lock" /\ ~closed /\ recvq # << >>
    /\ recvq' = Tail(recvq)
    /\ out' = [out EXCEPT ![Head(recvq)] = Msg(s)]
    /\ Serve(s, Head(recvq))
    /\ UNCHANGED <<sendq, sendCnt, recvCnt, closed, mode, word, hist>>

SendWouldBlock(s) ==
    /\ pc[s] = "lock" /\ ~closed /\ recvq = << >> /\ mode[s] = "try"
    /\ Return(s, "WOULDBLOCK")
    /\ UNCHANGED <<queues, closed, word, result>>

\* Mutants of SendPark: a sender that queues behind a waiting receiver, one
\* that queues without being counted, and one that queues after the close.
SendParkBehind(s) ==
    /\ pc[s] = "lock" /\ ~closed /\ mode[s] # "try"
    /\ sendCnt' = sendCnt + 1
    /\ sendq' = Append(sendq, s)
    /\ Register(s)
    /\ UNCHANGED <<recvq, recvCnt, closed, mode, peer, out, hist>>
SendParkUncounted(s) ==
    /\ pc[s] = "lock" /\ ~closed /\ recvq = << >> /\ mode[s] # "try"
    /\ sendq' = Append(sendq, s)
    /\ Register(s)
    /\ UNCHANGED <<recvq, sendCnt, recvCnt, closed, mode, peer, out, hist>>
SendParkEvenClosed(s) ==
    /\ pc[s] = "lock" /\ recvq = << >> /\ mode[s] # "try"
    /\ sendCnt' = sendCnt + 1
    /\ sendq' = Append(sendq, s)
    /\ Register(s)
    /\ UNCHANGED <<recvq, recvCnt, closed, mode, peer, out, hist>>

SendPark(s) ==
    /\ pc[s] = "lock" /\ ~closed /\ recvq = << >> /\ mode[s] # "try"
    /\ sendCnt' = sendCnt + 1
    /\ sendq' = Append(sendq, s)
    /\ Register(s)
    /\ UNCHANGED <<recvq, recvCnt, closed, mode, peer, out, hist>>

\* Mutant of RecvMeet: the sender is served and its message not taken.
RecvMeetNoCopy(r) ==
    /\ pc[r] = "lock" /\ sendq # << >>
    /\ sendq' = Tail(sendq)
    /\ Serve(r, Head(sendq))
    /\ UNCHANGED <<recvq, sendCnt, recvCnt, closed, mode, word, out, hist>>

\* A receive serves a parked sender first, even on a closed channel.
RecvMeet(r) ==
    /\ pc[r] = "lock" /\ sendq # << >>
    /\ sendq' = Tail(sendq)
    /\ out' = [out EXCEPT ![r] = Msg(Head(sendq))]
    /\ Serve(r, Head(sendq))
    /\ UNCHANGED <<recvq, sendCnt, recvCnt, closed, mode, word, hist>>

RecvClosed(r) ==
    /\ pc[r] = "lock" /\ sendq = << >> /\ closed
    /\ Return(r, "CLOSED")
    /\ UNCHANGED <<queues, closed, word, result>>

RecvWouldBlock(r) ==
    /\ pc[r] = "lock" /\ sendq = << >> /\ ~closed /\ mode[r] = "try"
    /\ Return(r, "WOULDBLOCK")
    /\ UNCHANGED <<queues, closed, word, result>>

RecvPark(r) ==
    /\ pc[r] = "lock" /\ sendq = << >> /\ ~closed /\ mode[r] # "try"
    /\ recvCnt' = recvCnt + 1
    /\ recvq' = Append(recvq, r)
    /\ Register(r)
    /\ UNCHANGED <<sendq, sendCnt, closed, mode, peer, out, hist>>

\* chan_park_wake after the unlock: the waiter's thread may have timed out and
\* gone on to its next call.  The store then hits the waiter of that call, if
\* it lies in the same place on the stack, or dead memory.
WakeOutcomes(t) ==
    {[word EXCEPT ![peer[t][1]] = 1]} \cup {u \in {word} : calls[peer[t][1]] # peer[t][2]}

Wake(t) ==
    /\ pc[t] = "wake"
    /\ word' \in WakeOutcomes(t)
    /\ Return(t, "OK")
    /\ UNCHANGED <<queues, closed, result>>

------------------------------------------------------------------------------
(* chan_park_wait and what follows it.                                     *)

Deregister(t) ==
    /\ sendCnt' = IF t \in Senders THEN sendCnt - 1 ELSE sendCnt
    /\ recvCnt' = IF t \in Receivers THEN recvCnt - 1 ELSE recvCnt

Woken(t) ==
    /\ pc[t] = "parked" /\ word[t] = 1
    /\ Deregister(t)
    /\ Return(t, result[t])
    /\ UNCHANGED <<sendq, recvq, closed, word, result>>

Timeout(t) ==
    /\ pc[t] = "parked" /\ mode[t] = "timed" /\ word[t] = 0
    /\ Goto(t, "timedOut")
    /\ UNCHANGED <<queues, closed, mode, peer, waiters, hist>>

\* The result of waitq_remove is not looked at.
TimeoutRemove(t) ==
    /\ pc[t] = "timedOut"
    /\ sendq' = Without(sendq, t) /\ recvq' = Without(recvq, t)
    /\ Goto(t, "removed")
    /\ UNCHANGED <<sendCnt, recvCnt, closed, mode, peer, waiters, hist>>

TimeoutReturn(t) ==
    /\ pc[t] = "removed"
    /\ Deregister(t)
    /\ Return(t, "TIMEOUT")
    /\ UNCHANGED <<sendq, recvq, closed, word, result>>

\* Mutant of Close: only the senders are told.
CloseSendersOnly(c) ==
    /\ pc[c] = "lock"
    /\ \/ closed /\ UNCHANGED <<closed, sendq, recvq, word, result>>
       \/ /\ ~closed
          /\ closed' = TRUE
          /\ LET told == {sendq[i] : i \in DOMAIN sendq} IN
             /\ result' = [t \in Threads |-> IF t \in told THEN "CLOSED" ELSE result[t]]
             /\ word' = [t \in Threads |-> IF t \in told THEN 1 ELSE word[t]]
          /\ sendq' = << >> /\ UNCHANGED recvq
    /\ Return(c, "OK")
    /\ UNCHANGED <<sendCnt, recvCnt>>

\* chan_close: both queues are told CLOSED and woken under the lock.
Close(c) ==
    /\ pc[c] = "lock"
    /\ \/ closed /\ UNCHANGED <<closed, sendq, recvq, word, result>>
       \/ /\ ~closed
          /\ closed' = TRUE
          /\ LET told == {(sendq \o recvq)[i] : i \in DOMAIN (sendq \o recvq)} IN
             /\ result' = [t \in Threads |-> IF t \in told THEN "CLOSED" ELSE result[t]]
             /\ word' = [t \in Threads |-> IF t \in told THEN 1 ELSE word[t]]
          /\ sendq' = << >> /\ recvq' = << >>
    /\ Return(c, "OK")
    /\ UNCHANGED <<sendCnt, recvCnt>>

------------------------------------------------------------------------------
ParkStep(t) == Woken(t) \/ Timeout(t) \/ TimeoutRemove(t) \/ TimeoutReturn(t)

SendStep(s) ==
    \/ SendClosed(s) \/ SendMeet(s) \/ SendWouldBlock(s) \/ SendPark(s)
    \/ Wake(s) \/ ParkStep(s)

RecvStep(r) ==
    \/ RecvMeet(r) \/ RecvClosed(r) \/ RecvWouldBlock(r) \/ RecvPark(r)
    \/ Wake(r) \/ ParkStep(r)

CallAny(t) == \E m \in Modes : Call(t, m)

Next ==
    \/ \E s \in Senders : CallAny(s) \/ SendStep(s)
    \/ \E r \in Receivers : CallAny(r) \/ RecvStep(r)
    \/ \E c \in Closers : Call(c, "block") \/ Close(c)

Spec == Init /\ [][Next]_vars

\* Every thread inside a call keeps running; nobody has to make a call.
FairSpec ==
    /\ Spec
    /\ \A s \in Senders : WF_vars(SendStep(s))
    /\ \A r \in Receivers : WF_vars(RecvStep(r))
    /\ \A c \in Closers : WF_vars(Close(c))
------------------------------------------------------------------------------
(* Properties.                                                             *)

Messages == Senders \X (1..MaxCalls)
Results == {"OK", "CLOSED", "TIMEOUT", "WOULDBLOCK"}

\* Type invariant: every variable keeps its type; waiter counts stay natural.
TypeOK ==
    /\ sendq \in Seq(Senders) /\ recvq \in Seq(Receivers)
    /\ sendCnt \in Nat /\ recvCnt \in Nat /\ closed \in BOOLEAN
    /\ pc \in [Threads -> {"idle", "lock", "parked", "wake", "timedOut", "removed"}]
    /\ mode \in [Threads -> {"block", "try", "timed"}]
    /\ peer \in [Threads -> (Threads \X (1..MaxCalls)) \cup {NoMsg}]
    /\ word \in [Threads -> {0, 1}] /\ result \in [Threads -> Results]
    /\ out \in [Receivers -> Messages \cup {NoMsg}]
    /\ calls \in [Threads -> 0..MaxCalls]
    /\ accepted \subseteq Messages /\ refused \subseteq Messages
    /\ rcvd \in [Receivers -> Seq(Messages \cup {NoMsg})]

\* At most one side has waiters: a send never queues behind a waiting
\* receiver, nor a receive behind a waiting sender.
OneSideWaits == sendq = << >> \/ recvq = << >>

\* Where a copy of m is: a receiver's buffer or what a receive has returned.
Holders(m) == {r \in Receivers : out[r] = m \/ m \in Elems(rcvd[r])}

\* A send returns OK exactly when one receiver has got its message and kept it;
\* nothing is received twice, and an OK receive got a message.
ExactlyOnce ==
    /\ \A m \in accepted : Cardinality(Holders(m)) = 1
    /\ \A m \in refused : Holders(m) = {}
    /\ \A r \in Receivers : Distinct(rcvd[r]) /\ NoMsg \notin Elems(rcvd[r])

\* When everything has come to rest nobody sleeps on a closed channel, and no
\* sender and receiver sleep together on an open one.
Parked(t) == pc[t] = "parked" /\ word[t] = 0
NoStranded ==
    (\A t \in Threads : pc[t] = "idle" \/ Parked(t)) =>
        /\ closed => \A t \in Threads : ~Parked(t)
        /\ ~(\E s \in Senders, r \in Receivers : Parked(s) /\ Parked(r))

------------------------------------------------------------------------------
(* The inductive invariants behind them.                                   *)

\* The threads of a side between waiter_init and the decrement of its count.
Registered(S) == {t \in S : pc[t] \in {"parked", "timedOut", "removed"}}
CountsRegistered(cnt, S) ==
    /\ IsFiniteSet(Registered(S))
    /\ cnt = Cardinality(Registered(S))

Queued(t) == t \in Elems(sendq) \cup Elems(recvq)

\* The thread u has served the current call of t and not woken it yet.
Waking(u, t) == pc[u] = "wake" /\ peer[u] = <<t, calls[t]>>

\* A sleeper is in its queue or somebody is about to wake it: the part of the
\* protocol that keeps anybody from being forgotten.
Covered ==
    \A t \in Threads : Parked(t) => Queued(t) \/ \E u \in Threads : Waking(u, t)

ClosedIsEmpty == closed => sendq = << >> /\ recvq = << >>
CallsBegun == \A t \in Threads : pc[t] # "idle" \/ Queued(t) => calls[t] >= 1
ClosersNeverWait == \A c \in Closers : pc[c] \in {"idle", "lock"}
Counted == CountsRegistered(sendCnt, Senders) /\ CountsRegistered(recvCnt, Receivers)

\* Holds with timed calls too, where a late wake may leave a dead waiter queued.
WaitInv ==
    /\ TypeOK /\ OneSideWaits /\ Covered /\ ClosedIsEmpty
    /\ CallsBegun /\ ClosersNeverWait /\ Counted

\* The waiter of t was served: its message is copied, or about to be returned.
Served(t) == pc[t] = "parked" /\ ~Queued(t) /\ result[t] = "OK"

\* The message m has left its sender.
Passed(m) ==
    m \in accepted \/ (m = Msg(m[1]) /\ (pc[m[1]] = "wake" \/ Served(m[1])))

\* Without timeouts a queued waiter is asleep and untouched, and a waker and
\* the waiter it wakes belong to each other alone.
NoTimedCalls == \A t \in Threads : mode[t] # "timed" /\ pc[t] \notin {"timedOut", "removed"}
QueuedOnce == Distinct(sendq) /\ Distinct(recvq)
QueuedAsleep == \A t \in Threads : Queued(t) => Parked(t) /\ result[t] = "OK"
WakerOwnsWaiter ==
    \A u \in Threads : pc[u] = "wake" =>
        \E w \in Threads : peer[u] = <<w, calls[w]>> /\ Parked(w) /\ Served(w)
WakersApart ==
    \A u, v \in Threads : pc[u] = "wake" /\ pc[v] = "wake" /\ peer[u] = peer[v] => u = v

PairInv == NoTimedCalls /\ QueuedOnce /\ QueuedAsleep /\ WakerOwnsWaiter /\ WakersApart

\* A receiver's buffer is full from the moment it is served to its return, and
\* a message has one copy once it has left its sender and none before.
BufferFull == \A r \in Receivers : out[r] # NoMsg <=> pc[r] = "wake" \/ Served(r)
PassedIsHeld == \A m \in Messages : Passed(m) <=> Holders(m) # {}
OneHolder == \A m \in Messages : \A r, q \in Holders(m) : r = q
ReturnedOnce ==
    \A r \in Receivers :
        Distinct(rcvd[r]) /\ NoMsg \notin Elems(rcvd[r]) /\ out[r] \notin Elems(rcvd[r])
DecidedAtReturn ==
    /\ accepted \cap refused = {}
    /\ \A m \in accepted \cup refused :
          m[2] <= calls[m[1]] /\ (m = Msg(m[1]) => pc[m[1]] = "idle")

CopyInv == BufferFull /\ PassedIsHeld /\ OneHolder /\ ReturnedOnce /\ DecidedAtReturn

------------------------------------------------------------------------------
\* Once the channel is closed, every call in progress and every later one
\* returns.
CloseReleases == closed ~> (\A t \in Threads : pc[t] = "idle")
==============================================================================
