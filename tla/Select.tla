------------------------------- MODULE Select --------------------------------
(***************************************************************************)
(* chan_select over several channels (select.c), with the other parties    *)
(* such a select meets: selects of other threads, direct senders, direct   *)
(* receivers of unbuffered channels, and chan_close.                       *)
(*                                                                         *)
(* A ring is a FIFO whose operations are atomic.  That goes further than   *)
(* what RingLF shows, a queue on which runs are reserved and committed     *)
(* later: here no reserved, uncommitted slot makes ring_full and ring_empty*)
(* true at once, and no push reports a spurious full.  An operation that a *)
(* racing fast path can invalidate (a test of the ring and the use of it)  *)
(* is split at that point, even where the code holds the locks, because    *)
(* the fast paths do not take them.  Channels are numbered in the order of *)
(* their addresses.                                                        *)
(***************************************************************************)
EXTENDS Integers, Sequences, FiniteSets

CONSTANTS
    Threads,             \* 1..n
    Cap,                 \* the capacity of each channel; 0 is unbuffered
    Programs,            \* the programs a run may start: each thread's calls
    MaxSends             \* bound: calls with something to send, per thread

Chans == DOMAIN Cap
None == 0                \* no thread

\* The calls a program may make.  A select has at least one case.
Calls == [op : {"select", "send", "recv", "close"},
          cases : Seq({"send", "recv", "close"} \X Chans) \ {<< >>},
          mode : {"block", "try", "timed"}, loop : {"once", "drain", "until2", "whileOK"}]

ASSUME SelectAssumption ==
    /\ IsFiniteSet(Chans) /\ \A c \in Chans : c \in Nat /\ Cap[c] \in Nat
    /\ Threads \subseteq Nat \ {0} /\ MaxSends \in Nat
    /\ \A p \in Programs : Threads \subseteq DOMAIN p /\ \A t \in Threads : p[t] \in Seq(Calls)

VARIABLES
    prog,                \* the program that runs; chosen in Init
    ch,                  \* the channels
    th,                  \* each thread's position, remaining calls and locals
    wt,                  \* its waiters: the claim word and park they share, their results and data
    num,                 \* calls begun that carry a message; names the message
    accepted, refused,   \* history: messages reported sent / not sent
    concealed,           \* history: messages that moved in a case reported as TIMEOUT
    dropped,             \* history: messages a failed ring_push of a select left nowhere
    rcvd                 \* history: what each thread's OK receives returned

call == <<prog, num>>
gaps == <<concealed, dropped>>
hist == <<accepted, refused, gaps, rcvd>>
vars == <<call, ch, th, wt, hist>>

NoMsg == <<None, 0>>
Msg(t) == <<t, num[t]>>
Cases == 1..3            \* indices of the cases of a call
RRPeriod == 6            \* bound: the round-robin counter modulo every number of cases

\* A call: op, the cases <<direction, channel>> (one for a direct call), its
\* form ("block", "try", "timed") and the loop around it (see After).
Call(op, cases, mode, loop) == [op |-> op, cases |-> cases, mode |-> mode, loop |-> loop]

NoWaiter == [claim |-> "none", word |-> 0, res |-> [i \in Cases |-> "WOULDBLOCK"],
             data |-> [i \in Cases |-> NoMsg]]

Init ==
    /\ ch = [c \in Chans |-> [buf |-> << >>, closed |-> FALSE, lock |-> None,
                              sq |-> << >>, rq |-> << >>, sc |-> 0, rc |-> 0]]
    /\ prog \in Programs
    /\ th = [t \in Threads |-> [pc |-> "idle", todo |-> prog[t], i |-> 1, rr |-> 0, start |-> 1,
                                w |-> NoMsg, gone |-> FALSE, next |-> "idle"]]
    /\ wt = [t \in Threads |-> NoWaiter]
    /\ num = [t \in Threads |-> 0]
    /\ accepted = {} /\ refused = {} /\ concealed = {} /\ dropped = {}
    /\ rcvd = [t \in Threads |-> << >>]

------------------------------------------------------------------------------
(* Waiters are pairs <<thread, case>>.  The stubs of a select share one    *)
(* claim word: who claims one of them has claimed them all.                *)

Claimable(w) == wt[w[1]].claim # "woken"

\* waitq_pop_sender, waitq_pop_receiver: the first waiter that can be claimed
\* and the queue behind it; stubs claimed before are dropped on the way.
Found(q) == \E k \in DOMAIN q : Claimable(q[k])
FirstAt(q) == CHOOSE k \in DOMAIN q : Claimable(q[k]) /\ \A j \in 1..(k - 1) : ~Claimable(q[j])
First(q) == q[FirstAt(q)]
Behind(q) == IF Found(q) THEN SubSeq(q, FirstAt(q) + 1, Len(q)) ELSE << >>

\* Mutant of Claim: the claim word is not set.
ClaimNothing(W, w) == W
\* waiter_try_claim succeeds on w.
Claim(W, w) == [W EXCEPT ![w[1]].claim = IF @ = "waiting" THEN "woken" ELSE @]

\* The waiter's data and result are written; Serve also wakes its thread.
Tell(W, w, res, m) == [Claim(W, w) EXCEPT ![w[1]].res[w[2]] = res, ![w[1]].data[w[2]] = m]
Serve(W, w, res, m) == [Tell(W, w, res, m) EXCEPT ![w[1]].word = 1]

\* Mutant of Without: nothing is removed.
WithoutNothing(q, t) == q
\* waitq_remove
Without(q, t) == SelectSeq(q, LAMBDA w : w[1] # t)
Unlock(C, t) == [c \in Chans |-> IF C[c].lock = t THEN [C[c] EXCEPT !.lock = None] ELSE C[c]]

Full(c) == Len(ch[c].buf) >= Cap[c]
\* Mutant of Empty: off by one.
EmptyAtOne(c) == Len(ch[c].buf) <= 1
Empty(c) == ch[c].buf = << >>

------------------------------------------------------------------------------
(* Calls and returns.                                                      *)

At(t, l) == th[t].pc = l
This(t) == th[t].todo[1]
Case(t) == This(t).cases[th[t].i]
Chan(t) == Case(t)[2]
Goto(t, l) == th' = [th EXCEPT ![t].pc = l]
Carries(t) == \E i \in DOMAIN This(t).cases : This(t).cases[i][1] = "send"

\* waiter_init, for a direct c.
DirectWaiter == [NoWaiter EXCEPT !.res = [i \in Cases |-> "OK"]]

\* What a thread does after its call returned case i (0: none) with res:
\* "drain": select over the channels not yet closed until none is left;
\* "until2": select until the second case is chosen;
\* "whileOK": repeat while it succeeds.
After(c, i, res) ==
    LET kept == [k \in 1..(Len(c.cases) - 1) |-> c.cases[IF k < i THEN k ELSE k + 1]] IN
    CASE c.loop = "once" -> << >>
      [] c.loop = "drain" /\ i = 0 -> << >>
      [] c.loop = "drain" /\ i # 0 ->
            IF res # "CLOSED" THEN <<c>>
            ELSE IF kept = << >> THEN << >> ELSE <<[c EXCEPT !.cases = kept]>>
      [] c.loop = "until2" -> IF i = 2 THEN << >> ELSE <<c>>
      [] c.loop = "whileOK" -> IF res = "OK" THEN <<c>> ELSE << >>

Begin(t) ==
    /\ At(t, "idle") /\ th[t].todo # << >>
    /\ Carries(t) => num[t] < MaxSends
    /\ num' = IF Carries(t) THEN [num EXCEPT ![t] = @ + 1] ELSE num
    /\ th' = [th EXCEPT ![t].i = 1, ![t].pc =
                 CASE This(t).op = "select" -> "scan"
                   [] This(t).op = "send" -> IF Cap[This(t).cases[1][2]] > 0 THEN "sGate" ELSE "sLock"
                   [] This(t).op = "recv" -> "rLock"
                   [] This(t).op = "close" -> "cLock"]
    /\ UNCHANGED <<prog, ch, wt, hist>>

\* The call returns case i with res; W is what the step did to the waiters.
\* A peer that has yet to wake this thread is left with a pointer to a stack
\* frame that is gone.
Return(t, i, res, W) ==
    LET dir == IF i = 0 THEN "none" ELSE This(t).cases[i][1]
        sent == dir = "send" /\ res = "OK"
        rest == After(This(t), i, res) \o Tail(th[t].todo)
    IN  /\ th' = [x \in Threads |->
                    IF x = t THEN [th[t] EXCEPT !.pc = "idle", !.todo = rest, !.i = 1, !.start = 1,
                                                !.w = NoMsg, !.gone = FALSE, !.next = "idle"]
                    ELSE [th[x] EXCEPT !.gone = @ \/ (th[x].pc = "wake" /\ th[x].w[1] = t)]]
        /\ wt' = [W EXCEPT ![t] = NoWaiter]
        /\ accepted' = IF sent THEN accepted \cup {Msg(t)} ELSE accepted
        /\ refused' = IF Carries(t) /\ ~sent THEN refused \cup {Msg(t)} ELSE refused
        /\ rcvd' = IF dir = "recv" /\ res = "OK" THEN [rcvd EXCEPT ![t] = Append(@, W[t].data[i])] ELSE rcvd

------------------------------------------------------------------------------
(* chan_select_fast.                                                       *)

\* Closed RECV cases first, in the order given.
SelectClosed(t) ==
    LET c == ch[Chan(t)] IN
    /\ At(t, "scan")
    /\ \/ /\ Case(t)[1] = "recv" /\ c.closed /\ c.sc = 0 /\ c.rc = 0 /\ c.buf = << >>
          /\ Return(t, th[t].i, "CLOSED", wt)
       \/ /\ ~(Case(t)[1] = "recv" /\ c.closed /\ c.sc = 0 /\ c.rc = 0 /\ c.buf = << >>)
          /\ th' = IF th[t].i < Len(This(t).cases) THEN [th EXCEPT ![t].i = @ + 1]
                   ELSE LET first == (th[t].rr % Len(This(t).cases)) + 1 IN
                        [th EXCEPT ![t].pc = "gate", ![t].i = first, ![t].start = first, ![t].rr = (@ + 1) % RRPeriod]
          /\ UNCHANGED <<wt, accepted, refused, rcvd>>
    /\ UNCHANGED <<ch, call, gaps>>

\* The next case in turn, or the slow path once all have had theirs.
Advance(t) ==
    LET n == Len(This(t).cases)
        nxt == (th[t].i % n) + 1
    IN  th' = IF nxt = th[t].start THEN [th EXCEPT ![t].pc = "lock", ![t].i = 1]
              ELSE [th EXCEPT ![t].pc = "gate", ![t].i = nxt]

SelectGate(t) ==
    LET c == ch[Chan(t)]
        skip == Cap[Chan(t)] = 0 \/ c.sc # 0 \/ c.rc # 0
        refuse == Case(t)[1] = "send" /\ c.closed
    IN  /\ At(t, "gate")
        /\ \/ skip /\ Advance(t) /\ UNCHANGED <<wt, accepted, refused, rcvd>>
           \/ ~skip /\ refuse /\ Return(t, th[t].i, "CLOSED", wt)
           \/ ~skip /\ ~refuse /\ Goto(t, "ring") /\ UNCHANGED <<wt, accepted, refused, rcvd>>
        /\ UNCHANGED <<ch, call, gaps>>

SelectRing(t) ==
    LET c == Chan(t) IN
    /\ At(t, "ring")
    /\ \/ /\ Case(t)[1] = "send" /\ ~Full(c)
          /\ ch' = [ch EXCEPT ![c].buf = Append(@, Msg(t))]
          /\ Return(t, th[t].i, "OK", wt)
       \/ /\ Case(t)[1] = "recv" /\ ~Empty(c)
          /\ ch' = [ch EXCEPT ![c].buf = Tail(@)]
          /\ Return(t, th[t].i, "OK", [wt EXCEPT ![t].data[th[t].i] = Head(ch[c].buf)])
       \/ /\ IF Case(t)[1] = "send" THEN Full(c) ELSE Empty(c)
          /\ Advance(t)
          /\ UNCHANGED <<ch, wt, accepted, refused, rcvd>>
    /\ UNCHANGED <<call, gaps>>

------------------------------------------------------------------------------
(* chan_select_impl, slow path.                                            *)

\* Mutant of LockOrder: the locks are taken in the order of the cases.
LockOrderAsGiven(t) ==
    LET cs == This(t).cases IN
    IF Cardinality({cs[i][2] : i \in DOMAIN cs}) = Len(cs) THEN [k \in DOMAIN cs |-> cs[k][2]] ELSE <<cs[1][2]>>

\* sort_order: the channels of the call by address, each one once.
LockOrder(t) ==
    LET S == {This(t).cases[i][2] : i \in DOMAIN This(t).cases} IN
    [k \in 1..Cardinality(S) |-> CHOOSE c \in S : Cardinality({d \in S : d < c}) = k - 1]

\* lock_all, once before the cases are tested and once after the park.
SelectLock(t) ==
    LET c == LockOrder(t)[th[t].i] IN
    /\ At(t, "lock") \/ At(t, "relock")
    /\ ch[c].lock = None
    /\ ch' = [ch EXCEPT ![c].lock = t]
    /\ th' = IF th[t].i < Len(LockOrder(t)) THEN [th EXCEPT ![t].i = @ + 1]
             ELSE [th EXCEPT ![t].i = 1, ![t].pc = IF At(t, "lock") THEN "ready" ELSE "cleanup"]
    /\ UNCHANGED <<wt, call, hist>>

\* Mutant of Ready: a SEND case does not look for room.
ReadyWhenFull(dir, c) ==
    IF dir = "send" THEN ~ch[c].closed /\ (ch[c].rq # << >> \/ Cap[c] > 0)
    ELSE ch[c].sq # << >> \/ ch[c].closed \/ (Cap[c] > 0 /\ ~Empty(c))
\* case_ready.  A queue counts as non-empty even if all in it are claimed.
Ready(dir, c) ==
    IF dir = "send" THEN ~ch[c].closed /\ (ch[c].rq # << >> \/ (Cap[c] > 0 /\ ~Full(c)))
    ELSE ch[c].sq # << >> \/ ch[c].closed \/ (Cap[c] > 0 /\ ~Empty(c))

ReadyCases(t) == {i \in DOMAIN This(t).cases : Ready(This(t).cases[i][1], This(t).cases[i][2])}

\* A random one of the ready cases is executed.
SelectPick(t) ==
    /\ At(t, "ready")
    /\ \E i \in ReadyCases(t) : th' = [th EXCEPT ![t].pc = "exec", ![t].i = i]
    /\ UNCHANGED <<ch, wt, call, hist>>

SelectWouldBlock(t) ==
    /\ At(t, "ready") /\ ReadyCases(t) = {} /\ This(t).mode = "try"
    /\ ch' = Unlock(ch, t)
    /\ Return(t, 0, "WOULDBLOCK", wt)
    /\ UNCHANGED <<call, gaps>>

\* The stubs of t in the cases of direction dir on channel c, in case order.
Stubs(t, dir, c) ==
    SelectSeq([i \in DOMAIN This(t).cases |-> <<t, i>>], LAMBDA w : This(t).cases[w[2]] = <<dir, c>>)

\* One stub per case is queued, uncounted; then unlock_all and park.
SelectPark(t) ==
    /\ At(t, "ready") /\ ReadyCases(t) = {} /\ This(t).mode # "try"
    /\ ch' = Unlock([c \in Chans |-> [ch[c] EXCEPT !.sq = @ \o Stubs(t, "send", c),
                                                   !.rq = @ \o Stubs(t, "recv", c)]], t)
    /\ wt' = [wt EXCEPT ![t] = [NoWaiter EXCEPT !.claim = "waiting"]]
    /\ Goto(t, "parked")
    /\ UNCHANGED <<call, hist>>

------------------------------------------------------------------------------
(* execute_case_locked.  The locks are held, but the state of the ring may *)
(* no longer be the one case_ready saw.                                    *)

\* A waiting receiver takes the message of t, or a waiting sender gives its
\* own; with nobody left to claim, the case reports CLOSED or WOULDBLOCK.
ExecMeet(t) ==
    LET c == Chan(t)
        i == th[t].i
    IN  /\ At(t, "exec")
        /\ \/ /\ Case(t)[1] = "send" /\ Empty(c) /\ Found(ch[c].rq)
              /\ ch' = Unlock([ch EXCEPT ![c].rq = Behind(@)], t)
              /\ Return(t, i, "OK", Serve(wt, First(ch[c].rq), "OK", Msg(t)))
           \/ /\ Case(t)[1] = "send" /\ Cap[c] = 0 /\ ~Found(ch[c].rq)
              /\ ch' = Unlock([ch EXCEPT ![c].rq = << >>], t)
              /\ Return(t, i, "WOULDBLOCK", wt)
           \/ /\ Case(t)[1] = "recv" /\ Empty(c) /\ Found(ch[c].sq)
              /\ ch' = Unlock([ch EXCEPT ![c].sq = Behind(@)], t)
              /\ LET s == First(ch[c].sq) IN
                 Return(t, i, "OK", [Serve(wt, s, "OK", NoMsg) EXCEPT ![t].data[i] = Msg(s[1])])
           \/ /\ Case(t)[1] = "recv" /\ Empty(c) /\ ~Found(ch[c].sq)
              /\ ch' = Unlock([ch EXCEPT ![c].sq = << >>], t)
              /\ Return(t, i, IF ch[c].closed THEN "CLOSED" ELSE "WOULDBLOCK", wt)
        /\ UNCHANGED <<call, gaps>>

\* A buffered channel otherwise: on to the ring.
ExecBuffered(t) ==
    LET c == Chan(t) IN
    /\ At(t, "exec") /\ Cap[c] > 0
    /\ \/ /\ Case(t)[1] = "send" /\ (~Empty(c) \/ ~Found(ch[c].rq))
          /\ ch' = IF Empty(c) THEN [ch EXCEPT ![c].rq = << >>] ELSE ch
          /\ Goto(t, "execPush")
       \/ /\ Case(t)[1] = "recv" /\ ~Empty(c)
          /\ Goto(t, "execPop")
          /\ UNCHANGED ch
    /\ UNCHANGED <<wt, call, hist>>

\* The result of ring_push is ignored, and a receiver is woken with OK whose
\* buffer nobody wrote.
ExecPush(t) ==
    LET c == Chan(t)
        pushed == IF Full(c) THEN ch[c].buf ELSE Append(ch[c].buf, Msg(t))
        woken == IF Found(ch[c].rq) THEN Serve(wt, First(ch[c].rq), "OK", NoMsg) ELSE wt
    IN  /\ At(t, "execPush")
        /\ ch' = Unlock([ch EXCEPT ![c].buf = pushed, ![c].rq = Behind(@)], t)
        /\ Return(t, th[t].i, "OK", woken)
        /\ dropped' = IF Full(c) THEN dropped \cup {Msg(t)} ELSE dropped
        /\ UNCHANGED <<call, concealed>>

\* The result of ring_pop is ignored too.
ExecPop(t) ==
    LET c == Chan(t) IN
    /\ At(t, "execPop")
    /\ ch' = IF Empty(c) THEN ch ELSE [ch EXCEPT ![c].buf = Tail(@)]
    /\ wt' = IF Empty(c) THEN wt ELSE [wt EXCEPT ![t].data[th[t].i] = Head(ch[c].buf)]
    /\ Goto(t, "execHelp")
    /\ UNCHANGED <<call, hist>>

\* A parked sender is told its message is in the ring, whether it fits or not.
ExecHelp(t) ==
    LET c == Chan(t)
        s == First(ch[c].sq)
        pushed == IF Found(ch[c].sq) /\ ~Full(c) THEN Append(ch[c].buf, Msg(s[1])) ELSE ch[c].buf
    IN  /\ At(t, "execHelp")
        /\ ch' = Unlock([ch EXCEPT ![c].buf = pushed, ![c].sq = Behind(@)], t)
        /\ Return(t, th[t].i, "OK", IF Found(ch[c].sq) THEN Serve(wt, s, "OK", NoMsg) ELSE wt)
        /\ dropped' = IF Found(ch[c].sq) /\ Full(c) THEN dropped \cup {Msg(s[1])} ELSE dropped
        /\ UNCHANGED <<call, concealed>>

------------------------------------------------------------------------------
(* After the park.                                                         *)

Wakeup(t, woken) == th' = [th EXCEPT ![t].pc = "relock", ![t].i = 1, ![t].next = IF woken THEN "woken" ELSE "timeout"]

SelectWoken(t) ==
    /\ At(t, "parked") /\ This(t).op = "select" /\ wt[t].word = 1
    /\ Wakeup(t, TRUE)
    /\ UNCHANGED <<ch, wt, call, hist>>

SelectTimeout(t) ==
    /\ At(t, "parked") /\ This(t).op = "select" /\ This(t).mode = "timed" /\ wt[t].word = 0
    /\ Wakeup(t, FALSE)
    /\ UNCHANGED <<ch, wt, call, hist>>

Served(t) == {i \in DOMAIN This(t).cases : wt[t].res[i] # "WOULDBLOCK"}

\* The stubs that were not served leave their queues.  A select whose park
\* timed out reports TIMEOUT even if one was.
SelectCleanup(t) ==
    /\ At(t, "cleanup")
    /\ ch' = Unlock([c \in Chans |-> [ch[c] EXCEPT !.sq = Without(@, t), !.rq = Without(@, t)]], t)
    /\ \/ /\ th[t].next = "woken" /\ Served(t) # {}
          /\ LET i == CHOOSE k \in Served(t) : \A j \in Served(t) : j <= k IN Return(t, i, wt[t].res[i], wt)
          /\ UNCHANGED concealed
       \/ /\ th[t].next = "timeout" \/ Served(t) = {}
          /\ concealed' = concealed \cup {IF This(t).cases[i][1] = "send" THEN Msg(t) ELSE wt[t].data[i] :
                                             i \in {k \in Served(t) : wt[t].res[k] = "OK"}}
          /\ Return(t, 0, "TIMEOUT", wt)
    /\ UNCHANGED <<call, dropped>>

SelectStep(t) ==
    \/ SelectClosed(t) \/ SelectGate(t) \/ SelectRing(t) \/ SelectLock(t)
    \/ SelectPick(t) \/ SelectWouldBlock(t) \/ SelectPark(t)
    \/ ExecMeet(t) \/ ExecBuffered(t) \/ ExecPush(t) \/ ExecPop(t) \/ ExecHelp(t)
    \/ SelectWoken(t) \/ SelectTimeout(t) \/ SelectCleanup(t)

------------------------------------------------------------------------------
(* The direct parties: chan_send, chan_recv on an unbuffered channel, and  *)
(* chan_close.                                                             *)

SendGate(t) ==
    LET c == ch[Chan(t)] IN
    /\ At(t, "sGate")
    /\ Goto(t, IF c.closed \/ c.sc # 0 \/ c.rc # 0 THEN "sLock" ELSE "sPush")
    /\ UNCHANGED <<ch, wt, call, hist>>

\* The count looked at after the push is that of direct receivers, which this
\* channel does not have: a parked select is not noticed.
SendPush(t) ==
    LET c == Chan(t) IN
    /\ At(t, "sPush")
    /\ \/ Full(c) /\ Goto(t, "sLock") /\ UNCHANGED <<ch, wt, accepted, refused, rcvd>>
       \/ /\ ~Full(c)
          /\ ch' = [ch EXCEPT ![c].buf = Append(@, Msg(t))]
          /\ Return(t, 1, "OK", wt)
    /\ UNCHANGED <<call, gaps>>

\* chan_deliver_ring_to_receivers_locked: claim a receiver while the ring has
\* something, then pop for it.
Deliver(t, next) == th' = [th EXCEPT ![t].pc = "deliver", ![t].next = next]

DeliverClaim(t) ==
    LET c == Chan(t) IN
    /\ At(t, "deliver")
    /\ \/ /\ Empty(c)
          /\ Goto(t, th[t].next)
          /\ UNCHANGED <<ch, wt>>
       \/ /\ ~Empty(c)
          /\ ch' = [ch EXCEPT ![c].rq = Behind(@)]
          /\ IF Found(ch[c].rq)
             THEN /\ wt' = Claim(wt, First(ch[c].rq))
                  /\ th' = [th EXCEPT ![t].pc = "dPop", ![t].w = First(ch[c].rq)]
             ELSE Goto(t, th[t].next) /\ UNCHANGED wt
    /\ UNCHANGED <<call, hist>>

\* Lost the item to a racing pop: the waiter goes back, claimed as it is.
DeliverPop(t) ==
    LET c == Chan(t) IN
    /\ At(t, "dPop")
    /\ \/ /\ ~Empty(c)
          /\ ch' = [ch EXCEPT ![c].buf = Tail(@)]
          /\ wt' = Serve(wt, th[t].w, "OK", Head(ch[c].buf))
          /\ Goto(t, "deliver")
       \/ /\ Empty(c)
          /\ ch' = [ch EXCEPT ![c].rq = <<th[t].w>> \o @]
          /\ Goto(t, th[t].next)
          /\ UNCHANGED wt
    /\ UNCHANGED <<call, hist>>

UnlockOK(t) ==
    /\ At(t, "done")
    /\ ch' = Unlock(ch, t)
    /\ Return(t, 1, "OK", wt)
    /\ UNCHANGED <<call, gaps>>

\* What both slow paths do when they find a partner: serve it, unlock, and
\* wake it afterwards.
Meet(t, w, m, C) ==
    /\ ch' = C
    /\ wt' = Tell(wt, w, "OK", m)
    /\ th' = [th EXCEPT ![t].pc = "wake", ![t].w = w]
    /\ UNCHANGED <<accepted, refused, rcvd>>

Wake(t) ==
    /\ At(t, "wake")
    /\ LET hit == [wt EXCEPT ![th[t].w[1]].word = 1] IN
       \/ Return(t, 1, "OK", hit)
       \/ th[t].gone /\ Return(t, 1, "OK", wt)
    /\ UNCHANGED <<ch, call, gaps>>

Park(t, C) ==
    /\ ch' = C
    /\ wt' = [wt EXCEPT ![t] = DirectWaiter]
    /\ Goto(t, "parked")
    /\ UNCHANGED <<accepted, refused, rcvd>>

SendLock(t) ==
    LET c == Chan(t) IN
    /\ At(t, "sLock") /\ ch[c].lock = None
    /\ \/ ch[c].closed /\ Return(t, 1, "CLOSED", wt) /\ UNCHANGED ch
       \/ /\ ~ch[c].closed /\ Cap[c] = 0 /\ Found(ch[c].rq)
          /\ Meet(t, First(ch[c].rq), Msg(t), [ch EXCEPT ![c].rq = Behind(@)])
       \/ /\ ~ch[c].closed /\ Cap[c] = 0 /\ ~Found(ch[c].rq)
          /\ Park(t, [ch EXCEPT ![c].rq = << >>, ![c].sq = Append(@, <<t, 1>>), ![c].sc = @ + 1])
       \/ /\ ~ch[c].closed /\ Cap[c] > 0
          /\ ch' = [ch EXCEPT ![c].lock = t, ![c].buf = IF Full(c) THEN @ ELSE Append(@, Msg(t))]
          /\ Deliver(t, IF Full(c) THEN "sPark" ELSE "done")
          /\ UNCHANGED <<wt, accepted, refused, rcvd>>
    /\ UNCHANGED <<call, gaps>>

\* Register, and look at the ring again.
SendPark(t) ==
    LET c == Chan(t) IN
    /\ At(t, "sPark")
    /\ ch' = [ch EXCEPT ![c].sq = Append(@, <<t, 1>>), ![c].sc = @ + 1]
    /\ wt' = [wt EXCEPT ![t] = DirectWaiter]
    /\ Goto(t, "sAgain")
    /\ UNCHANGED <<call, hist>>

SendAgain(t) ==
    LET c == Chan(t) IN
    /\ At(t, "sAgain")
    /\ \/ /\ ~Full(c)
          /\ ch' = [ch EXCEPT ![c].buf = Append(@, Msg(t)), ![c].sq = Without(@, t), ![c].sc = @ - 1]
          /\ Deliver(t, "done")
       \/ /\ Full(c)
          /\ ch' = Unlock(ch, t)
          /\ Goto(t, "parked")
    /\ UNCHANGED <<wt, call, hist>>

RecvLock(t) ==
    LET c == Chan(t) IN
    /\ At(t, "rLock") /\ ch[c].lock = None /\ Cap[c] = 0
    /\ \/ /\ Found(ch[c].sq)
          /\ ch' = [ch EXCEPT ![c].sq = Behind(@)]
          /\ LET s == First(ch[c].sq) IN
             /\ wt' = [Tell(wt, s, "OK", NoMsg) EXCEPT ![t].data[1] = Msg(s[1])]
             /\ th' = [th EXCEPT ![t].pc = "wake", ![t].w = s]
          /\ UNCHANGED <<accepted, refused, rcvd>>
       \/ /\ ~Found(ch[c].sq) /\ ch[c].closed
          /\ ch' = [ch EXCEPT ![c].sq = << >>]
          /\ Return(t, 1, "CLOSED", wt)
       \/ /\ ~Found(ch[c].sq) /\ ~ch[c].closed
          /\ Park(t, [ch EXCEPT ![c].sq = << >>, ![c].rq = Append(@, <<t, 1>>), ![c].rc = @ + 1])
    /\ UNCHANGED <<call, gaps>>

\* A direct call comes back from its park and is no longer counted.
Woken(t) ==
    LET c == Chan(t) IN
    /\ At(t, "parked") /\ This(t).op # "select" /\ wt[t].word = 1
    /\ ch' = IF This(t).op = "send" THEN [ch EXCEPT ![c].sc = @ - 1] ELSE [ch EXCEPT ![c].rc = @ - 1]
    /\ Return(t, 1, wt[t].res[1], wt)
    /\ UNCHANGED <<call, gaps>>

\* Mutant of Claims: only waiters of direct calls are told.
ClaimsDirect(q, taken) == SelectSeq(q, LAMBDA w : wt[w[1]].claim = "none")
\* The waiters of q that the close claims: the first stub of each select not
\* claimed already (taken: threads claimed on the other queue).
Claims(q, taken) ==
    SelectSeq(q, LAMBDA w : /\ Claimable(w) /\ w[1] \notin taken
                            /\ \A k \in DOMAIN q : q[k][1] = w[1] => q[k][2] >= w[2])

\* Mutant of Gives: waiting receivers are not given what is in the ring.
GivesNothing(rs, c) == 0
\* How many of the receivers rs are given an element of the ring.
Gives(rs, c) == IF Len(rs) < Len(ch[c].buf) THEN Len(rs) ELSE Len(ch[c].buf)

\* chan_close: waiting senders are refused, waiting receivers are given what
\* the ring holds and then refused.
Close(t) ==
    LET c == Chan(t)
        ss == Claims(ch[c].sq, {})
        rs == Claims(ch[c].rq, {ss[k][1] : k \in DOMAIN ss})
        gives == Gives(rs, c)
        in(q, w) == \E k \in DOMAIN q : q[k] = w
        at(w) == CHOOSE k \in DOMAIN rs : rs[k] = w
        told(w) == IF in(rs, w) /\ at(w) <= gives THEN Serve(wt, w, "OK", ch[c].buf[at(w)])
                   ELSE Serve(wt, w, "CLOSED", NoMsg)
    IN  /\ At(t, "cLock") /\ ch[c].lock = None
        /\ \/ ch[c].closed /\ Return(t, 1, "CLOSED", wt) /\ UNCHANGED ch
           \/ /\ ~ch[c].closed
              /\ ch' = [ch EXCEPT ![c].closed = TRUE, ![c].sq = << >>, ![c].rq = << >>,
                                  ![c].buf = SubSeq(@, gives + 1, Len(@))]
              /\ Return(t, 1, "OK",
                   [x \in Threads |->
                      IF \E i \in Cases : in(ss \o rs, <<x, i>>)
                      THEN LET i == CHOOSE j \in Cases : in(ss \o rs, <<x, j>>) IN told(<<x, i>>)[x]
                      ELSE wt[x]])
        /\ UNCHANGED <<call, gaps>>

DirectStep(t) ==
    \/ SendGate(t) \/ SendPush(t) \/ DeliverClaim(t) \/ DeliverPop(t)
    \/ UnlockOK(t) \/ SendLock(t) \/ SendPark(t) \/ SendAgain(t) \/ RecvLock(t)
    \/ Wake(t) \/ Woken(t) \/ Close(t)

Next == \E t \in Threads : Begin(t) \/ SelectStep(t) \/ DirectStep(t)

Spec == Init /\ [][Next]_vars

\* Threads keep running, and a thread that waits for a mutex gets it if it is
\* free again and again.
FairSpec ==
    Spec /\ \A t \in Threads : SF_vars(Begin(t) \/ SelectStep(t) \/ DirectStep(t))

------------------------------------------------------------------------------
(* The programs.                                                           *)

Sends(c, n) == [k \in 1..n |-> Call("send", <<<<"send", c>>>>, "block", "once")]
CloseOf(c) == Call("close", <<<<"close", c>>>>, "block", "once")

\* examples/multi_recv_select.c: senders that close their channels, and one
\* thread that selects over those still open.
MultiRecvSelect(a, b, n) ==
    << Append(Sends(a, n), CloseOf(a)),
       Append(Sends(b, 1), CloseOf(b)),
       << Call("select", <<<<"recv", a>>, <<"recv", b>>>>, "block", "drain") >> >>

\* examples/select_cancel.c: worker, controller and the watching main.
SelectCancel(results, cancel) ==
    << << Call("send", <<<<"send", results>>>>, "block", "whileOK") >>,
       << CloseOf(cancel) >>,
       << Call("select", <<<<"recv", results>>, <<"recv", cancel>>>>, "timed", "until2"),
          CloseOf(results) >> >>

------------------------------------------------------------------------------
(* Properties.                                                             *)

Messages == Threads \X (1..MaxSends)

\* Where copies of message m are: in a ring, in a buffer of a call that has
\* not returned, or with a caller.
Copies(m) ==
    Cardinality({x \in Chans \X (1..2) : x[2] \in DOMAIN ch[x[1]].buf /\ ch[x[1]].buf[x[2]] = m})
    + Cardinality({x \in Threads \X Cases : wt[x[1]].data[x[2]] = m})
    + Cardinality({x \in Threads \X (1..(2 * MaxSends)) : x[2] \in DOMAIN rcvd[x[1]] /\ rcvd[x[1]][x[2]] = m})

\* The threads of the running program with a case of direction dir on c.
Users(dir, c) ==
    {t \in Threads : \E k \in DOMAIN prog[t] : \E i \in DOMAIN prog[t][k].cases : prog[t][k].cases[i] = <<dir, c>>}
Selecting(c) ==
    {t \in Users("send", c) : \E k \in DOMAIN prog[t] : prog[t][k].op = "select"}
Parking(c) ==
    {t \in Users("recv", c) : \E k \in DOMAIN prog[t] : prog[t][k].mode # "try"}

\* Every buffered channel has one sender and one receiver, and no sending select
\* together with a receiver that parks.  execute_case_locked does not look at
\* the results of its ring operations.  With two senders the slot its ring_push
\* (select.c:85, 107) counts on may be gone, with two receivers the message its
\* ring_pop (104) counts on; and a send case finds a full ring ready (52) when a
\* receiver is parked, or wakes that receiver without a message (87).
RingResultsSafe ==
    \A c \in Chans : Cap[c] > 0 =>
        /\ Cardinality(Users("send", c)) <= 1 /\ Cardinality(Users("recv", c)) <= 1
        /\ Selecting(c) = {} \/ Parking(c) = {}

\* No message exists twice, and one reported not sent nowhere; one reported sent
\* exists unless a ring_push whose result execute_case_locked ignores failed on
\* it (dropped).  Where RingResultsSafe holds none is dropped and a receive that
\* reports OK has a message: what a second sender or receiver would take is
\* never missing.  Messages whose select was served while it was timing out
\* (concealed) are left out: the code reports TIMEOUT for them.
ExactlyOnce ==
    /\ \A m \in Messages : /\ Copies(m) <= 1
                           /\ m \in accepted \ concealed => Copies(m) = IF m \in dropped THEN 0 ELSE 1
                           /\ m \in refused \ concealed => Copies(m) = 0
    /\ RingResultsSafe => /\ dropped = {}
                          /\ \A t \in Threads : \A k \in DOMAIN rcvd[t] : rcvd[t][k] # NoMsg

\* Of all the cases a select registered at most one is carried out, although
\* several channels may become ready at once, each under its own lock.
OneCaseServed ==
    \A t \in Threads : th[t].pc \in {"parked", "relock", "cleanup"} /\ This(t).op = "select" =>
        Cardinality(Served(t)) <= 1

\* The queues hold no waiter of a call that is over: its stubs lived on a
\* stack frame that is gone.
NoDanglingStub ==
    \A c \in Chans : \A k \in DOMAIN (ch[c].sq \o ch[c].rq) :
        ~At((ch[c].sq \o ch[c].rq)[k][1], "idle")

\* The channel whose lock a thread is waiting for, if any.
Wants(t) == IF At(t, "lock") \/ At(t, "relock") THEN {LockOrder(t)[th[t].i]}
            ELSE IF th[t].pc \in {"sLock", "rLock", "cLock"} THEN {Chan(t)} ELSE {}

\* No set of threads is locked up: all of them waiting for locks that threads
\* of the set hold, in whatever order their selects list the channels, and no
\* thread waits for a lock it holds itself.
NoLockCycle ==
    ~\E S \in (SUBSET Threads) \ {{}} :
        \A t \in S : \E c \in Wants(t) : ch[c].lock \in S

\* Messages of one sender reach a thread in the order they were sent.
SenderOrder ==
    \A t \in Threads : \A i, j \in DOMAIN rcvd[t] :
        i < j /\ rcvd[t][i][1] = rcvd[t][j][1] => rcvd[t][i][2] < rcvd[t][j][2]

Finished(t) == At(t, "idle") /\ (th[t].todo = << >> \/ (Carries(t) /\ num[t] = MaxSends))

\* multi_recv_select.c: when its loop ends, main has received everything the
\* senders sent.
DrainGetsAll ==
    \A t \in Threads : prog[t] # << >> /\ prog[t][1].loop = "drain" /\ Finished(t) =>
        \A m \in accepted : \E k \in DOMAIN rcvd[t] : rcvd[t][k] = m

\* The example programs, whose senders close their channels, come to their end:
\* the close reaches a parked select although its stubs are not counted.  (Where
\* two selects receive from one buffered channel it may not: a stub claimed by a
\* delivery whose pop then fails goes back to the queue claimed, and is skipped.)
ClosedProgramsEnd ==
    (\E t \in Threads : prog[t] # << >> /\ prog[t][1].loop \in {"drain", "until2"})
        => <>(\A t \in Threads : Finished(t))

------------------------------------------------------------------------------
(* The inductive invariant behind NoLockCycle (module Select_proofs).      *)

\* Positions of a thread that holds no lock.
Lockless == {"idle", "scan", "gate", "ring", "sGate", "sPush", "sLock", "rLock", "cLock", "wake", "parked"}

\* The fields of a channel and of a thread's locals that the locking uses.
ChanShape(c) == "lock" \in DOMAIN c
ThreadShape(f) == {"pc", "todo", "i", "next"} \subseteq DOMAIN f

\* A thread holds locks only where the code is between a lock and its unlock;
\* one that collects the locks of a select holds only locks it has passed.
LocksOf(t) ==
    LET held == {c \in Chans : ch[c].lock = t} IN
    /\ th[t].todo \in Seq(Calls)
    /\ ~At(t, "idle") => th[t].todo # << >>
    /\ th[t].pc \in Lockless => held = {}
    /\ th[t].pc \in {"sGate", "sPush", "sLock", "rLock", "cLock"} => th[t].i = 1
    /\ th[t].pc \in {"deliver", "dPop"} => th[t].next \in {"sPark", "done"}
    /\ th[t].pc \in {"lock", "relock"} =>
          /\ th[t].i \in 1..Len(LockOrder(t))
          /\ held \subseteq {LockOrder(t)[k] : k \in 1..(th[t].i - 1)}

LockInv ==
    /\ DOMAIN ch = Chans /\ \A c \in Chans : ChanShape(ch[c])
    /\ DOMAIN th = Threads /\ \A t \in Threads : ThreadShape(th[t])
    /\ \A t \in Threads : LocksOf(t)
==============================================================================
