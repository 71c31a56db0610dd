------------------------------- MODULE GoChan --------------------------------
(***************************************************************************)
(* What a channel promises its users, as the example programs use it: each *)
(* call takes effect at one moment, in which it completes or joins a wait  *)
(* queue; a thread that was parked touches the channel once more after it  *)
(* has been served, to take itself off the waiter count.  References count *)
(* as in chan_core.c: the last chan_destroy frees the channel.  Nothing    *)
(* keeps a thread from calling on a freed channel: the call runs on what   *)
(* the memory holds, and the channel remembers it (late).                  *)
(*                                                                         *)
(* Ideal in one respect: a receiver never sleeps beside a filled buffer,   *)
(* which module ChanBuf shows to happen for a while with two receivers.    *)
(***************************************************************************)
EXTENDS Integers, Sequences, FiniteSets

VARIABLES
    ch,                  \* the channels
    th                   \* the threads

\* chan_create_impl
NewChan(cap) == [cap |-> cap, buf |-> << >>, closed |-> FALSE, refs |-> 1, live |-> TRUE, late |-> FALSE,
                 sq |-> << >>, rq |-> << >>]

\* st: run, parked in ch, or served and about to leave ch; pc: where the thread
\* goes on after its call; res and v: what the call returned; d: what it sends;
\* k: the calls made in the loop the thread is in; x: another local of its own.
NewThread(l, x) == [pc |-> l, st |-> "run", ch |-> "", res |-> "OK", v |-> 0, d |-> 0, k |-> 0, x |-> x]

At(t, l) == th[t].st = "run" /\ th[t].pc = l
Ok(t) == th[t].res = "OK"

Returned(t, l, r) == [th[t] EXCEPT !.pc = l, !.res = r, !.k = IF r = "OK" THEN @ + 1 ELSE @]
Parked(t, c, l)   == [th[t] EXCEPT !.pc = l, !.st = "parked", !.ch = c, !.k = @ + 1]
ServedWith(w, r)  == [th[w] EXCEPT !.st = "leave", !.res = r]

\* The channels as a call on c finds them.
Entered(c) == [ch EXCEPT ![c].late = @ \/ ~ch[c].live]

Room(x) == Len(x.buf) < x.cap

\* Mutant of Left: a closed channel has nothing left.
LeftUnlessClosed(x) == ~x.closed /\ (x.buf # << >> \/ x.sq # << >>)
\* What a receiver can still get: buffered elements and waiting senders.
Left(x) == x.buf # << >> \/ x.sq # << >>

\* chan_send and chan_try_send of d: CLOSED; to a waiting receiver; into the
\* buffer; or wait.  t goes on at l.
SendCall(t, c, d, l, block) ==
    LET x == ch[c] IN
    \/ /\ x.closed
       /\ th' = [th EXCEPT ![t] = Returned(t, l, "CLOSED")]
       /\ ch' = Entered(c)
    \/ /\ ~x.closed /\ x.rq # << >>
       /\ th' = [th EXCEPT ![t] = Returned(t, l, "OK"),
                           ![Head(x.rq)] = [ServedWith(Head(x.rq), "OK") EXCEPT !.v = d]]
       /\ ch' = [Entered(c) EXCEPT ![c].rq = Tail(@)]
    \/ /\ ~x.closed /\ x.rq = << >> /\ Room(x)
       /\ th' = [th EXCEPT ![t] = Returned(t, l, "OK")]
       /\ ch' = [Entered(c) EXCEPT ![c].buf = Append(@, d)]
    \/ /\ ~x.closed /\ x.rq = << >> /\ ~Room(x)
       /\ IF block
          THEN /\ th' = [th EXCEPT ![t] = [Parked(t, c, l) EXCEPT !.d = d]]
               /\ ch' = [Entered(c) EXCEPT ![c].sq = Append(@, t)]
          ELSE /\ th' = [th EXCEPT ![t] = Returned(t, l, "WOULDBLOCK")]
               /\ ch' = Entered(c)

Send(t, c, d, l) == SendCall(t, c, d, l, TRUE)
TrySend(t, c, d, l) == SendCall(t, c, d, l, FALSE)

\* chan_recv and chan_try_recv: from the buffer, letting a waiting sender in;
\* from a waiting sender; CLOSED only when nothing is left; or wait.
RecvCall(t, c, l, block) ==
    LET x == ch[c]
        s == Head(x.sq)
    IN  \/ /\ Left(x) /\ x.sq = << >>
           /\ th' = [th EXCEPT ![t] = [Returned(t, l, "OK") EXCEPT !.v = Head(x.buf)]]
           /\ ch' = [Entered(c) EXCEPT ![c].buf = Tail(@)]
        \/ /\ Left(x) /\ x.sq # << >>
           /\ LET all == Append(x.buf, th[s].d) IN
              /\ th' = [th EXCEPT ![t] = [Returned(t, l, "OK") EXCEPT !.v = Head(all)],
                                  ![s] = ServedWith(s, "OK")]
              /\ ch' = [Entered(c) EXCEPT ![c].buf = Tail(all), ![c].sq = Tail(@)]
        \/ /\ ~Left(x) /\ x.closed
           /\ th' = [th EXCEPT ![t] = Returned(t, l, "CLOSED")]
           /\ ch' = Entered(c)
        \/ /\ ~Left(x) /\ ~x.closed
           /\ IF block
              THEN /\ th' = [th EXCEPT ![t] = Parked(t, c, l)]
                   /\ ch' = [Entered(c) EXCEPT ![c].rq = Append(@, t)]
              ELSE /\ th' = [th EXCEPT ![t] = Returned(t, l, "WOULDBLOCK")]
                   /\ ch' = Entered(c)

Recv(t, c, l) == RecvCall(t, c, l, TRUE)
TryRecv(t, c, l) == RecvCall(t, c, l, FALSE)

\* chan_try_send_burst, chan_try_recv_burst on a channel nobody waits on: as
\* many as fit, as many as there are.  v is the number moved; x, of a receiver, is
\* the array it receives into.
LesserOf(a, b) == IF a < b THEN a ELSE b

SendBurst(t, c, ds, l) ==
    LET n == IF ch[c].closed THEN 0 ELSE LesserOf(Len(ds), ch[c].cap - Len(ch[c].buf)) IN
    /\ ch' = [Entered(c) EXCEPT ![c].buf = @ \o SubSeq(ds, 1, n)]
    /\ th' = [th EXCEPT ![t] = [th[t] EXCEPT !.pc = l, !.v = n, !.k = @ + n]]

RecvBurst(t, c, want, l) ==
    LET n == LesserOf(want, Len(ch[c].buf)) IN
    /\ ch' = [Entered(c) EXCEPT ![c].buf = SubSeq(@, n + 1, Len(@))]
    /\ th' = [th EXCEPT ![t] = [th[t] EXCEPT !.pc = l, !.v = n, !.x = SubSeq(ch[c].buf, 1, n), !.k = @ + n]]

\* Everybody waiting on c is told CLOSED.
WithClosed(c, now) ==
    [w \in DOMAIN now |-> IF now[w].st = "parked" /\ now[w].ch = c
                          THEN [now[w] EXCEPT !.st = "leave", !.res = "CLOSED"] ELSE now[w]]

\* The first receivers waiting on c are given what its buffer holds.
WithBuffered(c, now) ==
    LET x == ch[c]
        given == 1..LesserOf(Len(x.rq), Len(x.buf))
    IN  [w \in DOMAIN now |->
            IF \E i \in given : x.rq[i] = w
            THEN [now[w] EXCEPT !.st = "leave", !.res = "OK", !.v = x.buf[CHOOSE i \in given : x.rq[i] = w]]
            ELSE now[w]]

\* Mutant of Close: the waiters stay.
CloseWakesNobody(t, c, l) ==
    /\ ch' = [Entered(c) EXCEPT ![c].closed = TRUE]
    /\ th' = [th EXCEPT ![t].pc = l, ![t].k = 0]
\* chan_close: waiting receivers get what is buffered, the others CLOSED.  A
\* channel closed before has nobody waiting.
Close(t, c, l) ==
    /\ ch' = [Entered(c) EXCEPT ![c].closed = TRUE, ![c].sq = << >>, ![c].rq = << >>,
                                ![c].buf = SubSeq(@, Len(ch[c].rq) + 1, Len(@))]
    /\ th' = WithClosed(c, WithBuffered(c, [th EXCEPT ![t].pc = l, ![t].k = 0]))

\* chan_destroy: the last reference closes the queues and frees.
Destroy(t, c, l) ==
    \/ /\ ch[c].refs # 1
       /\ ch' = [Entered(c) EXCEPT ![c].refs = @ - 1]
       /\ th' = [th EXCEPT ![t].pc = l, ![t].k = 0]
    \/ /\ ch[c].refs = 1
       /\ ch' = [Entered(c) EXCEPT ![c].refs = 0, ![c].live = FALSE, ![c].sq = << >>, ![c].rq = << >>]
       /\ th' = WithClosed(c, [th EXCEPT ![t].pc = l, ![t].k = 0])

\* A served thread wakes and takes itself off the count of the channel, freed
\* or not.
Leave(t) ==
    /\ th[t].st = "leave"
    /\ th' = [th EXCEPT ![t].st = "run", ![t].ch = ""]
    /\ UNCHANGED ch

\* A step of t alone.
Local(t, rec) == th' = [th EXCEPT ![t] = rec] /\ UNCHANGED ch
Goto(t, l) == Local(t, [th[t] EXCEPT !.pc = l, !.k = 0])
Exited(t) == At(t, "exit")
==============================================================================
