--------------------------- MODULE ChanUnbuf_proofs --------------------------
(***************************************************************************)
(* Proofs about the unbuffered channel, for any number of senders,         *)
(* receivers, closers and calls.                                           *)
(***************************************************************************)
EXTENDS ChanUnbuf, WaitQ_proofs

------------------------------------------------------------------------------
(* Positions.                                                              *)

\* A thread that moves to another place leaves the registration of the others.
LEMMA GotoFacts ==
    ASSUME TypeOK, NEW t \in Threads, NEW l, Goto(t, l)
    PROVE  /\ pc'[t] = l /\ \A u \in Threads : u # t => pc'[u] = pc[u]
           /\ \A S \in SUBSET Threads :
                 /\ t \notin S => Registered(S)' = Registered(S)
                 /\ l \notin {"parked", "timedOut", "removed"} => Registered(S)' = Registered(S) \ {t}
                 /\ t \in S /\ l \in {"parked", "timedOut", "removed"} =>
                       Registered(S)' = Registered(S) \cup {t}
<1>1. pc'[t] = l /\ \A u \in Threads : u # t => pc'[u] = pc[u]
  BY DEF Goto, TypeOK
<1> QED BY <1>1, Zenon DEF Registered

\* A return leaves every variable of its type.
LEMMA ReturnType ==
    ASSUME TypeOK, CallsBegun, NEW t \in Threads, pc[t] # "idle",
           NEW res \in Results, Return(t, res)
    PROVE  /\ pc' \in [Threads -> {"idle", "lock", "parked", "wake", "timedOut", "removed"}]
           /\ mode' \in [Threads -> {"block", "try", "timed"}]
           /\ peer' \in [Threads -> (Threads \X (1..MaxCalls)) \cup {NoMsg}]
           /\ out' \in [Receivers -> Messages \cup {NoMsg}]
           /\ calls' = calls
           /\ accepted' \subseteq Messages /\ refused' \subseteq Messages
           /\ rcvd' \in [Receivers -> Seq(Messages \cup {NoMsg})]
<1>1. t \in Senders => Msg(t) \in Messages
  BY ChanUnbufAssumption DEF TypeOK, CallsBegun, Msg, Messages, Threads
<1>2. rcvd' \in [Receivers -> Seq(Messages \cup {NoMsg})]
  <2>1. CASE t \in Receivers /\ res = "OK"
    <3>1. Append(rcvd[t], out[t]) \in Seq(Messages \cup {NoMsg})
      BY <2>1, AppendProperties DEF TypeOK
    <3> QED BY <2>1, <3>1 DEF Return, TypeOK
  <2>2. CASE ~(t \in Receivers /\ res = "OK")
    BY <2>2 DEF Return, TypeOK
  <2> QED BY <2>1, <2>2
<1> QED BY <1>1, <1>2 DEF Return, Goto, TypeOK

------------------------------------------------------------------------------
(* Each step keeps WaitInv.                                                *)

\* The initial state.
LEMMA WaitInit == Init => WaitInv
<1> SUFFICES ASSUME Init PROVE WaitInv
  OBVIOUS
<1>1. TypeOK
  <2>1. << >> \in Seq(Senders) /\ << >> \in Seq(Receivers)
        /\ << >> \in Seq(Messages \cup {NoMsg})
    OBVIOUS
  <2>2. /\ sendq \in Seq(Senders) /\ recvq \in Seq(Receivers)
        /\ sendCnt \in Nat /\ recvCnt \in Nat /\ closed \in BOOLEAN
        /\ accepted \subseteq Messages /\ refused \subseteq Messages
    BY <2>1 DEF Init
  <2>3. /\ calls \in [Threads -> 0..MaxCalls] /\ word \in [Threads -> {0, 1}]
        /\ result \in [Threads -> Results]
    BY ChanUnbufAssumption DEF Init, Results
  <2> QED BY <2>1, <2>2, <2>3 DEF Init, TypeOK
<1>2. CountsRegistered(sendCnt, Senders) /\ CountsRegistered(recvCnt, Receivers)
  <2>1. Registered(Senders) = {} /\ Registered(Receivers) = {}
    BY DEF Init, Registered, Threads
  <2> QED BY <2>1, FS_EmptySet DEF Init, CountsRegistered
<1>3. \A t \in Threads : pc[t] = "idle" /\ ~Queued(t)
  BY EmptyFacts DEF Init, Queued
<1>4. Covered /\ CallsBegun /\ ClosersNeverWait
  BY <1>3 DEF Covered, Parked, CallsBegun, ClosersNeverWait, Threads
<1>5. OneSideWaits /\ ClosedIsEmpty
  BY DEF Init, OneSideWaits, ClosedIsEmpty
<1> QED BY <1>1, <1>2, <1>4, <1>5 DEF WaitInv, Counted

\* A thread that is not registered moves: the counts are still right.
LEMMA CountsStay ==
    ASSUME TypeOK, Counted, NEW t \in Threads, NEW l,
           pc[t] \notin {"parked", "timedOut", "removed"},
           l \notin {"parked", "timedOut", "removed"},
           Goto(t, l), UNCHANGED <<sendCnt, recvCnt>>
    PROVE  Counted'
<1>1. Senders \in SUBSET Threads /\ Receivers \in SUBSET Threads
  BY DEF Threads
<1>2. Registered(Senders)' = Registered(Senders) \ {t}
      /\ Registered(Receivers)' = Registered(Receivers) \ {t}
  BY <1>1, GotoFacts
<1>3. t \notin Registered(Senders) /\ t \notin Registered(Receivers)
  BY DEF Registered
<1>4. Registered(Senders)' = Registered(Senders) /\ Registered(Receivers)' = Registered(Receivers)
  BY <1>2, <1>3
<1> QED BY <1>4 DEF Counted, CountsRegistered

\* A call begins.
LEMMA WaitCall ==
    ASSUME WaitInv, NEW t \in Threads, NEW m \in {"block", "try", "timed"}, Call(t, m)
    PROVE  WaitInv'
<1> USE DEF WaitInv
<1>1. TypeOK'
  BY ChanUnbufAssumption DEF TypeOK, Call, Goto, waiters, queues
<1>2. OneSideWaits' /\ ClosedIsEmpty'
  BY DEF OneSideWaits, ClosedIsEmpty, Call, queues
<1>3. \A u \in Threads : u # t => pc'[u] = pc[u] /\ calls'[u] = calls[u]
  BY DEF Call, Goto, TypeOK
<1>4. pc'[t] = "lock" /\ calls'[t] = calls[t] + 1 /\ calls[t] \in Nat /\ pc[t] = "idle"
  BY DEF Call, Goto, TypeOK
<1>5. peer' = peer /\ word' = word /\ \A u : Queued(u)' <=> Queued(u)
  BY DEF Call, waiters, queues, Queued, Elems
<1>6. Covered'
  <2> SUFFICES ASSUME NEW u \in Threads, Parked(u)'
               PROVE  Queued(u)' \/ \E v \in Threads : Waking(v, u)'
    BY DEF Covered
  <2>1. u # t /\ Parked(u)
    BY <1>3, <1>4, <1>5 DEF Parked
  <2>2. \A v \in Threads : Waking(v, u) => Waking(v, u)'
    BY <1>3, <1>4, <1>5, <2>1 DEF Waking
  <2> QED BY <1>5, <2>1, <2>2 DEF Covered
<1>7. CallsBegun'
  BY <1>3, <1>4, <1>5 DEF CallsBegun
<1>8. ClosersNeverWait'
  BY <1>3, <1>4 DEF ClosersNeverWait, Threads
<1>9. Counted'
  BY <1>4, CountsStay DEF Call, queues
<1> QED BY <1>1, <1>2, <1>6, <1>7, <1>8, <1>9

\* A call that found the channel closed, or would have had to wait, returns.
LEMMA WaitRefuse ==
    ASSUME WaitInv, NEW t \in Threads, pc[t] = "lock", NEW res \in Results,
           Return(t, res), UNCHANGED <<queues, closed, word, result>>
    PROVE  WaitInv'
<1> USE DEF WaitInv
<1>1. TypeOK'
  BY ReturnType DEF TypeOK, queues
<1>2. OneSideWaits' /\ ClosedIsEmpty'
  BY DEF OneSideWaits, ClosedIsEmpty, queues
<1>3. /\ \A u \in Threads : u # t => pc'[u] = pc[u] /\ peer'[u] = peer[u]
      /\ pc'[t] = "idle" /\ calls' = calls
  BY DEF Return, Goto, TypeOK
<1>4. \A u : Queued(u)' <=> Queued(u)
  BY DEF queues, Queued, Elems
<1>5. Covered'
  <2> SUFFICES ASSUME NEW u \in Threads, Parked(u)'
               PROVE  Queued(u)' \/ \E v \in Threads : Waking(v, u)'
    BY DEF Covered
  <2>1. u # t /\ Parked(u)
    BY <1>3 DEF Parked
  <2>2. \A v \in Threads : Waking(v, u) => Waking(v, u)'
    BY <1>3, <2>1 DEF Waking
  <2> QED BY <1>4, <2>1, <2>2 DEF Covered
<1>6. CallsBegun'
  BY <1>3, <1>4 DEF CallsBegun
<1>7. ClosersNeverWait'
  BY <1>3 DEF ClosersNeverWait, Threads
<1>8. Counted'
  BY CountsStay DEF Return, queues
<1> QED BY <1>1, <1>2, <1>5, <1>6, <1>7, <1>8

\* The thread t takes the waiter of w from its queue and will wake it.
LEMMA WaitServe ==
    ASSUME WaitInv, NEW t \in Senders \cup Receivers, NEW w \in Threads,
           pc[t] = "lock", Queued(w), Serve(t, w),
           sendq' \in Seq(Senders), recvq' \in Seq(Receivers),
           sendq = << >> => sendq' = << >>, recvq = << >> => recvq' = << >>,
           out' \in [Receivers -> Messages \cup {NoMsg}],
           \A u \in Threads : Queued(u)' => Queued(u),
           \A u \in Threads : Queued(u) /\ u # w => Queued(u)',
           UNCHANGED <<sendCnt, recvCnt, closed, mode, word, hist>>
    PROVE  WaitInv'
<1> USE DEF WaitInv
<1>0. t \in Threads /\ t \notin Closers
  BY ChanUnbufAssumption DEF Threads
<1>1. TypeOK'
  <2>1. <<w, calls[w]>> \in Threads \X (1..MaxCalls)
    BY ChanUnbufAssumption DEF TypeOK, CallsBegun
  <2> QED BY <2>1 DEF TypeOK, Serve, Goto, hist, Results
<1>2. OneSideWaits' /\ ClosedIsEmpty'
  BY DEF OneSideWaits, ClosedIsEmpty
<1>3. /\ \A u \in Threads : u # t => pc'[u] = pc[u] /\ peer'[u] = peer[u]
      /\ pc'[t] = "wake" /\ peer'[t] = <<w, calls[w]>> /\ calls' = calls
  BY <1>0 DEF Serve, Goto, TypeOK, hist
<1>4. Covered'
  <2> SUFFICES ASSUME NEW u \in Threads, Parked(u)'
               PROVE  Queued(u)' \/ \E v \in Threads : Waking(v, u)'
    BY DEF Covered
  <2>1. u # t /\ Parked(u)
    BY <1>0, <1>3 DEF Parked
  <2>2. \A v \in Threads : Waking(v, u) => Waking(v, u)'
    BY <1>3, <2>1 DEF Waking
  <2>3. u = w => Waking(t, u)'
    BY <1>3 DEF Waking
  <2> QED BY <1>0, <2>1, <2>2, <2>3 DEF Covered
<1>5. CallsBegun'
  BY <1>3 DEF CallsBegun
<1>6. ClosersNeverWait'
  BY <1>0, <1>3 DEF ClosersNeverWait, Threads
<1>7. Counted'
  BY <1>0, CountsStay DEF Serve
<1> QED BY <1>1, <1>2, <1>4, <1>5, <1>6, <1>7

\* A send meets a waiting receiver.
LEMMA WaitSendMeet ==
    ASSUME WaitInv, NEW s \in Senders, SendMeet(s)
    PROVE  WaitInv'
<1> DEFINE w == Head(recvq)
<1> USE DEF WaitInv
<1>1. /\ Tail(recvq) \in Seq(Receivers) /\ w \in Receivers /\ w \in Elems(recvq)
      /\ Elems(Tail(recvq)) \subseteq Elems(recvq)
      /\ Elems(recvq) = Elems(Tail(recvq)) \cup {w}
  BY PopFacts DEF SendMeet, TypeOK
<1>2. sendq' = sendq /\ recvq' = Tail(recvq) /\ recvq # << >> /\ pc[s] = "lock" /\ Serve(s, w)
      /\ UNCHANGED <<sendCnt, recvCnt, closed, mode, word, hist>>
      /\ out' = [out EXCEPT ![w] = Msg(s)]
  BY DEF SendMeet
<1> HIDE DEF w
<1>3. Msg(s) \in Messages
  BY <1>2, ChanUnbufAssumption DEF Msg, Messages, TypeOK, CallsBegun, Threads
<1>4. out' \in [Receivers -> Messages \cup {NoMsg}]
  BY <1>1, <1>2, <1>3 DEF TypeOK
<1>5. Elems(sendq)' = Elems(sendq) /\ Elems(recvq)' = Elems(Tail(recvq))
  BY <1>2 DEF Elems
<1>6. Queued(w) /\ (\A u \in Threads : Queued(u)' => Queued(u))
      /\ (\A u \in Threads : Queued(u) /\ u # w => Queued(u)')
  BY <1>1, <1>5 DEF Queued
<1>7. w \in Threads /\ s \in Senders \cup Receivers
  BY <1>1 DEF Threads
<1>8. sendq' \in Seq(Senders) /\ recvq' \in Seq(Receivers)
  BY <1>1, <1>2 DEF TypeOK
<1> QED BY <1>2, <1>4, <1>6, <1>7, <1>8, WaitServe

\* A receive meets a waiting sender.
LEMMA WaitRecvMeet ==
    ASSUME WaitInv, NEW r \in Receivers, RecvMeet(r)
    PROVE  WaitInv'
<1> DEFINE w == Head(sendq)
<1> USE DEF WaitInv
<1>1. /\ Tail(sendq) \in Seq(Senders) /\ w \in Senders /\ w \in Elems(sendq)
      /\ Elems(Tail(sendq)) \subseteq Elems(sendq)
      /\ Elems(sendq) = Elems(Tail(sendq)) \cup {w}
  BY PopFacts DEF RecvMeet, TypeOK
<1>2. recvq' = recvq /\ sendq' = Tail(sendq) /\ sendq # << >> /\ pc[r] = "lock" /\ Serve(r, w)
      /\ UNCHANGED <<sendCnt, recvCnt, closed, mode, word, hist>>
      /\ out' = [out EXCEPT ![r] = Msg(w)]
  BY DEF RecvMeet
<1> HIDE DEF w
<1>3. Msg(w) \in Messages
  BY <1>1, <1>2, ChanUnbufAssumption DEF Msg, Messages, TypeOK, CallsBegun, Queued, Threads
<1>4. out' \in [Receivers -> Messages \cup {NoMsg}]
  BY <1>1, <1>2, <1>3 DEF TypeOK
<1>5. Elems(recvq)' = Elems(recvq) /\ Elems(sendq)' = Elems(Tail(sendq))
  BY <1>2 DEF Elems
<1>6. Queued(w) /\ (\A u \in Threads : Queued(u)' => Queued(u))
      /\ (\A u \in Threads : Queued(u) /\ u # w => Queued(u)')
  BY <1>1, <1>5 DEF Queued
<1>7. w \in Threads /\ r \in Senders \cup Receivers
  BY <1>1 DEF Threads
<1>8. sendq' \in Seq(Senders) /\ recvq' \in Seq(Receivers)
  BY <1>1, <1>2 DEF TypeOK
<1> QED BY <1>2, <1>4, <1>6, <1>7, <1>8, WaitServe

\* A sender that finds nobody queues itself and parks.
LEMMA WaitSendPark ==
    ASSUME WaitInv, NEW s \in Senders, SendPark(s)
    PROVE  WaitInv'
<1> USE DEF WaitInv
<1>0. s \in Threads /\ s \notin Receivers /\ s \notin Closers
  BY ChanUnbufAssumption DEF Threads
<1>1. /\ sendq' \in Seq(Senders) /\ Elems(sendq)' = Elems(sendq) \cup {s}
      /\ recvq' = recvq /\ Elems(recvq)' = Elems(recvq) /\ recvq = << >> /\ ~closed
  <2>1. sendq' = Append(sendq, s) /\ recvq' = recvq /\ recvq = << >> /\ ~closed
    BY DEF SendPark
  <2>2. Append(sendq, s) \in Seq(Senders) /\ Elems(Append(sendq, s)) = Elems(sendq) \cup {s}
    BY PushFacts DEF TypeOK
  <2> QED BY <2>1, <2>2 DEF Elems
<1>2. /\ \A u \in Threads : u # s => pc'[u] = pc[u] /\ word'[u] = word[u]
      /\ pc'[s] = "parked" /\ pc[s] = "lock" /\ peer' = peer /\ calls' = calls
      /\ Goto(s, "parked") /\ closed' = closed
  BY <1>0 DEF SendPark, Register, Goto, TypeOK, hist
<1>3. sendCnt' = sendCnt + 1 /\ recvCnt' = recvCnt
  BY DEF SendPark
<1>4. TypeOK'
  <2>1. /\ pc' \in [Threads -> {"idle", "lock", "parked", "wake", "timedOut", "removed"}]
        /\ word' \in [Threads -> {0, 1}] /\ result' \in [Threads -> Results]
    BY DEF TypeOK, SendPark, Register, Goto, Results
  <2>2. sendq' \in Seq(Senders) /\ recvq' \in Seq(Receivers) /\ sendCnt' \in Nat /\ recvCnt' \in Nat
    BY <1>1, <1>3 DEF TypeOK
  <2>3. UNCHANGED <<closed, mode, peer, out, hist>>
    BY DEF SendPark
  <2> QED BY <2>1, <2>2, <2>3 DEF TypeOK, hist
<1>5. OneSideWaits' /\ ClosedIsEmpty'
  BY <1>1, <1>2 DEF OneSideWaits, ClosedIsEmpty
<1>6. \A u \in Threads : (Queued(u) => Queued(u)') /\ (Queued(u)' => Queued(u) \/ u = s) /\ Queued(s)'
  BY <1>1 DEF Queued
<1>7. Covered'
  <2> SUFFICES ASSUME NEW u \in Threads, Parked(u)', u # s
               PROVE  Queued(u)' \/ \E v \in Threads : Waking(v, u)'
    BY <1>6 DEF Covered
  <2>1. Parked(u)
    BY <1>2 DEF Parked
  <2>2. \A v \in Threads : Waking(v, u) => Waking(v, u)'
    BY <1>2 DEF Waking
  <2> QED BY <1>6, <2>1, <2>2 DEF Covered
<1>8. CallsBegun'
  BY <1>2, <1>6 DEF CallsBegun
<1>9. ClosersNeverWait'
  BY <1>0, <1>2 DEF ClosersNeverWait, Threads
<1>10. Counted'
  <2>1. Senders \in SUBSET Threads /\ Receivers \in SUBSET Threads
    BY DEF Threads
  <2>2. /\ Registered(Senders)' = Registered(Senders) \cup {s}
        /\ Registered(Receivers)' = Registered(Receivers)
    BY <1>0, <1>2, <2>1, GotoFacts
  <2>3. s \notin Registered(Senders)
    BY <1>2 DEF Registered
  <2> DEFINE A == Registered(Senders)
  <2>4. IsFiniteSet(A) /\ sendCnt = Cardinality(A) /\ CountsRegistered(recvCnt, Receivers)
    BY DEF Counted, CountsRegistered
  <2>5. CountsRegistered(recvCnt, Receivers)'
    BY <1>3, <2>2, <2>4 DEF CountsRegistered
  <2> HIDE DEF A
  <2>6. IsFiniteSet(A \cup {s}) /\ sendCnt' = Cardinality(A \cup {s})
    BY <1>3, <2>3, <2>4, CountUp DEF A
  <2>7. CountsRegistered(sendCnt, Senders)'
    BY <2>2, <2>6 DEF A, CountsRegistered
  <2> QED BY <2>5, <2>7 DEF Counted
<1> QED BY <1>4, <1>5, <1>7, <1>8, <1>9, <1>10

\* A receiver that finds nobody queues itself and parks.
LEMMA WaitRecvPark ==
    ASSUME WaitInv, NEW r \in Receivers, RecvPark(r)
    PROVE  WaitInv'
<1> USE DEF WaitInv
<1>0. r \in Threads /\ r \notin Senders /\ r \notin Closers
  BY ChanUnbufAssumption DEF Threads
<1>1. /\ recvq' \in Seq(Receivers) /\ Elems(recvq)' = Elems(recvq) \cup {r}
      /\ sendq' = sendq /\ Elems(sendq)' = Elems(sendq) /\ sendq = << >> /\ ~closed
  <2>1. recvq' = Append(recvq, r) /\ sendq' = sendq /\ sendq = << >> /\ ~closed
    BY DEF RecvPark
  <2>2. Append(recvq, r) \in Seq(Receivers) /\ Elems(Append(recvq, r)) = Elems(recvq) \cup {r}
    BY PushFacts DEF TypeOK
  <2> QED BY <2>1, <2>2 DEF Elems
<1>2. /\ \A u \in Threads : u # r => pc'[u] = pc[u] /\ word'[u] = word[u]
      /\ pc'[r] = "parked" /\ pc[r] = "lock" /\ peer' = peer /\ calls' = calls
      /\ Goto(r, "parked") /\ closed' = closed
  BY <1>0 DEF RecvPark, Register, Goto, TypeOK, hist
<1>3. recvCnt' = recvCnt + 1 /\ sendCnt' = sendCnt
  BY DEF RecvPark
<1>4. TypeOK'
  <2>1. /\ pc' \in [Threads -> {"idle", "lock", "parked", "wake", "timedOut", "removed"}]
        /\ word' \in [Threads -> {0, 1}] /\ result' \in [Threads -> Results]
    BY DEF TypeOK, RecvPark, Register, Goto, Results
  <2>2. sendq' \in Seq(Senders) /\ recvq' \in Seq(Receivers) /\ sendCnt' \in Nat /\ recvCnt' \in Nat
    BY <1>1, <1>3 DEF TypeOK
  <2>3. UNCHANGED <<closed, mode, peer, out, hist>>
    BY DEF RecvPark
  <2> QED BY <2>1, <2>2, <2>3 DEF TypeOK, hist
<1>5. OneSideWaits' /\ ClosedIsEmpty'
  BY <1>1, <1>2 DEF OneSideWaits, ClosedIsEmpty
<1>6. \A u \in Threads : (Queued(u) => Queued(u)') /\ (Queued(u)' => Queued(u) \/ u = r) /\ Queued(r)'
  BY <1>1 DEF Queued
<1>7. Covered'
  <2> SUFFICES ASSUME NEW u \in Threads, Parked(u)', u # r
               PROVE  Queued(u)' \/ \E v \in Threads : Waking(v, u)'
    BY <1>6 DEF Covered
  <2>1. Parked(u)
    BY <1>2 DEF Parked
  <2>2. \A v \in Threads : Waking(v, u) => Waking(v, u)'
    BY <1>2 DEF Waking
  <2> QED BY <1>6, <2>1, <2>2 DEF Covered
<1>8. CallsBegun'
  BY <1>2, <1>6 DEF CallsBegun
<1>9. ClosersNeverWait'
  BY <1>0, <1>2 DEF ClosersNeverWait, Threads
<1>10. Counted'
  <2>1. Receivers \in SUBSET Threads /\ Senders \in SUBSET Threads
    BY DEF Threads
  <2>2. /\ Registered(Receivers)' = Registered(Receivers) \cup {r}
        /\ Registered(Senders)' = Registered(Senders)
    BY <1>0, <1>2, <2>1, GotoFacts
  <2>3. r \notin Registered(Receivers)
    BY <1>2 DEF Registered
  <2> DEFINE A == Registered(Receivers)
  <2>4. IsFiniteSet(A) /\ recvCnt = Cardinality(A) /\ CountsRegistered(sendCnt, Senders)
    BY DEF Counted, CountsRegistered
  <2>5. CountsRegistered(sendCnt, Senders)'
    BY <1>3, <2>2, <2>4 DEF CountsRegistered
  <2> HIDE DEF A
  <2>6. IsFiniteSet(A \cup {r}) /\ recvCnt' = Cardinality(A \cup {r})
    BY <1>3, <2>3, <2>4, CountUp DEF A
  <2>7. CountsRegistered(recvCnt, Receivers)'
    BY <2>2, <2>6 DEF A, CountsRegistered
  <2> QED BY <2>5, <2>7 DEF Counted
<1> QED BY <1>4, <1>5, <1>7, <1>8, <1>9, <1>10

\* A thread wakes the waiter it has served, or hits what is there now.
LEMMA WaitWake ==
    ASSUME WaitInv, NEW t \in Senders \cup Receivers, Wake(t)
    PROVE  WaitInv'
<1> USE DEF WaitInv
<1>0. t \in Threads /\ pc[t] = "wake" /\ "OK" \in Results
  BY DEF Threads, Wake, Results
<1>1. /\ \A u \in Threads : u # t => pc'[u] = pc[u] /\ peer'[u] = peer[u]
      /\ pc'[t] = "idle" /\ calls' = calls
  BY <1>0 DEF Wake, Return, Goto, TypeOK
<1>2. word' \in [Threads -> {0, 1}] /\ (\A u \in Threads : word'[u] = 0 => word[u] = 0)
      /\ \A u \in Threads : Waking(t, u) => word'[u] = 1
  <2>1. \/ word' = [word EXCEPT ![peer[t][1]] = 1]
        \/ word' = word /\ calls[peer[t][1]] # peer[t][2]
    BY DEF Wake, WakeOutcomes
  <2>2. \A u \in Threads : Waking(t, u) => peer[t][1] = u /\ peer[t][2] = calls[u]
    BY DEF Waking
  <2>3. word \in [Threads -> {0, 1}]
    BY DEF TypeOK
  <2> QED BY <2>1, <2>2, <2>3
<1>3. TypeOK'
  BY <1>0, <1>2, ReturnType DEF TypeOK, Wake, queues
<1>4. OneSideWaits' /\ ClosedIsEmpty'
  BY DEF OneSideWaits, ClosedIsEmpty, Wake, queues
<1>5. \A u : Queued(u)' <=> Queued(u)
  BY DEF Wake, queues, Queued, Elems
<1>6. Covered'
  <2> SUFFICES ASSUME NEW u \in Threads, Parked(u)'
               PROVE  Queued(u)' \/ \E v \in Threads : Waking(v, u)'
    BY DEF Covered
  <2>1. u # t /\ Parked(u) /\ ~Waking(t, u)
    BY <1>1, <1>2 DEF Parked
  <2>2. \A v \in Threads : Waking(v, u) => Waking(v, u)'
    BY <1>1, <2>1 DEF Waking
  <2> QED BY <1>5, <2>1, <2>2 DEF Covered
<1>7. CallsBegun'
  BY <1>1, <1>5 DEF CallsBegun
<1>8. ClosersNeverWait'
  BY <1>1 DEF ClosersNeverWait, Threads
<1>9. Counted'
  BY <1>0, CountsStay DEF Wake, Return, queues
<1> QED BY <1>3, <1>4, <1>6, <1>7, <1>8, <1>9

\* A registered thread leaves: woken, or after its timeout.
LEMMA WaitLeave ==
    ASSUME WaitInv, NEW t \in Senders \cup Receivers, NEW res \in Results,
           pc[t] \in {"parked", "removed"}, Deregister(t), Return(t, res),
           UNCHANGED <<sendq, recvq, closed, word, result>>
    PROVE  WaitInv'
<1> USE DEF WaitInv
<1>0. t \in Threads
  BY DEF Threads
<1>1. /\ \A u \in Threads : u # t => pc'[u] = pc[u] /\ peer'[u] = peer[u]
      /\ pc'[t] = "idle" /\ calls' = calls /\ Goto(t, "idle")
  BY <1>0 DEF Return, Goto, TypeOK
<1>2. Counted' /\ sendCnt' \in Nat /\ recvCnt' \in Nat
  <2>1. Senders \in SUBSET Threads /\ Receivers \in SUBSET Threads
    BY DEF Threads
  <2>2. /\ Registered(Senders)' = Registered(Senders) \ {t}
        /\ Registered(Receivers)' = Registered(Receivers) \ {t}
    BY <1>0, <1>1, <2>1, GotoFacts
  <2>3. CASE t \in Senders
    <3>1. t \in Registered(Senders) /\ t \notin Registered(Receivers) /\ t \notin Receivers
      BY <2>3, ChanUnbufAssumption DEF Registered
    <3>2. sendCnt' = sendCnt - 1 /\ recvCnt' = recvCnt
      BY <2>3, <3>1 DEF Deregister
    <3>3. Registered(Receivers)' = Registered(Receivers)
      BY <2>2, <3>1
    <3> DEFINE A == Registered(Senders)
    <3>4. IsFiniteSet(A) /\ sendCnt = Cardinality(A) /\ CountsRegistered(recvCnt, Receivers)
      BY DEF Counted, CountsRegistered
    <3>5. CountsRegistered(recvCnt, Receivers)' /\ recvCnt' \in Nat
      BY <3>2, <3>3, <3>4 DEF CountsRegistered, TypeOK
    <3> HIDE DEF A
    <3>6. IsFiniteSet(A \ {t}) /\ sendCnt' = Cardinality(A \ {t}) /\ sendCnt' \in Nat
      BY <3>1, <3>2, <3>4, CountDown DEF A
    <3>7. CountsRegistered(sendCnt, Senders)'
      BY <2>2, <3>6 DEF A, CountsRegistered
    <3> QED BY <3>5, <3>6, <3>7 DEF Counted
  <2>4. CASE t \in Receivers
    <3>1. t \in Registered(Receivers) /\ t \notin Registered(Senders) /\ t \notin Senders
      BY <2>4, ChanUnbufAssumption DEF Registered
    <3>2. recvCnt' = recvCnt - 1 /\ sendCnt' = sendCnt
      BY <2>4, <3>1 DEF Deregister
    <3>3. Registered(Senders)' = Registered(Senders)
      BY <2>2, <3>1
    <3> DEFINE A == Registered(Receivers)
    <3>4. IsFiniteSet(A) /\ recvCnt = Cardinality(A) /\ CountsRegistered(sendCnt, Senders)
      BY DEF Counted, CountsRegistered
    <3>5. CountsRegistered(sendCnt, Senders)' /\ sendCnt' \in Nat
      BY <3>2, <3>3, <3>4 DEF CountsRegistered, TypeOK
    <3> HIDE DEF A
    <3>6. IsFiniteSet(A \ {t}) /\ recvCnt' = Cardinality(A \ {t}) /\ recvCnt' \in Nat
      BY <3>1, <3>2, <3>4, CountDown DEF A
    <3>7. CountsRegistered(recvCnt, Receivers)'
      BY <2>2, <3>6 DEF A, CountsRegistered
    <3> QED BY <3>5, <3>6, <3>7 DEF Counted
  <2> QED BY <2>3, <2>4
<1>3. TypeOK'
  BY <1>0, <1>2, ReturnType DEF TypeOK
<1>4. OneSideWaits' /\ ClosedIsEmpty'
  BY DEF OneSideWaits, ClosedIsEmpty
<1>5. \A u : Queued(u)' <=> Queued(u)
  BY DEF Queued, Elems
<1>6. Covered'
  <2> SUFFICES ASSUME NEW u \in Threads, Parked(u)'
               PROVE  Queued(u)' \/ \E v \in Threads : Waking(v, u)'
    BY DEF Covered
  <2>1. u # t /\ Parked(u)
    BY <1>1 DEF Parked
  <2>2. \A v \in Threads : Waking(v, u) => Waking(v, u)'
    BY <1>1, <2>1 DEF Waking
  <2> QED BY <1>5, <2>1, <2>2 DEF Covered
<1>7. CallsBegun'
  BY <1>1, <1>5 DEF CallsBegun
<1>8. ClosersNeverWait'
  BY <1>1 DEF ClosersNeverWait, Threads
<1> QED BY <1>2, <1>3, <1>4, <1>6, <1>7, <1>8

\* The deadline passes: first only noticed, then the waiter leaves its queue.
LEMMA WaitTimeout ==
    ASSUME WaitInv, NEW t \in Senders \cup Receivers, Timeout(t) \/ TimeoutRemove(t)
    PROVE  WaitInv'
<1> USE DEF WaitInv
<1>0. t \in Threads /\ t \notin Closers
  BY ChanUnbufAssumption DEF Threads
<1>1. /\ pc[t] \in {"parked", "timedOut"} /\ pc'[t] \in {"timedOut", "removed"}
      /\ pc' = [pc EXCEPT ![t] = pc'[t]]
      /\ \A u \in Threads : u # t => pc'[u] = pc[u]
      /\ UNCHANGED <<sendCnt, recvCnt, closed, mode, peer, waiters, hist>>
  BY <1>0 DEF Timeout, TimeoutRemove, Goto, TypeOK, queues
<1>2. /\ sendq' \in Seq(Senders) /\ recvq' \in Seq(Receivers)
      /\ Elems(sendq)' \subseteq Elems(sendq) /\ Elems(recvq)' \subseteq Elems(recvq)
      /\ \A u : u # t => (u \in Elems(sendq) => u \in Elems(sendq)')
                        /\ (u \in Elems(recvq) => u \in Elems(recvq)')
      /\ sendq = << >> => sendq' = << >>
      /\ recvq = << >> => recvq' = << >>
  <2>1. CASE Timeout(t)
    <3>1. sendq' = sendq /\ recvq' = recvq
      BY <2>1 DEF Timeout, queues
    <3> QED BY <3>1 DEF Elems, TypeOK
  <2>2. CASE TimeoutRemove(t)
    <3>1. sendq' = Without(sendq, t) /\ recvq' = Without(recvq, t)
      BY <2>2 DEF TimeoutRemove
    <3>2. Elems(sendq)' = Elems(Without(sendq, t)) /\ Elems(recvq)' = Elems(Without(recvq, t))
      BY <3>1 DEF Elems
    <3>3. sendq \in Seq(Senders) /\ recvq \in Seq(Receivers)
      BY DEF TypeOK
    <3> QED BY <3>1, <3>2, <3>3, RemoveFacts
  <2> QED BY <2>1, <2>2
<1>3. TypeOK'
  BY <1>1, <1>2 DEF TypeOK, waiters, hist
<1>4. OneSideWaits' /\ ClosedIsEmpty'
  BY <1>1, <1>2 DEF OneSideWaits, ClosedIsEmpty
<1>5. \A u \in Threads : (Queued(u)' => Queued(u)) /\ (Queued(u) /\ u # t => Queued(u)')
  BY <1>2 DEF Queued
<1>6. Covered'
  <2> SUFFICES ASSUME NEW u \in Threads, Parked(u)'
               PROVE  Queued(u)' \/ \E v \in Threads : Waking(v, u)'
    BY DEF Covered
  <2>1. u # t /\ Parked(u)
    BY <1>1 DEF Parked, waiters
  <2>2. \A v \in Threads : Waking(v, u) => Waking(v, u)'
    BY <1>1, <2>1 DEF Waking, hist
  <2> QED BY <1>5, <2>1, <2>2 DEF Covered
<1>7. CallsBegun'
  BY <1>1, <1>5 DEF CallsBegun, hist
<1>8. ClosersNeverWait'
  BY <1>0, <1>1 DEF ClosersNeverWait, Threads
<1>9. Counted'
  <2>1. Registered(Senders)' = Registered(Senders) /\ Registered(Receivers)' = Registered(Receivers)
    BY <1>0, <1>1 DEF Registered, Threads
  <2> QED BY <1>1, <2>1 DEF Counted, CountsRegistered
<1> QED BY <1>3, <1>4, <1>6, <1>7, <1>8, <1>9

\* What the first close does to the queues and to the waiters in them.
LEMMA CloseFacts ==
    ASSUME TypeOK, NEW c \in Closers, Close(c), ~closed
    PROVE  /\ closed' = TRUE /\ sendq' = << >> /\ recvq' = << >>
           /\ word' = [t \in Threads |-> IF Queued(t) THEN 1 ELSE word[t]]
           /\ result' = [t \in Threads |-> IF Queued(t) THEN "CLOSED" ELSE result[t]]
           /\ \A t : ~Queued(t)'
<1>1. sendq \in Seq(Threads) /\ recvq \in Seq(Threads)
  BY SeqMonotonic DEF TypeOK, Threads
<1>2. Elems(sendq \o recvq) = Elems(sendq) \cup Elems(recvq)
  BY <1>1, ConcatFacts
<1>3. /\ closed' = TRUE /\ sendq' = << >> /\ recvq' = << >>
      /\ word' = [t \in Threads |-> IF t \in Elems(sendq \o recvq) THEN 1 ELSE word[t]]
      /\ result' = [t \in Threads |-> IF t \in Elems(sendq \o recvq) THEN "CLOSED" ELSE result[t]]
  BY DEF Close, Elems
<1>4. \A t : Queued(t) <=> t \in Elems(sendq \o recvq)
  BY <1>2 DEF Queued
<1>5. \A t : ~Queued(t)'
  BY <1>3, EmptyFacts DEF Queued
<1> QED BY <1>3, <1>4, <1>5

\* The channel is closed, or found closed already.
LEMMA WaitClose ==
    ASSUME WaitInv, NEW c \in Closers, Close(c)
    PROVE  WaitInv'
<1> USE DEF WaitInv
<1>0. c \in Threads /\ pc[c] = "lock" /\ "OK" \in Results /\ Return(c, "OK")
      /\ UNCHANGED <<sendCnt, recvCnt>>
  BY DEF Threads, Close, Results
<1>1. CASE closed
  <2>1. UNCHANGED <<queues, closed, word, result>>
    BY <1>0, <1>1 DEF Close, queues
  <2> QED BY <1>0, <2>1, WaitRefuse
<1>2. CASE ~closed
  <2>1. /\ closed' = TRUE /\ sendq' = << >> /\ recvq' = << >>
        /\ word' = [t \in Threads |-> IF Queued(t) THEN 1 ELSE word[t]]
        /\ result' = [t \in Threads |-> IF Queued(t) THEN "CLOSED" ELSE result[t]]
        /\ \A t : ~Queued(t)'
    BY <1>2, CloseFacts
  <2>2. /\ \A u \in Threads : u # c => pc'[u] = pc[u] /\ peer'[u] = peer[u]
        /\ pc'[c] = "idle" /\ calls' = calls
    BY <1>0 DEF Return, Goto, TypeOK
  <2>3. TypeOK'
    <3>1. word' \in [Threads -> {0, 1}] /\ result' \in [Threads -> Results]
      BY <2>1 DEF TypeOK, Results
    <3>2. << >> \in Seq(Senders) /\ << >> \in Seq(Receivers)
      OBVIOUS
    <3> QED BY <1>0, <2>1, <3>1, <3>2, ReturnType DEF TypeOK
  <2>4. OneSideWaits' /\ ClosedIsEmpty'
    BY <2>1 DEF OneSideWaits, ClosedIsEmpty
  <2>5. Covered'
    <3> SUFFICES ASSUME NEW u \in Threads, Parked(u)'
                 PROVE  \E v \in Threads : Waking(v, u)'
      BY DEF Covered
    <3>1. u # c /\ Parked(u) /\ ~Queued(u)
      BY <2>1, <2>2 DEF Parked
    <3>2. \A v \in Threads : Waking(v, u) => Waking(v, u)'
      BY <1>0, <2>2, <3>1 DEF Waking
    <3> QED BY <3>1, <3>2 DEF Covered
  <2>6. CallsBegun'
    BY <2>1, <2>2 DEF CallsBegun
  <2>7. ClosersNeverWait'
    BY <2>2 DEF ClosersNeverWait, Threads
  <2>8. Counted'
    BY <1>0, CountsStay DEF Return
  <2> QED BY <2>3, <2>4, <2>5, <2>6, <2>7, <2>8
<1> QED BY <1>1, <1>2

\* Every step keeps WaitInv.
LEMMA WaitNext == WaitInv /\ [Next]_vars => WaitInv'
<1> SUFFICES ASSUME WaitInv, [Next]_vars PROVE WaitInv'
  OBVIOUS
<1>0. {"OK", "CLOSED", "WOULDBLOCK", "TIMEOUT"} \subseteq Results
  BY DEF Results
<1>1. CASE UNCHANGED vars
  <2> USE <1>1 DEF vars, queues, locals, waiters, hist, WaitInv
  <2>1. TypeOK' /\ OneSideWaits' /\ ClosedIsEmpty' /\ ClosersNeverWait'
    BY DEF TypeOK, OneSideWaits, ClosedIsEmpty, ClosersNeverWait
  <2>2. \A t : Queued(t)' <=> Queued(t)
    BY DEF Queued, Elems
  <2>3. Covered' /\ CallsBegun'
    BY <2>2 DEF Covered, CallsBegun, Parked, Waking
  <2>4. Counted'
    BY DEF Counted, CountsRegistered, Registered
  <2> QED BY <2>1, <2>3, <2>4
<1>2. ASSUME NEW t \in Senders \cup Receivers, CallAny(t) PROVE WaitInv'
  <2>1. PICK m \in Modes : Call(t, m)
    BY <1>2 DEF CallAny
  <2>2. m \in {"block", "try", "timed"} /\ t \in Threads
    BY ChanUnbufAssumption DEF Threads
  <2> QED BY <2>1, <2>2, WaitCall
<1>3. ASSUME NEW t \in Senders \cup Receivers, ParkStep(t) PROVE WaitInv'
  <2>1. CASE Woken(t)
    <3>1. result[t] \in Results
      BY DEF WaitInv, TypeOK, Threads
    <3> QED BY <2>1, <3>1, WaitLeave DEF Woken
  <2>2. CASE Timeout(t) \/ TimeoutRemove(t)
    BY <2>2, WaitTimeout
  <2>3. CASE TimeoutReturn(t)
    BY <1>0, <2>3, WaitLeave DEF TimeoutReturn
  <2> QED BY <1>3, <2>1, <2>2, <2>3 DEF ParkStep
<1>4. ASSUME NEW s \in Senders, SendStep(s) PROVE WaitInv'
  <2>0. s \in Threads /\ s \in Senders \cup Receivers
    BY DEF Threads
  <2>1. CASE SendClosed(s) \/ SendWouldBlock(s)
    BY <1>0, <2>0, <2>1, WaitRefuse DEF SendClosed, SendWouldBlock
  <2> QED BY <1>3, <1>4, <2>0, <2>1, WaitSendMeet, WaitSendPark, WaitWake DEF SendStep
<1>5. ASSUME NEW r \in Receivers, RecvStep(r) PROVE WaitInv'
  <2>0. r \in Threads /\ r \in Senders \cup Receivers
    BY DEF Threads
  <2>1. CASE RecvClosed(r) \/ RecvWouldBlock(r)
    BY <1>0, <2>0, <2>1, WaitRefuse DEF RecvClosed, RecvWouldBlock
  <2> QED BY <1>3, <1>5, <2>0, <2>1, WaitRecvMeet, WaitRecvPark, WaitWake DEF RecvStep
<1>6. ASSUME NEW c \in Closers, Call(c, "block") \/ Close(c) PROVE WaitInv'
  BY <1>6, WaitCall, WaitClose DEF Threads
<1> QED BY <1>1, <1>2, <1>4, <1>5, <1>6 DEF Next

\* WaitInv holds in every reachable state, timed calls included.
THEOREM WaitInvariant == Spec => []WaitInv
BY WaitInit, WaitNext, PTL DEF Spec

\* The variables keep their types and no waiter count goes below zero.
THEOREM TypeCorrect == Spec => []TypeOK
<1>1. WaitInv => TypeOK
  BY DEF WaitInv
<1> QED BY <1>1, WaitInvariant, PTL

\* Senders and receivers never wait at the same time.
THEOREM OneSide == Spec => []OneSideWaits
<1>1. WaitInv => OneSideWaits
  BY DEF WaitInv
<1> QED BY <1>1, WaitInvariant, PTL

\* At rest nobody sleeps on a closed channel, and no sender sleeps beside a
\* sleeping receiver: every wake-up is delivered.
THEOREM NobodyStranded == Spec => []NoStranded
<1>1. WaitInv => NoStranded
  <2> SUFFICES ASSUME WaitInv, \A t \in Threads : pc[t] = "idle" \/ Parked(t)
               PROVE  /\ closed => \A t \in Threads : ~Parked(t)
                      /\ \A s \in Senders, r \in Receivers : ~(Parked(s) /\ Parked(r))
    BY DEF NoStranded
  <2>1. \A u, t \in Threads : ~Waking(u, t)
    BY DEF Waking, Parked
  <2>2. \A t \in Threads : Parked(t) => Queued(t)
    BY <2>1 DEF WaitInv, Covered
  <2>3. closed => \A t \in Threads : ~Queued(t)
    BY EmptyFacts DEF WaitInv, ClosedIsEmpty, Queued
  <2>4. Elems(sendq) \subseteq Senders /\ Elems(recvq) \subseteq Receivers
    BY LenProperties, ElementOfSeq DEF WaitInv, TypeOK, Elems
  <2>5. \A s \in Senders : Queued(s) => Elems(sendq) # {}
    BY <2>4, ChanUnbufAssumption DEF Queued
  <2>6. \A r \in Receivers : Queued(r) => Elems(recvq) # {}
    BY <2>4, ChanUnbufAssumption DEF Queued
  <2>7. Elems(sendq) = {} \/ Elems(recvq) = {}
    BY EmptyFacts DEF WaitInv, OneSideWaits
  <2> QED BY <2>2, <2>3, <2>5, <2>6, <2>7 DEF Threads
<1> QED BY <1>1, WaitInvariant, PTL

------------------------------------------------------------------------------
(* Calls without a timeout: every waiter has one waker.                    *)

\* A thread that is neither parked nor waking moves on to another such place.
LEMMA PairOther ==
    ASSUME WaitInv, PairInv, NEW t \in Threads,
           ~Parked(t), ~Queued(t), pc'[t] \in {"idle", "lock"}, mode'[t] # "timed",
           \A u \in Threads : u # t => /\ pc'[u] = pc[u] /\ mode'[u] = mode[u]
                                       /\ peer'[u] = peer[u] /\ calls'[u] = calls[u],
           \A u \in Threads : Queued(u)' <=> Queued(u),
           UNCHANGED <<sendq, recvq, word, result>>
    PROVE  PairInv'
<1> USE DEF PairInv
<1>1. NoTimedCalls'
  BY DEF NoTimedCalls
<1>2. QueuedOnce'
  BY DEF QueuedOnce, Distinct
<1>3. QueuedAsleep'
  BY DEF QueuedAsleep, Parked
<1>4. WakerOwnsWaiter'
  <2> SUFFICES ASSUME NEW u \in Threads, pc'[u] = "wake"
               PROVE  \E w \in Threads : (peer[u] = <<w, calls[w]>> /\ Parked(w) /\ Served(w))'
    BY DEF WakerOwnsWaiter
  <2>1. PICK w \in Threads : peer[u] = <<w, calls[w]>> /\ Parked(w) /\ Served(w)
    BY DEF WakerOwnsWaiter
  <2>2. w # t /\ u # t
    BY <2>1
  <2>3. (peer[u] = <<w, calls[w]>> /\ Parked(w) /\ Served(w))'
    BY <2>1, <2>2 DEF Parked, Served
  <2> QED BY <2>3
<1>5. WakersApart'
  BY DEF WakersApart
<1> QED BY <1>1, <1>2, <1>3, <1>4, <1>5

\* A waiter leaves its queue and gets its waker.
LEMMA PairServe ==
    ASSUME WaitInv, PairInv, NEW t \in Senders \cup Receivers, NEW w \in Threads,
           pc[t] = "lock", Queued(w), Serve(t, w),
           Distinct(sendq'), Distinct(recvq'),
           ~Queued(w)', \A u \in Threads : u # w => (Queued(u)' <=> Queued(u)),
           UNCHANGED <<mode, word, hist>>
    PROVE  /\ PairInv'
           /\ Served(w)' /\ \A u \in Threads : u # t /\ u # w => (Served(u)' <=> Served(u))
<1> USE DEF PairInv
<1>0. t \in Threads /\ Parked(w) /\ result[w] = "OK" /\ w # t
  BY DEF Threads, QueuedAsleep, Parked
<1>1. /\ \A u \in Threads : u # t => pc'[u] = pc[u] /\ peer'[u] = peer[u]
      /\ pc'[t] = "wake" /\ peer'[t] = <<w, calls[w]>>
      /\ result' = result /\ calls' = calls
  BY <1>0 DEF Serve, Goto, hist, WaitInv, TypeOK
<1>2. Served(w)' /\ \A u \in Threads : u # t /\ u # w => (Served(u)' <=> Served(u))
  BY <1>0, <1>1 DEF Served, Parked
<1>3. NoTimedCalls'
  BY <1>0, <1>1 DEF NoTimedCalls
<1>4. QueuedOnce'
  BY DEF QueuedOnce, Distinct
<1>5. QueuedAsleep'
  BY <1>0, <1>1 DEF QueuedAsleep, Parked
<1>6. WakerOwnsWaiter'
  <2> SUFFICES ASSUME NEW u \in Threads, pc'[u] = "wake"
               PROVE  \E x \in Threads : (peer[u] = <<x, calls[x]>> /\ Parked(x) /\ Served(x))'
    BY DEF WakerOwnsWaiter
  <2>1. CASE u = t
    BY <1>0, <1>1, <1>2, <2>1 DEF Parked
  <2>2. CASE u # t
    <3>1. PICK x \in Threads : peer[u] = <<x, calls[x]>> /\ Parked(x) /\ Served(x)
      BY <1>1, <2>2 DEF WakerOwnsWaiter
    <3>2. x # w /\ x # t
      BY <3>1 DEF Served, Parked
    <3>3. (peer[u] = <<x, calls[x]>> /\ Parked(x) /\ Served(x))'
      BY <1>1, <1>2, <2>2, <3>1, <3>2 DEF Parked
    <3> QED BY <3>3
  <2> QED BY <2>1, <2>2
<1>7. WakersApart'
  <2>1. ASSUME NEW v \in Threads, v # t, pc[v] = "wake" PROVE peer[v] # <<w, calls[w]>>
    <3>1. PICK x \in Threads : peer[v] = <<x, calls[x]>> /\ Served(x)
      BY <2>1 DEF WakerOwnsWaiter
    <3> QED BY <3>1 DEF Served
  <2> QED BY <1>1, <2>1 DEF WakersApart
<1> QED BY <1>2, <1>3, <1>4, <1>5, <1>6, <1>7

\* A thread queues itself and parks.
LEMMA PairPark ==
    ASSUME WaitInv, PairInv, NEW t \in Threads, pc[t] = "lock", Register(t),
           Distinct(sendq'), Distinct(recvq'), Queued(t)',
           \A u \in Threads : u # t => (Queued(u)' <=> Queued(u)),
           UNCHANGED <<mode, peer, hist>>
    PROVE  /\ PairInv'
           /\ \A u \in Threads : Served(u)' <=> Served(u)
<1> USE DEF PairInv
<1>1. /\ \A u \in Threads : u # t => pc'[u] = pc[u] /\ word'[u] = word[u] /\ result'[u] = result[u]
      /\ pc'[t] = "parked" /\ word'[t] = 0 /\ result'[t] = "OK" /\ calls' = calls
  BY DEF Register, Goto, hist, WaitInv, TypeOK
<1>2. \A u \in Threads : Served(u)' <=> Served(u)
  BY <1>1 DEF Served
<1>3. NoTimedCalls'
  BY <1>1 DEF NoTimedCalls
<1>4. QueuedOnce'
  BY DEF QueuedOnce, Distinct
<1>5. QueuedAsleep'
  BY <1>1 DEF QueuedAsleep, Parked
<1>6. WakerOwnsWaiter'
  <2> SUFFICES ASSUME NEW u \in Threads, pc'[u] = "wake"
               PROVE  \E x \in Threads : (peer[u] = <<x, calls[x]>> /\ Parked(x) /\ Served(x))'
    BY DEF WakerOwnsWaiter
  <2>1. PICK x \in Threads : peer[u] = <<x, calls[x]>> /\ Parked(x) /\ Served(x)
    BY <1>1 DEF WakerOwnsWaiter
  <2>2. x # t
    BY <2>1 DEF Parked
  <2>3. (peer[u] = <<x, calls[x]>> /\ Parked(x) /\ Served(x))'
    BY <1>1, <1>2, <2>1, <2>2 DEF Parked
  <2> QED BY <2>3
<1>7. WakersApart'
  BY <1>1 DEF WakersApart
<1> QED BY <1>2, <1>3, <1>4, <1>5, <1>6, <1>7

\* The waker wakes its own waiter and no other, and returns.
LEMMA PairWake ==
    ASSUME WaitInv, PairInv, NEW t \in Threads, Wake(t)
    PROVE  PairInv'
<1> USE DEF PairInv
<1>1. PICK w \in Threads : peer[t] = <<w, calls[w]>> /\ Parked(w) /\ Served(w)
  BY DEF Wake, WakerOwnsWaiter
<1>2. word' = [word EXCEPT ![w] = 1]
  <2>1. peer[t][1] = w /\ peer[t][2] = calls[w]
    BY <1>1
  <2> QED BY <2>1 DEF Wake, WakeOutcomes
<1>3. /\ \A u \in Threads : u # t => pc'[u] = pc[u] /\ peer'[u] = peer[u] /\ mode'[u] = mode[u]
      /\ pc[t] = "wake" /\ pc'[t] = "idle" /\ mode'[t] = "block" /\ calls' = calls /\ result' = result
  BY DEF Wake, Return, Goto, WaitInv, TypeOK
<1>4. \A u \in Threads : u # w => word'[u] = word[u]
  BY <1>2 DEF WaitInv, TypeOK
<1>5. sendq' = sendq /\ recvq' = recvq /\ \A u : Queued(u)' <=> Queued(u)
  BY DEF Wake, queues, Queued, Elems
<1>6. NoTimedCalls'
  BY <1>3 DEF NoTimedCalls
<1>7. QueuedOnce'
  BY <1>5 DEF QueuedOnce, Distinct
<1>8. QueuedAsleep'
  <2> SUFFICES ASSUME NEW u \in Threads, Queued(u) PROVE Parked(u)' /\ result'[u] = "OK"
    BY <1>5 DEF QueuedAsleep
  <2>1. u # w /\ u # t /\ Parked(u) /\ result[u] = "OK"
    BY <1>1, <1>3 DEF QueuedAsleep, Served, Parked
  <2> QED BY <1>3, <1>4, <2>1 DEF Parked
<1>9. WakerOwnsWaiter'
  <2> SUFFICES ASSUME NEW u \in Threads, pc'[u] = "wake"
               PROVE  \E x \in Threads : (peer[u] = <<x, calls[x]>> /\ Parked(x) /\ Served(x))'
    BY DEF WakerOwnsWaiter
  <2>1. u # t /\ pc[u] = "wake"
    BY <1>3
  <2>2. PICK x \in Threads : peer[u] = <<x, calls[x]>> /\ Parked(x) /\ Served(x)
    BY <2>1 DEF WakerOwnsWaiter
  <2>3. x # w
    BY <1>1, <1>3, <2>1, <2>2 DEF WakersApart
  <2>4. x # t
    BY <1>3, <2>2 DEF Parked
  <2>5. (peer[u] = <<x, calls[x]>> /\ Parked(x) /\ Served(x))'
    BY <1>3, <1>4, <1>5, <2>1, <2>2, <2>3, <2>4 DEF Parked, Served
  <2> QED BY <2>5
<1>10. WakersApart'
  BY <1>3 DEF WakersApart
<1> QED BY <1>6, <1>7, <1>8, <1>9, <1>10

\* The first close takes the waiters nobody has served.
LEMMA PairClose ==
    ASSUME WaitInv, PairInv, NEW c \in Closers, Close(c), ~closed
    PROVE  PairInv' /\ \A u \in Threads : Served(u)' <=> Served(u)
<1> USE DEF PairInv
<1>1. /\ sendq' = << >> /\ recvq' = << >>
      /\ word' = [t \in Threads |-> IF Queued(t) THEN 1 ELSE word[t]]
      /\ result' = [t \in Threads |-> IF Queued(t) THEN "CLOSED" ELSE result[t]]
      /\ \A t : ~Queued(t)'
  BY CloseFacts DEF WaitInv
<1>2. /\ c \in Threads /\ pc[c] = "lock" /\ pc'[c] = "idle" /\ mode'[c] = "block" /\ calls' = calls
      /\ \A u \in Threads : u # c => pc'[u] = pc[u] /\ peer'[u] = peer[u] /\ mode'[u] = mode[u]
  BY DEF Close, Return, Goto, WaitInv, TypeOK, Threads
<1>3. \A u \in Threads : Served(u)' <=> Served(u)
  BY <1>1, <1>2 DEF Served, QueuedAsleep
<1>4. NoTimedCalls'
  BY <1>2 DEF NoTimedCalls
<1>5. QueuedOnce' /\ QueuedAsleep'
  BY <1>1 DEF QueuedOnce, QueuedAsleep, Distinct
<1>6. WakerOwnsWaiter'
  <2> SUFFICES ASSUME NEW u \in Threads, pc'[u] = "wake"
               PROVE  \E x \in Threads : (peer[u] = <<x, calls[x]>> /\ Parked(x) /\ Served(x))'
    BY DEF WakerOwnsWaiter
  <2>1. u # c /\ pc[u] = "wake"
    BY <1>2
  <2>2. PICK x \in Threads : peer[u] = <<x, calls[x]>> /\ Parked(x) /\ Served(x)
    BY <2>1 DEF WakerOwnsWaiter
  <2>3. x # c /\ ~Queued(x)
    BY <1>2, <2>2 DEF Parked, Served
  <2>4. (peer[u] = <<x, calls[x]>> /\ Parked(x) /\ Served(x))'
    BY <1>1, <1>2, <1>3, <2>1, <2>2, <2>3 DEF Parked
  <2> QED BY <2>4
<1>7. WakersApart'
  BY <1>2 DEF WakersApart
<1> QED BY <1>3, <1>4, <1>5, <1>6, <1>7

------------------------------------------------------------------------------
(* Calls without a timeout: every message has one copy.                    *)

\* What Return does to the variables of the thread that returns.
LEMMA ReturnFacts ==
    ASSUME TypeOK, NEW t \in Threads, NEW res, Return(t, res)
    PROVE  /\ pc'[t] = "idle" /\ mode'[t] = "block" /\ calls' = calls
           /\ \A u \in Threads : u # t => pc'[u] = pc[u] /\ mode'[u] = mode[u] /\ peer'[u] = peer[u]
           /\ t \notin Receivers => out' = out /\ rcvd' = rcvd
           /\ t \notin Senders => accepted' = accepted /\ refused' = refused
           /\ t \in Senders /\ res = "OK" => accepted' = accepted \cup {Msg(t)} /\ refused' = refused
           /\ t \in Senders /\ res # "OK" => accepted' = accepted /\ refused' = refused \cup {Msg(t)}
           /\ t \in Receivers => out' = [out EXCEPT ![t] = NoMsg]
           /\ t \in Receivers /\ res = "OK" => rcvd' = [rcvd EXCEPT ![t] = Append(rcvd[t], out[t])]
           /\ t \in Receivers /\ res # "OK" => rcvd' = rcvd
BY DEF Return, Goto, TypeOK

\* What a message is made of.
LEMMA MsgFacts ==
    /\ \A m \in Messages : m[1] \in Senders /\ m[1] \in Threads /\ m = <<m[1], m[2]>> /\ m # NoMsg
    /\ \A s : Msg(s)[1] = s /\ Msg(s)[2] = calls[s] /\ Msg(s) = Msg(Msg(s)[1])
BY ChanUnbufAssumption DEF Messages, NoMsg, Msg, Threads

\* As long as the copies, and which messages have left, stay the same.
LEMMA SameCopies ==
    ASSUME PassedIsHeld, OneHolder,
           \A m \in Messages : Holders(m)' = Holders(m),
           \A m \in Messages : Passed(m)' <=> Passed(m)
    PROVE  PassedIsHeld' /\ OneHolder'
<1>1. Messages' = Messages
  BY DEF Messages
<1>2. PassedIsHeld'
  BY <1>1 DEF PassedIsHeld
<1>3. OneHolder'
  BY <1>1 DEF OneHolder
<1> QED BY <1>2, <1>3

\* A call ends without a message: refused, or a close.
LEMMA CopyRefuse ==
    ASSUME WaitInv, PairInv, CopyInv, NEW t \in Threads, NEW res, Return(t, res),
           res # "OK" \/ t \in Closers,
           pc[t] \in {"lock", "parked"}, ~Served(t),
           \A u \in Threads : u # t => (Served(u)' <=> Served(u))
    PROVE  CopyInv'
<1> USE DEF CopyInv
<1>0. TypeOK /\ (t \in Senders \cup Receivers => res # "OK")
  BY ChanUnbufAssumption DEF WaitInv
<1>1. /\ pc'[t] = "idle" /\ calls' = calls
      /\ \A u \in Threads : u # t => pc'[u] = pc[u]
      /\ accepted' = accepted /\ refused' \subseteq refused \cup {Msg(t)} /\ refused \subseteq refused'
      /\ (t \notin Senders => refused' = refused)
      /\ rcvd' = rcvd
  BY <1>0, ReturnFacts
<1>2. out' = out
  <2>1. CASE t \in Receivers
    <3>1. out[t] = NoMsg
      BY <2>1 DEF BufferFull
    <3> QED BY <1>0, <2>1, <3>1, ReturnFacts DEF TypeOK
  <2>2. CASE t \notin Receivers
    BY <1>0, <2>2, ReturnFacts
  <2> QED BY <2>1, <2>2
<1>3. ~Served(t)'
  BY <1>1 DEF Served
<1>4. BufferFull'
  BY <1>1, <1>2, <1>3 DEF BufferFull, Threads, NoMsg
<1>5. \A m \in Messages : Holders(m)' = Holders(m)
  BY <1>1, <1>2 DEF Holders, Elems
<1>6. \A m \in Messages : Passed(m)' <=> Passed(m)
  BY <1>1, <1>3, MsgFacts DEF Passed, Msg
<1>7. PassedIsHeld' /\ OneHolder'
  BY <1>5, <1>6, SameCopies
<1>8. ReturnedOnce'
  BY <1>1, <1>2 DEF ReturnedOnce, Distinct, Elems, NoMsg
<1>9. DecidedAtReturn'
  <2>1. Msg(t) \notin accepted
    BY MsgFacts DEF DecidedAtReturn
  <2>2. accepted' \cap refused' = {}
    BY <1>1, <2>1 DEF DecidedAtReturn
  <2>3. ASSUME NEW m \in accepted' \cup refused'
        PROVE  m[2] <= calls'[m[1]] /\ (m = Msg(m[1])' => pc'[m[1]] = "idle")
    <3>1. CASE m \in accepted \cup refused
      <4>1. m[2] <= calls[m[1]] /\ (m = Msg(m[1]) => pc[m[1]] = "idle")
        BY <3>1 DEF DecidedAtReturn
      <4>2. m[1] \in Threads
        BY <1>0, <3>1, MsgFacts DEF TypeOK
      <4> QED BY <1>1, <4>1, <4>2 DEF Msg
    <3>2. CASE m = Msg(t)
      BY <1>0, <1>1, <3>2, MsgFacts DEF TypeOK
    <3> QED BY <1>1, <3>1, <3>2
  <2> QED BY <2>2, <2>3 DEF DecidedAtReturn
<1> QED BY <1>4, <1>7, <1>8, <1>9

\* A sender whose message was taken returns OK.
LEMMA CopySent ==
    ASSUME WaitInv, PairInv, CopyInv, NEW s \in Senders, Return(s, "OK"),
           pc[s] = "wake" \/ Served(s),
           \A u \in Threads : u # s => (Served(u)' <=> Served(u))
    PROVE  CopyInv'
<1> USE DEF CopyInv
<1>0. TypeOK /\ s \in Threads /\ s \notin Receivers
  BY ChanUnbufAssumption DEF WaitInv, Threads
<1>1. /\ pc'[s] = "idle" /\ calls' = calls
      /\ \A u \in Threads : u # s => pc'[u] = pc[u]
      /\ accepted' = accepted \cup {Msg(s)} /\ refused' = refused
      /\ rcvd' = rcvd /\ out' = out
  BY <1>0, ReturnFacts
<1>2. ~Served(s)' /\ pc[s] # "idle"
  BY <1>1 DEF Served
<1>3. BufferFull'
  BY <1>0, <1>1, <1>2 DEF BufferFull, Threads, NoMsg
<1>4. \A m \in Messages : Holders(m)' = Holders(m)
  BY <1>1 DEF Holders, Elems
<1>5. \A m \in Messages : Passed(m)' <=> Passed(m)
  <2> TAKE m \in Messages
  <2>1. CASE m = Msg(s)
    BY <1>1, <2>1, MsgFacts DEF Passed
  <2>2. CASE m # Msg(s)
    BY <1>1, <1>2, <2>2, MsgFacts DEF Passed, Msg
  <2> QED BY <2>1, <2>2
<1>6. PassedIsHeld' /\ OneHolder'
  BY <1>4, <1>5, SameCopies
<1>7. ReturnedOnce'
  BY <1>1 DEF ReturnedOnce, Distinct, Elems, NoMsg
<1>8. DecidedAtReturn'
  <2>1. Msg(s) \notin refused
    BY <1>2, MsgFacts DEF DecidedAtReturn
  <2>2. accepted' \cap refused' = {}
    BY <1>1, <2>1 DEF DecidedAtReturn
  <2>3. ASSUME NEW m \in accepted' \cup refused'
        PROVE  m[2] <= calls'[m[1]] /\ (m = Msg(m[1])' => pc'[m[1]] = "idle")
    <3>1. CASE m \in accepted \cup refused
      <4>1. m[2] <= calls[m[1]] /\ (m = Msg(m[1]) => pc[m[1]] = "idle")
        BY <3>1 DEF DecidedAtReturn
      <4>2. m[1] \in Threads
        BY <1>0, <3>1, MsgFacts DEF TypeOK
      <4> QED BY <1>1, <4>1, <4>2 DEF Msg
    <3>2. CASE m = Msg(s)
      BY <1>0, <1>1, <3>2, MsgFacts DEF TypeOK
    <3> QED BY <1>1, <3>1, <3>2
  <2> QED BY <2>2, <2>3 DEF DecidedAtReturn
<1> QED BY <1>3, <1>6, <1>7, <1>8

\* A receiver with a full buffer hands it to its caller.
LEMMA CopyReceived ==
    ASSUME WaitInv, PairInv, CopyInv, NEW r \in Receivers, Return(r, "OK"),
           pc[r] = "wake" \/ Served(r),
           \A u \in Threads : u # r => (Served(u)' <=> Served(u))
    PROVE  CopyInv'
<1> USE DEF CopyInv
<1>0. TypeOK /\ r \in Threads /\ r \notin Senders
  BY ChanUnbufAssumption DEF WaitInv, Threads
<1>1. /\ pc'[r] = "idle" /\ calls' = calls
      /\ \A u \in Threads : u # r => pc'[u] = pc[u]
      /\ accepted' = accepted /\ refused' = refused
      /\ out' = [out EXCEPT ![r] = NoMsg] /\ rcvd' = [rcvd EXCEPT ![r] = Append(rcvd[r], out[r])]
  BY <1>0, ReturnFacts
<1>2. ~Served(r)' /\ pc[r] # "idle"
  BY <1>1 DEF Served
<1>3. out[r] # NoMsg /\ out[r] \in Messages
  BY <1>0 DEF BufferFull, TypeOK
<1>4. /\ out'[r] = NoMsg /\ \A q \in Receivers : q # r => out'[q] = out[q] /\ rcvd'[q] = rcvd[q]
      /\ rcvd'[r] = Append(rcvd[r], out[r])
  BY <1>0, <1>1 DEF TypeOK
<1>5. /\ Elems(rcvd'[r]) = Elems(rcvd[r]) \cup {out[r]}
      /\ Distinct(rcvd'[r])
  <2>1. rcvd[r] \in Seq(Messages \cup {NoMsg}) /\ out[r] \in Messages \cup {NoMsg}
    BY <1>0, <1>3 DEF TypeOK
  <2>2. Distinct(rcvd[r]) /\ out[r] \notin Elems(rcvd[r])
    BY DEF ReturnedOnce
  <2> QED BY <1>4, <2>1, <2>2, PushFacts
<1>6. BufferFull'
  BY <1>1, <1>2, <1>4 DEF BufferFull, Threads, NoMsg
<1>7. \A m \in Messages : Holders(m)' = Holders(m)
  <2> SUFFICES ASSUME NEW m \in Messages, NEW q \in Receivers
               PROVE  (out'[q] = m \/ m \in Elems(rcvd'[q])) <=> (out[q] = m \/ m \in Elems(rcvd[q]))
    BY DEF Holders, Elems
  <2>1. CASE q = r
    BY <1>3, <1>4, <1>5, <2>1, MsgFacts
  <2>2. CASE q # r
    BY <1>4, <2>2
  <2> QED BY <2>1, <2>2
<1>8. \A m \in Messages : Passed(m)' <=> Passed(m)
  BY <1>0, <1>1, MsgFacts DEF Passed, Msg
<1>9. PassedIsHeld' /\ OneHolder'
  BY <1>7, <1>8, SameCopies
<1>10. ReturnedOnce'
  <2> SUFFICES ASSUME NEW q \in Receivers
               PROVE  Distinct(rcvd'[q]) /\ NoMsg \notin Elems(rcvd'[q]) /\ out'[q] \notin Elems(rcvd'[q])
    BY DEF ReturnedOnce, Elems, NoMsg
  <2>1. Distinct(rcvd[q]) /\ NoMsg \notin Elems(rcvd[q]) /\ out[q] \notin Elems(rcvd[q])
    BY DEF ReturnedOnce
  <2> QED BY <1>3, <1>4, <1>5, <2>1
<1>11. DecidedAtReturn'
  <2> SUFFICES ASSUME NEW m \in accepted \cup refused
               PROVE  m[2] <= calls'[m[1]] /\ (m = Msg(m[1])' => pc'[m[1]] = "idle")
    BY <1>1 DEF DecidedAtReturn
  <2>1. m[2] <= calls[m[1]] /\ (m = Msg(m[1]) => pc[m[1]] = "idle")
    BY DEF DecidedAtReturn
  <2>2. m[1] \in Threads
    BY <1>0, MsgFacts DEF TypeOK
  <2> QED BY <1>1, <2>1, <2>2 DEF Msg
<1> QED BY <1>6, <1>9, <1>10, <1>11

\* A sender and a receiver meet, whoever came first: the message is copied.
LEMMA CopyMeet ==
    ASSUME WaitInv, PairInv, CopyInv, NEW s \in Senders, NEW r \in Receivers,
           pc[s] \in {"lock", "parked"}, ~Served(s), pc[r] # "wake", ~Served(r),
           out' = [out EXCEPT ![r] = Msg(s)], UNCHANGED hist,
           pc'[s] = "wake" \/ Served(s)', pc'[r] = "wake" \/ Served(r)',
           \A u \in Threads : u # s /\ u # r => pc'[u] = pc[u] /\ (Served(u)' <=> Served(u))
    PROVE  CopyInv'
<1> USE DEF CopyInv
<1>0. TypeOK /\ s \in Threads /\ r \in Threads /\ s \notin Receivers /\ r \notin Senders
  BY ChanUnbufAssumption DEF WaitInv, Threads
<1>1. calls' = calls /\ accepted' = accepted /\ refused' = refused /\ rcvd' = rcvd
  BY DEF hist
<1>2. Msg(s) \in Messages
  BY <1>0, ChanUnbufAssumption DEF WaitInv, CallsBegun, TypeOK, Msg, Messages
<1>3. ~Passed(Msg(s))
  BY MsgFacts DEF Passed, DecidedAtReturn
<1>4. Holders(Msg(s)) = {}
  BY <1>2, <1>3 DEF PassedIsHeld
<1>5. out[r] = NoMsg /\ out'[r] = Msg(s) /\ \A q \in Receivers : q # r => out'[q] = out[q]
  BY <1>0 DEF BufferFull, TypeOK
<1>6. BufferFull'
  <2> SUFFICES ASSUME NEW q \in Receivers
               PROVE  out'[q] # NoMsg <=> pc'[q] = "wake" \/ Served(q)'
    BY DEF BufferFull, NoMsg
  <2>1. CASE q = r
    BY <1>2, <1>5, <2>1, MsgFacts
  <2>2. CASE q # r
    BY <1>0, <1>5, <2>2 DEF BufferFull, Threads
  <2> QED BY <2>1, <2>2
<1>7. \A m \in Messages : m # Msg(s) => Holders(m)' = Holders(m)
  <2> SUFFICES ASSUME NEW m \in Messages, m # Msg(s), NEW q \in Receivers
               PROVE  (out'[q] = m \/ m \in Elems(rcvd[q])) <=> (out[q] = m \/ m \in Elems(rcvd[q]))
    BY <1>1 DEF Holders, Elems
  <2> QED BY <1>5, MsgFacts
<1>8. Holders(Msg(s))' = {r}
  <2>1. \A q \in Receivers : out[q] # Msg(s) /\ Msg(s) \notin Elems(rcvd[q])
    BY <1>4 DEF Holders
  <2>2. Msg(s)' = Msg(s)
    BY <1>1 DEF Msg
  <2>3. Holders(Msg(s))' = {q \in Receivers : out'[q] = Msg(s) \/ Msg(s) \in Elems(rcvd[q])}
    BY <1>1, <2>2 DEF Holders, Elems
  <2> QED BY <1>5, <2>1, <2>3
<1>9. \A m \in Messages : Passed(m)' <=> Passed(m) \/ m = Msg(s)
  <2> TAKE m \in Messages
  <2>1. CASE m = Msg(s)
    BY <1>0, <1>1, <2>1, MsgFacts DEF Passed, Msg
  <2>2. CASE m # Msg(s)
    BY <1>0, <1>1, <2>2, MsgFacts DEF Passed, Msg
  <2> QED BY <2>1, <2>2
<1>10. Messages' = Messages /\ Msg(s)' = Msg(s)
  BY <1>1 DEF Messages, Msg
<1>11. PassedIsHeld'
  BY <1>7, <1>8, <1>9, <1>10 DEF PassedIsHeld
<1>12. OneHolder'
  BY <1>7, <1>8, <1>10 DEF OneHolder
<1>13. ReturnedOnce'
  <2> SUFFICES ASSUME NEW q \in Receivers
               PROVE  Distinct(rcvd[q]) /\ NoMsg \notin Elems(rcvd[q]) /\ out'[q] \notin Elems(rcvd[q])
    BY <1>1 DEF ReturnedOnce, Elems, NoMsg, Distinct
  <2>1. Msg(s) \notin Elems(rcvd[q])
    BY <1>4 DEF Holders
  <2> QED BY <1>5, <2>1 DEF ReturnedOnce
<1>14. DecidedAtReturn'
  <2> SUFFICES ASSUME NEW m \in accepted \cup refused
               PROVE  m[2] <= calls[m[1]] /\ (m = Msg(m[1]) => pc'[m[1]] = "idle")
    BY <1>1 DEF DecidedAtReturn, Msg
  <2>1. m[2] <= calls[m[1]] /\ (m = Msg(m[1]) => pc[m[1]] = "idle")
    BY DEF DecidedAtReturn
  <2>2. m[1] \in Senders /\ m[1] \in Threads
    BY <1>0, MsgFacts DEF TypeOK
  <2> QED BY <1>0, <2>1, <2>2
<1> QED BY <1>6, <1>11, <1>12, <1>13, <1>14

\* A call begins, or parks: no message moves.
LEMMA CopyQuiet ==
    ASSUME WaitInv, PairInv, CopyInv, NEW t \in Threads,
           \/ pc[t] = "idle" /\ pc'[t] = "lock" /\ calls' = [calls EXCEPT ![t] = @ + 1]
           \/ pc[t] = "lock" /\ pc'[t] = "parked" /\ calls' = calls,
           \A u \in Threads : u # t => pc'[u] = pc[u],
           \A u \in Threads : Served(u)' <=> Served(u),
           UNCHANGED <<out, accepted, refused, rcvd>>
    PROVE  CopyInv'
<1> USE DEF CopyInv
<1>0. TypeOK
  BY DEF WaitInv
<1>1. /\ ~Served(t) /\ ~Served(t)' /\ calls[t] \in Nat
      /\ \A u \in Threads : u # t => calls'[u] = calls[u]
      /\ calls'[t] = calls[t] \/ (calls'[t] = calls[t] + 1 /\ pc[t] = "idle")
      /\ pc[t] = "idle" => calls'[t] = calls[t] + 1
  BY <1>0 DEF Served, TypeOK
<1>2. BufferFull'
  BY DEF BufferFull, Threads, NoMsg
<1>3. \A m \in Messages : Holders(m)' = Holders(m)
  BY DEF Holders, Elems
<1>4. \A m \in Messages : Passed(m)' <=> Passed(m)
  <2> TAKE m \in Messages
  <2>1. CASE m[1] = t
    BY <1>1, <2>1 DEF Passed
  <2>2. CASE m[1] # t
    BY <1>1, <2>2, MsgFacts DEF Passed, Msg
  <2> QED BY <2>1, <2>2
<1>5. PassedIsHeld' /\ OneHolder'
  BY <1>3, <1>4, SameCopies
<1>6. ReturnedOnce'
  BY DEF ReturnedOnce, Distinct, Elems, NoMsg
<1>7. DecidedAtReturn'
  <2> SUFFICES ASSUME NEW m \in accepted \cup refused
               PROVE  m[2] <= calls'[m[1]] /\ (m = Msg(m[1])' => pc'[m[1]] = "idle")
    BY DEF DecidedAtReturn
  <2>1. m[2] <= calls[m[1]] /\ (m = Msg(m[1]) => pc[m[1]] = "idle")
    BY DEF DecidedAtReturn
  <2>2. m \in Messages /\ m[1] \in Threads /\ m = <<m[1], m[2]>> /\ m[2] \in Nat
    BY <1>0, MsgFacts DEF TypeOK, Messages
  <2>3. CASE m[1] = t
    <3>1. m[2] # calls'[t]
      BY <1>1, <2>1, <2>2, <2>3 DEF Msg
    <3> QED BY <1>1, <2>1, <2>2, <2>3, <3>1 DEF Msg
  <2>4. CASE m[1] # t
    BY <1>1, <2>1, <2>2, <2>4 DEF Msg
  <2> QED BY <2>3, <2>4
<1> QED BY <1>2, <1>5, <1>6, <1>7

\* The message of an arriving sender goes into the buffer of a waiting receiver.
LEMMA HandSendMeet ==
    ASSUME WaitInv, PairInv, CopyInv, NEW s \in Senders, SendMeet(s)
    PROVE  PairInv' /\ CopyInv'
<1>w. PICK w : w = Head(recvq)
  OBVIOUS
<1>0. TypeOK /\ Distinct(sendq) /\ Distinct(recvq) /\ s \in Threads /\ s \in Senders \cup Receivers
  BY DEF WaitInv, PairInv, QueuedOnce, Threads
<1>1. /\ w \in Receivers /\ w \in Elems(recvq)
      /\ Elems(recvq) = Elems(Tail(recvq)) \cup {w}
      /\ Distinct(Tail(recvq)) /\ w \notin Elems(Tail(recvq))
  BY <1>w, <1>0, PopFacts DEF SendMeet, TypeOK
<1>2. /\ sendq' = sendq /\ recvq' = Tail(recvq) /\ pc[s] = "lock" /\ Serve(s, w)
      /\ UNCHANGED <<mode, word, hist>> /\ out' = [out EXCEPT ![w] = Msg(s)]
  BY <1>w DEF SendMeet
<1>3. w \in Threads /\ w \notin Elems(sendq)
  <2>1. Elems(sendq) \subseteq Senders
    BY <1>0, LenProperties, ElementOfSeq DEF TypeOK, Elems
  <2> QED BY <1>1, <2>1, ChanUnbufAssumption DEF Threads
<1>4. Elems(sendq)' = Elems(sendq) /\ Elems(recvq)' = Elems(Tail(recvq))
  BY <1>2 DEF Elems
<1>5. Queued(w) /\ ~Queued(w)' /\ \A u \in Threads : u # w => (Queued(u)' <=> Queued(u))
  BY <1>1, <1>3, <1>4 DEF Queued
<1>6. /\ PairInv' /\ Served(w)'
      /\ \A u \in Threads : u # s /\ u # w => (Served(u)' <=> Served(u))
  BY <1>0, <1>1, <1>2, <1>3, <1>5, PairServe
<1>7. pc'[s] = "wake" /\ \A u \in Threads : u # s => pc'[u] = pc[u]
  BY <1>0, <1>2 DEF Serve, Goto, TypeOK
<1>8. pc[w] = "parked" /\ ~Served(w) /\ ~Served(s)
  BY <1>2, <1>3, <1>5 DEF PairInv, QueuedAsleep, Parked, Served
<1>9. CopyInv'
  BY <1>0, <1>1, <1>2, <1>6, <1>7, <1>8, CopyMeet DEF hist
<1> QED BY <1>6, <1>9

\* The message of a waiting sender goes into the buffer of an arriving receiver.
LEMMA HandRecvMeet ==
    ASSUME WaitInv, PairInv, CopyInv, NEW r \in Receivers, RecvMeet(r)
    PROVE  PairInv' /\ CopyInv'
<1>w. PICK w : w = Head(sendq)
  OBVIOUS
<1>0. TypeOK /\ Distinct(recvq) /\ Distinct(sendq) /\ r \in Threads /\ r \in Receivers \cup Senders
  BY DEF WaitInv, PairInv, QueuedOnce, Threads
<1>1. /\ w \in Senders /\ w \in Elems(sendq)
      /\ Elems(sendq) = Elems(Tail(sendq)) \cup {w}
      /\ Distinct(Tail(sendq)) /\ w \notin Elems(Tail(sendq))
  BY <1>w, <1>0, PopFacts DEF RecvMeet, TypeOK
<1>2. /\ recvq' = recvq /\ sendq' = Tail(sendq) /\ pc[r] = "lock" /\ Serve(r, w)
      /\ UNCHANGED <<mode, word, hist>> /\ out' = [out EXCEPT ![r] = Msg(w)]
  BY <1>w DEF RecvMeet
<1>3. w \in Threads /\ w \notin Elems(recvq)
  <2>1. Elems(recvq) \subseteq Receivers
    BY <1>0, LenProperties, ElementOfSeq DEF TypeOK, Elems
  <2> QED BY <1>1, <2>1, ChanUnbufAssumption DEF Threads
<1>4. Elems(recvq)' = Elems(recvq) /\ Elems(sendq)' = Elems(Tail(sendq))
  BY <1>2 DEF Elems
<1>5. Queued(w) /\ ~Queued(w)' /\ \A u \in Threads : u # w => (Queued(u)' <=> Queued(u))
  BY <1>1, <1>3, <1>4 DEF Queued
<1>6. /\ PairInv' /\ Served(w)'
      /\ \A u \in Threads : u # r /\ u # w => (Served(u)' <=> Served(u))
  BY <1>0, <1>1, <1>2, <1>3, <1>5, PairServe
<1>7. pc'[r] = "wake" /\ \A u \in Threads : u # r => pc'[u] = pc[u]
  BY <1>0, <1>2 DEF Serve, Goto, TypeOK
<1>8. pc[w] = "parked" /\ ~Served(w) /\ ~Served(r)
  BY <1>2, <1>3, <1>5 DEF PairInv, QueuedAsleep, Parked, Served
<1>9. CopyInv'
  BY <1>0, <1>1, <1>2, <1>6, <1>7, <1>8, CopyMeet DEF hist
<1> QED BY <1>6, <1>9

\* A sender waits with its message.
LEMMA HandSendPark ==
    ASSUME WaitInv, PairInv, CopyInv, NEW s \in Senders, SendPark(s)
    PROVE  PairInv' /\ CopyInv'
<1>0. TypeOK /\ Distinct(sendq) /\ Distinct(recvq) /\ s \in Threads /\ pc[s] = "lock"
  BY DEF WaitInv, PairInv, QueuedOnce, Threads, SendPark
<1>1. ~Queued(s)
  BY <1>0 DEF PairInv, QueuedAsleep, Parked
<1>2. sendq' = Append(sendq, s) /\ recvq' = recvq /\ Register(s) /\ UNCHANGED <<mode, peer, out, hist>>
  BY DEF SendPark
<1>3. Elems(Append(sendq, s)) = Elems(sendq) \cup {s} /\ Distinct(Append(sendq, s))
  BY <1>0, <1>1, PushFacts DEF TypeOK, Queued
<1>4. Distinct(sendq') /\ Distinct(recvq')
  BY <1>0, <1>2, <1>3
<1>5. Elems(sendq)' = Elems(sendq) \cup {s} /\ Elems(recvq)' = Elems(recvq)
  BY <1>2, <1>3 DEF Elems
<1>6. Queued(s)' /\ \A u \in Threads : u # s => (Queued(u)' <=> Queued(u))
  BY <1>5 DEF Queued
<1>7. PairInv' /\ \A u \in Threads : Served(u)' <=> Served(u)
  BY <1>0, <1>2, <1>4, <1>6, PairPark
<1>8. pc'[s] = "parked" /\ \A u \in Threads : u # s => pc'[u] = pc[u]
  BY <1>0, <1>2 DEF Register, Goto, TypeOK
<1>9. CopyInv'
  BY <1>0, <1>2, <1>7, <1>8, CopyQuiet DEF hist
<1> QED BY <1>7, <1>9

\* A receiver waits with an empty buffer.
LEMMA HandRecvPark ==
    ASSUME WaitInv, PairInv, CopyInv, NEW r \in Receivers, RecvPark(r)
    PROVE  PairInv' /\ CopyInv'
<1>0. TypeOK /\ Distinct(recvq) /\ Distinct(sendq) /\ r \in Threads /\ pc[r] = "lock"
  BY DEF WaitInv, PairInv, QueuedOnce, Threads, RecvPark
<1>1. ~Queued(r)
  BY <1>0 DEF PairInv, QueuedAsleep, Parked
<1>2. recvq' = Append(recvq, r) /\ sendq' = sendq /\ Register(r) /\ UNCHANGED <<mode, peer, out, hist>>
  BY DEF RecvPark
<1>3. Elems(Append(recvq, r)) = Elems(recvq) \cup {r} /\ Distinct(Append(recvq, r))
  BY <1>0, <1>1, PushFacts DEF TypeOK, Queued
<1>4. Distinct(recvq') /\ Distinct(sendq')
  BY <1>0, <1>2, <1>3
<1>5. Elems(recvq)' = Elems(recvq) \cup {r} /\ Elems(sendq)' = Elems(sendq)
  BY <1>2, <1>3 DEF Elems
<1>6. Queued(r)' /\ \A u \in Threads : u # r => (Queued(u)' <=> Queued(u))
  BY <1>5 DEF Queued
<1>7. PairInv' /\ \A u \in Threads : Served(u)' <=> Served(u)
  BY <1>0, <1>2, <1>4, <1>6, PairPark
<1>8. pc'[r] = "parked" /\ \A u \in Threads : u # r => pc'[u] = pc[u]
  BY <1>0, <1>2 DEF Register, Goto, TypeOK
<1>9. CopyInv'
  BY <1>0, <1>2, <1>7, <1>8, CopyQuiet DEF hist
<1> QED BY <1>7, <1>9

\* A call begins, in a form without a timeout.
LEMMA HandCall ==
    ASSUME WaitInv, PairInv, CopyInv, NEW t \in Threads, NEW m, m # "timed", Call(t, m)
    PROVE  PairInv' /\ CopyInv'
<1>0. TypeOK
  BY DEF WaitInv
<1>1. /\ pc[t] = "idle" /\ pc'[t] = "lock" /\ mode'[t] = m
      /\ calls' = [calls EXCEPT ![t] = @ + 1]
      /\ \A u \in Threads : u # t => /\ pc'[u] = pc[u] /\ mode'[u] = mode[u]
                                      /\ peer'[u] = peer[u] /\ calls'[u] = calls[u]
  BY <1>0 DEF Call, Goto, TypeOK
<1>2. UNCHANGED <<sendq, recvq, word, result, out, accepted, refused, rcvd>>
  BY DEF Call, queues, waiters
<1>3. \A u : Queued(u)' <=> Queued(u)
  BY <1>2 DEF Queued, Elems
<1>4. \A u \in Threads : Served(u)' <=> Served(u)
  BY <1>1, <1>2, <1>3 DEF Served
<1>5. ~Parked(t) /\ ~Queued(t)
  BY <1>1 DEF PairInv, QueuedAsleep, Parked
<1>6. PairInv'
  BY <1>1, <1>2, <1>3, <1>5, PairOther
<1>7. CopyInv'
  BY <1>1, <1>2, <1>4, CopyQuiet
<1> QED BY <1>6, <1>7

\* A call returns and neither queue nor any waiter changes.
LEMMA HandReturn ==
    ASSUME WaitInv, PairInv, NEW t \in Threads, NEW res, Return(t, res),
           pc[t] = "lock" \/ (pc[t] = "parked" /\ word[t] = 1),
           UNCHANGED <<sendq, recvq, word, result>>
    PROVE  PairInv' /\ ~Queued(t) /\ \A u \in Threads : u # t => (Served(u)' <=> Served(u))
<1>0. TypeOK
  BY DEF WaitInv
<1>1. /\ pc'[t] = "idle" /\ mode'[t] = "block" /\ calls' = calls
      /\ \A u \in Threads : u # t => /\ pc'[u] = pc[u] /\ mode'[u] = mode[u] /\ peer'[u] = peer[u]
  BY <1>0, ReturnFacts
<1>2. \A u : Queued(u)' <=> Queued(u)
  BY DEF Queued, Elems
<1>3. ~Parked(t) /\ ~Queued(t)
  BY DEF PairInv, QueuedAsleep, Parked
<1>4. \A u \in Threads : u # t => (Served(u)' <=> Served(u))
  BY <1>1, <1>2 DEF Served
<1> QED BY <1>1, <1>2, <1>3, <1>4, PairOther

\* A call is turned away, or a close finds the channel closed.
LEMMA HandRefuse ==
    ASSUME WaitInv, PairInv, CopyInv, NEW t \in Threads, NEW res, Return(t, res),
           pc[t] = "lock", res # "OK" \/ t \in Closers, UNCHANGED <<sendq, recvq, word, result>>
    PROVE  PairInv' /\ CopyInv'
<1>1. PairInv' /\ \A u \in Threads : u # t => (Served(u)' <=> Served(u))
  BY HandReturn
<1>2. ~Served(t)
  BY DEF Served
<1> QED BY <1>1, <1>2, CopyRefuse

\* A woken waiter returns what its waker, or the close, has left it.
LEMMA HandWoken ==
    ASSUME WaitInv, PairInv, CopyInv, NEW t \in Senders \cup Receivers, Woken(t)
    PROVE  PairInv' /\ CopyInv'
<1>0. /\ t \in Threads /\ pc[t] = "parked" /\ word[t] = 1 /\ Return(t, result[t])
      /\ UNCHANGED <<sendq, recvq, word, result>>
  BY DEF Woken, Threads
<1>1. PairInv' /\ ~Queued(t) /\ \A u \in Threads : u # t => (Served(u)' <=> Served(u))
  BY <1>0, HandReturn
<1>2. CASE result[t] = "OK"
  <2>1. Served(t) /\ Return(t, "OK")
    BY <1>0, <1>1, <1>2 DEF Served
  <2> QED BY <1>1, <2>1, CopySent, CopyReceived
<1>3. CASE result[t] # "OK"
  <2>1. ~Served(t)
    BY <1>3 DEF Served
  <2> QED BY <1>0, <1>1, <1>3, <2>1, CopyRefuse
<1> QED BY <1>2, <1>3

\* A waker returns with its side of the exchange done.
LEMMA HandWake ==
    ASSUME WaitInv, PairInv, CopyInv, NEW t \in Senders \cup Receivers, Wake(t)
    PROVE  PairInv' /\ CopyInv'
<1>0. t \in Threads /\ TypeOK /\ pc[t] = "wake" /\ Return(t, "OK") /\ result' = result
  BY DEF Wake, Threads, WaitInv
<1>1. PairInv'
  BY <1>0, PairWake
<1>2. \A u : Queued(u)' <=> Queued(u)
  BY DEF Wake, queues, Queued, Elems
<1>3. \A u \in Threads : u # t => pc'[u] = pc[u]
  BY <1>0, ReturnFacts
<1>4. \A u \in Threads : u # t => (Served(u)' <=> Served(u))
  BY <1>0, <1>2, <1>3 DEF Served
<1>5. CopyInv'
  BY <1>0, <1>4, CopySent, CopyReceived
<1> QED BY <1>1, <1>5

\* The close: waiters nobody has served leave with their messages.
LEMMA HandClose ==
    ASSUME WaitInv, PairInv, CopyInv, NEW c \in Closers, Close(c)
    PROVE  PairInv' /\ CopyInv'
<1>0. c \in Threads /\ pc[c] = "lock" /\ Return(c, "OK")
  BY DEF Close, Threads
<1>1. CASE closed
  <2>1. UNCHANGED <<sendq, recvq, word, result>>
    BY <1>1 DEF Close
  <2> QED BY <1>0, <2>1, HandRefuse
<1>2. CASE ~closed
  <2>1. PairInv' /\ \A u \in Threads : Served(u)' <=> Served(u)
    BY <1>2, PairClose
  <2>2. ~Served(c)
    BY <1>0 DEF Served
  <2> QED BY <1>0, <2>1, <2>2, CopyRefuse
<1> QED BY <1>1, <1>2

\* Without timed calls every step keeps the three invariants.
LEMMA HandNext ==
    ASSUME "timed" \notin Modes
    PROVE  WaitInv /\ PairInv /\ CopyInv /\ [Next]_vars => PairInv' /\ CopyInv'
<1> SUFFICES ASSUME WaitInv, PairInv, CopyInv, [Next]_vars PROVE PairInv' /\ CopyInv'
  OBVIOUS
<1>1. CASE UNCHANGED vars
  <2> USE <1>1 DEF vars, queues, locals, waiters, hist
  <2>1. /\ \A t : Queued(t)' <=> Queued(t)
        /\ \A m : Holders(m)' = Holders(m)
        /\ \A t : Msg(t)' = Msg(t)
    BY DEF Queued, Elems, Holders, Msg
  <2>2. \A t : (Parked(t)' <=> Parked(t)) /\ (Served(t)' <=> Served(t))
    BY <2>1 DEF Parked, Served
  <2>3. PairInv'
    BY <2>1, <2>2 DEF PairInv, NoTimedCalls, QueuedOnce, Distinct, QueuedAsleep, WakerOwnsWaiter,
          WakersApart
  <2>4. PassedIsHeld' /\ OneHolder'
    BY <2>1, <2>2, SameCopies DEF CopyInv, Passed
  <2>5. BufferFull' /\ ReturnedOnce' /\ DecidedAtReturn'
    BY <2>1, <2>2 DEF CopyInv, BufferFull, ReturnedOnce, DecidedAtReturn, Distinct, Elems, NoMsg
  <2> QED BY <2>3, <2>4, <2>5 DEF CopyInv
<1>2. ASSUME NEW t \in Senders \cup Receivers, CallAny(t) PROVE PairInv' /\ CopyInv'
  <2>1. PICK m \in Modes : Call(t, m)
    BY <1>2 DEF CallAny
  <2> QED BY <2>1, HandCall DEF Threads
<1>3. ASSUME NEW t \in Senders \cup Receivers, ParkStep(t) PROVE PairInv' /\ CopyInv'
  <2>1. t \in Threads
    BY DEF Threads
  <2>2. ~Timeout(t) /\ ~TimeoutRemove(t) /\ ~TimeoutReturn(t)
    BY <2>1 DEF Timeout, TimeoutRemove, TimeoutReturn, PairInv, NoTimedCalls
  <2> QED BY <1>3, <2>2, HandWoken DEF ParkStep
<1>4. ASSUME NEW s \in Senders, SendStep(s) PROVE PairInv' /\ CopyInv'
  <2>0. s \in Threads /\ s \in Senders \cup Receivers
    BY DEF Threads
  <2>1. CASE SendClosed(s) \/ SendWouldBlock(s)
    BY <2>0, <2>1, HandRefuse DEF SendClosed, SendWouldBlock, queues
  <2> QED BY <1>3, <1>4, <2>0, <2>1, HandSendMeet, HandSendPark, HandWake DEF SendStep
<1>5. ASSUME NEW r \in Receivers, RecvStep(r) PROVE PairInv' /\ CopyInv'
  <2>0. r \in Threads /\ r \in Senders \cup Receivers
    BY DEF Threads
  <2>1. CASE RecvClosed(r) \/ RecvWouldBlock(r)
    BY <2>0, <2>1, HandRefuse DEF RecvClosed, RecvWouldBlock, queues
  <2> QED BY <1>3, <1>5, <2>0, <2>1, HandRecvMeet, HandRecvPark, HandWake DEF RecvStep
<1>6. ASSUME NEW c \in Closers, Call(c, "block") \/ Close(c) PROVE PairInv' /\ CopyInv'
  BY <1>6, HandCall, HandClose DEF Threads
<1> QED BY <1>1, <1>2, <1>4, <1>5, <1>6 DEF Next

\* In the initial state nobody waits and there are no messages.
LEMMA HandInit == Init => PairInv /\ CopyInv
<1> SUFFICES ASSUME Init PROVE PairInv /\ CopyInv
  OBVIOUS
<1>1. \A t \in Threads : pc[t] = "idle" /\ mode[t] = "block" /\ ~Queued(t) /\ ~Served(t)
  BY EmptyFacts DEF Init, Queued, Served
<1>2. PairInv
  BY <1>1, EmptyFacts DEF PairInv, NoTimedCalls, QueuedOnce, QueuedAsleep, WakerOwnsWaiter,
        WakersApart, Init
<1>3. \A r \in Receivers : out[r] = NoMsg /\ rcvd[r] = << >> /\ r \in Threads
  BY DEF Init, Threads
<1>4. \A m \in Messages : Holders(m) = {} /\ ~Passed(m)
  BY <1>1, <1>3, EmptyFacts, MsgFacts DEF Holders, Passed, Init
<1>5. CopyInv
  BY <1>1, <1>3, <1>4, EmptyFacts DEF CopyInv, BufferFull, PassedIsHeld, OneHolder, ReturnedOnce,
        DecidedAtReturn, Init
<1> QED BY <1>2, <1>5

\* Without timed calls every send that returned OK has its message with one
\* receiver, once, and no refused message is received.
THEOREM DeliveredOnce ==
    ASSUME "timed" \notin Modes
    PROVE  Spec => []ExactlyOnce
<1>1. WaitInv /\ PairInv /\ CopyInv => ExactlyOnce
  <2> SUFFICES ASSUME WaitInv, CopyInv PROVE ExactlyOnce
    OBVIOUS
  <2> USE DEF CopyInv
  <2>1. accepted \subseteq Messages /\ refused \subseteq Messages
    BY DEF WaitInv, TypeOK
  <2>2. ASSUME NEW m \in accepted PROVE Cardinality(Holders(m)) = 1
    <3>1. Passed(m)
      BY DEF Passed
    <3>2. PICK r : r \in Holders(m)
      BY <2>1, <3>1 DEF PassedIsHeld
    <3>3. Holders(m) = {r}
      BY <2>1, <3>2 DEF OneHolder
    <3> QED BY <3>3, FS_Singleton
  <2>3. ASSUME NEW m \in refused PROVE Holders(m) = {}
    <3>1. m \notin accepted
      BY DEF DecidedAtReturn
    <3>2. m[1] \in Threads /\ (m = Msg(m[1]) => pc[m[1]] = "idle")
      BY <2>1, MsgFacts DEF DecidedAtReturn
    <3>3. ~Passed(m)
      BY <3>1, <3>2 DEF Passed, Served
    <3> QED BY <2>1, <3>3 DEF PassedIsHeld
  <2> QED BY <2>2, <2>3 DEF ExactlyOnce, ReturnedOnce
<1>2. Init => WaitInv /\ PairInv /\ CopyInv
  BY WaitInit, HandInit
<1>3. WaitInv /\ PairInv /\ CopyInv /\ [Next]_vars => (WaitInv /\ PairInv /\ CopyInv)'
  BY WaitNext, HandNext
<1> QED BY <1>1, <1>2, <1>3, PTL DEF Spec
==============================================================================
