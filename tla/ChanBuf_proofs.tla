--------------------------- MODULE ChanBuf_proofs ----------------------------
(***************************************************************************)
(* Proofs about the buffered channel, for any capacity and any number of   *)
(* senders, receivers, closers and calls.                                  *)
(***************************************************************************)
EXTENDS ChanBuf, WaitQ_proofs

------------------------------------------------------------------------------
(* Stacks of labels.                                                       *)

Returns == {"done", "sPark"}

\* The two kinds of stack.
LEMMA PlainStack ==
    ASSUME NEW l \in PlainLabels
    PROVE  <<l>> \in Stacks /\ Head(<<l>>) = l /\ Bottom(<<l>>) = l /\ Tail(<<l>>) = << >>
BY DEF Stacks, Bottom

\* A helper's stack has the label it returns to at its bottom.
LEMMA HelperStack ==
    ASSUME NEW l \in HelperLabels, NEW r \in Returns
    PROVE  /\ <<l, r>> \in Stacks /\ Head(<<l, r>>) = l /\ Bottom(<<l, r>>) = r
           /\ Tail(<<l, r>>) = <<r>> /\ <<l>> \o <<r>> = <<l, r>>
<1>1. <<l, r>> \in Stacks
  BY DEF Stacks, Returns
<1>2. Head(<<l, r>>) = l /\ Bottom(<<l, r>>) = r
  BY DEF Bottom
<1>3. Tail(<<l, r>>) = <<r>>
  OBVIOUS
<1>4. <<l>> \o <<r>> = <<l, r>>
  <2> DEFINE S == {l, r}
             c == <<l>> \o <<r>>
  <2>1. <<l>> \in Seq(S) /\ <<r>> \in Seq(S) /\ <<l, r>> \in Seq(S)
    OBVIOUS
  <2>2. /\ c \in Seq(S) /\ Len(c) = Len(<<l>>) + Len(<<r>>)
        /\ \A i \in 1..(Len(<<l>>) + Len(<<r>>)) : c[i] = IF i <= Len(<<l>>) THEN <<l>>[i] ELSE <<r>>[i - Len(<<l>>)]
    BY <2>1, ConcatProperties
  <2> HIDE DEF c
  <2>3. Len(c) = 2 /\ c[1] = l /\ c[2] = r
    BY <2>2
  <2>4. Len(c) = Len(<<l, r>>) /\ \A i \in 1..Len(c) : c[i] = <<l, r>>[i]
    BY <2>3
  <2>5. c = <<l, r>>
    BY <2>1, <2>2, <2>4, SeqEqual
  <2> QED BY <2>5 DEF c
<1> QED BY <1>1, <1>2, <1>3, <1>4

\* The labels of a ring operation are not those of a helper.
LEMMA LabelsApart ==
    /\ PlainLabels \cap HelperLabels = {} /\ RingLabels \subseteq PlainLabels
    /\ PushLabels \cap PopLabels = {}
BY DEF PlainLabels, HelperLabels, RingLabels, PushLabels, PopLabels

\* Every stack is of one of the two kinds.
LEMMA StackCases ==
    ASSUME NEW a \in Stacks
    PROVE  /\ Head(a) \in PlainLabels \cup HelperLabels
           /\ Head(a) \in PlainLabels => a = <<Head(a)>> /\ Bottom(a) = Head(a)
           /\ Head(a) \in HelperLabels => \E r \in Returns : a = <<Head(a), r>> /\ Tail(a) = <<r>> /\ Bottom(a) = r
<1>1. CASE \E l \in PlainLabels : a = <<l>>
  BY <1>1, PlainStack, LabelsApart
<1>2. CASE \E l \in HelperLabels, r \in Returns : a = <<l, r>>
  <2>1. PICK l \in HelperLabels, r \in Returns : a = <<l, r>>
    BY <1>2
  <2>2. Head(a) = l /\ Bottom(a) = r /\ Tail(a) = <<r>>
    BY <2>1, HelperStack
  <2> QED BY <2>1, <2>2, LabelsApart
<1> QED BY <1>1, <1>2 DEF Stacks, Returns

\* Where a ring operation returns to on success and on failure go together.
LEMMA ExitFacts ==
    ASSUME NEW ok, NEW fail, <<ok, fail>> \in Exits
    PROVE  /\ ok \in Stacks /\ fail \in Stacks
           /\ Head(ok) \notin RingLabels /\ Head(fail) \notin RingLabels
           /\ Head(ok) \in Locking <=> Head(fail) \in Locking
           /\ Head(ok) \in HasSender <=> Head(fail) \in HasSender
           /\ Head(ok) \in HasReceiver <=> Head(fail) \in HasReceiver
           /\ Head(ok) \in Closing <=> Head(fail) \in Closing
           /\ Head(ok) \in {"sAgain", "rAgain"} <=> Head(fail) = "unlockPark"
           /\ Head(ok) \notin {"idle", "rWake", "parked", "timedOut", "timeoutDec", "unlockPark"}
           /\ Head(fail) \notin {"idle", "rWake", "parked", "timedOut", "timeoutDec", "sAgain", "rAgain"}
           /\ Bottom(ok) = "sPark" => Bottom(fail) = "sPark"
<1> USE DEF Locking, HasSender, HasReceiver, Closing, PlainLabels, HelperLabels, RingLabels, PushLabels, PopLabels, Returns
<1>1. CASE ok = <<"sPushed">> /\ fail \in {<<"sLock">>, <<"sClosed">>, <<"bNone">>}
  <2>1. /\ ok \in Stacks /\ Head(ok) = "sPushed" /\ Bottom(ok) = "sPushed"
        /\ fail \in Stacks /\ Head(fail) \in {"sLock", "sClosed", "bNone"}
    BY <1>1, PlainStack
  <2> QED BY <2>1
<1>2. CASE ok = <<"rPopped">> /\ fail \in {<<"rEmpty">>, <<"bNone">>}
  <2>1. /\ ok \in Stacks /\ Head(ok) = "rPopped" /\ Bottom(ok) = "rPopped"
        /\ fail \in Stacks /\ Head(fail) \in {"rEmpty", "bNone"}
    BY <1>2, PlainStack
  <2> QED BY <2>1
<1>3. CASE ok = <<"deliver", "done">> /\ fail = <<"deliver", "sPark">>
  <2>1. /\ ok \in Stacks /\ Head(ok) = "deliver" /\ Bottom(ok) = "done"
        /\ fail \in Stacks /\ Head(fail) = "deliver"
    BY <1>3, HelperStack
  <2> QED BY <2>1
<1>4. CASE \E r \in Returns : ok = <<"delivered", r>> /\ fail = <<"undelivered", r>>
  <2>1. PICK r \in Returns : ok = <<"delivered", r>> /\ fail = <<"undelivered", r>>
    BY <1>4
  <2>2. /\ ok \in Stacks /\ Head(ok) = "delivered" /\ Bottom(ok) = r
        /\ fail \in Stacks /\ Head(fail) = "undelivered" /\ Bottom(fail) = r
    BY <2>1, HelperStack
  <2> QED BY <2>2
<1>5. CASE \E r \in Returns : ok = <<"admitted", r>> /\ fail = <<"unadmitted", r>>
  <2>1. PICK r \in Returns : ok = <<"admitted", r>> /\ fail = <<"unadmitted", r>>
    BY <1>5
  <2>2. /\ ok \in Stacks /\ Head(ok) = "admitted" /\ Bottom(ok) = r
        /\ fail \in Stacks /\ Head(fail) = "unadmitted" /\ Bottom(fail) = r
    BY <2>1, HelperStack
  <2> QED BY <2>2
<1>6. CASE \/ ok = <<"sAgain">> /\ fail = <<"unlockPark">>
           \/ ok = <<"rAgain">> /\ fail = <<"unlockPark">>
  <2>1. /\ ok \in Stacks /\ Head(ok) \in {"sAgain", "rAgain"} /\ Bottom(ok) \in {"sAgain", "rAgain"}
        /\ fail \in Stacks /\ Head(fail) = "unlockPark"
    BY <1>6, PlainStack
  <2> QED BY <2>1
<1>7. CASE ok = <<"rHelp">> /\ fail = <<"rMeet">>
  <2>1. /\ ok \in Stacks /\ Head(ok) = "rHelp" /\ Bottom(ok) = "rHelp"
        /\ fail \in Stacks /\ Head(fail) = "rMeet"
    BY <1>7, PlainStack
  <2> QED BY <2>1
<1>8. CASE ok = <<"rHelped">> /\ fail = <<"rHelpFailed">>
  <2>1. /\ ok \in Stacks /\ Head(ok) = "rHelped" /\ Bottom(ok) = "rHelped"
        /\ fail \in Stacks /\ Head(fail) = "rHelpFailed"
    BY <1>8, PlainStack
  <2> QED BY <2>1
<1>9. CASE ok = <<"cGiven">> /\ fail = <<"cRefused">>
  <2>1. /\ ok \in Stacks /\ Head(ok) = "cGiven" /\ Bottom(ok) = "cGiven"
        /\ fail \in Stacks /\ Head(fail) = "cRefused"
    BY <1>9, PlainStack
  <2> QED BY <2>1
<1> QED BY <1>1, <1>2, <1>3, <1>4, <1>5, <1>6, <1>7, <1>8, <1>9 DEF Exits

------------------------------------------------------------------------------
(* Steps of one thread.                                                    *)

Fields == {"at", "ok", "fail", "w", "old", "mode", "spin"}

\* A step of t leaves t at a position the code knows, and the others alone.
Steps(t) ==
    /\ DOMAIN th' = Threads /\ Fields \subseteq DOMAIN th'[t]
    /\ th'[t].at \in Stacks
    /\ Head(th'[t].at) \in RingLabels => <<th'[t].ok, th'[t].fail>> \in Exits
    /\ \A u \in Threads : u # t => th'[u] = th[u]

\* What the invariants look at besides the positions.
Quiet == UNCHANGED <<lock, sendq, recvq, sendCnt, recvCnt, closed, word, calls>>

\* The others do what they did.
LEMMA OthersStay ==
    ASSUME NEW t \in Threads, Steps(t), NEW u \in Threads, u # t
    PROVE  Doing(u)' = Doing(u) /\ MayPark(u)' = MayPark(u) /\ InRing(u)' = InRing(u)
BY DEF Steps, Doing, MayPark, InRing

\* Ring operations are over or not.
LEMMA DoingFacts ==
    ASSUME FrameInv, NEW t \in Threads
    PROVE  /\ InRing(t) => Doing(t) = Head(th[t].ok) /\ Doing(t) \notin RingLabels
           /\ ~InRing(t) => Doing(t) = Head(th[t].at)
           /\ Doing(t) \notin RingLabels
           /\ \A l \in PlainLabels \cup HelperLabels : At(t, l) /\ l \notin RingLabels => Doing(t) = l /\ ~InRing(t)
BY ExitFacts DEF FrameInv, Doing, InRing, At

\* Positions after a step to a plain label, a helper's label or a ring operation.
LEMMA ToPlain ==
    ASSUME FrameInv, NEW t \in Threads, NEW l \in PlainLabels \ RingLabels,
           DOMAIN th' = Threads, \A u \in Threads : u # t => th'[u] = th[u],
           Fields \subseteq DOMAIN th'[t], th'[t].at = <<l>>
    PROVE  Steps(t) /\ Doing(t)' = l /\ ~InRing(t)' /\ (MayPark(t)' <=> l = "sPark")
<1>1. <<l>> \in Stacks /\ Head(<<l>>) = l /\ Bottom(<<l>>) = l
  BY PlainStack
<1> QED BY <1>1 DEF Steps, Doing, InRing, MayPark

\* The same with a helper.
LEMMA ToHelper ==
    ASSUME FrameInv, NEW t \in Threads, NEW l \in HelperLabels, NEW r \in Returns,
           DOMAIN th' = Threads, \A u \in Threads : u # t => th'[u] = th[u],
           Fields \subseteq DOMAIN th'[t], th'[t].at = <<l, r>>
    PROVE  Steps(t) /\ Doing(t)' = l /\ ~InRing(t)' /\ (MayPark(t)' <=> r = "sPark")
<1>1. <<l, r>> \in Stacks /\ Head(<<l, r>>) = l /\ Bottom(<<l, r>>) = r
  BY HelperStack
<1>2. l \notin RingLabels
  BY LabelsApart
<1> QED BY <1>1, <1>2 DEF Steps, Doing, InRing, MayPark

\* The start of a ring operation.
LEMMA ToRing ==
    ASSUME FrameInv, NEW t \in Threads, NEW l \in RingLabels, NEW ok, NEW fail, <<ok, fail>> \in Exits,
           DOMAIN th' = Threads, \A u \in Threads : u # t => th'[u] = th[u],
           Fields \subseteq DOMAIN th'[t], th'[t].at = <<l>>, th'[t].ok = ok, th'[t].fail = fail
    PROVE  /\ Steps(t) /\ Doing(t)' = Head(ok) /\ InRing(t)' /\ (MayPark(t)' <=> Bottom(fail) = "sPark")
           /\ Head(th'[t].at) = l
<1>1. <<l>> \in Stacks /\ Head(<<l>>) = l
  BY PlainStack, LabelsApart
<1> QED BY <1>1 DEF Steps, Doing, InRing, MayPark

\* The forms in which the steps change a thread's locals.
LEMMA Forms ==
    ASSUME FrameInv, NEW t \in Threads, NEW a, NEW x, NEW y, NEW z
    PROVE  /\ th' = [th EXCEPT ![t].at = a] =>
                 /\ DOMAIN th' = Threads /\ \A u \in Threads : u # t => th'[u] = th[u]
                 /\ Fields \subseteq DOMAIN th'[t] /\ th'[t].at = a
                 /\ th'[t].w = th[t].w /\ th'[t].old = th[t].old /\ th'[t].ok = th[t].ok /\ th'[t].fail = th[t].fail
           /\ th' = [th EXCEPT ![t].at = a, ![t].old = x] =>
                 /\ DOMAIN th' = Threads /\ \A u \in Threads : u # t => th'[u] = th[u]
                 /\ Fields \subseteq DOMAIN th'[t] /\ th'[t].at = a
                 /\ th'[t].w = th[t].w /\ th'[t].old = x /\ th'[t].ok = th[t].ok /\ th'[t].fail = th[t].fail
           /\ th' = [th EXCEPT ![t].at = a, ![t].w = x, ![t].ok = y, ![t].fail = z] =>
                 /\ DOMAIN th' = Threads /\ \A u \in Threads : u # t => th'[u] = th[u]
                 /\ Fields \subseteq DOMAIN th'[t] /\ th'[t].at = a
                 /\ th'[t].w = x /\ th'[t].old = th[t].old /\ th'[t].ok = y /\ th'[t].fail = z
<1>1. DOMAIN th = Threads /\ Fields \subseteq DOMAIN th[t]
  BY DEF FrameInv, Fields
<1> QED BY <1>1 DEF Fields

\* The start of a push.
LEMMA PushForm ==
    ASSUME FrameInv, NEW t \in Threads, NEW w, NEW ok, NEW fail, th' = Push(t, w, ok, fail)
    PROVE  /\ DOMAIN th' = Threads /\ \A u \in Threads : u # t => th'[u] = th[u]
           /\ Fields \subseteq DOMAIN th'[t] /\ th'[t].at = <<"pushLoad">>
           /\ th'[t].w = w /\ th'[t].ok = ok /\ th'[t].fail = fail
<1>1. DOMAIN th = Threads /\ Fields \subseteq DOMAIN th[t]
  BY DEF FrameInv, Fields
<1> QED BY <1>1 DEF Fields, Push

\* The start of a pop.
LEMMA PopForm ==
    ASSUME FrameInv, NEW t \in Threads, NEW w, NEW ok, NEW fail, th' = Pop(t, w, ok, fail)
    PROVE  /\ DOMAIN th' = Threads /\ \A u \in Threads : u # t => th'[u] = th[u]
           /\ Fields \subseteq DOMAIN th'[t] /\ th'[t].at = <<"popLoad">>
           /\ th'[t].w = w /\ th'[t].ok = ok /\ th'[t].fail = fail
<1>1. DOMAIN th = Threads /\ Fields \subseteq DOMAIN th[t]
  BY DEF FrameInv, Fields
<1> QED BY <1>1 DEF Fields, Pop

\* A return leaves the thread idle.
LEMMA ReturnForm ==
    ASSUME FrameInv, NEW t \in Threads, NEW res, Return(t, res)
    PROVE  Steps(t) /\ Doing(t)' = "idle" /\ ~MayPark(t)' /\ ~InRing(t)' /\ calls' = calls
<1>1. /\ DOMAIN th' = Threads /\ \A u \in Threads : u # t => th'[u] = th[u]
      /\ th'[t] = Idle
  BY DEF FrameInv, Return
<1>2. Fields \subseteq DOMAIN th'[t] /\ th'[t].at = <<"idle">>
  BY <1>1 DEF Idle, Fields
<1>3. "idle" \in PlainLabels \ RingLabels
  BY DEF PlainLabels, RingLabels, PushLabels, PopLabels
<1> QED BY <1>1, <1>2, <1>3, ToPlain DEF Return

------------------------------------------------------------------------------
(* Steps that leave locks, queues and waiters alone.                       *)

\* The step keeps what t has in hand and whether it holds the lock.
QuietMove(t) ==
    /\ Steps(t) /\ Quiet
    /\ Doing(t) \notin {"idle", "rWake"} /\ Doing(t)' # "rWake"
    /\ Doing(t)' \in Locking <=> Doing(t) \in Locking
    /\ Doing(t)' \in HasSender <=> Doing(t) \in HasSender
    /\ Doing(t)' \in HasReceiver <=> Doing(t) \in HasReceiver
    /\ Doing(t)' \in Closing <=> Doing(t) \in Closing
    /\ Doing(t)' \in Registered <=> Doing(t) \in Registered
    /\ Doing(t)' \in {"sAgain", "rAgain", "unlockPark"} => Doing(t) \in {"sAgain", "rAgain"}
    /\ Doing(t)' \notin {"parked", "timedOut", "timeoutDec"}
    /\ Doing(t)' \in HasSender \cup HasReceiver => th'[t].w = th[t].w
    /\ MayPark(t)' => MayPark(t)
    /\ HandOf(t)'

\* What a thread in a ring operation keeps until it is over.
LEMMA RingMove ==
    ASSUME FrameInv, KindInv, NEW t \in Threads, InRing(t), Quiet,
           DOMAIN th' = Threads, \A u \in Threads : u # t => th'[u] = th[u],
           Fields \subseteq DOMAIN th'[t],
           th'[t].w = th[t].w, th'[t].ok = th[t].ok, th'[t].fail = th[t].fail,
           \/ th'[t].at \in {th[t].ok, th[t].fail}
           \/ \E l \in PushLabels : th'[t].at = <<l>> /\ Head(th[t].at) \in PushLabels
           \/ \E l \in PopLabels : th'[t].at = <<l>> /\ Head(th[t].at) \in PopLabels
    PROVE  QuietMove(t)
<1> DEFINE ok == th[t].ok
           fail == th[t].fail
<1>1. <<ok, fail>> \in Exits /\ Doing(t) = Head(ok)
  BY DEF FrameInv, Doing
<1>2. HandOf(t)
  BY DEF KindInv
<1> HIDE DEF ok, fail
<1>3. /\ ok \in Stacks /\ fail \in Stacks
      /\ Head(ok) \notin RingLabels /\ Head(fail) \notin RingLabels
      /\ Head(ok) \in Locking <=> Head(fail) \in Locking
      /\ Head(ok) \in HasSender <=> Head(fail) \in HasSender
      /\ Head(ok) \in HasReceiver <=> Head(fail) \in HasReceiver
      /\ Head(ok) \in Closing <=> Head(fail) \in Closing
      /\ Head(ok) \in {"sAgain", "rAgain"} <=> Head(fail) = "unlockPark"
      /\ Head(ok) \notin {"idle", "rWake", "parked", "timedOut", "timeoutDec", "unlockPark"}
      /\ Head(fail) \notin {"idle", "rWake", "parked", "timedOut", "timeoutDec", "sAgain", "rAgain"}
      /\ Bottom(ok) = "sPark" => Bottom(fail) = "sPark"
  BY <1>1, ExitFacts
<1>4. MayPark(t) <=> Bottom(fail) = "sPark"
  BY DEF MayPark, fail
<1>5. CASE th'[t].at \in {ok, fail}
  <2>1. Steps(t) /\ Doing(t)' = Head(th'[t].at) /\ ~InRing(t)' /\ (MayPark(t)' <=> Bottom(th'[t].at) = "sPark")
    BY <1>3, <1>5 DEF Steps, Doing, InRing, MayPark
  <2>2. HandOf(t)'
    <3>1. calls' = calls /\ th'[t].w = th[t].w
      BY DEF Quiet
    <3>2. Head(th'[t].at) \notin PushLabels \cup PopLabels
      BY <1>3, <1>5 DEF RingLabels
    <3>3. Doing(t)' \in HasSender \cup {"rWake"} => Doing(t) \in HasSender
      BY <1>1, <1>3, <1>5, <2>1
    <3>4. Doing(t)' \in HasReceiver => Doing(t) \in HasReceiver
      BY <1>1, <1>3, <1>5, <2>1
    <3> QED BY <1>2, <3>1, <3>2, <3>3, <3>4 DEF HandOf
  <2>3. CASE th'[t].at = ok
    BY <1>1, <1>3, <1>4, <2>1, <2>2, <2>3 DEF QuietMove, Registered
  <2>4. CASE th'[t].at = fail
    BY <1>1, <1>3, <1>4, <2>1, <2>2, <2>4 DEF QuietMove, Registered
  <2> QED BY <1>5, <2>3, <2>4
<1>6. ASSUME NEW l \in RingLabels, th'[t].at = <<l>>,
             l \in PushLabels => Head(th[t].at) \in PushLabels,
             l \in PopLabels => Head(th[t].at) \in PopLabels
      PROVE  QuietMove(t)
  <2>1. /\ Steps(t) /\ Doing(t)' = Head(ok) /\ InRing(t)' /\ (MayPark(t)' <=> Bottom(fail) = "sPark")
        /\ Head(th'[t].at) = l
    BY <1>1, <1>6, ToRing DEF ok, fail
  <2>2. HandOf(t)'
    <3>1. calls' = calls /\ th'[t].w = th[t].w
      BY DEF Quiet
    <3> QED BY <1>1, <1>2, <1>6, <2>1, <3>1 DEF HandOf
  <2> QED BY <1>1, <1>3, <1>4, <2>1, <2>2 DEF QuietMove, Registered
<1>7. th'[t].at \in {ok, fail} \/ \E l \in RingLabels : th'[t].at = <<l>> /\
         (l \in PushLabels => Head(th[t].at) \in PushLabels) /\ (l \in PopLabels => Head(th[t].at) \in PopLabels)
  BY LabelsApart DEF RingLabels, ok, fail
<1> QED BY <1>5, <1>6, <1>7

\* ring_lf_push and ring_lf_pop.
LEMMA RingQuiet ==
    ASSUME FrameInv, KindInv, NEW t \in Threads, RingStep(t)
    PROVE  QuietMove(t)
<1>1. Quiet
  BY DEF RingStep, PushLoad, PushFull, PushCas, PushCommit, PopLoad, PopEmpty, PopCas, PopCommit,
         Quiet, queues, waiters, hist
<1>2. PICK a, x : /\ th' = [th EXCEPT ![t].at = a] \/ th' = [th EXCEPT ![t].at = a, ![t].old = x]
                  /\ \/ a \in {th[t].ok, th[t].fail}
                     \/ \E l \in PushLabels : a = <<l>> /\ Head(th[t].at) \in PushLabels
                     \/ \E l \in PopLabels : a = <<l>> /\ Head(th[t].at) \in PopLabels
                  /\ Head(th[t].at) \in RingLabels
  <2> USE DEF RingLabels, PushLabels, PopLabels, At, Goto
  <2>1. CASE PushLoad(t)
    BY <2>1 DEF PushLoad
  <2>2. CASE PushFull(t)
    BY <2>2 DEF PushFull
  <2>3. CASE PushCas(t)
    BY <2>3 DEF PushCas
  <2>4. CASE PushCommit(t)
    BY <2>4 DEF PushCommit
  <2>5. CASE PopLoad(t)
    BY <2>5 DEF PopLoad
  <2>6. CASE PopEmpty(t)
    BY <2>6 DEF PopEmpty
  <2>7. CASE PopCas(t)
    BY <2>7 DEF PopCas
  <2>8. CASE PopCommit(t)
    BY <2>8 DEF PopCommit
  <2> QED BY <2>1, <2>2, <2>3, <2>4, <2>5, <2>6, <2>7, <2>8 DEF RingStep
<1>3. /\ DOMAIN th' = Threads /\ \A u \in Threads : u # t => th'[u] = th[u]
      /\ Fields \subseteq DOMAIN th'[t] /\ th'[t].at = a
      /\ th'[t].w = th[t].w /\ th'[t].ok = th[t].ok /\ th'[t].fail = th[t].fail
  <2>1. CASE th' = [th EXCEPT ![t].at = a]
    BY <2>1, Forms
  <2>2. CASE th' = [th EXCEPT ![t].at = a, ![t].old = x]
    BY <2>2, Forms
  <2> QED BY <1>2, <2>1, <2>2
<1>4. InRing(t)
  BY <1>2 DEF InRing
<1> QED BY <1>1, <1>2, <1>3, <1>4, RingMove

\* Positions before the lock is taken, or where it is not.
Fast == {"idle", "sClosed", "sSendCnt", "sRecvCnt", "sPushed", "sLock", "bSend", "bNone", "rSendCnt",
         "rRecvCnt", "rEmpty", "rPopped", "rLock", "bRecv", "deliverLock", "admitLock", "cLock"}

\* Such a position says nothing about locks, queues and hands.
LEMMA FastFacts ==
    ASSUME NEW l \in Fast
    PROVE  /\ l \notin Locking \cup HasSender \cup HasReceiver \cup Closing \cup Registered
           /\ l \notin {"rWake", "sAgain", "rAgain", "unlockPark", "parked", "timedOut", "timeoutDec", "sPark"}
           /\ l \in PlainLabels \cup HelperLabels /\ l \notin RingLabels
BY DEF Fast, Locking, HasSender, HasReceiver, Closing, Registered, PlainLabels, HelperLabels,
       RingLabels, PushLabels, PopLabels

\* From one such position to another.
LEMMA FastMove ==
    ASSUME NEW t \in Threads, Steps(t), Quiet, Doing(t) \in Fast \ {"idle"}, Doing(t)' \in Fast,
           ~MayPark(t)', ~InRing(t)' \/ HandOf(t)'
    PROVE  QuietMove(t)
<1>1. PICK l \in Fast, m \in Fast : l = Doing(t) /\ m = Doing(t)' /\ l # "idle"
  OBVIOUS
<1>2. HandOf(t)'
  <2>1. CASE ~InRing(t)'
    <3>1. Head(th'[t].at) \notin PushLabels \cup PopLabels
      BY <2>1 DEF InRing, RingLabels
    <3> QED BY <1>1, <3>1, FastFacts DEF HandOf
  <2> QED BY <2>1
<1> QED BY <1>1, <1>2, FastFacts DEF QuietMove

\* From one such position to another by a jump.
LEMMA FastGoto ==
    ASSUME FrameInv, NEW t \in Threads, NEW l \in Fast \ {"idle"}, At(t, l), Quiet,
           NEW m \in Fast \cap PlainLabels, Goto(t, <<m>>)
    PROVE  QuietMove(t)
<1>1. Doing(t) = l
  BY FastFacts, DoingFacts
<1>2. m \in PlainLabels \ RingLabels /\ m # "sPark"
  BY FastFacts
<1>3. Steps(t) /\ Doing(t)' = m /\ ~InRing(t)' /\ ~MayPark(t)'
  <2>1. /\ DOMAIN th' = Threads /\ \A u \in Threads : u # t => th'[u] = th[u]
        /\ Fields \subseteq DOMAIN th'[t] /\ th'[t].at = <<m>>
    BY Forms DEF Goto
  <2> QED BY <1>2, <2>1, ToPlain
<1> QED BY <1>1, <1>3, FastMove

\* A call that returns without having held the lock.
LEMMA FastReturn ==
    ASSUME FrameInv, NEW t \in Threads, NEW l \in Fast \ {"idle"}, At(t, l), Quiet,
           NEW res, Return(t, res)
    PROVE  QuietMove(t)
<1>1. Doing(t) = l
  BY FastFacts, DoingFacts
<1>2. Steps(t) /\ Doing(t)' = "idle" /\ ~InRing(t)' /\ ~MayPark(t)'
  BY ReturnForm
<1> QED BY <1>1, <1>2, FastMove DEF Fast

\* A push of the fast path or of a burst.
LEMMA FastPush ==
    ASSUME FrameInv, KindInv, NEW t \in Threads, NEW l \in Fast \ {"idle"}, At(t, l), Quiet,
           NEW o, NEW f, <<<<o>>, <<f>>>> \in Exits, o \in {"sPushed", "rPopped"}, f # "sPark",
           t \in Senders,
           DOMAIN th' = Threads, \A u \in Threads : u # t => th'[u] = th[u],
           Fields \subseteq DOMAIN th'[t], th'[t].at = <<"pushLoad">>, th'[t].w = t, th'[t].ok = <<o>>, th'[t].fail = <<f>>
    PROVE  QuietMove(t)
<1>1. Doing(t) = l
  BY FastFacts, DoingFacts
<1>2. "pushLoad" \in RingLabels /\ "pushLoad" \in PushLabels /\ "pushLoad" \notin PopLabels
  BY DEF RingLabels, PushLabels, PopLabels
<1>3. Steps(t) /\ Doing(t)' = o /\ (MayPark(t)' <=> Bottom(<<f>>) = "sPark") /\ Head(th'[t].at) = "pushLoad"
  <2>1. Head(<<o>>) = o
    OBVIOUS
  <2> QED BY <1>2, <2>1, ToRing
<1>4. ~MayPark(t)'
  BY <1>3 DEF Bottom
<1>5. HandOf(t)'
  <2>1. calls'[t] > 0
    BY <1>1 DEF KindInv, Quiet
  <2>2. o \notin HasSender \cup HasReceiver \cup {"rWake"}
    BY DEF HasSender, HasReceiver
  <2> QED BY <1>2, <1>3, <2>1, <2>2 DEF HandOf
<1> QED BY <1>1, <1>3, <1>4, <1>5, FastMove DEF Fast

\* A pop of the fast path or of a burst.
LEMMA FastPop ==
    ASSUME FrameInv, KindInv, NEW t \in Threads, NEW l \in Fast \ {"idle"}, At(t, l), Quiet,
           NEW o, NEW f, <<<<o>>, <<f>>>> \in Exits, o \in {"sPushed", "rPopped"}, f # "sPark",
           t \in Receivers,
           DOMAIN th' = Threads, \A u \in Threads : u # t => th'[u] = th[u],
           Fields \subseteq DOMAIN th'[t], th'[t].at = <<"popLoad">>, th'[t].w = t, th'[t].ok = <<o>>, th'[t].fail = <<f>>
    PROVE  QuietMove(t)
<1>1. Doing(t) = l
  BY FastFacts, DoingFacts
<1>2. "popLoad" \in RingLabels /\ "popLoad" \in PopLabels /\ "popLoad" \notin PushLabels
  BY DEF RingLabels, PushLabels, PopLabels
<1>3. Steps(t) /\ Doing(t)' = o /\ (MayPark(t)' <=> Bottom(<<f>>) = "sPark") /\ Head(th'[t].at) = "popLoad"
  <2>1. Head(<<o>>) = o
    OBVIOUS
  <2> QED BY <1>2, <2>1, ToRing
<1>4. ~MayPark(t)'
  BY <1>3 DEF Bottom
<1>5. HandOf(t)'
  <2>1. calls'[t] > 0
    BY <1>1 DEF KindInv, Quiet
  <2>2. o \notin HasSender \cup HasReceiver \cup {"rWake"}
    BY DEF HasSender, HasReceiver
  <2> QED BY <1>2, <1>3, <2>1, <2>2 DEF HandOf
<1> QED BY <1>1, <1>3, <1>4, <1>5, FastMove DEF Fast

\* Into a helper, to return from it to the end of the call.
LEMMA FastHelp ==
    ASSUME FrameInv, NEW t \in Threads, NEW l \in Fast \ {"idle"}, At(t, l), Quiet,
           NEW m \in {"deliverLock", "admitLock"}, Goto(t, <<m, "done">>)
    PROVE  QuietMove(t)
<1>1. Doing(t) = l
  BY FastFacts, DoingFacts
<1>2. m \in HelperLabels /\ m \in Fast /\ "done" \in Returns
  BY DEF HelperLabels, Fast, Returns
<1>3. Steps(t) /\ Doing(t)' = m /\ ~InRing(t)' /\ ~MayPark(t)'
  <2>1. /\ DOMAIN th' = Threads /\ \A u \in Threads : u # t => th'[u] = th[u]
        /\ Fields \subseteq DOMAIN th'[t] /\ th'[t].at = <<m, "done">>
    BY Forms DEF Goto
  <2> QED BY <1>2, <2>1, ToHelper
<1> QED BY <1>1, <1>2, <1>3, FastMove

\* The fast path of chan_send and chan_try_send_burst.
LEMMA SendFast ==
    ASSUME FrameInv, KindInv, NEW s \in Senders,
           \/ SendClosed(s) \/ SendSendCnt(s) \/ SendRecvCnt(s) \/ SendPushed(s) \/ SendBurst(s) \/ BurstNone(s)
           \/ SendLock(s) /\ closed
    PROVE  QuietMove(s)
<1>0. s \in Threads
  BY DEF Threads
<1>q. Quiet
  BY DEF SendClosed, SendSendCnt, SendRecvCnt, SendPushed, SendBurst, BurstNone, SendLock, Quiet,
         queues, waiters, hist, Return
<1>f. {"sClosed", "sSendCnt", "sRecvCnt", "sPushed", "sLock", "bSend", "bNone"} \subseteq (Fast \ {"idle"}) \cap PlainLabels
  BY DEF Fast, PlainLabels
<1>1. CASE SendClosed(s)
  <2>1. PICK m \in {"sLock", "sSendCnt"} : Goto(s, <<m>>)
    BY <1>1 DEF SendClosed
  <2>2. At(s, "sClosed")
    BY <1>1 DEF SendClosed
  <2> QED BY <1>0, <1>q, <1>f, <2>1, <2>2, FastGoto
<1>2. CASE SendSendCnt(s)
  <2>1. PICK m \in {"sLock", "sRecvCnt"} : Goto(s, <<m>>)
    BY <1>2 DEF SendSendCnt
  <2>2. At(s, "sSendCnt")
    BY <1>2 DEF SendSendCnt
  <2> QED BY <1>0, <1>q, <1>f, <2>1, <2>2, FastGoto
<1>3. CASE SendRecvCnt(s)
  <2>1. At(s, "sRecvCnt")
    BY <1>3 DEF SendRecvCnt
  <2>2. CASE Goto(s, <<"sLock">>)
    BY <1>0, <1>q, <1>f, <2>1, <2>2, FastGoto
  <2>3. CASE ~Goto(s, <<"sLock">>)
    <3>1. PICK f \in {"sLock", "sClosed"} :
             th' = [Push(s, s, <<"sPushed">>, <<f>>) EXCEPT ![s].spin = @ + 1]
      BY <1>3, <2>3 DEF SendRecvCnt
    <3>2. DOMAIN th = Threads /\ Fields \subseteq DOMAIN th[s]
      BY <1>0 DEF FrameInv, Fields
    <3>3. /\ DOMAIN th' = Threads /\ \A u \in Threads : u # s => th'[u] = th[u]
          /\ Fields \subseteq DOMAIN th'[s] /\ th'[s].at = <<"pushLoad">> /\ th'[s].w = s
          /\ th'[s].ok = <<"sPushed">> /\ th'[s].fail = <<f>>
      BY <1>0, <3>1, <3>2 DEF Push, Fields
    <3>4. <<<<"sPushed">>, <<f>>>> \in Exits
      BY DEF Exits
    <3>5. f # "sPark" /\ "sRecvCnt" \in Fast \ {"idle"}
      BY <1>f
    <3> QED BY <1>0, <1>q, <2>1, <3>3, <3>4, <3>5, FastPush
  <2> QED BY <2>2, <2>3
<1>4. CASE SendPushed(s)
  <2>1. At(s, "sPushed")
    BY <1>4 DEF SendPushed
  <2>2. CASE Goto(s, <<"deliverLock", "done">>)
    BY <1>0, <1>q, <1>f, <2>1, <2>2, FastHelp
  <2>3. CASE Return(s, "OK")
    BY <1>0, <1>q, <1>f, <2>1, <2>3, FastReturn
  <2> QED BY <1>4, <2>2, <2>3 DEF SendPushed
<1>5. CASE SendBurst(s)
  <2>1. At(s, "bSend")
    BY <1>5 DEF SendBurst
  <2>2. CASE Goto(s, <<"bNone">>)
    BY <1>0, <1>q, <1>f, <2>1, <2>2, FastGoto
  <2>3. CASE th' = Push(s, s, <<"sPushed">>, <<"bNone">>)
    <3>1. /\ DOMAIN th' = Threads /\ \A u \in Threads : u # s => th'[u] = th[u]
          /\ Fields \subseteq DOMAIN th'[s] /\ th'[s].at = <<"pushLoad">> /\ th'[s].w = s
          /\ th'[s].ok = <<"sPushed">> /\ th'[s].fail = <<"bNone">>
      BY <1>0, <2>3, PushForm
    <3>2. <<<<"sPushed">>, <<"bNone">>>> \in Exits
      BY DEF Exits
    <3>3. "bSend" \in Fast \ {"idle"}
      BY <1>f
    <3> QED BY <1>0, <1>q, <2>1, <3>1, <3>2, <3>3, FastPush
  <2> QED BY <1>5, <2>2, <2>3 DEF SendBurst
<1>6. CASE BurstNone(s)
  <2>1. At(s, "bNone") /\ Return(s, "WOULDBLOCK")
    BY <1>6 DEF BurstNone
  <2> QED BY <1>0, <1>q, <1>f, <2>1, FastReturn
<1>7. CASE SendLock(s) /\ closed
  <2>1. At(s, "sLock") /\ Return(s, "CLOSED")
    BY <1>7 DEF SendLock
  <2> QED BY <1>0, <1>q, <1>f, <2>1, FastReturn
<1> QED BY <1>1, <1>2, <1>3, <1>4, <1>5, <1>6, <1>7

\* The fast path of chan_recv and chan_try_recv_burst.
LEMMA RecvFast ==
    ASSUME FrameInv, KindInv, NEW r \in Receivers,
           RecvSendCnt(r) \/ RecvRecvCnt(r) \/ RecvEmpty(r) \/ RecvPopped(r) \/ RecvBurst(r) \/ BurstNone(r)
    PROVE  QuietMove(r)
<1>0. r \in Threads
  BY DEF Threads
<1>q. Quiet
  BY DEF RecvSendCnt, RecvRecvCnt, RecvEmpty, RecvPopped, RecvBurst, BurstNone, Quiet,
         queues, waiters, hist, Return
<1>f. {"rSendCnt", "rRecvCnt", "rEmpty", "rPopped", "rLock", "bRecv", "bNone"} \subseteq (Fast \ {"idle"}) \cap PlainLabels
  BY DEF Fast, PlainLabels
<1>1. CASE RecvSendCnt(r)
  <2>1. PICK m \in {"rLock", "rRecvCnt"} : Goto(r, <<m>>)
    BY <1>1 DEF RecvSendCnt
  <2>2. At(r, "rSendCnt")
    BY <1>1 DEF RecvSendCnt
  <2> QED BY <1>0, <1>q, <1>f, <2>1, <2>2, FastGoto
<1>2. CASE RecvRecvCnt(r)
  <2>1. At(r, "rRecvCnt")
    BY <1>2 DEF RecvRecvCnt
  <2>2. CASE Goto(r, <<"rLock">>)
    BY <1>0, <1>q, <1>f, <2>1, <2>2, FastGoto
  <2>3. CASE th' = Pop(r, r, <<"rPopped">>, <<"rEmpty">>)
    <3>1. /\ DOMAIN th' = Threads /\ \A u \in Threads : u # r => th'[u] = th[u]
          /\ Fields \subseteq DOMAIN th'[r] /\ th'[r].at = <<"popLoad">> /\ th'[r].w = r
          /\ th'[r].ok = <<"rPopped">> /\ th'[r].fail = <<"rEmpty">>
      BY <1>0, <2>3, PopForm
    <3>2. <<<<"rPopped">>, <<"rEmpty">>>> \in Exits
      BY DEF Exits
    <3> QED BY <1>0, <1>q, <1>f, <2>1, <3>1, <3>2, FastPop
  <2> QED BY <1>2, <2>2, <2>3 DEF RecvRecvCnt
<1>3. CASE RecvEmpty(r)
  <2>1. At(r, "rEmpty")
    BY <1>3 DEF RecvEmpty
  <2>2. CASE Goto(r, <<"rLock">>)
    BY <1>0, <1>q, <1>f, <2>1, <2>2, FastGoto
  <2>3. CASE ~Goto(r, <<"rLock">>)
    <3>1. th' = [th EXCEPT ![r].at = <<"rSendCnt">>, ![r].spin = @ + 1]
      BY <1>3, <2>3 DEF RecvEmpty
    <3>2. DOMAIN th = Threads /\ Fields \subseteq DOMAIN th[r]
      BY <1>0 DEF FrameInv, Fields
    <3>3. /\ DOMAIN th' = Threads /\ \A u \in Threads : u # r => th'[u] = th[u]
          /\ Fields \subseteq DOMAIN th'[r] /\ th'[r].at = <<"rSendCnt">>
      BY <1>0, <3>1, <3>2 DEF Fields
    <3>4. Steps(r) /\ Doing(r)' = "rSendCnt" /\ ~InRing(r)' /\ ~MayPark(r)'
      <4>1. "rSendCnt" \in PlainLabels \ RingLabels
        BY DEF PlainLabels, RingLabels, PushLabels, PopLabels
      <4> QED BY <1>0, <3>3, <4>1, ToPlain
    <3>5. Doing(r) = "rEmpty"
      BY <1>0, <1>f, <2>1, FastFacts, DoingFacts
    <3> QED BY <1>0, <1>q, <1>f, <3>4, <3>5, FastMove
  <2> QED BY <2>2, <2>3
<1>4. CASE RecvPopped(r)
  <2>1. At(r, "rPopped")
    BY <1>4 DEF RecvPopped
  <2>2. CASE Goto(r, <<"admitLock", "done">>)
    BY <1>0, <1>q, <1>f, <2>1, <2>2, FastHelp
  <2>3. CASE Return(r, "OK")
    BY <1>0, <1>q, <1>f, <2>1, <2>3, FastReturn
  <2> QED BY <1>4, <2>2, <2>3 DEF RecvPopped
<1>5. CASE RecvBurst(r)
  <2>1. At(r, "bRecv") /\ th' = Pop(r, r, <<"rPopped">>, <<"bNone">>)
    BY <1>5 DEF RecvBurst
  <2>2. /\ DOMAIN th' = Threads /\ \A u \in Threads : u # r => th'[u] = th[u]
        /\ Fields \subseteq DOMAIN th'[r] /\ th'[r].at = <<"popLoad">> /\ th'[r].w = r
        /\ th'[r].ok = <<"rPopped">> /\ th'[r].fail = <<"bNone">>
    BY <1>0, <2>1, PopForm
  <2>3. <<<<"rPopped">>, <<"bNone">>>> \in Exits
    BY DEF Exits
  <2> QED BY <1>0, <1>q, <1>f, <2>1, <2>2, <2>3, FastPop
<1>6. CASE BurstNone(r)
  <2>1. At(r, "bNone") /\ Return(r, "WOULDBLOCK")
    BY <1>6 DEF BurstNone
  <2> QED BY <1>0, <1>q, <1>f, <2>1, FastReturn
<1> QED BY <1>1, <1>2, <1>3, <1>4, <1>5, <1>6

\* The step of a helper's load.
LEMMA LoadMove ==
    ASSUME FrameInv, KindInv, NEW t \in Threads, Quiet, NEW l, NEW m, NEW x, At(t, l),
           NEW a, a = <<m>> \o Rest(t), th' = [th EXCEPT ![t].at = a, ![t].old = x],
           \/ l = "deliver" /\ m = "deliverTest"
           \/ l = "admit" /\ m = "admitTest"
    PROVE  QuietMove(t)
<1>2. l \in HelperLabels /\ m \in HelperLabels /\ l \notin RingLabels
  BY DEF HelperLabels, RingLabels, PushLabels, PopLabels
<1>3. PICK r \in Returns : Rest(t) = <<r>> /\ Bottom(th[t].at) = r
  BY <1>2, StackCases DEF FrameInv, At, Rest
<1>4. /\ DOMAIN th' = Threads /\ \A u \in Threads : u # t => th'[u] = th[u]
      /\ Fields \subseteq DOMAIN th'[t] /\ th'[t].at = <<m, r>> /\ th'[t].w = th[t].w
  <2>1. a = <<m, r>>
    BY <1>2, <1>3, HelperStack
  <2>2. DOMAIN th = Threads /\ Fields \subseteq DOMAIN th[t]
    BY DEF FrameInv, Fields
  <2> QED BY <2>1, <2>2 DEF Fields
<1>5. Steps(t) /\ Doing(t)' = m /\ ~InRing(t)' /\ (MayPark(t)' <=> r = "sPark")
  BY <1>2, <1>4, ToHelper
<1>6. Doing(t) = l /\ ~InRing(t)
  BY <1>2, DoingFacts
<1>7. MayPark(t) <=> r = "sPark"
  BY <1>3, <1>6 DEF MayPark
<1>8. HandOf(t)'
  <2>1. Head(th'[t].at) \notin PushLabels \cup PopLabels
    BY <1>5 DEF InRing, RingLabels
  <2> QED BY <1>5, <2>1 DEF HandOf, HasSender, HasReceiver
<1> QED BY <1>5, <1>6, <1>7, <1>8
        DEF QuietMove, Locking, HasSender, HasReceiver, Closing, Registered

\* The loads of the helpers' tests, and a second close.
LEMMA LoadQuiet ==
    ASSUME FrameInv, KindInv, NEW t \in Threads,
           DeliverLoad(t) \/ AdmitLoad(t) \/ (CloseLock(t) /\ closed)
    PROVE  QuietMove(t)
<1>q. Quiet
  BY DEF DeliverLoad, AdmitLoad, CloseLock, Quiet, queues, waiters, hist, Return
<1>1. CASE CloseLock(t) /\ closed
  <2>1. At(t, "cLock") /\ Return(t, "CLOSED")
    BY <1>1 DEF CloseLock
  <2>2. "cLock" \in Fast \ {"idle"}
    BY DEF Fast
  <2> QED BY <1>q, <2>1, <2>2, FastReturn
<1>3. CASE DeliverLoad(t)
  <2>1. PICK x, a : x = prodTail /\ a = <<"deliverTest">> \o Rest(t)
    OBVIOUS
  <2>2. At(t, "deliver") /\ th' = [th EXCEPT ![t].at = a, ![t].old = x]
    BY <1>3, <2>1 DEF DeliverLoad
  <2> QED BY <1>q, <2>1, <2>2, LoadMove
<1>4. CASE AdmitLoad(t)
  <2>1. PICK x, a : x = Len(log) /\ a = <<"admitTest">> \o Rest(t)
    OBVIOUS
  <2>2. At(t, "admit") /\ th' = [th EXCEPT ![t].at = a, ![t].old = x]
    BY <1>4, <2>1 DEF AdmitLoad
  <2> QED BY <1>q, <2>1, <2>2, LoadMove
<1> QED BY <1>1, <1>3, <1>4

------------------------------------------------------------------------------
(* The other steps: where they start and where they lead.                  *)

\* A helper goes on.
LEMMA HelperGoto ==
    ASSUME FrameInv, NEW t \in Threads, NEW l \in HelperLabels, NEW m \in HelperLabels, At(t, l),
           Goto(t, <<m>> \o Rest(t))
    PROVE  /\ Steps(t) /\ Doing(t) = l /\ Doing(t)' = m /\ (MayPark(t)' <=> MayPark(t)) /\ ~InRing(t)'
           /\ th'[t].w = th[t].w
<1>2. l \notin RingLabels
  BY LabelsApart
<1>3. PICK r \in Returns : Rest(t) = <<r>> /\ Bottom(th[t].at) = r
  BY StackCases DEF FrameInv, At, Rest
<1>4. <<m>> \o Rest(t) = <<m, r>>
  BY <1>3, HelperStack
<1>5. /\ DOMAIN th' = Threads /\ \A u \in Threads : u # t => th'[u] = th[u]
      /\ Fields \subseteq DOMAIN th'[t] /\ th'[t].at = <<m, r>> /\ th'[t].w = th[t].w
  <2>1. PICK a : a = <<m, r>>
    OBVIOUS
  <2>2. th' = [th EXCEPT ![t].at = a]
    BY <1>4, <2>1 DEF Goto
  <2> QED BY <2>1, <2>2, Forms
<1>6. Steps(t) /\ Doing(t)' = m /\ ~InRing(t)' /\ (MayPark(t)' <=> r = "sPark")
  BY <1>5, ToHelper
<1>7. Doing(t) = l /\ ~InRing(t)
  BY <1>2, DoingFacts
<1> QED BY <1>3, <1>5, <1>6, <1>7 DEF MayPark

\* A helper returns.
LEMMA HelperReturn ==
    ASSUME FrameInv, NEW t \in Threads, NEW l \in HelperLabels, At(t, l), Goto(t, Rest(t))
    PROVE  /\ Steps(t) /\ Doing(t) = l /\ Doing(t)' \in Returns /\ (MayPark(t)' <=> MayPark(t)) /\ ~InRing(t)'
           /\ th'[t].w = th[t].w
<1>2. l \notin RingLabels
  BY LabelsApart
<1>3. PICK r \in Returns : Rest(t) = <<r>> /\ Bottom(th[t].at) = r
  BY StackCases DEF FrameInv, At, Rest
<1>5. /\ DOMAIN th' = Threads /\ \A u \in Threads : u # t => th'[u] = th[u]
      /\ Fields \subseteq DOMAIN th'[t] /\ th'[t].at = <<r>> /\ th'[t].w = th[t].w
  <2>1. PICK a : a = <<r>>
    OBVIOUS
  <2>2. th' = [th EXCEPT ![t].at = a]
    BY <1>3, <2>1 DEF Goto
  <2> QED BY <2>1, <2>2, Forms
<1>6. Steps(t) /\ Doing(t)' = r /\ ~InRing(t)' /\ (MayPark(t)' <=> r = "sPark")
  <2>1. r \in PlainLabels \ RingLabels
    BY DEF Returns, PlainLabels, RingLabels, PushLabels, PopLabels
  <2> QED BY <1>5, <2>1, ToPlain
<1>7. Doing(t) = l /\ ~InRing(t)
  BY <1>2, DoingFacts
<1> QED BY <1>3, <1>5, <1>6, <1>7 DEF MayPark

\* A helper takes a waiter in hand.
LEMMA HelperRing ==
    ASSUME FrameInv, NEW t \in Threads, NEW w, NEW ok, NEW fail,
           \/ /\ At(t, "deliverTest") /\ ok = <<"delivered">> \o Rest(t) /\ fail = <<"undelivered">> \o Rest(t)
              /\ th' = Pop(t, w, ok, fail)
           \/ /\ At(t, "admitTest") /\ ok = <<"admitted">> \o Rest(t) /\ fail = <<"unadmitted">> \o Rest(t)
              /\ th' = Push(t, w, ok, fail)
    PROVE  /\ Steps(t) /\ (MayPark(t)' <=> MayPark(t)) /\ InRing(t)' /\ th'[t].w = w
           /\ \/ Doing(t) = "deliverTest" /\ Doing(t)' = "delivered" /\ Head(th'[t].at) \in PopLabels
              \/ Doing(t) = "admitTest" /\ Doing(t)' = "admitted" /\ Head(th'[t].at) \in PushLabels
<1>0. {"deliverTest", "delivered", "undelivered", "admitTest", "admitted", "unadmitted"} \subseteq HelperLabels
  BY DEF HelperLabels
<1>1. CASE At(t, "deliverTest")
  <2>1. /\ ok = <<"delivered">> \o Rest(t) /\ fail = <<"undelivered">> \o Rest(t)
        /\ th' = Pop(t, w, ok, fail)
    BY <1>1 DEF At
  <2>2. PICK r \in Returns : Rest(t) = <<r>> /\ Bottom(th[t].at) = r
    BY <1>0, <1>1, StackCases DEF FrameInv, At, Rest
  <2>3. ok = <<"delivered", r>> /\ fail = <<"undelivered", r>> /\ Head(ok) = "delivered" /\ Bottom(fail) = r
    <3>1. <<"delivered">> \o <<r>> = <<"delivered", r>> /\ Head(<<"delivered", r>>) = "delivered"
      BY <1>0, HelperStack
    <3>2. <<"undelivered">> \o <<r>> = <<"undelivered", r>> /\ Bottom(<<"undelivered", r>>) = r
      BY <1>0, HelperStack
    <3> QED BY <2>1, <2>2, <3>1, <3>2
  <2>4. <<ok, fail>> \in Exits
    BY <2>3 DEF Exits, Returns
  <2>5. Doing(t) = "deliverTest" /\ ~InRing(t)
    BY <1>0, <1>1, LabelsApart, DoingFacts
  <2>6. "popLoad" \in RingLabels /\ "popLoad" \in PopLabels
    BY DEF RingLabels, PopLabels
  <2>7. /\ Steps(t) /\ Doing(t)' = Head(ok) /\ InRing(t)' /\ (MayPark(t)' <=> Bottom(fail) = "sPark")
        /\ Head(th'[t].at) = "popLoad" /\ th'[t].w = w
    <3>1. /\ DOMAIN th' = Threads /\ \A u \in Threads : u # t => th'[u] = th[u]
          /\ Fields \subseteq DOMAIN th'[t] /\ th'[t].at = <<"popLoad">>
          /\ th'[t].w = w /\ th'[t].ok = ok /\ th'[t].fail = fail
      BY <2>1, PopForm
    <3> QED BY <2>4, <2>6, <3>1, ToRing
  <2> QED BY <2>2, <2>3, <2>5, <2>6, <2>7 DEF MayPark
<1>2. CASE At(t, "admitTest")
  <2>1. /\ ok = <<"admitted">> \o Rest(t) /\ fail = <<"unadmitted">> \o Rest(t)
        /\ th' = Push(t, w, ok, fail)
    BY <1>2 DEF At
  <2>2. PICK r \in Returns : Rest(t) = <<r>> /\ Bottom(th[t].at) = r
    BY <1>0, <1>2, StackCases DEF FrameInv, At, Rest
  <2>3. ok = <<"admitted", r>> /\ fail = <<"unadmitted", r>> /\ Head(ok) = "admitted" /\ Bottom(fail) = r
    <3>1. <<"admitted">> \o <<r>> = <<"admitted", r>> /\ Head(<<"admitted", r>>) = "admitted"
      BY <1>0, HelperStack
    <3>2. <<"unadmitted">> \o <<r>> = <<"unadmitted", r>> /\ Bottom(<<"unadmitted", r>>) = r
      BY <1>0, HelperStack
    <3> QED BY <2>1, <2>2, <3>1, <3>2
  <2>4. <<ok, fail>> \in Exits
    BY <2>3 DEF Exits, Returns
  <2>5. Doing(t) = "admitTest" /\ ~InRing(t)
    BY <1>0, <1>2, LabelsApart, DoingFacts
  <2>6. "pushLoad" \in RingLabels /\ "pushLoad" \in PushLabels
    BY DEF RingLabels, PushLabels
  <2>7. /\ Steps(t) /\ Doing(t)' = Head(ok) /\ InRing(t)' /\ (MayPark(t)' <=> Bottom(fail) = "sPark")
        /\ Head(th'[t].at) = "pushLoad" /\ th'[t].w = w
    <3>1. /\ DOMAIN th' = Threads /\ \A u \in Threads : u # t => th'[u] = th[u]
          /\ Fields \subseteq DOMAIN th'[t] /\ th'[t].at = <<"pushLoad">>
          /\ th'[t].w = w /\ th'[t].ok = ok /\ th'[t].fail = fail
      BY <2>1, PushForm
    <3> QED BY <2>4, <2>6, <3>1, ToRing
  <2> QED BY <2>2, <2>3, <2>5, <2>6, <2>7 DEF MayPark
<1> QED BY <1>1, <1>2

\* From one plain label to another.
LEMMA PlainGoto ==
    ASSUME FrameInv, NEW t \in Threads, NEW l \in PlainLabels \ RingLabels, At(t, l),
           NEW m \in PlainLabels \ RingLabels, Goto(t, <<m>>)
    PROVE  /\ Steps(t) /\ Doing(t) = l /\ Doing(t)' = m /\ ~InRing(t)' /\ (MayPark(t)' <=> m = "sPark")
           /\ th'[t].w = th[t].w
<1>1. /\ DOMAIN th' = Threads /\ \A u \in Threads : u # t => th'[u] = th[u]
      /\ Fields \subseteq DOMAIN th'[t] /\ th'[t].at = <<m>> /\ th'[t].w = th[t].w
  <2>1. PICK a : a = <<m>>
    OBVIOUS
  <2>2. th' = [th EXCEPT ![t].at = a]
    BY <2>1 DEF Goto
  <2> QED BY <2>1, <2>2, Forms
<1> QED BY <1>1, ToPlain, DoingFacts

\* From a plain label into a push.
LEMMA PlainPush ==
    ASSUME FrameInv, NEW t \in Threads, NEW l \in PlainLabels \ RingLabels, At(t, l),
           NEW w, NEW ok, NEW fail, <<ok, fail>> \in Exits, th' = Push(t, w, ok, fail)
    PROVE  /\ Steps(t) /\ Doing(t) = l /\ Doing(t)' = Head(ok) /\ InRing(t)' /\ (MayPark(t)' <=> Bottom(fail) = "sPark")
           /\ Head(th'[t].at) \in PushLabels /\ Head(th'[t].at) \notin PopLabels /\ th'[t].w = w
<1>1. /\ DOMAIN th' = Threads /\ \A u \in Threads : u # t => th'[u] = th[u]
      /\ Fields \subseteq DOMAIN th'[t] /\ th'[t].at = <<"pushLoad">>
      /\ th'[t].w = w /\ th'[t].ok = ok /\ th'[t].fail = fail
  BY PushForm
<1>2. "pushLoad" \in RingLabels /\ "pushLoad" \in PushLabels /\ "pushLoad" \notin PopLabels
  BY DEF RingLabels, PushLabels, PopLabels
<1>3. /\ Steps(t) /\ Doing(t)' = Head(ok) /\ InRing(t)' /\ (MayPark(t)' <=> Bottom(fail) = "sPark")
      /\ Head(th'[t].at) = "pushLoad"
  BY <1>1, <1>2, ToRing
<1> QED BY <1>1, <1>2, <1>3, DoingFacts

\* From a plain label into a pop.
LEMMA PlainPop ==
    ASSUME FrameInv, NEW t \in Threads, NEW l \in PlainLabels \ RingLabels, At(t, l),
           NEW w, NEW ok, NEW fail, <<ok, fail>> \in Exits, th' = Pop(t, w, ok, fail)
    PROVE  /\ Steps(t) /\ Doing(t) = l /\ Doing(t)' = Head(ok) /\ InRing(t)' /\ (MayPark(t)' <=> Bottom(fail) = "sPark")
           /\ Head(th'[t].at) \in PopLabels /\ Head(th'[t].at) \notin PushLabels /\ th'[t].w = w
<1>1. /\ DOMAIN th' = Threads /\ \A u \in Threads : u # t => th'[u] = th[u]
      /\ Fields \subseteq DOMAIN th'[t] /\ th'[t].at = <<"popLoad">>
      /\ th'[t].w = w /\ th'[t].ok = ok /\ th'[t].fail = fail
  BY PopForm
<1>2. "popLoad" \in RingLabels /\ "popLoad" \in PopLabels /\ "popLoad" \notin PushLabels
  BY DEF RingLabels, PushLabels, PopLabels
<1>3. /\ Steps(t) /\ Doing(t)' = Head(ok) /\ InRing(t)' /\ (MayPark(t)' <=> Bottom(fail) = "sPark")
      /\ Head(th'[t].at) = "popLoad"
  BY <1>1, <1>2, ToRing
<1> QED BY <1>1, <1>2, <1>3, DoingFacts

\* A call returns from a plain label.
LEMMA PlainReturn ==
    ASSUME FrameInv, NEW t \in Threads, NEW l \in PlainLabels \ RingLabels, At(t, l), NEW res, Return(t, res)
    PROVE  Steps(t) /\ Doing(t) = l /\ Doing(t)' = "idle" /\ ~MayPark(t)' /\ ~InRing(t)' /\ calls' = calls
BY ReturnForm, DoingFacts

------------------------------------------------------------------------------
(* What a step has to respect for the invariants to survive it.            *)

Inv ==
    /\ FrameInv /\ KindInv /\ SleepInv /\ CloseInv /\ CountInv
    /\ RecvOnce /\ (TimedFree => SendOnce) /\ NoTimeouts

Holds(t, u) == Doing(t) \in HasSender \cup HasReceiver /\ th[t].w = u
Wakes(t, u) == Doing(t) = "rWake" /\ th[t].w = u /\ th[t].old = calls[u]

\* The lock: it is taken when free and given up by its holder only.
LockOK(t) ==
    /\ lock' = lock \/ lock \in {None, t}
    /\ Doing(t)' \in Locking \/ MayPark(t)' => lock' = t

\* The kinds of threads in the queues and in hands.
KindOK(t) ==
    /\ sendq' \in Seq(Senders) /\ recvq' \in Seq(Receivers)
    /\ word' \in [Threads -> {0, 1}] /\ calls' \in [Threads -> 0..MaxCalls]
    /\ \A u \in Threads : calls'[u] >= calls[u]
    /\ \A s \in Elems(sendq') : s \in Elems(sendq) \/ calls'[s] > 0
    /\ HandOf(t)'
    /\ Doing(t)' # "idle" => calls'[t] > 0

\* Sleepers: whoever t was to look after is woken, or still looked after.
SleepOK(t) ==
    /\ UNCHANGED <<sendq, recvq>> \/ lock \in {None, t}
    /\ \A u \in Threads : u # t => calls'[u] = calls[u] /\ (word'[u] = 0 => word[u] = 0)
    /\ \A u \in Threads : u # t /\ word'[u] = 0 /\ (Queued(u) \/ Holds(t, u) \/ Wakes(t, u)) =>
                             Queued(u)' \/ Holds(t, u)' \/ Wakes(t, u)'
    /\ Doing(t)' \in {"sAgain", "rAgain"} => Queued(t)'
    /\ Doing(t)' \in {"unlockPark", "parked", "timedOut"} /\ word'[t] = 0 =>
          \/ Queued(t)'
          \/ Doing(t) \in {"unlockPark", "parked"} /\ UNCHANGED <<sendq, recvq, word, calls>>

\* The state of a closed channel.
CloseOK(t) ==
    /\ closed' = closed
    /\ closed => /\ sendq' = << >> /\ Doing(t)' \notin HasSender /\ ~MayPark(t)'
                 /\ Doing(t)' \in HasReceiver => Doing(t)' \in Closing
                 /\ recvq' # << >> => Doing(t)' \in Closing \/ (recvq # << >> /\ Doing(t) \notin Closing)

\* The counts: t registers, deregisters, or stays what it is.
CountOK(t) ==
    \/ UNCHANGED <<sendCnt, recvCnt>> /\ (Doing(t)' \in Registered <=> Doing(t) \in Registered)
    \/ /\ Doing(t) \notin Registered /\ Doing(t)' \in Registered
       /\ \/ t \in Senders /\ sendCnt' = sendCnt + 1 /\ recvCnt' = recvCnt
          \/ t \in Receivers /\ recvCnt' = recvCnt + 1 /\ sendCnt' = sendCnt
    \/ /\ Doing(t) \in Registered /\ Doing(t)' \notin Registered
       /\ \/ t \in Senders /\ sendCnt' = sendCnt - 1 /\ recvCnt' = recvCnt
          \/ t \in Receivers /\ recvCnt' = recvCnt - 1 /\ sendCnt' = sendCnt

\* Queue q becomes p: nobody is queued twice or woken in the queue, and who is
\* in hand stays asleep.
OnceOK(t, q, p, H) ==
    /\ Distinct(p)
    /\ \A r \in Elems(p) : r # t => word'[r] = 0 /\ (r \in Elems(q) \/ (Doing(t) \in H /\ r = th[t].w))
    /\ t \in Elems(p) => Doing(t)' \in Registered \ {"timeoutDec"} /\ word'[t] = 0
    /\ \A u \in Threads : u # t /\ Doing(u) \in H =>
          /\ th[u].w \notin Elems(p) /\ word'[th[u].w] = word[th[u].w]
          /\ th[u].w = t => Doing(t)' \in {"parked", "timedOut"}
    /\ Doing(t)' \in H =>
          /\ th'[t].w \notin Elems(p) /\ word'[th'[t].w] = word[th'[t].w]
          /\ \/ Doing(t) \in H /\ th'[t].w = th[t].w
             \/ th'[t].w \in Elems(q) /\ th'[t].w # t /\ Doing(th'[t].w) \in {"parked", "timedOut"}

OncesOK(t) ==
    /\ OnceOK(t, recvq, recvq', HasReceiver)
    /\ TimedFree => OnceOK(t, sendq, sendq', HasSender \cup {"rWake"})
    /\ TimedFree /\ t \in Senders => Doing(t)' # "timedOut"

\* Positions and the lock.
LEMMA FrameStep ==
    ASSUME FrameInv, NEW t \in Threads, Steps(t), LockOK(t)
    PROVE  FrameInv'
<1>1. None # t
  BY ChanBufAssumption
<1>2. Fields \subseteq DOMAIN th'[t] /\ DOMAIN th' = Threads /\ th'[t].at \in Stacks
  BY DEF Steps
<1>3. InRing(t)' => <<th'[t].ok, th'[t].fail>> \in Exits
  BY DEF Steps, InRing
<1>4. ASSUME NEW u \in Threads, u # t
      PROVE  /\ {"at", "ok", "fail", "w", "old", "mode", "spin"} \subseteq DOMAIN th'[u]
             /\ th'[u].at \in Stacks
             /\ InRing(u)' => <<th'[u].ok, th'[u].fail>> \in Exits
             /\ Doing(u)' \in Locking \/ MayPark(u)' => lock' = u
  <2>1. th'[u] = th[u] /\ Doing(u)' = Doing(u) /\ MayPark(u)' = MayPark(u) /\ InRing(u)' = InRing(u)
    BY <1>4, OthersStay DEF Steps
  <2>2. Doing(u) \in Locking \/ MayPark(u) => lock = u /\ u # None
    BY ChanBufAssumption DEF FrameInv
  <2> QED BY <1>4, <2>1, <2>2 DEF FrameInv, LockOK
<1> QED BY <1>2, <1>3, <1>4 DEF FrameInv, LockOK, Fields

\* Kinds.
LEMMA KindStep ==
    ASSUME FrameInv, KindInv, NEW t \in Threads, Steps(t), KindOK(t)
    PROVE  KindInv'
<1>1. Senders \subseteq Threads /\ Receivers \subseteq Threads
  BY DEF Threads
<1>2. calls \in [Threads -> 0..MaxCalls] /\ calls' \in [Threads -> 0..MaxCalls] /\ MaxCalls \in Nat
  BY ChanBufAssumption DEF KindInv, KindOK
<1>3. \A s \in Elems(sendq') : calls'[s] > 0
  <2>1. SUFFICES ASSUME NEW s \in Elems(sendq'), s \in Elems(sendq) PROVE calls'[s] > 0
    BY DEF KindOK
  <2>2. s \in Threads
    BY <1>1, <2>1, ElemsIn DEF KindInv
  <2> QED BY <1>2, <2>1, <2>2 DEF KindInv, KindOK
<1>4. ASSUME NEW u \in Threads, u # t
      PROVE  HandOf(u)' /\ (Doing(u)' # "idle" => calls'[u] > 0)
  <2>1. th'[u] = th[u] /\ Doing(u)' = Doing(u)
    BY <1>4, OthersStay DEF Steps
  <2>2. HandOf(u) /\ (Doing(u) # "idle" => calls[u] > 0)
    BY DEF KindInv
  <2>3. \A v \in Threads : calls[v] > 0 => calls'[v] > 0
    BY <1>2 DEF KindOK
  <2>4. th[u].w \in Senders /\ calls[th[u].w] > 0 => calls'[th[u].w] > 0
    BY <1>1, <2>3
  <2> QED BY <2>1, <2>2, <2>3, <2>4 DEF HandOf
<1> QED BY <1>3, <1>4 DEF KindInv, KindOK

\* Sleepers.
LEMMA SleepStep ==
    ASSUME FrameInv, SleepInv, NEW t \in Threads, Steps(t), SleepOK(t)
    PROVE  SleepInv'
<1>1. ASSUME NEW u \in Threads, NEW v \in Threads, v # t
      PROVE  /\ Holds(v, u) => Holds(v, u)'
             /\ Wakes(v, u) /\ calls'[u] = calls[u] => Wakes(v, u)'
  BY <1>1, OthersStay DEF Steps, Holds, Wakes
<1>2. \A u \in Threads : InHand(u)' <=> \E v \in Threads : Holds(v, u)'
  BY DEF InHand, Holds
<1>3. \A u \in Threads : ToWake(u)' <=> \E v \in Threads : Wakes(v, u)'
  BY DEF ToWake, Wakes
<1>4. \A u \in Threads : InHand(u) <=> \E v \in Threads : Holds(v, u)
  BY DEF InHand, Holds
<1>5. \A u \in Threads : ToWake(u) <=> \E v \in Threads : Wakes(v, u)
  BY DEF ToWake, Wakes
<1>6. ASSUME NEW u \in Threads, u # t, Doing(u)' \in {"sAgain", "rAgain"}
      PROVE  Queued(u)'
  <2>1. Doing(u) \in {"sAgain", "rAgain"}
    BY <1>6, OthersStay
  <2>2. lock = u /\ u # None
    BY <2>1, ChanBufAssumption DEF FrameInv, Locking
  <2>3. UNCHANGED <<sendq, recvq>>
    BY <1>6, <2>2 DEF SleepOK
  <2> QED BY <2>1, <2>3 DEF SleepInv, Queued
<1>7. ASSUME NEW u \in Threads, u # t, Doing(u)' \in {"unlockPark", "parked", "timedOut"}, word'[u] = 0
      PROVE  Queued(u)' \/ InHand(u)' \/ ToWake(u)'
  <2>1. Doing(u) \in {"unlockPark", "parked", "timedOut"} /\ word[u] = 0 /\ calls'[u] = calls[u]
    BY <1>7, OthersStay DEF SleepOK
  <2>2. Queued(u) \/ InHand(u) \/ ToWake(u)
    BY <2>1 DEF SleepInv
  <2>3. CASE Queued(u) \/ Holds(t, u) \/ Wakes(t, u)
    <3>1. Queued(u)' \/ Holds(t, u)' \/ Wakes(t, u)'
      BY <1>7, <2>3 DEF SleepOK
    <3> QED BY <1>2, <1>3, <3>1
  <2>4. CASE \E v \in Threads : v # t /\ Holds(v, u)
    BY <1>1, <1>2, <2>4
  <2>5. CASE \E v \in Threads : v # t /\ Wakes(v, u)
    BY <1>1, <1>3, <2>1, <2>5
  <2> QED BY <1>4, <1>5, <2>2, <2>3, <2>4, <2>5
<1>8. ASSUME Doing(t)' \in {"unlockPark", "parked", "timedOut"}, word'[t] = 0
      PROVE  Queued(t)' \/ InHand(t)' \/ ToWake(t)'
  <2>1. CASE Queued(t)'
    BY <2>1
  <2>2. CASE Doing(t) \in {"unlockPark", "parked"} /\ UNCHANGED <<sendq, recvq, word, calls>>
    <3>1. Queued(t) \/ InHand(t) \/ ToWake(t)
      BY <1>8, <2>2 DEF SleepInv
    <3>2. ~Holds(t, t) /\ ~Wakes(t, t)
      BY <2>2 DEF Holds, Wakes, HasSender, HasReceiver
    <3>3. CASE Queued(t)
      BY <2>2, <3>3 DEF Queued
    <3>4. CASE \E v \in Threads : v # t /\ Holds(v, t)
      BY <1>1, <1>2, <3>4
    <3>5. CASE \E v \in Threads : v # t /\ Wakes(v, t)
      BY <1>1, <1>3, <2>2, <3>5
    <3> QED BY <1>4, <1>5, <3>1, <3>2, <3>3, <3>4, <3>5
  <2> QED BY <1>8, <2>1, <2>2 DEF SleepOK
<1> QED BY <1>6, <1>7, <1>8 DEF SleepInv, SleepOK

\* Closed channels.
LEMMA CloseKeeps ==
    ASSUME FrameInv, CloseInv, NEW t \in Threads, Steps(t), CloseOK(t)
    PROVE  CloseInv'
<1>1. SUFFICES ASSUME closed'
               PROVE  /\ sendq' = << >>
                      /\ \A u \in Threads : Doing(u)' \notin HasSender /\ ~MayPark(u)'
                      /\ \A u \in Threads : Doing(u)' \in HasReceiver => Doing(u)' \in Closing
                      /\ recvq' # << >> => \E u \in Threads : Doing(u)' \in Closing
  BY DEF CloseInv
<1>2. closed
  BY <1>1 DEF CloseOK
<1>3. \A u \in Threads : u # t => Doing(u)' = Doing(u) /\ MayPark(u)' = MayPark(u)
  BY OthersStay
<1>4. ASSUME recvq' # << >> PROVE \E u \in Threads : Doing(u)' \in Closing
  <2>1. CASE Doing(t)' \in Closing
    BY <2>1
  <2>2. CASE recvq # << >> /\ Doing(t) \notin Closing
    <3>1. PICK u \in Threads : Doing(u) \in Closing
      BY <1>2, <2>2 DEF CloseInv
    <3> QED BY <1>3, <2>2, <3>1
  <2> QED BY <1>2, <1>4, <2>1, <2>2 DEF CloseOK
<1>5. \A u \in Threads : Doing(u)' \notin HasSender /\ ~MayPark(u)'
  BY <1>2, <1>3 DEF CloseOK, CloseInv
<1>6. \A u \in Threads : Doing(u)' \in HasReceiver => Doing(u)' \in Closing
  BY <1>2, <1>3 DEF CloseOK, CloseInv
<1> QED BY <1>2, <1>4, <1>5, <1>6 DEF CloseOK

\* Counts.
LEMMA CountStep ==
    ASSUME FrameInv, CountInv, NEW t \in Threads, Steps(t), CountOK(t)
    PROVE  CountInv'
<1> DEFINE S == {s \in Senders : Doing(s) \in Registered}
           R == {r \in Receivers : Doing(r) \in Registered}
<1>0. Senders \subseteq Threads /\ Receivers \subseteq Threads /\ Senders \cap Receivers = {}
  BY ChanBufAssumption DEF Threads
<1>1. \A u \in Threads : u # t => Doing(u)' = Doing(u)
  BY OthersStay
<1>2. IsFiniteSet(S) /\ IsFiniteSet(R) /\ sendCnt = Cardinality(S) /\ recvCnt = Cardinality(R)
  BY DEF CountInv
<1>3. SUFFICES IsFiniteSet(S') /\ IsFiniteSet(R') /\ sendCnt' = Cardinality(S') /\ recvCnt' = Cardinality(R')
  BY DEF CountInv
<1>4. CASE UNCHANGED <<sendCnt, recvCnt>> /\ (Doing(t)' \in Registered <=> Doing(t) \in Registered)
  <2>1. S' = S /\ R' = R
    BY <1>0, <1>1, <1>4
  <2> QED BY <1>2, <1>4, <2>1
<1>5. CASE Doing(t) \notin Registered /\ Doing(t)' \in Registered
  <2>1. CASE t \in Senders /\ sendCnt' = sendCnt + 1 /\ recvCnt' = recvCnt
    <3>0. PICK A, B : A = S /\ B = R
      OBVIOUS
    <3>1. S' = A \cup {t} /\ t \notin A /\ R' = B
      BY <3>0, <1>0, <1>1, <1>5, <2>1
    <3>2. IsFiniteSet(A) /\ IsFiniteSet(B)
      BY <1>2, <3>0
    <3>3. IsFiniteSet(A \cup {t}) /\ Cardinality(A \cup {t}) = Cardinality(A) + 1
      BY <3>1, <3>2, CountUp
    <3> QED BY <1>2, <2>1, <3>0, <3>1, <3>2, <3>3
  <2>2. CASE t \in Receivers /\ recvCnt' = recvCnt + 1 /\ sendCnt' = sendCnt
    <3>0. PICK A, B : A = R /\ B = S
      OBVIOUS
    <3>1. R' = A \cup {t} /\ t \notin A /\ S' = B
      BY <3>0, <1>0, <1>1, <1>5, <2>2
    <3>2. IsFiniteSet(A) /\ IsFiniteSet(B)
      BY <1>2, <3>0
    <3>3. IsFiniteSet(A \cup {t}) /\ Cardinality(A \cup {t}) = Cardinality(A) + 1
      BY <3>1, <3>2, CountUp
    <3> QED BY <1>2, <2>2, <3>0, <3>1, <3>2, <3>3
  <2> QED BY <1>5, <2>1, <2>2 DEF CountOK
<1>6. CASE Doing(t) \in Registered /\ Doing(t)' \notin Registered
  <2>1. CASE t \in Senders /\ sendCnt' = sendCnt - 1 /\ recvCnt' = recvCnt
    <3>0. PICK A, B : A = S /\ B = R
      OBVIOUS
    <3>1. S' = A \ {t} /\ t \in A /\ R' = B
      BY <3>0, <1>0, <1>1, <1>6, <2>1
    <3>2. IsFiniteSet(A) /\ IsFiniteSet(B)
      BY <1>2, <3>0
    <3>3. IsFiniteSet(A \ {t}) /\ Cardinality(A \ {t}) = Cardinality(A) - 1
      BY <3>1, <3>2, CountDown
    <3> QED BY <1>2, <2>1, <3>0, <3>1, <3>2, <3>3
  <2>2. CASE t \in Receivers /\ recvCnt' = recvCnt - 1 /\ sendCnt' = sendCnt
    <3>0. PICK A, B : A = R /\ B = S
      OBVIOUS
    <3>1. R' = A \ {t} /\ t \in A /\ S' = B
      BY <3>0, <1>0, <1>1, <1>6, <2>2
    <3>2. IsFiniteSet(A) /\ IsFiniteSet(B)
      BY <1>2, <3>0
    <3>3. IsFiniteSet(A \ {t}) /\ Cardinality(A \ {t}) = Cardinality(A) - 1
      BY <3>1, <3>2, CountDown
    <3> QED BY <1>2, <2>2, <3>0, <3>1, <3>2, <3>3
  <2> QED BY <1>6, <2>1, <2>2 DEF CountOK
<1> QED BY <1>4, <1>5, <1>6 DEF CountOK

\* Queues and hands.
LEMMA OnceStep ==
    ASSUME FrameInv, KindInv, NEW t \in Threads, Steps(t), NEW q, NEW p, NEW H,
           H \in {HasReceiver, HasSender \cup {"rWake"}}, Elems(q) \subseteq Threads, Once(q, H), OnceOK(t, q, p, H)
    PROVE  /\ Distinct(p)
           /\ \A r \in Elems(p) : Doing(r)' \in Registered \ {"timeoutDec"} /\ word'[r] = 0
           /\ \A u \in Threads : Doing(u)' \in H =>
                 /\ Asleep(th[u].w)' /\ th'[u].w \notin Elems(p)
                 /\ \A v \in Threads : Doing(v)' \in H /\ th'[v].w = th'[u].w => v = u
<1>0. \A u \in Threads : Doing(u) \in H => th[u].w \in Threads
  BY DEF KindInv, HandOf, Threads
<1>1. \A u \in Threads : u # t => Doing(u)' = Doing(u) /\ th'[u] = th[u]
  BY OthersStay DEF Steps
<1>2. {"parked", "timedOut"} \subseteq Registered \ {"timeoutDec"}
  BY DEF Registered
<1>3. \A u \in Threads : Doing(u) \in H =>
          /\ th[u].w \notin Elems(q) /\ Doing(th[u].w) \in {"parked", "timedOut"} /\ word[th[u].w] = 0
          /\ \A v \in Threads : Doing(v) \in H /\ th[v].w = th[u].w => v = u
  BY DEF Once, Asleep
<1>h. {"parked", "timedOut"} \cap H = {}
  BY DEF HasReceiver, HasSender
<1>4. ASSUME NEW r \in Elems(p) PROVE Doing(r)' \in Registered \ {"timeoutDec"} /\ word'[r] = 0
  <2>1. CASE r = t
    BY <2>1 DEF OnceOK
  <2>2. CASE r # t /\ r \in Elems(q)
    <3>1. Doing(r) \in Registered \ {"timeoutDec"} /\ r \in Threads
      BY <2>2 DEF Once
    <3> QED BY <1>1, <2>2, <3>1 DEF OnceOK
  <2>3. CASE r # t /\ Doing(t) \in H /\ r = th[t].w
    <3>1. Doing(r) \in Registered \ {"timeoutDec"} /\ r \in Threads
      BY <1>0, <1>2, <1>3, <2>3
    <3> QED BY <1>1, <2>3, <3>1 DEF OnceOK
  <2> QED BY <2>1, <2>2, <2>3 DEF OnceOK
<1>5. ASSUME NEW u \in Threads, u # t, Doing(u) \in H, NEW w, w = th[u].w
      PROVE  Doing(w)' \in {"parked", "timedOut"} /\ word'[w] = 0 /\ th'[u].w = w /\ w \notin Elems(p)
  <2>1. w \notin Elems(p) /\ word'[w] = word[w] /\ (w = t => Doing(t)' \in {"parked", "timedOut"})
    BY <1>5 DEF OnceOK
  <2>2. w \in Threads /\ Doing(w) \in {"parked", "timedOut"} /\ word[w] = 0
    BY <1>0, <1>3, <1>5
  <2>3. th'[u].w = w
    BY <1>1, <1>5
  <2> QED BY <1>1, <2>1, <2>2, <2>3
<1>6. ASSUME Doing(t)' \in H, NEW w, w = th'[t].w
      PROVE  /\ Doing(w)' \in {"parked", "timedOut"} /\ word'[w] = 0 /\ w \notin Elems(p)
             /\ \A v \in Threads : v # t /\ Doing(v) \in H => th[v].w # w
  <2>1. w \notin Elems(p) /\ word'[w] = word[w]
    BY <1>6 DEF OnceOK
  <2>2. CASE Doing(t) \in H /\ w = th[t].w
    <3>1. w # t
      BY <1>3, <1>h, <2>2
    <3>2. w \in Threads /\ Doing(w) \in {"parked", "timedOut"} /\ word[w] = 0
      BY <1>0, <1>3, <2>2
    <3>3. \A v \in Threads : v # t /\ Doing(v) \in H => th[v].w # w
      BY <1>3, <2>2
    <3> QED BY <1>1, <2>1, <3>1, <3>2, <3>3
  <2>3. CASE w \in Elems(q) /\ w # t /\ Doing(w) \in {"parked", "timedOut"}
    <3>1. w \in Threads /\ word[w] = 0
      BY <2>3 DEF Once
    <3>2. \A v \in Threads : v # t /\ Doing(v) \in H => th[v].w # w
      BY <1>3, <2>3
    <3> QED BY <1>1, <2>1, <2>3, <3>1, <3>2
  <2> QED BY <1>6, <2>2, <2>3 DEF OnceOK
<1>7. ASSUME NEW u \in Threads, Doing(u)' \in H
      PROVE  /\ Asleep(th[u].w)' /\ th'[u].w \notin Elems(p)
             /\ \A v \in Threads : Doing(v)' \in H /\ th'[v].w = th'[u].w => v = u
  <2>0. PICK w : w = th'[u].w
    OBVIOUS
  <2>1. Doing(w)' \in {"parked", "timedOut"} /\ word'[w] = 0 /\ w \notin Elems(p)
    <3>1. CASE u = t
      BY <1>6, <1>7, <2>0, <3>1
    <3>2. CASE u # t
      BY <1>1, <1>5, <1>7, <2>0, <3>2
    <3> QED BY <3>1, <3>2
  <2>2. \A v \in Threads : Doing(v)' \in H /\ th'[v].w = w => v = u
    <3> SUFFICES ASSUME NEW v \in Threads, Doing(v)' \in H, th'[v].w = w, v # u PROVE FALSE
      OBVIOUS
    <3>1. CASE u = t
      BY <1>1, <1>6, <1>7, <2>0, <3>1
    <3>2. CASE v = t
      BY <1>1, <1>6, <1>7, <2>0, <3>2
    <3>3. CASE u # t /\ v # t
      BY <1>1, <1>3, <1>7, <2>0, <3>3
    <3> QED BY <3>1, <3>2, <3>3
  <2>3. Asleep(w)'
    BY <2>1 DEF Asleep
  <2>4. Asleep(th[u].w)' <=> Asleep(w)'
    BY <2>0 DEF Asleep, Doing, InRing
  <2> QED BY <2>0, <2>1, <2>2, <2>3, <2>4
<1> QED BY <1>4, <1>7 DEF OnceOK

\* Both queues.
LEMMA OncesStep ==
    ASSUME FrameInv, KindInv, RecvOnce, TimedFree => SendOnce, NoTimeouts, NEW t \in Threads, Steps(t), OncesOK(t)
    PROVE  RecvOnce' /\ (TimedFree => SendOnce)' /\ NoTimeouts'
<1>0. Elems(recvq) \subseteq Threads /\ Elems(sendq) \subseteq Threads
  BY ElemsIn DEF KindInv, Threads
<1>1. RecvOnce'
  <2>1. Once(recvq, HasReceiver) /\ OnceOK(t, recvq, recvq', HasReceiver)
    BY DEF RecvOnce, OncesOK
  <2>2. PICK q, p, H : q = recvq /\ p = recvq' /\ H = HasReceiver
    OBVIOUS
  <2>3. Once(q, H) /\ OnceOK(t, q, p, H) /\ Elems(q) \subseteq Threads
    BY <1>0, <2>1, <2>2
  <2>4. /\ Distinct(p)
        /\ \A r \in Elems(p) : Doing(r)' \in Registered \ {"timeoutDec"} /\ word'[r] = 0
        /\ \A u \in Threads : Doing(u)' \in H =>
              /\ Asleep(th[u].w)' /\ th'[u].w \notin Elems(p)
              /\ \A v \in Threads : Doing(v)' \in H /\ th'[v].w = th'[u].w => v = u
    BY <2>2, <2>3, OnceStep
  <2> QED BY <2>2, <2>4 DEF RecvOnce, Once
<1>2. ASSUME TimedFree PROVE SendOnce'
  <2>1. Once(sendq, HasSender \cup {"rWake"}) /\ OnceOK(t, sendq, sendq', HasSender \cup {"rWake"})
    BY <1>2 DEF SendOnce, OncesOK
  <2>2. PICK q, p, H : q = sendq /\ p = sendq' /\ H = HasSender \cup {"rWake"}
    OBVIOUS
  <2>3. Once(q, H) /\ OnceOK(t, q, p, H) /\ Elems(q) \subseteq Threads
    BY <1>0, <2>1, <2>2
  <2>4. /\ Distinct(p)
        /\ \A r \in Elems(p) : Doing(r)' \in Registered \ {"timeoutDec"} /\ word'[r] = 0
        /\ \A u \in Threads : Doing(u)' \in H =>
              /\ Asleep(th[u].w)' /\ th'[u].w \notin Elems(p)
              /\ \A v \in Threads : Doing(v)' \in H /\ th'[v].w = th'[u].w => v = u
    BY <2>2, <2>3, OnceStep
  <2> QED BY <2>2, <2>4 DEF SendOnce, Once
<1>3. NoTimeouts'
  <2>1. \A s \in Senders : s \in Threads /\ (s # t => Doing(s)' = Doing(s))
    BY OthersStay DEF Threads
  <2> QED BY <2>1 DEF NoTimeouts, OncesOK, TimedFree
<1> QED BY <1>1, <1>2, <1>3 DEF TimedFree

\* All of them.
LEMMA InvStep ==
    ASSUME Inv, NEW t \in Threads, Steps(t), LockOK(t), KindOK(t), SleepOK(t), CloseOK(t), CountOK(t),
           OncesOK(t)
    PROVE  Inv'
BY FrameStep, KindStep, SleepStep, CloseKeeps, CountStep, OncesStep DEF Inv

\* How a queue with its hands changes.  First: not at all.
LEMMA OnceKept ==
    ASSUME NEW t \in Threads, NEW q, NEW H, Once(q, H),
           \A r \in Elems(q) : r # t => word'[r] = word[r],
           \A u \in Threads : u # t /\ Doing(u) \in H => word'[th[u].w] = word[th[u].w],
           t \in Elems(q) => Doing(t)' \in Registered \ {"timeoutDec"} /\ word'[t] = 0,
           Doing(t) \in {"parked", "timedOut"} /\ word[t] = 0 => Doing(t)' \in {"parked", "timedOut"},
           Doing(t)' \in H => Doing(t) \in H /\ th'[t].w = th[t].w /\ word'[th[t].w] = word[th[t].w]
    PROVE  OnceOK(t, q, q, H)
BY DEF Once, OnceOK, Asleep

\* It is not at all about t.
LEMMA OnceApart ==
    ASSUME NEW t \in Threads, NEW q, NEW H, Once(q, H), t \notin Elems(q),
           \A r \in Elems(q) : word'[r] = word[r],
           \A u \in Threads : Doing(u) \in H => word'[th[u].w] = word[th[u].w] \/ u = t,
           \A u \in Threads : u # t /\ Doing(u) \in H => th[u].w # t,
           Doing(t)' \in H => Doing(t) \in H /\ th'[t].w = th[t].w /\ word'[th[t].w] = word[th[t].w]
    PROVE  OnceOK(t, q, q, H)
BY DEF Once, OnceOK, Asleep

\* Who is not registered is neither queued nor in hand.
LEMMA OnceOutside ==
    ASSUME NEW t \in Threads, NEW q, NEW H, Once(q, H), Doing(t) \notin Registered
    PROVE  t \notin Elems(q) /\ \A u \in Threads : Doing(u) \in H => th[u].w # t
<1>1. {"parked", "timedOut"} \subseteq Registered
  BY DEF Registered
<1> QED BY <1>1 DEF Once, Asleep

\* The thread t has in hand is woken, or one of another kind is.
LEMMA OnceWoken ==
    ASSUME NEW t \in Threads, NEW q, NEW H, Once(q, H), Elems(q) \subseteq Threads,
           \A u \in Threads : Doing(u) \in H => th[u].w \in Threads,
           Doing(t) \notin Registered, Doing(t)' \notin H,
           \/ Doing(t) \in H
           \/ th[t].w \notin Elems(q) /\ \A u \in Threads : Doing(u) \in H => th[u].w # th[t].w,
           \A u \in Threads : u # th[t].w => word'[u] = word[u]
    PROVE  OnceOK(t, q, q, H)
<1>1. t \notin Elems(q) /\ \A u \in Threads : Doing(u) \in H => th[u].w # t
  BY OnceOutside
<1>2. th[t].w \notin Elems(q)
  BY DEF Once
<1>3. \A u \in Threads : u # t /\ Doing(u) \in H => th[u].w # th[t].w
  BY DEF Once
<1> QED BY <1>1, <1>2, <1>3, OnceApart

\* Its first thread is taken in hand by the holder of the lock.
LEMMA OncePop ==
    ASSUME FrameInv, NEW t \in Threads, NEW S, S \subseteq Threads, NEW q \in Seq(S), q # << >>, NEW H, Once(q, H),
           word' = word, lock = t, Doing(t) \in Locking, Doing(t) \notin Registered \cup H,
           Doing(t)' \in H, th'[t].w = Head(q)
    PROVE  OnceOK(t, q, Tail(q), H)
<1>1. /\ Head(q) \in S /\ Head(q) \in Elems(q) /\ Elems(Tail(q)) \subseteq Elems(q)
      /\ Distinct(q) => Distinct(Tail(q)) /\ Head(q) \notin Elems(Tail(q))
  BY PopFacts
<1>2. \A r \in Elems(q) : Doing(r) \in Registered \ {"timeoutDec"} /\ word[r] = 0
  BY DEF Once
<1>3. t \notin Elems(q)
  BY <1>2
<1>4. Doing(Head(q)) \in {"parked", "timedOut"}
  <2>1. Doing(Head(q)) \notin Locking
    BY <1>1, <1>3 DEF FrameInv
  <2>2. Registered \ {"timeoutDec"} \subseteq Locking \cup {"parked", "timedOut"}
    BY DEF Registered, Locking
  <2> QED BY <1>1, <1>2, <2>1, <2>2
<1>5. \A u \in Threads : Doing(u) \in H => th[u].w \notin Elems(q) /\ th[u].w # t
  <2>1. {"parked", "timedOut"} \subseteq Registered
    BY DEF Registered
  <2> QED BY <2>1 DEF Once, Asleep
<1>6. Distinct(q)
  BY DEF Once
<1> QED BY <1>1, <1>2, <1>3, <1>4, <1>5, <1>6 DEF OnceOK

\* The thread in hand is put back.
LEMMA OnceFront ==
    ASSUME NEW t \in Threads, NEW S, NEW q \in Seq(S), NEW H, Once(q, H), NEW w \in S, w = th[t].w,
           word' = word, Doing(t) \in H, Doing(t) \notin Registered, Doing(t)' \notin H
    PROVE  OnceOK(t, q, <<w>> \o q, H)
<1>1. Asleep(w) /\ w \notin Elems(q) /\ Distinct(q)
  BY DEF Once
<1>2. Elems(<<w>> \o q) = Elems(q) \cup {w} /\ Distinct(<<w>> \o q)
  BY <1>1, FrontFacts
<1>3. {"parked", "timedOut"} \subseteq Registered
  BY DEF Registered
<1>4. t \notin Elems(q) /\ w # t
  BY <1>1, <1>3 DEF Once, Asleep
<1>5. \A u \in Threads : u # t /\ Doing(u) \in H => th[u].w # w /\ th[u].w \notin Elems(q) /\ th[u].w # t
  BY <1>3 DEF Once, Asleep
<1>6. \A r \in Elems(q) : word[r] = 0
  BY DEF Once
<1> QED BY <1>1, <1>2, <1>4, <1>5, <1>6 DEF OnceOK, Asleep

\* A thread joins.
LEMMA OnceJoin ==
    ASSUME KindInv, NEW t \in Threads, NEW S, S \subseteq Threads, NEW q \in Seq(S), t \in S,
           NEW H, H \in {HasReceiver, HasSender \cup {"rWake"}}, Once(q, H),
           word' = [word EXCEPT ![t] = 0], Doing(t) \notin Registered, Doing(t)' \in {"sAgain", "rAgain"}
    PROVE  OnceOK(t, q, Append(q, t), H)
<1>1. /\ Elems(Append(q, t)) = Elems(q) \cup {t}
      /\ Distinct(q) /\ t \notin Elems(q) => Distinct(Append(q, t))
  BY PushFacts
<1>2. {"parked", "timedOut", "sAgain", "rAgain"} \subseteq Registered \ {"timeoutDec"} /\ Doing(t)' \notin H
  BY DEF Registered, HasSender, HasReceiver
<1>3. t \notin Elems(q) /\ Distinct(q) /\ Elems(q) \subseteq Threads
  BY ElemsIn DEF Once
<1>4. \A u \in Threads : Doing(u) \in H => th[u].w # t /\ th[u].w \notin Elems(q) /\ th[u].w \in Threads
  <2>1. \A u \in Threads : Doing(u) \in H => th[u].w \in Threads
    BY DEF KindInv, HandOf, Threads
  <2> QED BY <1>2, <2>1 DEF Once, Asleep
<1>5. word'[t] = 0 /\ \A r \in Threads : r # t => word'[r] = word[r]
  BY DEF KindInv
<1>6. \A r \in Elems(q) : word[r] = 0
  BY DEF Once
<1> QED BY <1>1, <1>2, <1>3, <1>4, <1>5, <1>6 DEF OnceOK

\* A thread unlinks itself.
LEMMA OnceUnlink ==
    ASSUME NEW t \in Threads, NEW S, NEW q \in Seq(S), NEW H, Once(q, H), word' = word, Doing(t)' \notin H,
           \A u \in Threads : u # t /\ Doing(u) \in H => th[u].w # t
    PROVE  OnceOK(t, q, Without(q, t), H)
<1>1. /\ Elems(Without(q, t)) \subseteq Elems(q)
      /\ Distinct(q) => Distinct(Without(q, t)) /\ t \notin Elems(Without(q, t))
  BY RemoveFacts
<1>2. Distinct(q) /\ \A r \in Elems(q) : word[r] = 0
  BY DEF Once
<1>3. \A u \in Threads : Doing(u) \in H => th[u].w \notin Elems(q)
  BY DEF Once
<1> QED BY <1>1, <1>2, <1>3 DEF OnceOK

\* Steps that leave queues and words alone.
LEMMA OnceSame ==
    ASSUME Inv, NEW t \in Threads, UNCHANGED <<sendq, recvq, word>>,
           Doing(t) \in Registered \ {"timeoutDec"} /\ word[t] = 0 => Doing(t)' \in Registered \ {"timeoutDec"},
           Doing(t) \in {"parked", "timedOut"} /\ word[t] = 0 => Doing(t)' \in {"parked", "timedOut"},
           Doing(t)' \in HasReceiver => Doing(t) \in HasReceiver /\ th'[t].w = th[t].w,
           Doing(t)' \in HasSender \cup {"rWake"} => Doing(t) \in HasSender \cup {"rWake"} /\ th'[t].w = th[t].w,
           TimedFree /\ t \in Senders => Doing(t)' # "timedOut"
    PROVE  OncesOK(t)
<1>1. ASSUME NEW q, NEW H, Once(q, H),
             Doing(t)' \in H => Doing(t) \in H /\ th'[t].w = th[t].w
      PROVE  OnceOK(t, q, q, H)
  <2>1. t \in Elems(q) => Doing(t)' \in Registered \ {"timeoutDec"} /\ word'[t] = 0
    BY <1>1 DEF Once
  <2> QED BY <1>1, <2>1, OnceKept
<1>2. OnceOK(t, recvq, recvq, HasReceiver)
  BY <1>1 DEF Inv, RecvOnce
<1>3. TimedFree => OnceOK(t, sendq, sendq, HasSender \cup {"rWake"})
  BY <1>1 DEF Inv, SendOnce
<1> QED BY <1>2, <1>3 DEF OncesOK

\* The steps that leave locks, queues and waiters alone.
LEMMA QuietKeeps ==
    ASSUME Inv, NEW t \in Threads, QuietMove(t)
    PROVE  Inv'
<1>1. Steps(t) /\ UNCHANGED <<lock, sendq, recvq, sendCnt, recvCnt, closed, word, calls>>
  BY DEF QuietMove, Quiet
<1>2. LockOK(t)
  BY <1>1 DEF Inv, FrameInv, LockOK, QuietMove
<1>3. KindOK(t)
  <2>1. calls[t] > 0
    BY DEF Inv, KindInv, QuietMove
  <2>2. \A u \in Threads : calls[u] >= calls[u]
    BY ChanBufAssumption DEF Inv, KindInv
  <2> QED BY <1>1, <2>1, <2>2 DEF Inv, KindInv, KindOK, QuietMove
<1>4. SleepOK(t)
  <2>1. \A u : Queued(u)' <=> Queued(u)
    BY <1>1 DEF Queued
  <2>2. \A u \in Threads : Holds(t, u) => Holds(t, u)'
    BY DEF Holds, QuietMove
  <2>3. \A u \in Threads : ~Wakes(t, u)
    BY DEF Wakes, QuietMove
  <2>4. Doing(t)' \in {"sAgain", "rAgain", "unlockPark"} => Queued(t)'
    BY <2>1 DEF Inv, SleepInv, QuietMove
  <2>5. Doing(t)' \notin {"parked", "timedOut"}
    BY DEF QuietMove
  <2> QED BY <1>1, <2>1, <2>2, <2>3, <2>4, <2>5 DEF SleepOK
<1>5. CloseOK(t)
  BY <1>1 DEF Inv, CloseInv, CloseOK, QuietMove
<1>6. CountOK(t)
  BY <1>1 DEF CountOK, QuietMove
<1>7. OncesOK(t)
  <2>1. Doing(t) \in Registered => Doing(t)' \in {"sAgain", "rAgain", "unlockPark"}
    BY DEF QuietMove, Registered
  <2>2. Doing(t)' \in {"sAgain", "rAgain", "unlockPark"} => Doing(t) \in {"sAgain", "rAgain"}
    BY DEF QuietMove
  <2>3. {"sAgain", "rAgain", "unlockPark", "parked", "timedOut"} \subseteq Registered \ {"timeoutDec"}
    BY DEF Registered
  <2>4. /\ Doing(t)' \in HasReceiver => Doing(t) \in HasReceiver /\ th'[t].w = th[t].w
        /\ Doing(t)' \in HasSender \cup {"rWake"} => Doing(t) \in HasSender /\ th'[t].w = th[t].w
    BY DEF QuietMove
  <2>5. Doing(t)' # "timedOut"
    BY DEF QuietMove
  <2> QED BY <1>1, <2>1, <2>2, <2>3, <2>4, <2>5, OnceSame
<1> QED BY <1>1, <1>2, <1>3, <1>4, <1>5, <1>6, <1>7, InvStep

------------------------------------------------------------------------------
(* The shapes of the other steps, and why the invariants survive them.     *)

\* How the sets of labels lie.
LEMMA LabelFacts ==
    /\ HasSender \cup HasReceiver \cup Closing \cup {"sAgain", "rAgain", "unlockPark"} \subseteq Locking
    /\ HasSender \cap (HasReceiver \cup Closing) = {}
    /\ {"sAgain", "rAgain", "unlockPark"} \cap (HasSender \cup HasReceiver \cup Closing) = {}
    /\ {"idle", "rWake", "parked", "timedOut", "timeoutDec"} \cap Locking = {}
    /\ Registered \cap (HasSender \cup HasReceiver \cup Closing \cup {"idle", "rWake"}) = {}
    /\ {"sAgain", "rAgain", "unlockPark", "parked", "timedOut", "timeoutDec"} \subseteq Registered
BY DEF HasSender, HasReceiver, Closing, Locking, Registered

\* What KindInv says of the queues and the waiters.
LEMMA KindFacts ==
    ASSUME KindInv
    PROVE  /\ sendq \in Seq(Senders) /\ recvq \in Seq(Receivers)
           /\ word \in [Threads -> {0, 1}] /\ calls \in [Threads -> 0..MaxCalls]
           /\ \A u \in Threads : calls[u] >= calls[u] /\ calls[u] \in Nat
           /\ Elems(sendq) \subseteq Senders /\ Elems(recvq) \subseteq Receivers
           /\ \A s \in Elems(sendq) : calls[s] > 0
           /\ \A t \in Threads : HandOf(t) /\ (Doing(t) # "idle" => calls[t] > 0)
           /\ Senders \subseteq Threads /\ Receivers \subseteq Threads /\ Closers \subseteq Threads
<1>1. calls \in [Threads -> 0..MaxCalls] /\ MaxCalls \in Nat
  BY ChanBufAssumption DEF KindInv
<1>2. Elems(sendq) \subseteq Senders /\ Elems(recvq) \subseteq Receivers
  BY ElemsIn DEF KindInv
<1> QED BY <1>1, <1>2 DEF KindInv, Threads

\* A thread steps alone: it has no lock, nothing in hand, and wakes nobody.
LEMMA OwnMove ==
    ASSUME Inv, NEW t \in Threads, Steps(t), CountOK(t), UNCHANGED <<lock, sendq, recvq, closed, word>>,
           Doing(t) \notin Locking \cup {"rWake"}, Doing(t)' \notin Locking \cup {"rWake", "parked"},
           ~MayPark(t)', ~InRing(t)', calls' \in [Threads -> 0..MaxCalls],
           \A u \in Threads : calls'[u] >= calls[u] /\ (u # t => calls'[u] = calls[u]),
           Doing(t)' # "idle" => calls'[t] > 0,
           Doing(t) \notin Registered \/ Doing(t) = "timeoutDec" \/ (Doing(t) = "parked" /\ (word[t] = 1 \/ Doing(t)' = "timedOut")),
           Doing(t)' = "timedOut" /\ TimedFree => t \notin Senders,
           Doing(t)' = "timedOut" => Doing(t) = "parked" /\ calls' = calls
    PROVE  Inv'
<1>1. LockOK(t)
  BY DEF LockOK
<1>2. KindOK(t)
  <2>1. HandOf(t)'
    BY LabelFacts DEF HandOf, InRing, RingLabels
  <2> QED BY <2>1, KindFacts DEF KindOK, Inv
<1>3. SleepOK(t)
  <2>1. \A u : Queued(u)' <=> Queued(u)
    BY DEF Queued
  <2>2. \A u : ~Holds(t, u) /\ ~Wakes(t, u)
    BY LabelFacts DEF Holds, Wakes
  <2> QED BY <2>1, <2>2, LabelFacts DEF SleepOK
<1>4. CloseOK(t)
  BY LabelFacts DEF CloseOK, Inv, CloseInv
<1>5. OncesOK(t)
  <2>1. "timedOut" \in Registered \ {"timeoutDec"}
    BY LabelFacts
  <2>2. /\ Doing(t)' \notin HasReceiver \cup HasSender \cup {"rWake"}
        /\ Doing(t) \in Registered \ {"timeoutDec"} /\ word[t] = 0 => Doing(t)' = "timedOut"
    BY LabelFacts
  <2>3. Doing(t) \in {"parked", "timedOut"} /\ word[t] = 0 => Doing(t)' = "timedOut"
    BY <2>2, LabelFacts
  <2> QED BY <2>1, <2>2, <2>3, OnceSame
<1> QED BY <1>1, <1>2, <1>3, <1>4, <1>5, InvStep

\* The holder of the lock gives it up and returns.
LEMMA Leave ==
    ASSUME Inv, NEW t \in Threads, Steps(t), CountOK(t), UNCHANGED <<sendq, recvq, closed, word, calls>>,
           Doing(t) \in Locking \ (HasSender \cup HasReceiver), lock' = None,
           Doing(t)' = "idle", ~MayPark(t)', ~InRing(t)',
           Doing(t) \in Closing => recvq = << >>,
           Doing(t) \notin Registered
    PROVE  Inv'
<1>0. lock = t
  BY DEF Inv, FrameInv
<1>1. LockOK(t)
  BY <1>0, LabelFacts DEF LockOK
<1>2. KindOK(t)
  <2>1. HandOf(t)'
    BY LabelFacts DEF HandOf, InRing, RingLabels
  <2> QED BY <2>1, KindFacts DEF KindOK, Inv
<1>3. SleepOK(t)
  <2>1. \A u : Queued(u)' <=> Queued(u)
    BY DEF Queued
  <2>2. \A u : ~Holds(t, u) /\ ~Wakes(t, u)
    BY LabelFacts DEF Holds, Wakes
  <2> QED BY <2>1, <2>2, LabelFacts DEF SleepOK
<1>4. CloseOK(t)
  BY LabelFacts DEF CloseOK, Inv, CloseInv
<1>5. OncesOK(t)
  BY LabelFacts, OnceSame
<1> QED BY <1>1, <1>2, <1>3, <1>4, <1>5, InvStep

\* A thread takes the lock and has nothing in hand yet.
LEMMA Taken ==
    ASSUME Inv, NEW t \in Threads, Steps(t), CountOK(t), UNCHANGED <<sendq, recvq, closed, word, calls>>,
           lock = None, lock' = t, Doing(t) \notin Locking \cup {"rWake", "idle"},
           Doing(t)' \in Locking \ (HasSender \cup HasReceiver \cup Closing \cup {"sAgain", "rAgain", "unlockPark"}),
           MayPark(t)' => ~closed,
           Head(th'[t].at) \in PushLabels => th'[t].w = t /\ t \in Senders,
           Head(th'[t].at) \in PopLabels => th'[t].w = t /\ t \in Receivers,
           Doing(t) \notin Registered
    PROVE  Inv'
<1>1. LockOK(t)
  BY DEF LockOK
<1>2. KindOK(t)
  <2>1. HandOf(t)'
    BY LabelFacts, KindFacts DEF HandOf, Inv
  <2> QED BY <2>1, KindFacts DEF KindOK, Inv
<1>3. SleepOK(t)
  <2>1. \A u : Queued(u)' <=> Queued(u)
    BY DEF Queued
  <2>2. \A u : ~Holds(t, u) /\ ~Wakes(t, u)
    BY LabelFacts DEF Holds, Wakes
  <2> QED BY <2>1, <2>2, LabelFacts DEF SleepOK
<1>4. CloseOK(t)
  BY LabelFacts DEF CloseOK, Inv, CloseInv
<1>5. OncesOK(t)
  BY LabelFacts, OnceSame
<1> QED BY <1>1, <1>2, <1>3, <1>4, <1>5, InvStep

\* The holder of the lock takes the first waiter of a queue in hand.
LEMMA Grab ==
    ASSUME Inv, NEW t \in Threads, Steps(t), CountOK(t), UNCHANGED <<lock, closed, word, calls>>,
           Doing(t) \in Locking \ (HasSender \cup HasReceiver), MayPark(t)' => MayPark(t),
           \/ /\ recvq' = recvq /\ sendq # << >> /\ sendq' = Tail(sendq) /\ th'[t].w = Head(sendq)
              /\ Doing(t)' \in HasSender /\ Head(th'[t].at) \notin PopLabels
           \/ /\ sendq' = sendq /\ recvq # << >> /\ recvq' = Tail(recvq) /\ th'[t].w = Head(recvq)
              /\ Doing(t)' \in HasReceiver /\ Head(th'[t].at) \notin PushLabels
              /\ Doing(t)' \in Closing <=> Doing(t) \in Closing,
           Doing(t) \notin Registered
    PROVE  Inv'
<1>0. lock = t
  BY DEF Inv, FrameInv
<1>1. LockOK(t)
  BY <1>0, LabelFacts DEF LockOK
<1>q. /\ sendq # << >> => /\ Tail(sendq) \in Seq(Senders) /\ Head(sendq) \in Elems(sendq)
                          /\ Elems(sendq) = Elems(Tail(sendq)) \cup {Head(sendq)}
      /\ recvq # << >> => /\ Tail(recvq) \in Seq(Receivers) /\ Head(recvq) \in Elems(recvq)
                          /\ Elems(recvq) = Elems(Tail(recvq)) \cup {Head(recvq)}
  BY PopFacts, KindFacts DEF Inv
<1>2. KindOK(t)
  <2>1. HandOf(t)'
    BY <1>q, LabelFacts, KindFacts DEF HandOf, Inv
  <2>2. calls[t] > 0
    BY LabelFacts, KindFacts DEF Inv
  <2> QED BY <1>q, <2>1, <2>2, KindFacts DEF KindOK, Inv
<1>3. SleepOK(t)
  <2>1. \A u : Queued(u) => Queued(u)' \/ Holds(t, u)'
    BY <1>q DEF Queued, Holds
  <2>2. \A u : ~Holds(t, u) /\ ~Wakes(t, u)
    BY LabelFacts DEF Holds, Wakes
  <2> QED BY <1>0, <2>1, <2>2, LabelFacts DEF SleepOK
<1>4. CloseOK(t)
  <2>1. SUFFICES ASSUME closed
                 PROVE  /\ sendq' = << >> /\ Doing(t)' \notin HasSender /\ ~MayPark(t)'
                        /\ Doing(t)' \in HasReceiver => Doing(t)' \in Closing
                        /\ recvq' # << >> => Doing(t)' \in Closing
    BY DEF CloseOK
  <2>2. sendq = << >> /\ ~MayPark(t)
    BY <2>1 DEF Inv, CloseInv
  <2>3. recvq # << >>
    BY <2>2
  <2>4. PICK u \in Threads : Doing(u) \in Closing
    BY <2>1, <2>3 DEF Inv, CloseInv
  <2>5. u = t
    BY <1>0, <2>4, LabelFacts DEF Inv, FrameInv
  <2> QED BY <2>2, <2>4, <2>5, LabelFacts
<1>5. OncesOK(t)
  <2>t. Doing(t)' # "timedOut"
    BY LabelFacts DEF Returns
  <2>k. /\ Once(recvq, HasReceiver) /\ (TimedFree => Once(sendq, HasSender \cup {"rWake"}))
        /\ sendq \in Seq(Senders) /\ recvq \in Seq(Receivers) /\ Senders \subseteq Threads /\ Receivers \subseteq Threads
    BY KindFacts DEF Inv, RecvOnce, SendOnce
  <2>f. FrameInv
    BY DEF Inv
  <2>1. CASE recvq' = recvq
    <3>1. OnceOK(t, recvq, recvq, HasReceiver)
      BY <2>1, <2>k, LabelFacts, OnceOutside, OnceApart
    <3>2. /\ Doing(t)' \in HasSender \cup {"rWake"} /\ Doing(t) \notin Registered \cup (HasSender \cup {"rWake"})
          /\ sendq # << >> /\ sendq' = Tail(sendq) /\ th'[t].w = Head(sendq)
      BY <2>1, LabelFacts
    <3>3. TimedFree => OnceOK(t, sendq, Tail(sendq), HasSender \cup {"rWake"})
      BY <1>0, <2>f, <2>k, <3>2, OncePop
    <3> QED BY <2>1, <3>1, <3>2, <3>3, <2>t DEF OncesOK
  <2>2. CASE sendq' = sendq /\ recvq' # recvq
    <3>1. TimedFree => OnceOK(t, sendq, sendq, HasSender \cup {"rWake"})
      BY <2>2, <2>k, LabelFacts, OnceOutside, OnceApart
    <3>2. /\ Doing(t)' \in HasReceiver /\ Doing(t) \notin Registered \cup HasReceiver
          /\ recvq # << >> /\ recvq' = Tail(recvq) /\ th'[t].w = Head(recvq)
      BY <2>2
    <3>3. OnceOK(t, recvq, Tail(recvq), HasReceiver)
      BY <1>0, <2>f, <2>k, <3>2, OncePop
    <3> QED BY <2>2, <3>1, <3>2, <3>3, <2>t DEF OncesOK
  <2> QED BY <2>1, <2>2
<1> QED BY <1>1, <1>2, <1>3, <1>4, <1>5, InvStep

\* The holder of the lock wakes the waiter it has in hand.
LEMMA Serve ==
    ASSUME Inv, NEW t \in Threads, Steps(t), CountOK(t), UNCHANGED <<lock, sendq, recvq, closed, calls>>,
           Doing(t) \in HasSender \cup HasReceiver, word' = [word EXCEPT ![th[t].w] = 1],
           Doing(t)' \in Locking \ (HasSender \cup HasReceiver \cup {"sAgain", "rAgain", "unlockPark"}),
           MayPark(t)' => MayPark(t), ~InRing(t)', Doing(t) \in Closing <=> Doing(t)' \in Closing
    PROVE  Inv'
<1>0. lock = t
  BY LabelFacts DEF Inv, FrameInv
<1>w. th[t].w \in Threads
  BY KindFacts DEF Inv, HandOf
<1>1. LockOK(t)
  BY <1>0 DEF LockOK
<1>2. KindOK(t)
  <2>1. HandOf(t)'
    BY LabelFacts DEF HandOf, InRing, RingLabels
  <2>2. calls[t] > 0
    BY LabelFacts, KindFacts DEF Inv
  <2>3. word' \in [Threads -> {0, 1}]
    BY KindFacts DEF Inv
  <2> QED BY <2>1, <2>2, <2>3, KindFacts DEF KindOK, Inv
<1>3. SleepOK(t)
  <2>1. \A u : Queued(u)' <=> Queued(u)
    BY DEF Queued
  <2>2. \A u \in Threads : ~Wakes(t, u) /\ (word'[u] = 0 => word[u] = 0 /\ ~Holds(t, u))
    BY <1>w, LabelFacts, KindFacts DEF Holds, Wakes, Inv
  <2> QED BY <1>0, <2>1, <2>2, LabelFacts DEF SleepOK
<1>4. CloseOK(t)
  BY LabelFacts DEF CloseOK, Inv, CloseInv
<1>5. OncesOK(t)
  <2>t. Doing(t)' # "timedOut"
    BY LabelFacts DEF Returns
  <2>k. /\ Once(recvq, HasReceiver) /\ (TimedFree => Once(sendq, HasSender \cup {"rWake"}))
        /\ sendq \in Seq(Senders) /\ recvq \in Seq(Receivers) /\ Senders \subseteq Threads /\ Receivers \subseteq Threads
    BY KindFacts DEF Inv, RecvOnce, SendOnce
  <2>1. Doing(t) \notin Registered /\ Doing(t)' \notin HasReceiver \cup HasSender \cup {"rWake"}
    BY LabelFacts
  <2>3. \A u \in Threads : u # th[t].w => word'[u] = word[u]
    BY <1>w, KindFacts DEF Inv
  <2>h. \A u \in Threads : Doing(u) \in HasReceiver => th[u].w \in Receivers
    BY KindFacts DEF Inv, HandOf
  <2>s. \A u \in Threads : Doing(u) \in HasSender \cup {"rWake"} => th[u].w \in Senders
    BY KindFacts DEF Inv, HandOf
  <2>e. Elems(recvq) \subseteq Receivers /\ Elems(sendq) \subseteq Senders
    BY KindFacts DEF Inv
  <2>a. \A x : ~(x \in Senders /\ x \in Receivers)
    BY ChanBufAssumption
  <2>4. OnceOK(t, recvq, recvq, HasReceiver)
    <3>1. /\ Elems(recvq) \subseteq Threads
          /\ \A u \in Threads : Doing(u) \in HasReceiver => th[u].w \in Threads
          /\ Doing(t)' \notin HasReceiver
      BY <2>1, <2>e, <2>h, <2>k
    <3>2. CASE Doing(t) \in HasReceiver
      BY <2>1, <2>3, <2>k, <3>1, <3>2, OnceWoken
    <3>3. CASE Doing(t) \in HasSender \cup {"rWake"}
      <4>1. th[t].w \notin Elems(recvq) /\ \A u \in Threads : Doing(u) \in HasReceiver => th[u].w # th[t].w
        BY <2>a, <2>e, <2>h, <2>s, <3>3
      <4> QED BY <2>1, <2>3, <2>k, <3>1, <4>1, OnceWoken
    <3> QED BY <3>2, <3>3
  <2>5. ASSUME TimedFree PROVE OnceOK(t, sendq, sendq, HasSender \cup {"rWake"})
    <3>1. /\ Elems(sendq) \subseteq Threads
          /\ \A u \in Threads : Doing(u) \in HasSender \cup {"rWake"} => th[u].w \in Threads
          /\ Doing(t)' \notin HasSender \cup {"rWake"}
      BY <2>1, <2>e, <2>s, <2>k
    <3>2. CASE Doing(t) \in HasSender \cup {"rWake"}
      BY <2>1, <2>3, <2>5, <2>k, <3>1, <3>2, OnceWoken
    <3>3. CASE Doing(t) \in HasReceiver
      <4>1. th[t].w \notin Elems(sendq) /\ \A u \in Threads : Doing(u) \in HasSender \cup {"rWake"} => th[u].w # th[t].w
        BY <2>a, <2>e, <2>h, <2>s, <3>3
      <4> QED BY <2>1, <2>3, <2>5, <2>k, <3>1, <4>1, OnceWoken
    <3> QED BY <3>2, <3>3
  <2> QED BY <2>4, <2>5, <2>t DEF OncesOK
<1> QED BY <1>1, <1>2, <1>3, <1>4, <1>5, InvStep

\* The waiter in hand goes back to the front of its queue.
LEMMA PutBack ==
    ASSUME Inv, NEW t \in Threads, Steps(t), CountOK(t), UNCHANGED <<closed, word, calls>>,
           \/ /\ Doing(t) = "undelivered" /\ recvq' = <<th[t].w>> \o recvq /\ sendq' = sendq
           \/ /\ Doing(t) \in {"unadmitted", "rHelpFailed"} /\ sendq' = <<th[t].w>> \o sendq /\ recvq' = recvq,
           Doing(t)' \in Returns \cup {"idle"}, ~InRing(t)', Doing(t)' \in Locking \/ MayPark(t)' => lock' = t
    PROVE  Inv'
<1>h. Doing(t) \in Locking /\ (Doing(t) \in HasSender \/ (Doing(t) \in HasReceiver /\ Doing(t) \notin Closing))
  BY DEF HasSender, HasReceiver, Locking, Closing
<1>r. {"done", "sPark", "idle"} \cap (HasSender \cup HasReceiver \cup {"rWake", "sAgain", "rAgain", "unlockPark", "parked", "timedOut"}) = {}
  BY DEF HasSender, HasReceiver
<1>0. lock = t /\ ~closed
  BY <1>h DEF Inv, FrameInv, CloseInv
<1>1. LockOK(t)
  BY <1>0 DEF LockOK
<1>w. /\ Doing(t) = "undelivered" => th[t].w \in Receivers
      /\ Doing(t) \in {"unadmitted", "rHelpFailed"} => th[t].w \in Senders /\ calls[th[t].w] > 0
  BY KindFacts DEF Inv, HandOf, HasSender, HasReceiver
<1>q. /\ Doing(t) = "undelivered" => recvq' \in Seq(Receivers) /\ Elems(recvq') = Elems(recvq) \cup {th[t].w}
      /\ Doing(t) \in {"unadmitted", "rHelpFailed"} => sendq' \in Seq(Senders) /\ Elems(sendq') = Elems(sendq) \cup {th[t].w}
  <2>1. PICK w : w = th[t].w
    OBVIOUS
  <2>2. w \in Receivers => <<w>> \o recvq \in Seq(Receivers) /\ Elems(<<w>> \o recvq) = Elems(recvq) \cup {w}
    BY FrontFacts, KindFacts DEF Inv
  <2>3. w \in Senders => <<w>> \o sendq \in Seq(Senders) /\ Elems(<<w>> \o sendq) = Elems(sendq) \cup {w}
    BY FrontFacts, KindFacts DEF Inv
  <2> QED BY <1>w, <2>1, <2>2, <2>3
<1>2. KindOK(t)
  <2>1. HandOf(t)'
    BY <1>r DEF HandOf, InRing, RingLabels, Returns
  <2>2. calls[t] > 0
    BY <1>h, LabelFacts, KindFacts DEF Inv
  <2> QED BY <1>q, <1>w, <2>1, <2>2, KindFacts DEF KindOK, Inv
<1>3. SleepOK(t)
  <2>1. \A u : Queued(u) \/ Holds(t, u) => Queued(u)'
    BY <1>q DEF Queued, Holds
  <2>2. \A u : ~Wakes(t, u)
    BY DEF Wakes
  <2> QED BY <1>0, <1>r, <2>1, <2>2 DEF SleepOK, Returns
<1>4. CloseOK(t)
  BY <1>0 DEF CloseOK
<1>5. OncesOK(t)
  <2>t. Doing(t)' # "timedOut"
    BY LabelFacts DEF Returns
  <2>k. /\ Once(recvq, HasReceiver) /\ (TimedFree => Once(sendq, HasSender \cup {"rWake"}))
        /\ sendq \in Seq(Senders) /\ recvq \in Seq(Receivers) /\ Senders \subseteq Threads /\ Receivers \subseteq Threads
    BY KindFacts DEF Inv, RecvOnce, SendOnce
  <2>1. /\ Doing(t) \notin Registered /\ Doing(t)' \notin HasReceiver \cup HasSender \cup {"rWake"}
        /\ Doing(t) = "undelivered" => Doing(t) \in HasReceiver
        /\ Doing(t) # "undelivered" => Doing(t) \in HasSender \cup {"rWake"}
    BY <1>h, <1>r, LabelFacts DEF Returns, HasReceiver, HasSender
  <2>2. PICK w : w = th[t].w
    OBVIOUS
  <2>3. CASE Doing(t) = "undelivered" /\ recvq' = <<w>> \o recvq /\ sendq' = sendq
    <3>1. OnceOK(t, recvq, <<w>> \o recvq, HasReceiver)
      BY <1>w, <2>1, <2>2, <2>3, <2>k, OnceFront
    <3>2. TimedFree => OnceOK(t, sendq, sendq, HasSender \cup {"rWake"})
      BY <2>1, <2>k, OnceOutside, OnceApart
    <3> QED BY <2>3, <3>1, <3>2, <2>t DEF OncesOK
  <2>4. CASE Doing(t) # "undelivered" /\ sendq' = <<w>> \o sendq /\ recvq' = recvq
    <3>1. TimedFree => OnceOK(t, sendq, <<w>> \o sendq, HasSender \cup {"rWake"})
      BY <1>w, <2>1, <2>2, <2>4, <2>k, OnceFront
    <3>2. OnceOK(t, recvq, recvq, HasReceiver)
      BY <2>1, <2>k, OnceOutside, OnceApart
    <3> QED BY <2>4, <3>1, <3>2, <2>t DEF OncesOK
  <2> QED BY <2>2, <2>3, <2>4
<1> QED BY <1>1, <1>2, <1>3, <1>4, <1>5, InvStep

\* A thread queues itself and looks at the ring once more.
LEMMA Join ==
    ASSUME Inv, NEW t \in Threads, Steps(t), CountOK(t), UNCHANGED <<lock, closed, calls>>, ~closed,
           Doing(t) \in Locking \ (HasSender \cup HasReceiver), word' = [word EXCEPT ![t] = 0],
           ~MayPark(t)', th'[t].w = t, Head(th'[t].at) \in PushLabels \cup PopLabels,
           \/ /\ t \in Senders /\ sendq' = Append(sendq, t) /\ recvq' = recvq
              /\ Doing(t)' = "sAgain" /\ Head(th'[t].at) \notin PopLabels
           \/ /\ t \in Receivers /\ recvq' = Append(recvq, t) /\ sendq' = sendq
              /\ Doing(t)' = "rAgain" /\ Head(th'[t].at) \notin PushLabels,
           Doing(t) \notin Registered
    PROVE  Inv'
<1>0. lock = t /\ calls[t] > 0
  BY LabelFacts, KindFacts DEF Inv, FrameInv
<1>1. LockOK(t)
  BY <1>0 DEF LockOK
<1>q. /\ t \in Senders => Append(sendq, t) \in Seq(Senders) /\ Elems(Append(sendq, t)) = Elems(sendq) \cup {t}
      /\ t \in Receivers => Append(recvq, t) \in Seq(Receivers) /\ Elems(Append(recvq, t)) = Elems(recvq) \cup {t}
  BY PushFacts, KindFacts DEF Inv
<1>2. KindOK(t)
  <2>1. HandOf(t)'
    BY <1>0, LabelFacts DEF HandOf
  <2>2. word' \in [Threads -> {0, 1}]
    BY KindFacts DEF Inv
  <2> QED BY <1>0, <1>q, <2>1, <2>2, KindFacts DEF KindOK, Inv
<1>3. SleepOK(t)
  <2>1. \A u : Queued(u) \/ u = t => Queued(u)'
    BY <1>q DEF Queued
  <2>2. \A u : ~Holds(t, u) /\ ~Wakes(t, u)
    BY LabelFacts DEF Holds, Wakes
  <2>3. \A u \in Threads : u # t => word'[u] = word[u]
    BY KindFacts DEF Inv
  <2> QED BY <1>0, <2>1, <2>2, <2>3 DEF SleepOK
<1>4. CloseOK(t)
  BY DEF CloseOK
<1>5. OncesOK(t)
  <2>t. Doing(t)' # "timedOut"
    BY LabelFacts DEF Returns
  <2>k. /\ Once(recvq, HasReceiver) /\ (TimedFree => Once(sendq, HasSender \cup {"rWake"}))
        /\ sendq \in Seq(Senders) /\ recvq \in Seq(Receivers) /\ Senders \subseteq Threads /\ Receivers \subseteq Threads
    BY KindFacts DEF Inv, RecvOnce, SendOnce
  <2>i. KindInv
    BY DEF Inv
  <2>1. Doing(t)' \in {"sAgain", "rAgain"} /\ Doing(t)' \notin HasReceiver \cup HasSender \cup {"rWake"}
    BY LabelFacts
  <2>2. \A u \in Threads : u # t => word'[u] = word[u]
    BY KindFacts DEF Inv
  <2>3. ASSUME NEW q, NEW H, Once(q, H), Elems(q) \subseteq Threads,
               H \in {HasReceiver, HasSender \cup {"rWake"}}
        PROVE  OnceOK(t, q, q, H)
    <3>1. t \notin Elems(q) /\ \A u \in Threads : Doing(u) \in H => th[u].w # t
      BY <2>3, OnceOutside
    <3>2. \A u \in Threads : Doing(u) \in H => th[u].w \in Threads
      BY <2>3, <2>i, KindFacts DEF HandOf
    <3>3. Doing(t)' \notin H
      BY <2>1, <2>3
    <3> QED BY <2>2, <2>3, <3>1, <3>2, <3>3, OnceApart
  <2>e. Elems(recvq) \subseteq Threads /\ Elems(sendq) \subseteq Threads
    BY <2>i, KindFacts
  <2>4. CASE t \in Senders /\ sendq' = Append(sendq, t) /\ recvq' = recvq
    <3>1. TimedFree => OnceOK(t, sendq, Append(sendq, t), HasSender \cup {"rWake"})
      BY <2>1, <2>4, <2>i, <2>k, OnceJoin
    <3> QED BY <2>3, <2>4, <2>e, <2>k, <3>1, <2>t DEF OncesOK
  <2>5. CASE t \in Receivers /\ recvq' = Append(recvq, t) /\ sendq' = sendq
    <3>1. OnceOK(t, recvq, Append(recvq, t), HasReceiver)
      BY <2>1, <2>5, <2>i, <2>k, OnceJoin
    <3> QED BY <2>3, <2>5, <2>e, <2>k, <3>1, <2>t DEF OncesOK
  <2> QED BY <2>4, <2>5
<1> QED BY <1>1, <1>2, <1>3, <1>4, <1>5, InvStep

\* A thread unlinks its own waiter.
LEMMA Unlink ==
    ASSUME Inv, NEW t \in Threads, Steps(t), CountOK(t), UNCHANGED <<closed, word, calls>>,
           sendq' = sendq \/ sendq' = Without(sendq, t), recvq' = recvq \/ recvq' = Without(recvq, t),
           \/ Doing(t) \in {"sAgain", "rAgain"} /\ Doing(t)' = "deliver" /\ lock' = lock
           \/ Doing(t) \in {"sAgain", "rAgain"} /\ Doing(t)' = "idle" /\ lock' = None
           \/ Doing(t) = "timedOut" /\ Doing(t)' = "timeoutDec" /\ lock = None /\ lock' = lock,
           ~MayPark(t)', ~InRing(t)',
           t \in Senders \cup Receivers, t \in Senders => sendq' = Without(sendq, t),
           t \in Receivers => recvq' = Without(recvq, t),
           Doing(t) = "timedOut" /\ TimedFree => t \notin Senders
    PROVE  Inv'
<1>f. /\ {"sAgain", "rAgain", "timedOut"} \cap (HasSender \cup HasReceiver \cup Closing \cup {"rWake", "idle"}) = {}
      /\ {"deliver", "idle", "timeoutDec"} \cap (HasSender \cup HasReceiver \cup {"rWake", "sAgain", "rAgain", "unlockPark", "parked", "timedOut"}) = {}
      /\ {"sAgain", "rAgain"} \subseteq Locking /\ "idle" \notin Locking /\ "timeoutDec" \notin Locking
  BY DEF HasSender, HasReceiver, Closing, Locking
<1>0. lock \in {None, t} /\ calls[t] > 0
  BY <1>f, KindFacts DEF Inv, FrameInv
<1>1. LockOK(t)
  BY <1>0, <1>f DEF LockOK, Inv, FrameInv
<1>q. /\ sendq' \in Seq(Senders) /\ Elems(sendq') \subseteq Elems(sendq)
      /\ \A u \in Elems(sendq) : u # t => u \in Elems(sendq')
      /\ sendq = << >> => sendq' = << >>
      /\ recvq' \in Seq(Receivers) /\ Elems(recvq') \subseteq Elems(recvq)
      /\ \A u \in Elems(recvq) : u # t => u \in Elems(recvq')
      /\ recvq = << >> => recvq' = << >>
  BY RemoveFacts, KindFacts DEF Inv
<1>2. KindOK(t)
  <2>1. HandOf(t)'
    BY <1>f DEF HandOf, InRing, RingLabels
  <2> QED BY <1>0, <1>q, <2>1, KindFacts DEF KindOK, Inv
<1>3. SleepOK(t)
  <2>1. \A u : Queued(u) /\ u # t => Queued(u)'
    BY <1>q DEF Queued
  <2>2. \A u : ~Holds(t, u) /\ ~Wakes(t, u)
    BY <1>f DEF Holds, Wakes
  <2> QED BY <1>0, <1>f, <2>1, <2>2 DEF SleepOK
<1>4. CloseOK(t)
  BY <1>f, <1>q DEF CloseOK, Inv, CloseInv
<1>5. OncesOK(t)
  <2>t. Doing(t)' # "timedOut"
    BY LabelFacts DEF Returns
  <2>k. /\ Once(recvq, HasReceiver) /\ (TimedFree => Once(sendq, HasSender \cup {"rWake"}))
        /\ sendq \in Seq(Senders) /\ recvq \in Seq(Receivers) /\ Senders \subseteq Threads /\ Receivers \subseteq Threads
    BY KindFacts DEF Inv, RecvOnce, SendOnce
  <2>1. Doing(t)' \notin HasReceiver \cup HasSender \cup {"rWake"}
    BY <1>f
  <2>a. Senders \cap Receivers = {} /\ None # t
    BY ChanBufAssumption
  <2>2. \A u \in Threads : u # t => Doing(u) \notin HasReceiver \cup HasSender
    <3>1. \A u \in Threads : u # t => lock # u
      BY <1>0, ChanBufAssumption
    <3> QED BY <3>1, LabelFacts DEF Inv, FrameInv
  <2>3. ASSUME TimedFree PROVE \A u \in Threads : u # t /\ Doing(u) \in HasSender \cup {"rWake"} => th[u].w # t
    <3>1. SUFFICES ASSUME NEW u \in Threads, u # t, Doing(u) = "rWake", th[u].w = t PROVE FALSE
      BY <2>2
    <3>2. t \in Senders
      BY <3>1, KindFacts DEF Inv, HandOf
    <3>3. Doing(t) \in {"parked", "timedOut"}
      BY <2>3, <2>k, <3>1 DEF Once, Asleep
    <3> QED BY <2>3, <3>2, <3>3
  <2>e. Elems(recvq) \subseteq Receivers /\ Elems(sendq) \subseteq Senders
    BY KindFacts DEF Inv
  <2>4. OnceOK(t, recvq, recvq', HasReceiver)
    <3>1. CASE recvq' = Without(recvq, t)
      BY <2>1, <2>2, <2>k, <3>1, OnceUnlink
    <3>2. CASE recvq' = recvq /\ t \notin Receivers
      BY <2>1, <2>2, <2>e, <2>k, <3>2, OnceApart
    <3> QED BY <3>1, <3>2
  <2>5. ASSUME TimedFree PROVE OnceOK(t, sendq, sendq', HasSender \cup {"rWake"})
    <3>1. CASE sendq' = Without(sendq, t)
      BY <2>1, <2>3, <2>5, <2>k, <3>1, OnceUnlink
    <3>2. CASE sendq' = sendq /\ t \notin Senders
      BY <2>1, <2>3, <2>5, <2>e, <2>k, <3>2, OnceApart
    <3> QED BY <3>1, <3>2
  <2> QED BY <2>4, <2>5, <2>t DEF OncesOK
<1> QED BY <1>1, <1>2, <1>3, <1>4, <1>5, InvStep

\* A receiver has served a sender and unlocks before it wakes it.
LEMMA ToWaking ==
    ASSUME Inv, NEW t \in Threads, Steps(t), CountOK(t), UNCHANGED <<recvq, closed, word, calls>>, lock' = None,
           Doing(t)' = "rWake", ~MayPark(t)', ~InRing(t)', th'[t].old = calls[th'[t].w],
           \/ Doing(t) = "rHelped" /\ sendq' = sendq /\ th'[t].w = th[t].w
           \/ Doing(t) = "rMeet" /\ sendq # << >> /\ sendq' = Tail(sendq) /\ th'[t].w = Head(sendq)
    PROVE  Inv'
<1>f. /\ {"rHelped", "rMeet"} \subseteq Locking /\ {"rHelped", "rMeet"} \cap (HasReceiver \cup Closing) = {}
      /\ "rHelped" \in HasSender /\ "rMeet" \notin HasSender
  BY DEF HasSender, HasReceiver, Closing, Locking
<1>0. lock = t /\ calls[t] > 0
  BY <1>f, KindFacts DEF Inv, FrameInv
<1>1. LockOK(t)
  BY <1>0, LabelFacts DEF LockOK
<1>q. sendq # << >> => /\ Tail(sendq) \in Seq(Senders) /\ Head(sendq) \in Elems(sendq)
                       /\ Elems(sendq) = Elems(Tail(sendq)) \cup {Head(sendq)}
  BY PopFacts, KindFacts DEF Inv
<1>2. KindOK(t)
  <2>1. th'[t].w \in Senders /\ calls[th'[t].w] > 0
    BY <1>f, <1>q, KindFacts DEF Inv, HandOf
  <2>2. HandOf(t)'
    BY <2>1, LabelFacts DEF HandOf, InRing, RingLabels
  <2> QED BY <1>0, <1>q, <2>2, KindFacts DEF KindOK, Inv
<1>3. SleepOK(t)
  <2>1. \A u : Queued(u) \/ Holds(t, u) => Queued(u)' \/ Wakes(t, u)'
    BY <1>f, <1>q DEF Queued, Holds, Wakes
  <2>2. \A u : ~Wakes(t, u)
    BY DEF Wakes
  <2> QED BY <1>0, <2>1, <2>2 DEF SleepOK
<1>4. CloseOK(t)
  BY <1>f, LabelFacts DEF CloseOK, Inv, CloseInv
<1>5. OncesOK(t)
  <2>t. Doing(t)' # "timedOut"
    BY LabelFacts DEF Returns
  <2>k. /\ Once(recvq, HasReceiver) /\ (TimedFree => Once(sendq, HasSender \cup {"rWake"}))
        /\ sendq \in Seq(Senders) /\ recvq \in Seq(Receivers) /\ Senders \subseteq Threads /\ Receivers \subseteq Threads
    BY KindFacts DEF Inv, RecvOnce, SendOnce
  <2>f. FrameInv
    BY DEF Inv
  <2>1. Doing(t) \notin Registered /\ "rWake" \notin HasReceiver
    BY DEF Registered, HasReceiver
  <2>2. OnceOK(t, recvq, recvq, HasReceiver)
    BY <2>1, <2>k, OnceOutside, OnceApart
  <2>3. ASSUME TimedFree PROVE OnceOK(t, sendq, sendq', HasSender \cup {"rWake"})
    <3>1. CASE Doing(t) = "rHelped"
      BY <1>f, <2>1, <2>3, <2>k, <3>1, OnceOutside, OnceApart
    <3>2. CASE Doing(t) = "rMeet"
      BY <1>0, <1>f, <2>1, <2>3, <2>f, <2>k, <3>2, OncePop
    <3> QED BY <3>1, <3>2
  <2> QED BY <2>2, <2>3, <2>t DEF OncesOK
<1> QED BY <1>1, <1>2, <1>3, <1>4, <1>5, InvStep

\* The wake after the unlock; it may come too late.
LEMMA LateWake ==
    ASSUME Inv, NEW t \in Threads, Steps(t), CountOK(t), UNCHANGED <<lock, sendq, recvq, closed, calls>>,
           Doing(t) = "rWake", Doing(t)' = "idle", ~MayPark(t)', ~InRing(t)', word' \in WakeOutcomes(t)
    PROVE  Inv'
<1>w. th[t].w \in Threads /\ word \in [Threads -> {0, 1}]
  BY KindFacts DEF Inv, HandOf
<1>v. \/ word' = [word EXCEPT ![th[t].w] = 1]
      \/ word' = word /\ calls[th[t].w] # th[t].old
  BY DEF WakeOutcomes
<1>1. LockOK(t)
  BY LabelFacts DEF LockOK
<1>2. KindOK(t)
  <2>1. HandOf(t)'
    BY LabelFacts DEF HandOf, InRing, RingLabels
  <2>2. word' \in [Threads -> {0, 1}]
    BY <1>v, <1>w
  <2> QED BY <2>1, <2>2, KindFacts DEF KindOK, Inv
<1>3. SleepOK(t)
  <2>1. \A u : Queued(u)' <=> Queued(u)
    BY DEF Queued
  <2>2. \A u \in Threads : ~Holds(t, u) /\ (word'[u] = 0 => word[u] = 0 /\ ~Wakes(t, u))
    BY <1>v, <1>w, LabelFacts DEF Holds, Wakes
  <2> QED BY <2>1, <2>2, LabelFacts DEF SleepOK
<1>4. CloseOK(t)
  BY LabelFacts DEF CloseOK, Inv, CloseInv
<1>5. OncesOK(t)
  <2>t. Doing(t)' # "timedOut"
    BY LabelFacts DEF Returns
  <2>k. /\ Once(recvq, HasReceiver) /\ (TimedFree => Once(sendq, HasSender \cup {"rWake"}))
        /\ sendq \in Seq(Senders) /\ recvq \in Seq(Receivers) /\ Senders \subseteq Threads /\ Receivers \subseteq Threads
    BY KindFacts DEF Inv, RecvOnce, SendOnce
  <2>1. Doing(t) \notin Registered /\ Doing(t)' \notin HasReceiver \cup HasSender \cup {"rWake"}
    BY LabelFacts
  <2>3. \A u \in Threads : u # th[t].w => word'[u] = word[u]
    BY <1>v, <1>w, KindFacts DEF Inv
  <2>h. \A u \in Threads : Doing(u) \in HasReceiver => th[u].w \in Receivers
    BY KindFacts DEF Inv, HandOf
  <2>s. \A u \in Threads : Doing(u) \in HasSender \cup {"rWake"} => th[u].w \in Senders
    BY KindFacts DEF Inv, HandOf
  <2>e. Elems(recvq) \subseteq Receivers /\ Elems(sendq) \subseteq Senders
    BY KindFacts DEF Inv
  <2>a. \A x : ~(x \in Senders /\ x \in Receivers)
    BY ChanBufAssumption
  <2>4. OnceOK(t, recvq, recvq, HasReceiver)
    <3>1. /\ Elems(recvq) \subseteq Threads
          /\ \A u \in Threads : Doing(u) \in HasReceiver => th[u].w \in Threads
          /\ Doing(t)' \notin HasReceiver
      BY <2>1, <2>e, <2>h, <2>k
    <3>2. CASE Doing(t) \in HasReceiver
      BY <2>1, <2>3, <2>k, <3>1, <3>2, OnceWoken
    <3>3. CASE Doing(t) \in HasSender \cup {"rWake"}
      <4>1. th[t].w \notin Elems(recvq) /\ \A u \in Threads : Doing(u) \in HasReceiver => th[u].w # th[t].w
        BY <2>a, <2>e, <2>h, <2>s, <3>3
      <4> QED BY <2>1, <2>3, <2>k, <3>1, <4>1, OnceWoken
    <3> QED BY <3>2, <3>3
  <2>5. ASSUME TimedFree PROVE OnceOK(t, sendq, sendq, HasSender \cup {"rWake"})
    <3>1. /\ Elems(sendq) \subseteq Threads
          /\ \A u \in Threads : Doing(u) \in HasSender \cup {"rWake"} => th[u].w \in Threads
          /\ Doing(t)' \notin HasSender \cup {"rWake"}
      BY <2>1, <2>e, <2>s, <2>k
    <3>2. CASE Doing(t) \in HasSender \cup {"rWake"}
      BY <2>1, <2>3, <2>5, <2>k, <3>1, <3>2, OnceWoken
    <3>3. CASE Doing(t) \in HasReceiver
      <4>1. th[t].w \notin Elems(sendq) /\ \A u \in Threads : Doing(u) \in HasSender \cup {"rWake"} => th[u].w # th[t].w
        BY <2>a, <2>e, <2>h, <2>s, <3>3
      <4> QED BY <2>1, <2>3, <2>5, <2>k, <3>1, <4>1, OnceWoken
    <3> QED BY <3>2, <3>3
  <2> QED BY <2>4, <2>5, <2>t DEF OncesOK
<1> QED BY <1>1, <1>2, <1>3, <1>4, <1>5, InvStep

\* A waiter unlocks and sleeps.
LEMMA ToSleep ==
    ASSUME Inv, NEW t \in Threads, Steps(t), CountOK(t), UNCHANGED <<sendq, recvq, closed, word, calls>>, lock' = None,
           Doing(t) = "unlockPark", Doing(t)' = "parked", ~MayPark(t)', ~InRing(t)'
    PROVE  Inv'
<1>0. lock = t /\ calls[t] > 0
  BY LabelFacts, KindFacts DEF Inv, FrameInv
<1>1. LockOK(t)
  BY <1>0, LabelFacts DEF LockOK
<1>2. KindOK(t)
  <2>1. HandOf(t)'
    BY LabelFacts DEF HandOf, InRing, RingLabels
  <2> QED BY <1>0, <2>1, KindFacts DEF KindOK, Inv
<1>3. SleepOK(t)
  <2>1. \A u : Queued(u)' <=> Queued(u)
    BY DEF Queued
  <2>2. \A u : ~Holds(t, u) /\ ~Wakes(t, u)
    BY LabelFacts DEF Holds, Wakes
  <2> QED BY <2>1, <2>2 DEF SleepOK
<1>4. CloseOK(t)
  BY LabelFacts DEF CloseOK, Inv, CloseInv
<1>5. OncesOK(t)
  <2>1. "parked" \in Registered \ {"timeoutDec"} /\ "parked" \notin HasReceiver \cup HasSender \cup {"rWake"}
    BY LabelFacts
  <2> QED BY <2>1, OnceSame
<1> QED BY <1>1, <1>2, <1>3, <1>4, <1>5, InvStep

\* chan_close finds the channel open.
LEMMA FirstClose ==
    ASSUME Inv, NEW t \in Threads, Steps(t), CountOK(t), UNCHANGED <<recvq, calls>>, lock = None, lock' = t,
           closed' = TRUE, sendq' = << >>,
           word' = [u \in Threads |-> IF u \in Elems(sendq) THEN 1 ELSE word[u]],
           Doing(t) = "cLock", Doing(t)' = "cNext", ~MayPark(t)', ~InRing(t)'
    PROVE  Inv'
<1>f. /\ "cLock" \notin Locking \cup HasSender \cup HasReceiver
      /\ "cNext" \in Locking \cap Closing /\ "cNext" \notin HasSender \cup HasReceiver
  BY DEF HasSender, HasReceiver, Closing, Locking
<1>0. calls[t] > 0
  BY KindFacts DEF Inv
<1>1. LockOK(t)
  BY DEF LockOK
<1>2. KindOK(t)
  <2>1. HandOf(t)'
    BY <1>f DEF HandOf, InRing, RingLabels
  <2>2. word' \in [Threads -> {0, 1}]
    BY KindFacts DEF Inv
  <2>3. sendq' \in Seq(Senders) /\ Elems(sendq') = {}
    BY EmptyFacts
  <2> QED BY <1>0, <2>1, <2>2, <2>3, KindFacts DEF KindOK, Inv
<1>3. SleepOK(t)
  <2>1. \A u \in Threads : Queued(u) /\ word'[u] = 0 => Queued(u)' /\ word[u] = 0
    BY DEF Queued
  <2>2. \A u \in Threads : word'[u] = 0 => word[u] = 0
    OBVIOUS
  <2>3. \A u : ~Holds(t, u) /\ ~Wakes(t, u)
    BY <1>f DEF Holds, Wakes
  <2> QED BY <2>1, <2>2, <2>3 DEF SleepOK
<1>4. CloseInv'
  <2>1. \A u \in Threads : Doing(u) \notin Locking /\ ~MayPark(u)
    BY ChanBufAssumption DEF Inv, FrameInv
  <2>2. \A u \in Threads : u # t => Doing(u)' \notin Locking /\ ~MayPark(u)'
    BY <2>1, OthersStay
  <2> QED BY <1>f, <2>2, LabelFacts DEF CloseInv
<1>5. OncesOK(t)
  <2>t. Doing(t)' # "timedOut"
    BY LabelFacts DEF Returns
  <2>k. /\ Once(recvq, HasReceiver) /\ (TimedFree => Once(sendq, HasSender \cup {"rWake"}))
        /\ sendq \in Seq(Senders) /\ recvq \in Seq(Receivers) /\ Senders \subseteq Threads /\ Receivers \subseteq Threads
    BY KindFacts DEF Inv, RecvOnce, SendOnce
  <2>1. Doing(t) \notin Registered /\ Doing(t)' \notin HasReceiver \cup HasSender \cup {"rWake"}
    BY <1>f, LabelFacts DEF Registered
  <2>a. Senders \cap Receivers = {}
    BY ChanBufAssumption
  <2>e. Elems(recvq) \subseteq Receivers /\ Elems(sendq) \subseteq Senders /\ Elems(<< >>) = {} /\ Distinct(<< >>)
    BY EmptyFacts, KindFacts DEF Inv
  <2>2. OnceOK(t, recvq, recvq, HasReceiver)
    <3>1. \A r \in Receivers : word'[r] = word[r]
      BY <2>a, <2>e, <2>k
    <3>2. \A u \in Threads : Doing(u) \in HasReceiver => th[u].w \in Receivers
      BY KindFacts DEF Inv, HandOf
    <3> QED BY <2>1, <2>e, <2>k, <3>1, <3>2, OnceOutside, OnceApart
  <2>3. ASSUME TimedFree PROVE OnceOK(t, sendq, << >>, HasSender \cup {"rWake"})
    <3>1. \A u \in Threads : Doing(u) \in HasSender \cup {"rWake"} => th[u].w \in Senders /\ th[u].w # t /\ th[u].w \notin Elems(sendq)
      BY <2>1, <2>3, <2>k, OnceOutside, KindFacts DEF Inv, HandOf, Once
    <3>2. \A u \in Threads : u \notin Elems(sendq) => word'[u] = word[u]
      OBVIOUS
    <3> QED BY <2>1, <2>e, <2>k, <3>1, <3>2 DEF OnceOK
  <2> QED BY <2>2, <2>3, <2>t DEF OncesOK
<1> QED BY <1>1, <1>2, <1>3, <1>4, <1>5, FrameStep, KindStep, SleepStep, CountStep, OncesStep DEF Inv

------------------------------------------------------------------------------
(* One lemma per action.                                                   *)

\* Plain labels that are not those of a ring operation.
LEMMA CallLabels ==
    {"idle", "done", "sClosed", "sSendCnt", "sRecvCnt", "sPushed", "sLock", "sPark", "sAgain",
     "rSendCnt", "rRecvCnt", "rEmpty", "rPopped", "rLock", "rHelp", "rHelped", "rHelpFailed", "rWake",
     "rMeet", "rAgain", "bSend", "bRecv", "bNone", "unlockPark", "parked", "timedOut", "timeoutDec",
     "cLock", "cNext", "cGiven", "cRefused"} \subseteq PlainLabels \ RingLabels
BY DEF PlainLabels, RingLabels, PushLabels, PopLabels

\* Labels of threads that are not registered.
LEMMA FreeLabels ==
    {"idle", "done", "deliverLock", "admitLock", "deliver", "deliverTest", "admit", "admitTest", "sLock", "sPark",
     "rLock", "rHelp", "rMeet", "cLock", "cNext"} \cap Registered = {}
BY DEF Registered

\* A call begins.
LEMMA EnterKeeps ==
    ASSUME Inv, NEW t \in Threads, NEW m, NEW l \in {"bSend", "sClosed", "bRecv", "rSendCnt", "cLock"},
           Enter(t, m, <<l>>)
    PROVE  Inv'
<1>1. /\ DOMAIN th' = Threads /\ \A u \in Threads : u # t => th'[u] = th[u]
      /\ Fields \subseteq DOMAIN th'[t] /\ th'[t].at = <<l>>
  <2>1. PICK a : a = <<l>>
    OBVIOUS
  <2>2. th' = [th EXCEPT ![t].at = a, ![t].mode = m]
    BY <2>1 DEF Enter
  <2>3. DOMAIN th = Threads /\ Fields \subseteq DOMAIN th[t]
    BY DEF Inv, FrameInv, Fields
  <2> QED BY <2>1, <2>2, <2>3 DEF Fields
<1>2. Steps(t) /\ Doing(t)' = l /\ ~InRing(t)' /\ ~MayPark(t)'
  BY <1>1, CallLabels, ToPlain DEF Inv
<1>3. Doing(t) = "idle"
  BY CallLabels, DoingFacts DEF Inv, Enter
<1>4. /\ calls' \in [Threads -> 0..MaxCalls] /\ calls'[t] > 0
      /\ \A u \in Threads : calls'[u] >= calls[u] /\ (u # t => calls'[u] = calls[u])
  <2>1. calls \in [Threads -> 0..MaxCalls] /\ MaxCalls \in Nat
    BY ChanBufAssumption DEF Inv, KindInv
  <2>2. calls[t] < MaxCalls /\ calls' = [calls EXCEPT ![t] = @ + 1]
    BY DEF Enter
  <2> QED BY <2>1, <2>2
<1>5. UNCHANGED <<lock, sendq, recvq, closed, word>>
  BY DEF Enter, queues, waiters
<1>6. l \notin Locking \cup {"rWake", "parked", "timedOut"} /\ "idle" \notin Locking \cup {"rWake"}
  BY DEF Locking
<1>c. CountOK(t)
  BY <1>2, <1>3, <1>4, <1>5, <1>6 DEF CountOK, Registered, queues, Enter
<1> QED BY <1>2, <1>3, <1>4, <1>5, <1>6, <1>c, FreeLabels, OwnMove

\* The helpers.
LEMMA HelperKeeps ==
    ASSUME Inv, NEW t \in Threads, HelperStep(t)
    PROVE  Inv'
<1>f. FrameInv /\ KindInv
  BY DEF Inv
<1>h. {"deliverLock", "deliver", "deliverTest", "delivered", "undelivered",
       "admitLock", "admit", "admitTest", "admitted", "unadmitted"} \subseteq HelperLabels
  BY DEF HelperLabels
<1>1. CASE HelperLock(t)
  <2>1. PICK l \in {"deliverLock", "admitLock"}, m \in {"deliver", "admit"} : At(t, l) /\ Goto(t, <<m>> \o Rest(t))
    BY <1>1 DEF HelperLock
  <2>2. /\ Steps(t) /\ Doing(t) = l /\ Doing(t)' = m /\ (MayPark(t)' <=> MayPark(t)) /\ ~InRing(t)'
    BY <1>f, <1>h, <2>1, HelperGoto
  <2>3. UNCHANGED <<sendq, recvq, closed, word, calls>> /\ lock = None /\ lock' = t
    BY <1>1 DEF HelperLock, Acquire, queues, waiters, hist
  <2>4. ~MayPark(t)
    BY <1>f, <2>3, ChanBufAssumption DEF FrameInv
  <2>5. /\ l \notin Locking \cup {"rWake", "idle"}
        /\ m \in Locking \ (HasSender \cup HasReceiver \cup Closing \cup {"sAgain", "rAgain", "unlockPark"})
    BY DEF Locking, HasSender, HasReceiver, Closing
  <2>6. Head(th'[t].at) \notin PushLabels /\ Head(th'[t].at) \notin PopLabels
    BY <2>2 DEF InRing, RingLabels
  <2>c. CountOK(t)
    BY <1>1, <2>2, <2>3, <2>4, <2>5, <2>6 DEF CountOK, Registered, queues, HelperLock
  <2> QED BY <2>2, <2>3, <2>4, <2>5, <2>6, <2>c, FreeLabels, Taken
<1>2. CASE DeliverLoad(t) \/ AdmitLoad(t)
  BY <1>2, <1>f, LoadQuiet, QuietKeeps
<1>3. CASE DeliverTest(t) \/ AdmitTest(t)
  <2>1. UNCHANGED <<lock, closed, word, calls, sendCnt, recvCnt>>
    BY <1>3 DEF DeliverTest, AdmitTest, waiters, hist
  <2>2. CASE Goto(t, Rest(t)) /\ UNCHANGED <<sendq, recvq>>
    <3>1. PICK l \in {"deliverTest", "admitTest"} : At(t, l)
      BY <1>3 DEF DeliverTest, AdmitTest
    <3>2. Steps(t) /\ Doing(t) = l /\ Doing(t)' \in Returns /\ (MayPark(t)' <=> MayPark(t)) /\ ~InRing(t)'
      BY <1>f, <1>h, <2>2, <3>1, HelperReturn
    <3>3. HandOf(t)'
      BY <3>2 DEF HandOf, InRing, RingLabels, Returns, HasSender, HasReceiver
    <3>4. QuietMove(t)
      BY <2>1, <2>2, <3>2, <3>3
         DEF QuietMove, Quiet, Locking, HasSender, HasReceiver, Closing, Registered, Returns
    <3> QED BY <3>4, QuietKeeps
  <2>3. CASE /\ At(t, "deliverTest") /\ recvq # << >> /\ recvq' = Tail(recvq) /\ sendq' = sendq
             /\ th' = Pop(t, Head(recvq), <<"delivered">> \o Rest(t), <<"undelivered">> \o Rest(t))
    <3>1. PICK w, ok, fail : /\ w = Head(recvq) /\ ok = <<"delivered">> \o Rest(t) /\ fail = <<"undelivered">> \o Rest(t)
                             /\ th' = Pop(t, w, ok, fail)
      BY <2>3
    <3>2. /\ Steps(t) /\ (MayPark(t)' <=> MayPark(t)) /\ th'[t].w = w
          /\ \/ Doing(t) = "deliverTest" /\ Doing(t)' = "delivered" /\ Head(th'[t].at) \in PopLabels
             \/ Doing(t) = "admitTest" /\ Doing(t)' = "admitted" /\ Head(th'[t].at) \in PushLabels
      BY <1>f, <2>3, <3>1, HelperRing
    <3>3. Doing(t) = "deliverTest"
      BY <1>f, <1>h, <2>3, LabelsApart, DoingFacts
    <3>4. /\ "deliverTest" \in Locking \ (HasSender \cup HasReceiver) /\ "deliverTest" \notin Closing
          /\ "delivered" \in HasReceiver /\ "delivered" \notin Closing
      BY DEF Locking, HasSender, HasReceiver, Closing
    <3>c. CountOK(t)
      BY <1>3, <2>1, <2>3, <3>1, <3>2, <3>3, <3>4 DEF CountOK, Registered, queues, DeliverTest, AdmitTest
    <3> QED BY <2>1, <2>3, <3>1, <3>2, <3>3, <3>4, LabelsApart, <3>c, FreeLabels, Grab
  <2>4. CASE /\ At(t, "admitTest") /\ sendq # << >> /\ sendq' = Tail(sendq) /\ recvq' = recvq
             /\ th' = Push(t, Head(sendq), <<"admitted">> \o Rest(t), <<"unadmitted">> \o Rest(t))
    <3>1. PICK w, ok, fail : /\ w = Head(sendq) /\ ok = <<"admitted">> \o Rest(t) /\ fail = <<"unadmitted">> \o Rest(t)
                             /\ th' = Push(t, w, ok, fail)
      BY <2>4
    <3>2. /\ Steps(t) /\ (MayPark(t)' <=> MayPark(t)) /\ th'[t].w = w
          /\ \/ Doing(t) = "deliverTest" /\ Doing(t)' = "delivered" /\ Head(th'[t].at) \in PopLabels
             \/ Doing(t) = "admitTest" /\ Doing(t)' = "admitted" /\ Head(th'[t].at) \in PushLabels
      BY <1>f, <2>4, <3>1, HelperRing
    <3>3. Doing(t) = "admitTest"
      BY <1>f, <1>h, <2>4, LabelsApart, DoingFacts
    <3>4. "admitTest" \in Locking \ (HasSender \cup HasReceiver) /\ "admitted" \in HasSender
      BY DEF Locking, HasSender, HasReceiver
    <3>c. CountOK(t)
      BY <1>3, <2>1, <2>4, <3>1, <3>2, <3>3, <3>4 DEF CountOK, Registered, queues, DeliverTest, AdmitTest
    <3> QED BY <2>1, <2>4, <3>1, <3>2, <3>3, <3>4, LabelsApart, <3>c, FreeLabels, Grab
  <2> QED BY <1>3, <2>2, <2>3, <2>4 DEF DeliverTest, AdmitTest
<1>4. CASE HelperServed(t)
  <2>1. PICK l, m : /\ <<l, m>> \in {<<"delivered", "deliver">>, <<"admitted", "admit">>}
                    /\ At(t, l) /\ Goto(t, <<m>> \o Rest(t))
    BY <1>4 DEF HelperServed
  <2>2. l \in {"delivered", "admitted"} /\ m \in {"deliver", "admit"}
    BY <2>1
  <2>3. Steps(t) /\ Doing(t) = l /\ Doing(t)' = m /\ (MayPark(t)' <=> MayPark(t)) /\ ~InRing(t)'
    BY <1>f, <1>h, <2>1, <2>2, HelperGoto
  <2>4. UNCHANGED <<lock, sendq, recvq, closed, calls>> /\ word' = [word EXCEPT ![th[t].w] = 1]
    BY <1>4 DEF HelperServed, queues, hist
  <2>5. /\ l \in HasSender \cup HasReceiver /\ l \notin Closing /\ m \notin Closing
        /\ m \in Locking \ (HasSender \cup HasReceiver \cup {"sAgain", "rAgain", "unlockPark"})
    BY <2>2 DEF Locking, HasSender, HasReceiver, Closing
  <2>c. CountOK(t)
    BY <1>4, <2>2, <2>3 DEF CountOK, Registered, queues, HelperServed
  <2> QED BY <2>3, <2>4, <2>5, <2>c, Serve
<1>5. CASE HelperMissed(t)
  <2>1. PICK l \in {"undelivered", "unadmitted"} : At(t, l)
    BY <1>5 DEF HelperMissed
  <2>2. Steps(t) /\ Doing(t) = l /\ Doing(t)' \in Returns /\ (MayPark(t)' <=> MayPark(t)) /\ ~InRing(t)'
    BY <1>5, <1>f, <1>h, <2>1, HelperReturn DEF HelperMissed
  <2>3. UNCHANGED <<lock, closed, word, calls>>
    BY <1>5 DEF HelperMissed, waiters, hist
  <2>4. \/ Doing(t) = "undelivered" /\ recvq' = <<th[t].w>> \o recvq /\ sendq' = sendq
        \/ Doing(t) \in {"unadmitted", "rHelpFailed"} /\ sendq' = <<th[t].w>> \o sendq /\ recvq' = recvq
    BY <1>5, <2>1, <2>2 DEF HelperMissed, At
  <2>5. lock' = t
    <3>1. l \in Locking
      BY DEF Locking
    <3> QED BY <1>f, <2>2, <2>3, <3>1 DEF FrameInv
  <2>c. CountOK(t)
    BY <1>5, <2>1, <2>2 DEF CountOK, Registered, HelperMissed, Returns
  <2> QED BY <2>2, <2>3, <2>4, <2>5, <2>c, PutBack
<1>6. CASE UnlockOK(t)
  <2>1. At(t, "done") /\ Return(t, "OK") /\ lock' = None /\ UNCHANGED <<sendq, recvq, closed, word>>
    BY <1>6 DEF UnlockOK, Release, queues
  <2>2. Steps(t) /\ Doing(t) = "done" /\ Doing(t)' = "idle" /\ ~MayPark(t)' /\ ~InRing(t)' /\ calls' = calls
    BY <1>f, <2>1, CallLabels, PlainReturn
  <2>3. "done" \in Locking \ (HasSender \cup HasReceiver) /\ "done" \notin Closing
    BY DEF Locking, HasSender, HasReceiver, Closing
  <2>c. CountOK(t)
    BY <1>6, <2>1, <2>2, <2>3 DEF CountOK, Registered, queues, UnlockOK
  <2> QED BY <2>1, <2>2, <2>3, <2>c, FreeLabels, Leave
<1> QED BY <1>1, <1>2, <1>3, <1>4, <1>5, <1>6 DEF HelperStep

\* The slow path of chan_send.
LEMMA SendKeeps ==
    ASSUME Inv, NEW s \in Senders, (SendLock(s) /\ ~closed) \/ SendPark(s) \/ SendAgain(s)
    PROVE  Inv'
<1>0. s \in Threads
  BY DEF Threads
<1>f. FrameInv /\ KindInv
  BY DEF Inv
<1>1. CASE SendLock(s) /\ ~closed
  <2>1. /\ At(s, "sLock") /\ lock = None /\ lock' = s /\ UNCHANGED <<sendq, recvq, closed, word, calls>>
        /\ th' = Push(s, s, <<"deliver", "done">>, <<"deliver", "sPark">>)
    BY <1>1 DEF SendLock, Acquire, queues, waiters, hist
  <2>2. <<<<"deliver", "done">>, <<"deliver", "sPark">>>> \in Exits
    BY DEF Exits
  <2>3. Head(<<"deliver", "done">>) = "deliver"
    OBVIOUS
  <2>4. /\ Steps(s) /\ Doing(s) = "sLock" /\ Doing(s)' = "deliver"
        /\ Head(th'[s].at) \in PushLabels /\ Head(th'[s].at) \notin PopLabels /\ th'[s].w = s
    BY <1>0, <1>f, <2>1, <2>2, <2>3, CallLabels, PlainPush
  <2>5. /\ "sLock" \notin Locking \cup {"rWake", "idle"}
        /\ "deliver" \in Locking \ (HasSender \cup HasReceiver \cup Closing \cup {"sAgain", "rAgain", "unlockPark"})
    BY DEF Locking, HasSender, HasReceiver, Closing
  <2>c. CountOK(s)
    BY <1>1, <1>0, <2>1, <2>4, <2>5 DEF CountOK, Registered, queues, SendLock
  <2> QED BY <1>0, <1>1, <2>1, <2>4, <2>5, <2>c, FreeLabels, Taken
<1>2. CASE SendPark(s)
  <2>1. At(s, "sPark")
    BY <1>2 DEF SendPark
  <2>2. Doing(s) = "sPark" /\ ~InRing(s)
    BY <1>0, <1>f, <2>1, CallLabels, DoingFacts
  <2>3. "sPark" \in Locking \ (HasSender \cup HasReceiver) /\ "sPark" \notin Closing
    BY DEF Locking, HasSender, HasReceiver, Closing
  <2>4. CASE Release(s) /\ Return(s, "WOULDBLOCK") /\ UNCHANGED <<queues, word, closed>>
    <3>1. /\ Steps(s) /\ Doing(s)' = "idle" /\ ~MayPark(s)' /\ ~InRing(s)' /\ calls' = calls
      BY <1>0, <1>f, <2>1, <2>4, CallLabels, PlainReturn
    <3>2. lock' = None /\ UNCHANGED <<sendq, recvq, closed, word>>
      BY <2>4 DEF Release, queues
    <3>c. CountOK(s)
      BY <1>2, <1>0, <2>2, <2>3, <3>1, <3>2 DEF CountOK, Registered, queues, SendPark
    <3> QED BY <1>0, <2>2, <2>3, <3>1, <3>2, <3>c, FreeLabels, Leave
  <2>5. CASE /\ word' = [word EXCEPT ![s] = 0] /\ sendq' = Append(sendq, s)
             /\ th' = Push(s, s, <<"sAgain">>, <<"unlockPark">>)
             /\ UNCHANGED <<lock, recvq, hist, closed>>
    <3>1. <<<<"sAgain">>, <<"unlockPark">>>> \in Exits
      BY DEF Exits
    <3>2. Head(<<"sAgain">>) = "sAgain" /\ Bottom(<<"unlockPark">>) = "unlockPark"
      BY CallLabels, PlainStack
    <3>3. /\ Steps(s) /\ Doing(s)' = "sAgain" /\ ~MayPark(s)'
          /\ Head(th'[s].at) \in PushLabels /\ Head(th'[s].at) \notin PopLabels /\ th'[s].w = s
      BY <1>0, <1>f, <2>1, <2>5, <3>1, <3>2, CallLabels, PlainPush
    <3>4. MayPark(s)
      <4>1. th[s].at = <<"sPark">>
        BY <1>0, <1>f, <2>1, CallLabels, StackCases DEF FrameInv, At
      <4> QED BY <2>2, <4>1, CallLabels, PlainStack DEF MayPark
    <3>5. ~closed
      BY <1>0, <3>4 DEF Inv, CloseInv
    <3>6. UNCHANGED calls
      BY <2>5 DEF hist
    <3>c. CountOK(s)
      BY <1>2, <1>0, <2>2, <2>3, <2>5, <3>3, <3>5, <3>6 DEF CountOK, Registered, queues, SendPark
    <3> QED BY <1>0, <2>2, <2>3, <2>5, <3>3, <3>5, <3>6, <3>c, FreeLabels, Join
  <2> QED BY <1>2, <2>4, <2>5 DEF SendPark
<1>3. CASE SendAgain(s)
  <2>1. /\ At(s, "sAgain") /\ sendq' = Without(sendq, s) /\ Goto(s, <<"deliver", "done">>)
        /\ UNCHANGED <<lock, recvq, closed, word, calls>>
    BY <1>3 DEF SendAgain, waiters, hist
  <2>2. Doing(s) = "sAgain"
    BY <1>0, <1>f, <2>1, CallLabels, DoingFacts
  <2>3. /\ DOMAIN th' = Threads /\ \A u \in Threads : u # s => th'[u] = th[u]
        /\ Fields \subseteq DOMAIN th'[s] /\ th'[s].at = <<"deliver", "done">>
    <3>1. PICK a : a = <<"deliver", "done">>
      OBVIOUS
    <3>2. th' = [th EXCEPT ![s].at = a]
      BY <2>1, <3>1 DEF Goto
    <3> QED BY <1>0, <1>f, <3>1, <3>2, Forms
  <2>4. Steps(s) /\ Doing(s)' = "deliver" /\ ~InRing(s)' /\ ~MayPark(s)'
    <3>1. "deliver" \in HelperLabels /\ "done" \in Returns
      BY DEF HelperLabels, Returns
    <3> QED BY <1>0, <1>f, <2>3, <3>1, ToHelper
  <2>c. CountOK(s)
    BY <1>3, <1>0, <2>1, <2>2, <2>4 DEF CountOK, Registered, queues, SendAgain
  <2>a. s \in Senders \cup Receivers /\ s \notin Receivers
    BY ChanBufAssumption
  <2> QED BY <1>0, <2>1, <2>2, <2>4, <2>a, <2>c, Unlink
<1> QED BY <1>1, <1>2, <1>3

\* The slow path of chan_recv.
LEMMA RecvKeeps ==
    ASSUME Inv, NEW r \in Receivers,
           \/ RecvLock(r) \/ RecvHelp(r) \/ RecvHelped(r) \/ RecvHelpFailed(r) \/ RecvWake(r)
           \/ RecvMeet(r) \/ RecvPark(r) \/ RecvAgain(r)
    PROVE  Inv'
<1>0. r \in Threads
  BY DEF Threads
<1>f. FrameInv /\ KindInv
  BY DEF Inv
<1>d. DOMAIN th = Threads /\ Fields \subseteq DOMAIN th[r]
  BY <1>0, <1>f DEF FrameInv, Fields
<1>1. CASE RecvLock(r)
  <2>1. /\ At(r, "rLock") /\ lock = None /\ lock' = r /\ UNCHANGED <<sendq, recvq, closed, word, calls>>
        /\ th' = Pop(r, r, <<"rHelp">>, <<"rMeet">>)
    BY <1>1 DEF RecvLock, Acquire, queues, waiters, hist
  <2>2. <<<<"rHelp">>, <<"rMeet">>>> \in Exits
    BY DEF Exits
  <2>3. Head(<<"rHelp">>) = "rHelp" /\ Bottom(<<"rMeet">>) = "rMeet"
    BY CallLabels, PlainStack
  <2>4. /\ Steps(r) /\ Doing(r) = "rLock" /\ Doing(r)' = "rHelp" /\ ~MayPark(r)'
        /\ Head(th'[r].at) \in PopLabels /\ Head(th'[r].at) \notin PushLabels /\ th'[r].w = r
    BY <1>0, <1>f, <2>1, <2>2, <2>3, CallLabels, PlainPop
  <2>5. /\ "rLock" \notin Locking \cup {"rWake", "idle"}
        /\ "rHelp" \in Locking \ (HasSender \cup HasReceiver \cup Closing \cup {"sAgain", "rAgain", "unlockPark"})
    BY DEF Locking, HasSender, HasReceiver, Closing
  <2>c. CountOK(r)
    BY <1>1, <1>0, <2>1, <2>4, <2>5 DEF CountOK, Registered, queues, RecvLock
  <2> QED BY <1>0, <2>1, <2>4, <2>5, <2>c, FreeLabels, Taken
<1>2. CASE RecvHelp(r)
  <2>1. At(r, "rHelp") /\ UNCHANGED <<recvq, closed>>
    BY <1>2 DEF RecvHelp
  <2>2. "rHelp" \in Locking \ (HasSender \cup HasReceiver) /\ "rHelp" \notin Closing
    BY DEF Locking, HasSender, HasReceiver, Closing
  <2>3. CASE Release(r) /\ Return(r, "OK") /\ UNCHANGED <<sendq, word>>
    <3>1. Steps(r) /\ Doing(r) = "rHelp" /\ Doing(r)' = "idle" /\ ~MayPark(r)' /\ ~InRing(r)' /\ calls' = calls
      BY <1>0, <1>f, <2>1, <2>3, CallLabels, PlainReturn
    <3>c. CountOK(r)
      BY <1>2, <1>0, <2>1, <2>2, <2>3, <3>1 DEF CountOK, Registered, queues, RecvHelp
    <3> QED BY <1>0, <2>1, <2>2, <2>3, <3>1, <3>c, FreeLabels, Leave DEF Release
  <2>4. CASE /\ sendq # << >> /\ sendq' = Tail(sendq) /\ UNCHANGED <<lock, waiters, hist>>
             /\ th' = Push(r, Head(sendq), <<"rHelped">>, <<"rHelpFailed">>)
    <3>1. PICK w : w = Head(sendq)
      OBVIOUS
    <3>2. <<<<"rHelped">>, <<"rHelpFailed">>>> \in Exits
      BY DEF Exits
    <3>3. Head(<<"rHelped">>) = "rHelped" /\ Bottom(<<"rHelpFailed">>) = "rHelpFailed"
      BY CallLabels, PlainStack
    <3>4. /\ Steps(r) /\ Doing(r) = "rHelp" /\ Doing(r)' = "rHelped" /\ ~MayPark(r)'
          /\ Head(th'[r].at) \notin PopLabels /\ th'[r].w = w
      BY <1>0, <1>f, <2>1, <2>4, <3>1, <3>2, <3>3, CallLabels, PlainPush
    <3>5. UNCHANGED <<lock, word, calls>> /\ "rHelped" \in HasSender
      BY <2>4 DEF waiters, hist, HasSender
    <3>c. CountOK(r)
      BY <1>2, <1>0, <2>1, <2>2, <2>4, <3>1, <3>4, <3>5 DEF CountOK, Registered, queues, RecvHelp
    <3> QED BY <1>0, <2>1, <2>2, <2>4, <3>1, <3>4, <3>5, <3>c, FreeLabels, Grab
  <2> QED BY <1>2, <2>3, <2>4 DEF RecvHelp
<1>3. CASE RecvHelped(r)
  <2>1. PICK a, x : a = <<"rWake">> /\ x = calls[th[r].w]
    OBVIOUS
  <2>2. /\ At(r, "rHelped") /\ lock' = None /\ th' = [th EXCEPT ![r].at = a, ![r].old = x]
        /\ UNCHANGED <<sendq, recvq, closed, word, calls>>
    BY <1>3, <2>1 DEF RecvHelped, Release, queues, hist
  <2>3. /\ DOMAIN th' = Threads /\ \A u \in Threads : u # r => th'[u] = th[u]
        /\ Fields \subseteq DOMAIN th'[r] /\ th'[r].at = a /\ th'[r].w = th[r].w /\ th'[r].old = x
    BY <1>0, <1>d, <2>2 DEF Fields
  <2>4. Steps(r) /\ Doing(r)' = "rWake" /\ ~InRing(r)' /\ ~MayPark(r)'
    BY <1>0, <1>f, <2>1, <2>3, CallLabels, ToPlain
  <2>5. Doing(r) = "rHelped"
    BY <1>0, <1>f, <2>2, CallLabels, DoingFacts
  <2>c. CountOK(r)
    BY <1>3, <1>0, <2>1, <2>2, <2>3, <2>4, <2>5 DEF CountOK, Registered, queues, RecvHelped
  <2> QED BY <1>0, <2>1, <2>2, <2>3, <2>4, <2>5, <2>c, ToWaking
<1>4. CASE RecvHelpFailed(r)
  <2>1. /\ At(r, "rHelpFailed") /\ sendq' = <<th[r].w>> \o sendq /\ lock' = None /\ Return(r, "OK")
        /\ UNCHANGED <<recvq, closed, word>>
    BY <1>4 DEF RecvHelpFailed, Release
  <2>2. Steps(r) /\ Doing(r) = "rHelpFailed" /\ Doing(r)' = "idle" /\ ~MayPark(r)' /\ ~InRing(r)' /\ calls' = calls
    BY <1>0, <1>f, <2>1, CallLabels, PlainReturn
  <2>c. CountOK(r)
    BY <1>4, <1>0, <2>1, <2>2 DEF CountOK, Registered, queues, RecvHelpFailed
  <2> QED BY <1>0, <2>1, <2>2, LabelFacts, <2>c, PutBack
<1>5. CASE RecvWake(r)
  <2>1. /\ At(r, "rWake") /\ word' \in WakeOutcomes(r) /\ Return(r, "OK")
        /\ UNCHANGED <<lock, sendq, recvq, closed>>
    BY <1>5 DEF RecvWake, queues
  <2>2. Steps(r) /\ Doing(r) = "rWake" /\ Doing(r)' = "idle" /\ ~MayPark(r)' /\ ~InRing(r)' /\ calls' = calls
    BY <1>0, <1>f, <2>1, CallLabels, PlainReturn
  <2>c. CountOK(r)
    BY <1>5, <1>0, <2>1, <2>2 DEF CountOK, Registered, queues, RecvWake
  <2> QED BY <1>0, <2>1, <2>2, <2>c, LateWake
<1>6. CASE RecvMeet(r)
  <2>1. PICK a, w, x : a = <<"rWake">> /\ w = Head(sendq) /\ x = calls[Head(sendq)]
    OBVIOUS
  <2>2. /\ At(r, "rMeet") /\ sendq # << >> /\ sendq' = Tail(sendq) /\ lock' = None
        /\ th' = [th EXCEPT ![r].at = a, ![r].w = w, ![r].old = x]
        /\ UNCHANGED <<recvq, closed, word, calls>>
    BY <1>6, <2>1 DEF RecvMeet, Release, hist
  <2>3. /\ DOMAIN th' = Threads /\ \A u \in Threads : u # r => th'[u] = th[u]
        /\ Fields \subseteq DOMAIN th'[r] /\ th'[r].at = a /\ th'[r].w = w /\ th'[r].old = x
    BY <1>0, <1>d, <2>2 DEF Fields
  <2>4. Steps(r) /\ Doing(r)' = "rWake" /\ ~InRing(r)' /\ ~MayPark(r)'
    BY <1>0, <1>f, <2>1, <2>3, CallLabels, ToPlain
  <2>5. Doing(r) = "rMeet"
    BY <1>0, <1>f, <2>2, CallLabels, DoingFacts
  <2>c. CountOK(r)
    BY <1>6, <1>0, <2>1, <2>2, <2>3, <2>4, <2>5 DEF CountOK, Registered, queues, RecvMeet
  <2> QED BY <1>0, <2>1, <2>2, <2>3, <2>4, <2>5, <2>c, ToWaking
<1>7. CASE RecvPark(r)
  <2>1. At(r, "rMeet") /\ UNCHANGED closed
    BY <1>7 DEF RecvPark
  <2>2. "rMeet" \in Locking \ (HasSender \cup HasReceiver) /\ "rMeet" \notin Closing
    BY DEF Locking, HasSender, HasReceiver, Closing
  <2>3. CASE \E res : Release(r) /\ Return(r, res) /\ UNCHANGED <<queues, word>>
    <3>0. PICK res : Release(r) /\ Return(r, res) /\ UNCHANGED <<queues, word>>
      BY <2>3
    <3>1. Steps(r) /\ Doing(r) = "rMeet" /\ Doing(r)' = "idle" /\ ~MayPark(r)' /\ ~InRing(r)' /\ calls' = calls
      BY <1>0, <1>f, <2>1, <3>0, CallLabels, PlainReturn
    <3>2. lock' = None /\ UNCHANGED <<sendq, recvq, word>>
      BY <3>0 DEF Release, queues
    <3>c. CountOK(r)
      BY <1>7, <1>0, <2>1, <2>2, <3>1, <3>2 DEF CountOK, Registered, queues, RecvPark
    <3> QED BY <1>0, <2>1, <2>2, <3>1, <3>2, <3>c, FreeLabels, Leave
  <2>4. CASE /\ ~closed /\ word' = [word EXCEPT ![r] = 0] /\ recvq' = Append(recvq, r)
             /\ th' = Pop(r, r, <<"rAgain">>, <<"unlockPark">>)
             /\ UNCHANGED <<lock, sendq, hist>>
    <3>1. <<<<"rAgain">>, <<"unlockPark">>>> \in Exits
      BY DEF Exits
    <3>2. Head(<<"rAgain">>) = "rAgain" /\ Bottom(<<"unlockPark">>) = "unlockPark"
      BY CallLabels, PlainStack
    <3>3. /\ Steps(r) /\ Doing(r) = "rMeet" /\ Doing(r)' = "rAgain" /\ ~MayPark(r)'
          /\ Head(th'[r].at) \in PopLabels /\ Head(th'[r].at) \notin PushLabels /\ th'[r].w = r
      BY <1>0, <1>f, <2>1, <2>4, <3>1, <3>2, CallLabels, PlainPop
    <3>4. UNCHANGED calls
      BY <2>4 DEF hist
    <3>c. CountOK(r)
      BY <1>7, <1>0, <2>1, <2>2, <2>4, <3>3, <3>4 DEF CountOK, Registered, queues, RecvPark
    <3> QED BY <1>0, <2>1, <2>2, <2>4, <3>3, <3>4, <3>c, FreeLabels, Join
  <2> QED BY <1>7, <2>3, <2>4 DEF RecvPark
<1>8. CASE RecvAgain(r)
  <2>1. /\ At(r, "rAgain") /\ recvq' = Without(recvq, r) /\ lock' = None /\ Return(r, "OK")
        /\ UNCHANGED <<sendq, closed, word>>
    BY <1>8 DEF RecvAgain, Release
  <2>2. Steps(r) /\ Doing(r) = "rAgain" /\ Doing(r)' = "idle" /\ ~MayPark(r)' /\ ~InRing(r)' /\ calls' = calls
    BY <1>0, <1>f, <2>1, CallLabels, PlainReturn
  <2>c. CountOK(r)
    BY <1>8, <1>0, <2>1, <2>2 DEF CountOK, Registered, queues, RecvAgain
  <2>a. r \in Senders \cup Receivers /\ r \notin Senders
    BY ChanBufAssumption
  <2> QED BY <1>0, <2>1, <2>2, <2>a, <2>c, Unlink
<1> QED BY <1>1, <1>2, <1>3, <1>4, <1>5, <1>6, <1>7, <1>8

\* Parking.
LEMMA ParkKeeps ==
    ASSUME Inv, ModeInv, NEW t \in Senders \cup Receivers, ParkStep(t)
    PROVE  Inv'
<1>0. t \in Threads
  BY DEF Threads
<1>f. FrameInv /\ KindInv
  BY DEF Inv
<1>1. CASE UnlockPark(t)
  <2>1. /\ At(t, "unlockPark") /\ lock' = None /\ Goto(t, <<"parked">>)
        /\ UNCHANGED <<sendq, recvq, closed, word, calls>>
    BY <1>1 DEF UnlockPark, Release, queues, waiters, hist
  <2>2. Steps(t) /\ Doing(t) = "unlockPark" /\ Doing(t)' = "parked" /\ ~InRing(t)' /\ ~MayPark(t)'
    BY <1>0, <1>f, <2>1, CallLabels, PlainGoto
  <2>c. CountOK(t)
    BY <1>1, <1>0, <2>1, <2>2 DEF CountOK, Registered, queues, UnlockPark
  <2> QED BY <1>0, <2>1, <2>2, <2>c, ToSleep
<1>2. CASE Woken(t) \/ TimeoutReturn(t)
  <2>1. PICK l \in {"parked", "timeoutDec"} : At(t, l)
    BY <1>2 DEF Woken, TimeoutReturn
  <2>2. Return(t, result[t]) /\ UNCHANGED <<lock, sendq, recvq, closed, word>>
    BY <1>2 DEF Woken, TimeoutReturn, Deregister
  <2>3. Steps(t) /\ Doing(t) = l /\ Doing(t)' = "idle" /\ ~MayPark(t)' /\ ~InRing(t)' /\ calls' = calls
    BY <1>0, <1>f, <2>1, <2>2, CallLabels, PlainReturn
  <2>c. CountOK(t)
    BY <1>2, <2>3, ChanBufAssumption DEF CountOK, Registered, Woken, TimeoutReturn, Deregister
  <2>4. l = "parked" => word[t] = 1
    <3>1. CASE Woken(t)
      BY <3>1 DEF Woken
    <3>2. CASE TimeoutReturn(t)
      BY <1>0, <1>f, <2>3, <3>2, CallLabels, DoingFacts DEF TimeoutReturn
    <3> QED BY <1>2, <3>1, <3>2
  <2> QED BY <1>0, <1>f, <2>2, <2>3, <2>4, LabelFacts, KindFacts, <2>c, OwnMove
<1>3. CASE Timeout(t)
  <2>1. /\ At(t, "parked") /\ Goto(t, <<"timedOut">>) /\ UNCHANGED <<lock, sendq, recvq, closed, word, calls>>
    BY <1>3 DEF Timeout, queues, waiters, hist
  <2>2. Steps(t) /\ Doing(t) = "parked" /\ Doing(t)' = "timedOut" /\ ~InRing(t)' /\ ~MayPark(t)'
    BY <1>0, <1>f, <2>1, CallLabels, PlainGoto
  <2>3. calls[t] > 0
    BY <1>0, <1>f, <2>2, KindFacts
  <2>c. CountOK(t)
    BY <1>3, <1>0, <1>f, <2>1, <2>2, <2>3 DEF CountOK, Registered, queues, Timeout
  <2>4. TimedFree => t \notin Senders
    BY <1>3 DEF Timeout, ModeInv, TimedFree
  <2> QED BY <1>0, <1>f, <2>1, <2>2, <2>3, <2>4, LabelFacts, KindFacts, <2>c, OwnMove
<1>4. CASE TimeoutLock(t)
  <2>1. /\ At(t, "timedOut") /\ Goto(t, <<"timeoutDec">>) /\ sendq' = Without(sendq, t) /\ recvq' = Without(recvq, t)
        /\ lock = None /\ UNCHANGED <<lock, closed, word, calls>>
    BY <1>4 DEF TimeoutLock, hist
  <2>2. Steps(t) /\ Doing(t) = "timedOut" /\ Doing(t)' = "timeoutDec" /\ ~InRing(t)' /\ ~MayPark(t)'
    BY <1>0, <1>f, <2>1, CallLabels, PlainGoto
  <2>c. CountOK(t)
    BY <1>4, <1>0, <2>1, <2>2 DEF CountOK, Registered, queues, TimeoutLock
  <2>3. TimedFree => t \notin Senders
    BY <2>2 DEF Inv, NoTimeouts
  <2> QED BY <1>0, <2>1, <2>2, <2>3, <2>c, Unlink
<1> QED BY <1>1, <1>2, <1>3, <1>4 DEF ParkStep

\* chan_close.
LEMMA CloserKeeps ==
    ASSUME Inv, NEW c \in Closers, (CloseLock(c) /\ ~closed) \/ CloseNext(c) \/ CloseServe(c)
    PROVE  Inv'
<1>0. c \in Threads
  BY DEF Threads
<1>f. FrameInv /\ KindInv
  BY DEF Inv
<1>1. CASE CloseLock(c) /\ ~closed
  <2>1. /\ At(c, "cLock") /\ lock = None /\ lock' = c /\ closed' = TRUE /\ sendq' = << >>
        /\ word' = [u \in Threads |-> IF u \in Elems(sendq) THEN 1 ELSE word[u]]
        /\ Goto(c, <<"cNext">>) /\ UNCHANGED <<recvq, calls>>
    BY <1>1 DEF CloseLock, Acquire, hist
  <2>2. Steps(c) /\ Doing(c) = "cLock" /\ Doing(c)' = "cNext" /\ ~InRing(c)' /\ ~MayPark(c)'
    BY <1>0, <1>f, <2>1, CallLabels, PlainGoto
  <2>c. CountOK(c)
    BY <1>1, <1>0, <2>1, <2>2 DEF CountOK, Registered, queues, CloseLock
  <2> QED BY <1>0, <2>1, <2>2, <2>c, FirstClose
<1>2. CASE CloseNext(c)
  <2>1. At(c, "cNext") /\ UNCHANGED <<sendq, closed>>
    BY <1>2 DEF CloseNext
  <2>2. "cNext" \in Locking \ (HasSender \cup HasReceiver) /\ "cNext" \in Closing
    BY DEF Locking, HasSender, HasReceiver, Closing
  <2>3. CASE recvq = << >> /\ Release(c) /\ Return(c, "OK") /\ UNCHANGED <<recvq, word>>
    <3>1. Steps(c) /\ Doing(c) = "cNext" /\ Doing(c)' = "idle" /\ ~MayPark(c)' /\ ~InRing(c)' /\ calls' = calls
      BY <1>0, <1>f, <2>1, <2>3, CallLabels, PlainReturn
    <3>c. CountOK(c)
      BY <1>2, <1>0, <2>1, <2>2, <2>3, <3>1 DEF CountOK, Registered, queues, CloseNext
    <3> QED BY <1>0, <2>1, <2>2, <2>3, <3>1, <3>c, FreeLabels, Leave DEF Release
  <2>4. CASE /\ recvq # << >> /\ recvq' = Tail(recvq) /\ UNCHANGED <<lock, waiters, hist>>
             /\ th' = Pop(c, Head(recvq), <<"cGiven">>, <<"cRefused">>)
    <3>1. PICK w : w = Head(recvq)
      OBVIOUS
    <3>2. <<<<"cGiven">>, <<"cRefused">>>> \in Exits
      BY DEF Exits
    <3>3. Head(<<"cGiven">>) = "cGiven" /\ Bottom(<<"cRefused">>) = "cRefused"
      BY CallLabels, PlainStack
    <3>4. /\ Steps(c) /\ Doing(c) = "cNext" /\ Doing(c)' = "cGiven" /\ ~MayPark(c)'
          /\ Head(th'[c].at) \notin PushLabels /\ th'[c].w = w
      BY <1>0, <1>f, <2>1, <2>4, <3>1, <3>2, <3>3, CallLabels, PlainPop
    <3>5. UNCHANGED <<lock, word, calls>> /\ "cGiven" \in HasReceiver \cap Closing
      BY <2>4 DEF waiters, hist, HasReceiver, Closing
    <3>c. CountOK(c)
      BY <1>2, <1>0, <2>1, <2>2, <2>4, <3>1, <3>4, <3>5 DEF CountOK, Registered, queues, CloseNext
    <3> QED BY <1>0, <2>1, <2>2, <2>4, <3>1, <3>4, <3>5, <3>c, FreeLabels, Grab
  <2> QED BY <1>2, <2>3, <2>4 DEF CloseNext
<1>3. CASE CloseServe(c)
  <2>1. PICK l \in {"cGiven", "cRefused"} : At(c, l)
    BY <1>3 DEF CloseServe
  <2>2. /\ word' = [word EXCEPT ![th[c].w] = 1] /\ Goto(c, <<"cNext">>)
        /\ UNCHANGED <<lock, sendq, recvq, closed, calls>>
    BY <1>3 DEF CloseServe, queues, hist
  <2>3. Steps(c) /\ Doing(c) = l /\ Doing(c)' = "cNext" /\ ~InRing(c)' /\ ~MayPark(c)'
    BY <1>0, <1>f, <2>1, <2>2, CallLabels, PlainGoto
  <2>4. /\ l \in HasReceiver \cap Closing /\ "cNext" \in Closing
        /\ "cNext" \in Locking \ (HasSender \cup HasReceiver \cup {"sAgain", "rAgain", "unlockPark"})
    BY DEF Locking, HasSender, HasReceiver, Closing
  <2>c. CountOK(c)
    BY <1>3, <1>0, <2>2, <2>3, <2>4 DEF CountOK, Registered, queues, CloseServe
  <2> QED BY <1>0, <2>2, <2>3, <2>4, <2>c, Serve
<1> QED BY <1>1, <1>2, <1>3

------------------------------------------------------------------------------
(* The forms of the calls under way.                                       *)

\* Only the step of t is about t, and it keeps the form of its call.
KeepsMode(t) == \A u \in Threads : u # t \/ th'[t].mode # "block" => th'[u].mode = th[u].mode

\* The ways in which a step changes a thread's locals.
LEMMA ModeForms ==
    ASSUME FrameInv, NEW t \in Threads
    PROVE  /\ \A a : Goto(t, a) => KeepsMode(t)
           /\ \A w, ok, fail : th' = Push(t, w, ok, fail) => KeepsMode(t)
           /\ \A w, ok, fail : th' = Pop(t, w, ok, fail) => KeepsMode(t)
           /\ \A a, x : th' = [th EXCEPT ![t].at = a, ![t].old = x] => KeepsMode(t)
           /\ \A a, w, x : th' = [th EXCEPT ![t].at = a, ![t].w = w, ![t].old = x] => KeepsMode(t)
           /\ \A res : Return(t, res) => KeepsMode(t)
           /\ th' = th => KeepsMode(t)
<1>1. DOMAIN th = Threads /\ {"at", "ok", "fail", "w", "old", "mode", "spin"} \subseteq DOMAIN th[t]
  BY DEF FrameInv
<1>2. ASSUME NEW a, Goto(t, a) PROVE KeepsMode(t)
  BY <1>1, <1>2 DEF Goto, KeepsMode
<1>3. ASSUME NEW w, NEW ok, NEW fail, th' = Push(t, w, ok, fail) PROVE KeepsMode(t)
  BY <1>1, <1>3 DEF Push, KeepsMode
<1>4. ASSUME NEW w, NEW ok, NEW fail, th' = Pop(t, w, ok, fail) PROVE KeepsMode(t)
  BY <1>1, <1>4 DEF Pop, KeepsMode
<1>5. ASSUME NEW a, NEW x, th' = [th EXCEPT ![t].at = a, ![t].old = x] PROVE KeepsMode(t)
  BY <1>1, <1>5 DEF KeepsMode
<1>6. ASSUME NEW a, NEW w, NEW x, th' = [th EXCEPT ![t].at = a, ![t].w = w, ![t].old = x] PROVE KeepsMode(t)
  BY <1>1, <1>6 DEF KeepsMode
<1>7. ASSUME NEW res, Return(t, res) PROVE KeepsMode(t)
  <2>1. th'[t] = Idle /\ \A u \in Threads : u # t => th'[u] = th[u]
    BY <1>1, <1>7 DEF Return
  <2>2. th'[t].mode = "block"
    BY <2>1 DEF Idle
  <2> QED BY <2>1, <2>2 DEF KeepsMode
<1> QED BY <1>2, <1>3, <1>4, <1>5, <1>6, <1>7 DEF KeepsMode

\* Steps of the ring, of the helpers, and of a thread that parks.
LEMMA SharedModes ==
    ASSUME FrameInv, NEW t \in Threads, RingStep(t) \/ HelperStep(t) \/ ParkStep(t)
    PROVE  KeepsMode(t)
<1>1. CASE RingStep(t)
  <2>1. \/ \E a : Goto(t, a)
        \/ \E a, x : th' = [th EXCEPT ![t].at = a, ![t].old = x]
    BY <1>1 DEF RingStep, PushLoad, PushFull, PushCas, PushCommit, PopLoad, PopEmpty, PopCas, PopCommit
  <2> QED BY <2>1, ModeForms
<1>2. CASE HelperStep(t)
  <2>1. CASE HelperLock(t) \/ HelperServed(t) \/ HelperMissed(t)
    BY <2>1, ModeForms DEF HelperLock, HelperServed, HelperMissed
  <2>2. CASE DeliverLoad(t) \/ AdmitLoad(t)
    <3>1. PICK a, b : a = <<"deliverTest">> \o Rest(t) /\ b = <<"admitTest">> \o Rest(t)
      OBVIOUS
    <3>2. \/ th' = [th EXCEPT ![t].at = a, ![t].old = prodTail]
          \/ th' = [th EXCEPT ![t].at = b, ![t].old = Len(log)]
      BY <2>2, <3>1 DEF DeliverLoad, AdmitLoad
    <3> QED BY <3>2, ModeForms
  <2>3. CASE DeliverTest(t)
    BY <2>3, ModeForms DEF DeliverTest
  <2>4. CASE AdmitTest(t)
    BY <2>4, ModeForms DEF AdmitTest
  <2>5. CASE UnlockOK(t)
    BY <2>5, ModeForms DEF UnlockOK
  <2> QED BY <1>2, <2>1, <2>2, <2>3, <2>4, <2>5 DEF HelperStep
<1>3. CASE ParkStep(t)
  <2>1. CASE UnlockPark(t) \/ Timeout(t) \/ TimeoutLock(t)
    BY <2>1, ModeForms DEF UnlockPark, Timeout, TimeoutLock
  <2>2. CASE Woken(t) \/ TimeoutReturn(t)
    BY <2>2, ModeForms DEF Woken, TimeoutReturn, Deregister
  <2> QED BY <1>3, <2>1, <2>2 DEF ParkStep
<1> QED BY <1>1, <1>2, <1>3

\* The steps of a call.
LEMMA CallModes ==
    ASSUME FrameInv, NEW t \in Threads, SendStep(t) \/ RecvStep(t) \/ CloseStep(t)
    PROVE  KeepsMode(t)
<1>1. CASE RingStep(t) \/ HelperStep(t) \/ ParkStep(t)
  BY <1>1, SharedModes
<1>2. CASE SendClosed(t) \/ SendSendCnt(t) \/ RecvSendCnt(t) \/ RecvRecvCnt(t)
  BY <1>2, ModeForms DEF SendClosed, SendSendCnt, RecvSendCnt, RecvRecvCnt
<1>3. CASE SendRecvCnt(t)
  <2>1. CASE Goto(t, <<"sLock">>)
    BY <2>1, ModeForms
  <2>2. PICK ok, fail : ok = <<"sPushed">> /\ fail = IF th[t].spin >= Spin THEN <<"sLock">> ELSE <<"sClosed">>
    OBVIOUS
  <2>3. CASE th' = [Push(t, t, ok, fail) EXCEPT ![t].spin = @ + 1]
    <3>1. DOMAIN th = Threads /\ {"at", "ok", "fail", "w", "old", "mode", "spin"} \subseteq DOMAIN th[t]
      BY DEF FrameInv
    <3> QED BY <2>3, <3>1 DEF Push, KeepsMode
  <2> QED BY <1>3, <2>1, <2>2, <2>3 DEF SendRecvCnt
<1>4. CASE SendPushed(t) \/ RecvPopped(t) \/ BurstNone(t)
  BY <1>4, ModeForms DEF SendPushed, RecvPopped, BurstNone
<1>e. CASE RecvEmpty(t)
  <2>1. CASE Goto(t, <<"rLock">>)
    BY <2>1, ModeForms
  <2>2. PICK a : a = <<"rSendCnt">>
    OBVIOUS
  <2>3. CASE th' = [th EXCEPT ![t].at = a, ![t].spin = @ + 1]
    <3>1. DOMAIN th = Threads /\ {"at", "ok", "fail", "w", "old", "mode", "spin"} \subseteq DOMAIN th[t]
      BY DEF FrameInv
    <3> QED BY <2>3, <3>1 DEF KeepsMode
  <2> QED BY <1>e, <2>1, <2>2, <2>3 DEF RecvEmpty
<1>5. CASE SendLock(t) \/ SendPark(t) \/ SendAgain(t) \/ SendBurst(t)
  BY <1>5, ModeForms DEF SendLock, SendPark, SendAgain, SendBurst
<1>6. CASE RecvLock(t) \/ RecvHelp(t) \/ RecvHelpFailed(t) \/ RecvWake(t) \/ RecvPark(t) \/ RecvAgain(t) \/ RecvBurst(t)
  BY <1>6, ModeForms DEF RecvLock, RecvHelp, RecvHelpFailed, RecvWake, RecvPark, RecvAgain, RecvBurst
<1>7. CASE RecvHelped(t) \/ RecvMeet(t)
  <2>1. PICK a : a = <<"rWake">>
    OBVIOUS
  <2>2. \/ th' = [th EXCEPT ![t].at = a, ![t].old = calls[th[t].w]]
        \/ th' = [th EXCEPT ![t].at = a, ![t].w = Head(sendq), ![t].old = calls[Head(sendq)]]
    BY <1>7, <2>1 DEF RecvHelped, RecvMeet
  <2> QED BY <2>2, ModeForms
<1>8. CASE CloseLock(t) \/ CloseNext(t) \/ CloseServe(t)
  BY <1>8, ModeForms DEF CloseLock, CloseNext, CloseServe
<1> QED BY <1>1, <1>2, <1>3, <1>4, <1>e, <1>5, <1>6, <1>7, <1>8 DEF SendStep, RecvStep, CloseStep

\* Senders make calls of the forms they are given.
LEMMA ModeKeeps ==
    ASSUME FrameInv, ModeInv, [Next]_vars
    PROVE  ModeInv'
<1>0. Senders \subseteq Threads /\ \A s \in Senders : s \notin Receivers /\ s \notin Closers
  BY ChanBufAssumption DEF Threads
<1>1. ASSUME NEW t \in Threads, KeepsMode(t) PROVE ModeInv'
  BY <1>0, <1>1 DEF ModeInv, KeepsMode
<1>2. ASSUME NEW t \in Threads, NEW m, NEW a, Enter(t, m, a), t \in Senders => m \in SendModes PROVE ModeInv'
  <2>1. DOMAIN th = Threads /\ {"at", "ok", "fail", "w", "old", "mode", "spin"} \subseteq DOMAIN th[t]
    BY DEF FrameInv
  <2>2. th'[t].mode = m /\ \A u \in Threads : u # t => th'[u] = th[u]
    BY <1>2, <2>1 DEF Enter
  <2> QED BY <1>0, <1>2, <2>2 DEF ModeInv
<1>3. CASE \E s \in Senders : CallSend(s) \/ SendStep(s)
  <2>1. PICK s \in Senders : CallSend(s) \/ SendStep(s)
    BY <1>3
  <2>2. CASE CallSend(s)
    <3>1. PICK m \in SendModes : Enter(s, m, IF m = "burst" THEN <<"bSend">> ELSE <<"sClosed">>)
      BY <2>2 DEF CallSend
    <3>2. PICK a : a = IF m = "burst" THEN <<"bSend">> ELSE <<"sClosed">>
      OBVIOUS
    <3> QED BY <1>0, <1>2, <3>1, <3>2
  <2> QED BY <1>0, <1>1, <2>1, <2>2, CallModes
<1>4. CASE \E r \in Receivers : CallRecv(r) \/ RecvStep(r)
  <2>1. PICK r \in Receivers : CallRecv(r) \/ RecvStep(r)
    BY <1>4
  <2>2. CASE CallRecv(r)
    <3>1. PICK m \in RecvModes : Enter(r, m, IF m = "burst" THEN <<"bRecv">> ELSE <<"rSendCnt">>)
      BY <2>2 DEF CallRecv
    <3>2. PICK a : a = IF m = "burst" THEN <<"bRecv">> ELSE <<"rSendCnt">>
      OBVIOUS
    <3> QED BY <1>0, <1>2, <3>1, <3>2 DEF Threads
  <2> QED BY <1>1, <2>1, <2>2, CallModes DEF Threads
<1>5. CASE \E c \in Closers : CallClose(c) \/ CloseStep(c)
  <2>1. PICK c \in Closers : CallClose(c) \/ CloseStep(c)
    BY <1>5
  <2>2. CASE CallClose(c)
    <3>1. PICK m, a : Enter(c, m, a)
      BY <2>2 DEF CallClose
    <3> QED BY <1>0, <1>2, <3>1 DEF Threads
  <2> QED BY <1>1, <2>1, <2>2, CallModes DEF Threads
<1>6. CASE UNCHANGED vars
  BY <1>6 DEF vars, ModeInv
<1> QED BY <1>3, <1>4, <1>5, <1>6 DEF Next

------------------------------------------------------------------------------
(* Types.  That a pop finds a message, and not a slot nobody has written,  *)
(* needs the order of the cursors.                                         *)

MidRing == {"pushCas", "pushCommit", "popCas", "popCommit"}

\* A cursor loaded is not ahead; a slot reserved is below the head.
LocalType(t) ==
    /\ th[t].w \in Threads \cup {None} /\ th[t].old \in Nat
    /\ Head(th[t].at) = "pushCas" => th[t].old <= Len(log)
    /\ Head(th[t].at) = "pushCommit" => th[t].old < Len(log)
    /\ Head(th[t].at) = "popCas" => th[t].old <= consHead
    /\ Head(th[t].at) = "popCommit" => th[t].old < consHead

RingTypes ==
    /\ log \in Seq(Messages) /\ prodTail \in Nat /\ consHead \in Nat /\ consTail \in Nat
    /\ consHead <= prodTail /\ prodTail <= Len(log)
    /\ \A t \in Threads : LocalType(t)

StateTypes ==
    /\ lock \in Threads \cup {None} /\ closed \in BOOLEAN
    /\ result \in [Threads -> Results]
    /\ out \in [Receivers -> Messages \cup {NoMsg}]
    /\ accepted \subseteq Messages /\ refused \subseteq Messages
    /\ rcvd \in [Receivers -> Seq(Messages \cup {NoMsg})]

\* A step of t outside a ring operation, or at its beginning.
Settles(t) ==
    /\ \A u \in Threads : u # t => th'[u] = th[u]
    /\ th'[t].w \in Threads \cup {None} /\ th'[t].old \in Nat
    /\ Head(th'[t].at) \notin MidRing

\* The ways in which a step outside the ring changes a thread's locals.
LEMMA SettleForms ==
    ASSUME FrameInv, NEW t \in Threads, th[t].w \in Threads \cup {None}, th[t].old \in Nat
    PROVE  /\ \A a : Goto(t, a) /\ Head(a) \notin MidRing => Settles(t)
           /\ \A w \in Threads : \A ok, fail : th' = Push(t, w, ok, fail) => Settles(t)
           /\ \A w \in Threads : \A ok, fail : th' = Pop(t, w, ok, fail) => Settles(t)
           /\ \A a : \A x \in Nat : th' = [th EXCEPT ![t].at = a, ![t].old = x] /\ Head(a) \notin MidRing => Settles(t)
           /\ \A a : \A w \in Threads : \A x \in Nat :
                 th' = [th EXCEPT ![t].at = a, ![t].w = w, ![t].old = x] /\ Head(a) \notin MidRing => Settles(t)
           /\ \A res : Return(t, res) => Settles(t)
<1>1. DOMAIN th = Threads /\ {"at", "ok", "fail", "w", "old", "mode", "spin"} \subseteq DOMAIN th[t]
  BY DEF FrameInv
<1>2. ASSUME NEW a, Goto(t, a), Head(a) \notin MidRing PROVE Settles(t)
  BY <1>1, <1>2 DEF Goto, Settles
<1>3. ASSUME NEW w \in Threads, NEW ok, NEW fail, th' = Push(t, w, ok, fail) PROVE Settles(t)
  <2>1. Head(<<"pushLoad">>) \notin MidRing
    BY DEF MidRing
  <2> QED BY <1>1, <1>3, <2>1 DEF Push, Settles
<1>4. ASSUME NEW w \in Threads, NEW ok, NEW fail, th' = Pop(t, w, ok, fail) PROVE Settles(t)
  <2>1. Head(<<"popLoad">>) \notin MidRing
    BY DEF MidRing
  <2> QED BY <1>1, <1>4, <2>1 DEF Pop, Settles
<1>5. ASSUME NEW a, NEW x \in Nat, th' = [th EXCEPT ![t].at = a, ![t].old = x], Head(a) \notin MidRing
      PROVE  Settles(t)
  BY <1>1, <1>5 DEF Settles
<1>6. ASSUME NEW a, NEW w \in Threads, NEW x \in Nat, th' = [th EXCEPT ![t].at = a, ![t].w = w, ![t].old = x],
             Head(a) \notin MidRing
      PROVE  Settles(t)
  BY <1>1, <1>6 DEF Settles
<1>7. ASSUME NEW res, Return(t, res) PROVE Settles(t)
  <2>1. th'[t] = Idle /\ \A u \in Threads : u # t => th'[u] = th[u]
    BY <1>1, <1>7 DEF Return
  <2>2. th'[t].at = <<"idle">> /\ th'[t].w = None /\ th'[t].old = 0
    BY <2>1 DEF Idle
  <2>3. Head(<<"idle">>) \notin MidRing
    BY DEF MidRing
  <2> QED BY <2>1, <2>2, <2>3 DEF Settles
<1> QED BY <1>2, <1>3, <1>4, <1>5, <1>6, <1>7

\* Outside the ring the cursors stay in order.
LEMMA SettleTypes ==
    ASSUME RingTypes, NEW t \in Threads, Settles(t), UNCHANGED ring
    PROVE  RingTypes'
BY DEF RingTypes, LocalType, Settles, ring, MidRing

\* A return records what it should.
LEMMA ReturnTypes ==
    ASSUME StateTypes, KindInv, NEW t \in Threads, Doing(t) # "idle", NEW res, Return(t, res),
           lock' \in Threads \cup {None}, UNCHANGED <<closed, result>>
    PROVE  StateTypes'
<1>1. t \in Senders => Msg(t) \in Messages
  BY ChanBufAssumption DEF KindInv, Msg, Messages
<1>2. NoMsg \in Messages \cup {NoMsg}
  OBVIOUS
<1>3. accepted' \subseteq Messages /\ refused' \subseteq Messages
  BY <1>1 DEF Return, StateTypes
<1>4. out' \in [Receivers -> Messages \cup {NoMsg}]
  BY <1>2 DEF Return, StateTypes
<1>5. rcvd' \in [Receivers -> Seq(Messages \cup {NoMsg})]
  <2>1. CASE t \in Receivers /\ res = "OK"
    <3>1. Append(rcvd[t], out[t]) \in Seq(Messages \cup {NoMsg})
      BY <2>1 DEF StateTypes
    <3> QED BY <2>1, <3>1 DEF Return, StateTypes
  <2>2. CASE ~(t \in Receivers /\ res = "OK")
    BY <2>2 DEF Return, StateTypes
  <2> QED BY <2>1, <2>2
<1> QED BY <1>3, <1>4, <1>5 DEF StateTypes

\* The steps of a ring operation: reservations and commits.
LEMMA RingStepTypes ==
    ASSUME FrameInv, KindInv, RingTypes, StateTypes, NEW t \in Threads, RingStep(t)
    PROVE  RingTypes' /\ StateTypes'
<1>0. /\ DOMAIN th = Threads /\ {"at", "ok", "fail", "w", "old", "mode", "spin"} \subseteq DOMAIN th[t]
      /\ InRing(t) => <<th[t].ok, th[t].fail>> \in Exits
  BY DEF FrameInv
<1>1. /\ Head(th[t].at) \in PushLabels => th[t].w \in Senders /\ calls[th[t].w] > 0
      /\ LocalType(t) /\ calls \in [Threads -> 0..MaxCalls]
  BY DEF KindInv, HandOf, RingTypes
<1>2. /\ Head(<<"pushCas">>) = "pushCas" /\ Head(<<"pushCommit">>) = "pushCommit" /\ Head(<<"pushLoad">>) = "pushLoad"
      /\ Head(<<"popCas">>) = "popCas" /\ Head(<<"popCommit">>) = "popCommit" /\ Head(<<"popLoad">>) = "popLoad"
  OBVIOUS
<1>3. ASSUME InRing(t) PROVE Head(th[t].ok) \notin MidRing /\ Head(th[t].fail) \notin MidRing
  BY <1>0, <1>3, ExitFacts DEF MidRing, RingLabels, PushLabels, PopLabels
<1>4. CASE PushLoad(t)
  <2>1. /\ \A u \in Threads : u # t => th'[u] = th[u]
        /\ th'[t].w = th[t].w /\ th'[t].old = Len(log) /\ th'[t].at = <<"pushCas">>
    BY <1>0, <1>4 DEF PushLoad
  <2>2. UNCHANGED <<log, prodTail, consHead, consTail>> /\ StateTypes' /\ Len(log) \in Nat
    BY <1>4 DEF PushLoad, RingTypes, StateTypes, ring, waiters, hist
  <2>3. LocalType(t)'
    BY <1>1, <1>2, <2>1, <2>2 DEF LocalType, RingTypes
  <2>4. \A u \in Threads : u # t => LocalType(u)'
    BY <2>1, <2>2 DEF LocalType, RingTypes
  <2> QED BY <2>2, <2>3, <2>4 DEF RingTypes
<1>5. CASE PushFull(t) \/ PopEmpty(t)
  <2>1. Goto(t, th[t].fail) /\ InRing(t)
    BY <1>5 DEF PushFull, PopEmpty, At, InRing, RingLabels, PushLabels, PopLabels
  <2>2. Settles(t)
    BY <1>1, <1>3, <2>1, SettleForms DEF LocalType
  <2> QED BY <1>5, <2>2, SettleTypes DEF PushFull, PopEmpty, StateTypes, waiters, hist
<1>6. CASE PushCas(t)
  <2>1. StateTypes'
    BY <1>6 DEF PushCas, StateTypes, waiters, hist
  <2>2. CASE Len(log) = th[t].old
    <3>1. /\ \A u \in Threads : u # t => th'[u] = th[u]
          /\ th'[t].w = th[t].w /\ th'[t].old = th[t].old /\ th'[t].at = <<"pushCommit">>
      BY <1>0, <1>6, <2>2 DEF PushCas, Goto
    <3>2. Msg(th[t].w) \in Messages
      BY <1>1, <1>6, ChanBufAssumption DEF PushCas, At, PushLabels, Msg, Messages, Threads
    <3>3. log' = Append(log, Msg(th[t].w)) /\ UNCHANGED <<prodTail, consHead, consTail>>
      BY <1>6, <2>2 DEF PushCas
    <3>4. log' \in Seq(Messages) /\ Len(log') = Len(log) + 1 /\ Len(log) \in Nat
      BY <3>2, <3>3 DEF RingTypes
    <3>5. LocalType(t)'
      BY <1>1, <1>2, <2>2, <3>1, <3>4 DEF LocalType
    <3>6. \A u \in Threads : u # t => LocalType(u)'
      BY <3>1, <3>3, <3>4 DEF LocalType, RingTypes
    <3> QED BY <2>1, <3>3, <3>4, <3>5, <3>6 DEF RingTypes
  <2>3. CASE Len(log) # th[t].old
    <3>1. Goto(t, <<"pushLoad">>) /\ UNCHANGED ring
      BY <1>6, <2>3 DEF PushCas, ring
    <3>2. Settles(t)
      BY <1>1, <1>2, <3>1, SettleForms DEF LocalType, MidRing
    <3> QED BY <2>1, <3>1, <3>2, SettleTypes
  <2> QED BY <2>2, <2>3
<1>7. CASE PushCommit(t)
  <2>1. Goto(t, th[t].ok) /\ InRing(t) /\ Head(th[t].at) = "pushCommit"
    BY <1>7 DEF PushCommit, At, InRing, RingLabels, PushLabels
  <2>2. Settles(t)
    BY <1>1, <1>3, <2>1, SettleForms DEF LocalType
  <2>3. prodTail' = prodTail + 1 /\ prodTail < Len(log) /\ UNCHANGED <<log, consHead, consTail>>
    BY <1>1, <1>7, <2>1 DEF PushCommit, LocalType
  <2>4. Len(log) \in Nat
    BY DEF RingTypes
  <2>5. \A u \in Threads : LocalType(u)'
    BY <2>2, <2>3 DEF RingTypes, LocalType, Settles, MidRing
  <2> QED BY <1>7, <2>3, <2>4, <2>5 DEF PushCommit, RingTypes, StateTypes, waiters, hist
<1>8. CASE PopLoad(t)
  <2>1. /\ \A u \in Threads : u # t => th'[u] = th[u]
        /\ th'[t].w = th[t].w /\ th'[t].old = consHead /\ th'[t].at = <<"popCas">>
    BY <1>0, <1>8 DEF PopLoad
  <2>2. UNCHANGED <<log, prodTail, consHead, consTail>> /\ StateTypes' /\ Len(log) \in Nat
    BY <1>8 DEF PopLoad, RingTypes, StateTypes, ring, waiters, hist
  <2>3. LocalType(t)'
    BY <1>1, <1>2, <2>1, <2>2 DEF LocalType, RingTypes
  <2>4. \A u \in Threads : u # t => LocalType(u)'
    BY <2>1, <2>2 DEF LocalType, RingTypes
  <2> QED BY <2>2, <2>3, <2>4 DEF RingTypes
<1>9. CASE PopCas(t)
  <2>1. StateTypes'
    BY <1>9 DEF PopCas, StateTypes, waiters, hist
  <2>2. CASE consHead = th[t].old
    <3>1. /\ \A u \in Threads : u # t => th'[u] = th[u]
          /\ th'[t].w = th[t].w /\ th'[t].old = th[t].old /\ th'[t].at = <<"popCommit">>
      BY <1>0, <1>9, <2>2 DEF PopCas, Goto
    <3>2. consHead' = consHead + 1 /\ consHead # prodTail /\ UNCHANGED <<log, prodTail, consTail>>
      BY <1>9, <2>2 DEF PopCas
    <3>3. LocalType(t)'
      BY <1>1, <1>2, <2>2, <3>1, <3>2 DEF LocalType
    <3>4. \A u \in Threads : u # t => LocalType(u)'
      BY <3>1, <3>2 DEF LocalType, RingTypes
    <3> QED BY <2>1, <3>2, <3>3, <3>4 DEF RingTypes
  <2>3. CASE consHead # th[t].old
    <3>1. Goto(t, <<"popLoad">>) /\ UNCHANGED ring
      BY <1>9, <2>3 DEF PopCas, ring
    <3>2. Settles(t)
      BY <1>1, <1>2, <3>1, SettleForms DEF LocalType, MidRing
    <3> QED BY <2>1, <3>1, <3>2, SettleTypes
  <2> QED BY <2>2, <2>3
<1>10. CASE PopCommit(t)
  <2>1. Goto(t, th[t].ok) /\ InRing(t) /\ Head(th[t].at) = "popCommit"
    BY <1>10 DEF PopCommit, At, InRing, RingLabels, PopLabels
  <2>2. Settles(t)
    BY <1>1, <1>3, <2>1, SettleForms DEF LocalType
  <2>3. consTail' = consTail + 1 /\ consTail < consHead /\ UNCHANGED <<log, prodTail, consHead>>
    BY <1>1, <1>10, <2>1 DEF PopCommit, LocalType
  <2>4. log[consTail + 1] \in Messages
    BY <2>3 DEF RingTypes
  <2>5. \A u \in Threads : LocalType(u)'
    BY <2>2, <2>3 DEF RingTypes, LocalType, Settles, MidRing
  <2>6. RingTypes'
    BY <2>3, <2>5 DEF RingTypes
  <2>7. out' = [out EXCEPT ![th[t].w] = log[consTail + 1]] /\ UNCHANGED <<lock, closed, result, hist>>
    BY <1>10 DEF PopCommit
  <2>8. out' \in [Receivers -> Messages \cup {NoMsg}]
    BY <2>4, <2>7 DEF StateTypes
  <2> QED BY <2>6, <2>7, <2>8 DEF StateTypes, hist
<1> QED BY <1>4, <1>5, <1>6, <1>7, <1>8, <1>9, <1>10 DEF RingStep

\* Inside a helper: what the rest of the stack is.
LEMMA RestFacts ==
    ASSUME FrameInv, NEW t \in Threads, NEW l \in HelperLabels, At(t, l)
    PROVE  /\ Head(Rest(t)) \notin MidRing
           /\ \A k \in HelperLabels : Head(<<k>> \o Rest(t)) \notin MidRing
<1>1. th[t].at \in Stacks /\ Head(th[t].at) = l
  BY DEF FrameInv, At
<1>2. PICK r \in Returns : Rest(t) = <<r>>
  BY <1>1, StackCases DEF Rest
<1>3. r \notin MidRing /\ HelperLabels \cap MidRing = {} /\ Head(<<r>>) = r
  BY DEF Returns, MidRing, HelperLabels
<1>4. \A k \in HelperLabels : Head(<<k>> \o Rest(t)) = k
  BY <1>2, HelperStack
<1> QED BY <1>2, <1>3, <1>4

\* The positions outside the ring.
LEMMA PlainHeads ==
    \A l : l \notin MidRing => Head(<<l>>) \notin MidRing /\ \A r : Head(<<l, r>>) \notin MidRing
OBVIOUS

\* The heads of the queues are threads.
LEMMA HeadTypes ==
    ASSUME KindInv
    PROVE  /\ sendq # << >> => Head(sendq) \in Senders /\ Head(sendq) \in Threads
                               /\ calls[Head(sendq)] \in 1..MaxCalls
           /\ recvq # << >> => Head(recvq) \in Receivers /\ Head(recvq) \in Threads
           /\ \A t \in Threads : calls[t] \in Nat
<1>1. sendq # << >> => Head(sendq) \in Senders /\ Head(sendq) \in Elems(sendq)
  BY DEF KindInv, Elems
<1>2. recvq # << >> => Head(recvq) \in Receivers
  BY DEF KindInv
<1>3. \A t \in Threads : calls[t] \in 0..MaxCalls
  BY DEF KindInv
<1>4. Senders \subseteq Threads /\ Receivers \subseteq Threads
  BY DEF Threads
<1>5. sendq # << >> => calls[Head(sendq)] > 0
  BY <1>1 DEF KindInv
<1> QED BY <1>1, <1>2, <1>3, <1>4, <1>5, ChanBufAssumption

\* The steps of the helpers.
LEMMA HelperStepTypes ==
    ASSUME FrameInv, KindInv, RingTypes, StateTypes, NEW t \in Threads, HelperStep(t)
    PROVE  RingTypes' /\ StateTypes'
<1>0. th[t].w \in Threads \cup {None} /\ th[t].old \in Nat /\ prodTail \in Nat /\ Len(log) \in Nat
  BY DEF RingTypes, LocalType
<1>h. {"deliverLock", "deliver", "deliverTest", "delivered", "undelivered", "admitLock", "admit", "admitTest",
       "admitted", "unadmitted"} \subseteq HelperLabels
  BY DEF HelperLabels
<1>1. CASE HelperLock(t)
  <2>1. Settles(t)
    BY <1>0, <1>1, <1>h, RestFacts, SettleForms DEF HelperLock
  <2> QED BY <1>1, <2>1, SettleTypes DEF HelperLock, Acquire, StateTypes, waiters, hist
<1>2. CASE DeliverLoad(t)
  <2>1. PICK a : a = <<"deliverTest">> \o Rest(t)
    OBVIOUS
  <2>2. th' = [th EXCEPT ![t].at = a, ![t].old = prodTail] /\ Head(a) \notin MidRing
    BY <1>2, <1>h, <2>1, RestFacts DEF DeliverLoad
  <2>3. Settles(t)
    BY <1>0, <2>2, SettleForms
  <2> QED BY <1>2, <2>3, SettleTypes DEF DeliverLoad, StateTypes, waiters, hist
<1>3. CASE DeliverTest(t)
  <2>1. CASE Goto(t, Rest(t))
    <3>1. Settles(t)
      BY <1>0, <1>3, <1>h, <2>1, RestFacts, SettleForms DEF DeliverTest
    <3> QED BY <1>3, <3>1, SettleTypes DEF DeliverTest, StateTypes, waiters, hist
  <2>2. CASE recvq # << >> /\ th' = Pop(t, Head(recvq), <<"delivered">> \o Rest(t), <<"undelivered">> \o Rest(t))
    <3>1. PICK w, ok, fail : w \in Threads /\ th' = Pop(t, w, ok, fail)
      BY <2>2, HeadTypes
    <3>2. Settles(t)
      BY <1>0, <3>1, SettleForms
    <3> QED BY <1>3, <3>2, SettleTypes DEF DeliverTest, StateTypes, waiters, hist
  <2> QED BY <1>3, <2>1, <2>2 DEF DeliverTest
<1>4. CASE AdmitLoad(t)
  <2>1. PICK a : a = <<"admitTest">> \o Rest(t)
    OBVIOUS
  <2>2. th' = [th EXCEPT ![t].at = a, ![t].old = Len(log)] /\ Head(a) \notin MidRing
    BY <1>4, <1>h, <2>1, RestFacts DEF AdmitLoad
  <2>3. Settles(t)
    BY <1>0, <2>2, SettleForms
  <2> QED BY <1>4, <2>3, SettleTypes DEF AdmitLoad, StateTypes, waiters, hist
<1>5. CASE AdmitTest(t)
  <2>1. CASE Goto(t, Rest(t))
    <3>1. Settles(t)
      BY <1>0, <1>5, <1>h, <2>1, RestFacts, SettleForms DEF AdmitTest
    <3> QED BY <1>5, <3>1, SettleTypes DEF AdmitTest, StateTypes, waiters, hist
  <2>2. CASE sendq # << >> /\ th' = Push(t, Head(sendq), <<"admitted">> \o Rest(t), <<"unadmitted">> \o Rest(t))
    <3>1. PICK w, ok, fail : w \in Threads /\ th' = Push(t, w, ok, fail)
      BY <2>2, HeadTypes
    <3>2. Settles(t)
      BY <1>0, <3>1, SettleForms
    <3> QED BY <1>5, <3>2, SettleTypes DEF AdmitTest, StateTypes, waiters, hist
  <2> QED BY <1>5, <2>1, <2>2 DEF AdmitTest
<1>6. CASE HelperServed(t)
  <2>1. Settles(t)
    BY <1>0, <1>6, <1>h, RestFacts, SettleForms DEF HelperServed
  <2>2. result' \in [Threads -> Results]
    BY <1>6 DEF HelperServed, StateTypes, Results
  <2> QED BY <1>6, <2>1, <2>2, SettleTypes DEF HelperServed, StateTypes, hist
<1>7. CASE HelperMissed(t)
  <2>1. Settles(t)
    BY <1>0, <1>7, <1>h, RestFacts, SettleForms DEF HelperMissed
  <2> QED BY <1>7, <2>1, SettleTypes DEF HelperMissed, StateTypes, waiters, hist
<1>8. CASE UnlockOK(t)
  <2>1. Return(t, "OK") /\ lock' = None /\ UNCHANGED <<ring, closed, result>> /\ At(t, "done")
    BY <1>8 DEF UnlockOK, Release
  <2>2. Doing(t) # "idle"
    BY <2>1, CallLabels, DoingFacts
  <2> QED BY <1>0, <2>1, <2>2, SettleForms, SettleTypes, ReturnTypes
<1> QED BY <1>1, <1>2, <1>3, <1>4, <1>5, <1>6, <1>7, <1>8 DEF HelperStep

\* The steps of a thread that parks.
LEMMA ParkStepTypes ==
    ASSUME FrameInv, KindInv, RingTypes, StateTypes, NEW t \in Threads, ParkStep(t)
    PROVE  RingTypes' /\ StateTypes'
<1>0. th[t].w \in Threads \cup {None} /\ th[t].old \in Nat
  BY DEF RingTypes, LocalType
<1>1. {"parked", "timedOut", "timeoutDec"} \cap MidRing = {}
  BY DEF MidRing
<1>2. CASE UnlockPark(t) \/ Timeout(t)
  <2>1. Settles(t)
    BY <1>0, <1>1, <1>2, PlainHeads, SettleForms DEF UnlockPark, Timeout
  <2> QED BY <1>2, <2>1, SettleTypes DEF UnlockPark, Timeout, Release, StateTypes, waiters, hist
<1>3. CASE TimeoutLock(t)
  <2>1. Settles(t)
    BY <1>0, <1>1, <1>3, PlainHeads, SettleForms DEF TimeoutLock
  <2>2. result' \in [Threads -> Results]
    BY <1>3 DEF TimeoutLock, StateTypes, Results
  <2> QED BY <1>3, <2>1, <2>2, SettleTypes DEF TimeoutLock, StateTypes, hist
<1>4. CASE Woken(t) \/ TimeoutReturn(t)
  <2>1. Return(t, result[t]) /\ UNCHANGED <<ring, lock, closed, result>> /\ (At(t, "parked") \/ At(t, "timeoutDec"))
    BY <1>4 DEF Woken, TimeoutReturn, Deregister
  <2>2. Doing(t) # "idle" /\ lock' \in Threads \cup {None}
    BY <2>1, CallLabels, DoingFacts DEF StateTypes
  <2> QED BY <1>0, <2>1, <2>2, SettleForms, SettleTypes, ReturnTypes
<1> QED BY <1>2, <1>3, <1>4 DEF ParkStep

\* A call begins.
LEMMA EnterTypes ==
    ASSUME FrameInv, RingTypes, StateTypes, NEW t \in Threads, NEW m, NEW l, l \notin MidRing, Enter(t, m, <<l>>)
    PROVE  RingTypes' /\ StateTypes'
<1>1. DOMAIN th = Threads /\ {"at", "ok", "fail", "w", "old", "mode", "spin"} \subseteq DOMAIN th[t]
  BY DEF FrameInv
<1>2. /\ \A u \in Threads : u # t => th'[u] = th[u]
      /\ th'[t].at = <<l>> /\ th'[t].w = th[t].w /\ th'[t].old = th[t].old
  BY <1>1 DEF Enter
<1>3. Settles(t)
  BY <1>2, PlainHeads DEF Settles, RingTypes, LocalType
<1> QED BY <1>3, SettleTypes DEF Enter, StateTypes, waiters

\* The steps of a send.
LEMMA SendStepTypes ==
    ASSUME FrameInv, KindInv, RingTypes, StateTypes, NEW s \in Senders,
           \/ SendClosed(s) \/ SendSendCnt(s) \/ SendRecvCnt(s) \/ SendPushed(s) \/ SendLock(s) \/ SendPark(s)
           \/ SendAgain(s) \/ SendBurst(s) \/ BurstNone(s)
    PROVE  RingTypes' /\ StateTypes'
<1>0. s \in Threads /\ th[s].w \in Threads \cup {None} /\ th[s].old \in Nat
  BY DEF RingTypes, LocalType, Threads
<1>1. {"sLock", "sSendCnt", "sRecvCnt", "deliverLock", "deliver", "bNone"} \cap MidRing = {}
  BY DEF MidRing
<1>2. CASE SendClosed(s) \/ SendSendCnt(s) \/ SendBurst(s)
  <2>1. \/ Goto(s, <<"sLock">>) \/ Goto(s, <<"sSendCnt">>) \/ Goto(s, <<"sRecvCnt">>) \/ Goto(s, <<"bNone">>)
        \/ th' = Push(s, s, <<"sPushed">>, <<"bNone">>)
    BY <1>2 DEF SendClosed, SendSendCnt, SendBurst
  <2>2. Settles(s)
    BY <1>0, <1>1, <2>1, PlainHeads, SettleForms
  <2> QED BY <1>0, <1>2, <2>2, SettleTypes DEF SendClosed, SendSendCnt, SendBurst, StateTypes, waiters, hist
<1>3. CASE SendRecvCnt(s)
  <2>1. CASE Goto(s, <<"sLock">>)
    <3>1. Settles(s)
      BY <1>0, <1>1, <2>1, PlainHeads, SettleForms
    <3> QED BY <1>0, <1>3, <3>1, SettleTypes DEF SendRecvCnt, StateTypes, waiters, hist
  <2>2. PICK ok, fail : ok = <<"sPushed">> /\ fail = IF th[s].spin >= Spin THEN <<"sLock">> ELSE <<"sClosed">>
    OBVIOUS
  <2>3. CASE th' = [Push(s, s, ok, fail) EXCEPT ![s].spin = @ + 1]
    <3>1. DOMAIN th = Threads /\ {"at", "ok", "fail", "w", "old", "mode", "spin"} \subseteq DOMAIN th[s]
      BY <1>0 DEF FrameInv
    <3>2. /\ \A u \in Threads : u # s => th'[u] = th[u]
          /\ th'[s].at = <<"pushLoad">> /\ th'[s].w = s /\ th'[s].old = th[s].old
      BY <1>0, <2>3, <3>1 DEF Push
    <3>3. Settles(s)
      BY <1>0, <3>2, PlainHeads DEF Settles, MidRing
    <3> QED BY <1>0, <1>3, <3>3, SettleTypes DEF SendRecvCnt, StateTypes, waiters, hist
  <2> QED BY <1>3, <2>1, <2>2, <2>3 DEF SendRecvCnt
<1>4. ASSUME NEW l \in {"sPushed", "sLock", "sPark", "bNone"}, At(s, l), NEW res, Return(s, res),
             lock' = None \/ lock' = lock, UNCHANGED <<ring, closed, result>>
      PROVE  RingTypes' /\ StateTypes'
  <2>1. Doing(s) # "idle" /\ lock' \in Threads \cup {None}
    BY <1>0, <1>4, CallLabels, DoingFacts DEF StateTypes
  <2> QED BY <1>0, <1>4, <2>1, SettleForms, SettleTypes, ReturnTypes
<1>5. CASE SendPushed(s)
  <2>1. CASE Goto(s, <<"deliverLock", "done">>)
    <3>1. Settles(s)
      BY <1>0, <1>1, <2>1, PlainHeads, SettleForms
    <3>2. recvCnt # 0 \/ Return(s, "OK")
      BY <1>5 DEF SendPushed
    <3>3. CASE recvCnt # 0
      BY <1>0, <1>5, <3>1, <3>3, SettleTypes DEF SendPushed, StateTypes, waiters, hist
    <3> QED BY <1>4, <1>5, <3>2, <3>3 DEF SendPushed
  <2>2. CASE Return(s, "OK") /\ UNCHANGED result
    BY <1>4, <1>5, <2>2 DEF SendPushed
  <2> QED BY <1>5, <2>1, <2>2 DEF SendPushed
<1>6. CASE BurstNone(s)
  BY <1>4, <1>6 DEF BurstNone
<1>7. CASE SendLock(s)
  <2>1. CASE closed
    BY <1>4, <1>7, <2>1 DEF SendLock
  <2>2. CASE ~closed
    <3>1. th' = Push(s, s, <<"deliver", "done">>, <<"deliver", "sPark">>) /\ lock' = s
      BY <1>7, <2>2 DEF SendLock, Acquire
    <3>2. Settles(s)
      BY <1>0, <3>1, SettleForms
    <3> QED BY <1>0, <1>7, <2>2, <3>1, <3>2, SettleTypes DEF SendLock, StateTypes, waiters, hist
  <2> QED BY <2>1, <2>2
<1>8. CASE SendPark(s)
  <2>1. CASE th[s].mode = "try"
    BY <1>4, <1>8, <2>1 DEF SendPark, Release
  <2>2. CASE th[s].mode # "try"
    <3>1. th' = Push(s, s, <<"sAgain">>, <<"unlockPark">>) /\ result' = [result EXCEPT ![s] = "OK"]
      BY <1>8, <2>2 DEF SendPark
    <3>2. Settles(s)
      BY <1>0, <3>1, SettleForms
    <3>3. result' \in [Threads -> Results]
      BY <3>1 DEF StateTypes, Results
    <3> QED BY <1>0, <1>8, <2>2, <3>2, <3>3, SettleTypes DEF SendPark, StateTypes, hist
  <2> QED BY <2>1, <2>2
<1>9. CASE SendAgain(s)
  <2>1. Settles(s)
    BY <1>0, <1>1, <1>9, PlainHeads, SettleForms DEF SendAgain
  <2> QED BY <1>0, <1>9, <2>1, SettleTypes DEF SendAgain, StateTypes, waiters, hist
<1> QED BY <1>2, <1>3, <1>5, <1>6, <1>7, <1>8, <1>9

\* The steps of a receive.
LEMMA RecvStepTypes ==
    ASSUME FrameInv, KindInv, RingTypes, StateTypes, NEW r \in Receivers,
           \/ RecvSendCnt(r) \/ RecvRecvCnt(r) \/ RecvEmpty(r) \/ RecvPopped(r) \/ RecvLock(r) \/ RecvHelp(r)
           \/ RecvHelped(r) \/ RecvHelpFailed(r) \/ RecvWake(r) \/ RecvMeet(r) \/ RecvPark(r) \/ RecvAgain(r)
           \/ RecvBurst(r) \/ BurstNone(r)
    PROVE  RingTypes' /\ StateTypes'
<1>0. r \in Threads /\ th[r].w \in Threads \cup {None} /\ th[r].old \in Nat
  BY DEF RingTypes, LocalType, Threads
<1>1. {"rLock", "rRecvCnt", "rSendCnt", "admitLock", "rWake", "popLoad"} \cap MidRing = {}
  BY DEF MidRing
<1>2. CASE RecvSendCnt(r) \/ RecvRecvCnt(r) \/ RecvBurst(r)
  <2>1. \/ Goto(r, <<"rLock">>) \/ Goto(r, <<"rRecvCnt">>)
        \/ th' = Pop(r, r, <<"rPopped">>, <<"rEmpty">>) \/ th' = Pop(r, r, <<"rPopped">>, <<"bNone">>)
    BY <1>2 DEF RecvSendCnt, RecvRecvCnt, RecvBurst
  <2>2. Settles(r)
    BY <1>0, <1>1, <2>1, PlainHeads, SettleForms
  <2> QED BY <1>0, <1>2, <2>2, SettleTypes DEF RecvSendCnt, RecvRecvCnt, RecvBurst, StateTypes, waiters, hist
<1>3. CASE RecvEmpty(r)
  <2>1. CASE Goto(r, <<"rLock">>)
    <3>1. Settles(r)
      BY <1>0, <1>1, <2>1, PlainHeads, SettleForms
    <3> QED BY <1>0, <1>3, <3>1, SettleTypes DEF RecvEmpty, StateTypes, waiters, hist
  <2>2. PICK a : a = <<"rSendCnt">>
    OBVIOUS
  <2>3. CASE th' = [th EXCEPT ![r].at = a, ![r].spin = @ + 1]
    <3>1. DOMAIN th = Threads /\ {"at", "ok", "fail", "w", "old", "mode", "spin"} \subseteq DOMAIN th[r]
      BY <1>0 DEF FrameInv
    <3>2. /\ \A u \in Threads : u # r => th'[u] = th[u]
          /\ th'[r].at = a /\ th'[r].w = th[r].w /\ th'[r].old = th[r].old
      BY <1>0, <2>3, <3>1
    <3>3. Settles(r)
      BY <1>0, <1>1, <2>2, <3>2, PlainHeads DEF Settles
    <3> QED BY <1>0, <1>3, <3>3, SettleTypes DEF RecvEmpty, StateTypes, waiters, hist
  <2> QED BY <1>3, <2>1, <2>2, <2>3 DEF RecvEmpty
<1>4. ASSUME NEW l \in {"rPopped", "rHelp", "rHelpFailed", "rWake", "rMeet", "rAgain", "bNone"}, At(r, l),
             NEW res, Return(r, res), lock' = None \/ lock' = lock, UNCHANGED <<ring, closed, result>>
      PROVE  RingTypes' /\ StateTypes'
  <2>1. Doing(r) # "idle" /\ lock' \in Threads \cup {None}
    BY <1>0, <1>4, CallLabels, DoingFacts DEF StateTypes
  <2> QED BY <1>0, <1>4, <2>1, SettleForms, SettleTypes, ReturnTypes
<1>5. CASE RecvPopped(r)
  <2>1. CASE sendCnt # 0
    <3>1. Settles(r)
      BY <1>0, <1>1, <1>5, <2>1, PlainHeads, SettleForms DEF RecvPopped
    <3> QED BY <1>0, <1>5, <2>1, <3>1, SettleTypes DEF RecvPopped, StateTypes, waiters, hist
  <2>2. CASE sendCnt = 0
    BY <1>4, <1>5, <2>2 DEF RecvPopped
  <2> QED BY <2>1, <2>2
<1>6. CASE BurstNone(r)
  BY <1>4, <1>6 DEF BurstNone
<1>7. CASE RecvHelpFailed(r)
  BY <1>4, <1>7 DEF RecvHelpFailed, Release
<1>8. CASE RecvAgain(r)
  BY <1>4, <1>8 DEF RecvAgain, Release
<1>9. CASE RecvWake(r)
  BY <1>4, <1>9 DEF RecvWake
<1>10. CASE RecvLock(r)
  <2>1. th' = Pop(r, r, <<"rHelp">>, <<"rMeet">>) /\ lock' = r
    BY <1>10 DEF RecvLock, Acquire
  <2>2. Settles(r)
    BY <1>0, <2>1, SettleForms
  <2> QED BY <1>0, <1>10, <2>1, <2>2, SettleTypes DEF RecvLock, StateTypes, waiters, hist
<1>11. CASE RecvHelp(r)
  <2>1. CASE sendq = << >>
    BY <1>4, <1>11, <2>1 DEF RecvHelp, Release
  <2>2. CASE sendq # << >>
    <3>1. PICK w, ok, fail : w \in Threads /\ th' = Push(r, w, ok, fail)
      BY <1>11, <2>2, HeadTypes DEF RecvHelp
    <3>2. Settles(r)
      BY <1>0, <3>1, SettleForms
    <3> QED BY <1>0, <1>11, <2>2, <3>2, SettleTypes DEF RecvHelp, StateTypes, waiters, hist
  <2> QED BY <2>1, <2>2
<1>12. CASE RecvHelped(r)
  <2>1. th[r].w \in Senders
    <3>1. Doing(r) = "rHelped"
      BY <1>0, <1>12, CallLabels, DoingFacts DEF RecvHelped
    <3> QED BY <1>0, <3>1 DEF KindInv, HandOf, HasSender
  <2>2. PICK x \in Nat : x = calls[th[r].w]
    BY <2>1, HeadTypes DEF Threads
  <2>3. th' = [th EXCEPT ![r].at = <<"rWake">>, ![r].old = x]
    BY <1>12, <2>2 DEF RecvHelped
  <2>4. Settles(r)
    BY <1>0, <1>1, <2>3, PlainHeads, SettleForms
  <2>5. result' \in [Threads -> Results] /\ lock' = None
    BY <1>12 DEF RecvHelped, StateTypes, Results, Release
  <2> QED BY <1>0, <1>12, <2>4, <2>5, SettleTypes DEF RecvHelped, StateTypes, hist
<1>13. CASE RecvMeet(r)
  <2>1. PICK w \in Senders : w = Head(sendq) /\ w \in Threads /\ calls[w] \in 1..MaxCalls
    BY <1>13, HeadTypes DEF RecvMeet
  <2>2. PICK x \in Nat : x = calls[w]
    BY <2>1
  <2>3. th' = [th EXCEPT ![r].at = <<"rWake">>, ![r].w = w, ![r].old = x]
    BY <1>13, <2>1, <2>2 DEF RecvMeet
  <2>4. Settles(r)
    BY <1>0, <1>1, <2>1, <2>3, PlainHeads, SettleForms
  <2>5. Msg(w) \in Messages
    BY <2>1 DEF Msg, Messages
  <2>6. out' = [out EXCEPT ![r] = Msg(w)] /\ result' = [result EXCEPT ![w] = "OK"] /\ lock' = None
    BY <1>13, <2>1 DEF RecvMeet, Release
  <2>7. out' \in [Receivers -> Messages \cup {NoMsg}] /\ result' \in [Threads -> Results]
    BY <2>5, <2>6 DEF StateTypes, Results
  <2> QED BY <1>0, <1>13, <2>4, <2>6, <2>7, SettleTypes DEF RecvMeet, StateTypes, hist
<1>14. CASE RecvPark(r)
  <2>1. CASE closed \/ th[r].mode = "try"
    <3>1. PICK res : res = IF closed THEN "CLOSED" ELSE "WOULDBLOCK"
      OBVIOUS
    <3> QED BY <1>4, <1>14, <2>1, <3>1 DEF RecvPark, Release
  <2>2. CASE ~closed /\ th[r].mode # "try"
    <3>1. th' = Pop(r, r, <<"rAgain">>, <<"unlockPark">>) /\ result' = [result EXCEPT ![r] = "OK"]
      BY <1>14, <2>2 DEF RecvPark
    <3>2. Settles(r)
      BY <1>0, <3>1, SettleForms
    <3>3. result' \in [Threads -> Results]
      BY <3>1 DEF StateTypes, Results
    <3> QED BY <1>0, <1>14, <2>2, <3>2, <3>3, SettleTypes DEF RecvPark, StateTypes, hist
  <2> QED BY <2>1, <2>2
<1> QED BY <1>2, <1>3, <1>5, <1>6, <1>7, <1>8, <1>9, <1>10, <1>11, <1>12, <1>13, <1>14

\* The steps of chan_close.
LEMMA CloseStepTypes ==
    ASSUME FrameInv, KindInv, RingTypes, StateTypes, NEW c \in Closers,
           CloseLock(c) \/ CloseNext(c) \/ CloseServe(c)
    PROVE  RingTypes' /\ StateTypes'
<1>0. c \in Threads /\ th[c].w \in Threads \cup {None} /\ th[c].old \in Nat
  BY DEF RingTypes, LocalType, Threads
<1>1. "cNext" \notin MidRing
  BY DEF MidRing
<1>2. ASSUME NEW l \in {"cLock", "cNext"}, At(c, l), NEW res, Return(c, res),
             lock' = None \/ lock' = lock, UNCHANGED <<ring, closed, result>>
      PROVE  RingTypes' /\ StateTypes'
  <2>1. Doing(c) # "idle" /\ lock' \in Threads \cup {None}
    BY <1>0, <1>2, CallLabels, DoingFacts DEF StateTypes
  <2> QED BY <1>0, <1>2, <2>1, SettleForms, SettleTypes, ReturnTypes
<1>3. CASE CloseLock(c)
  <2>1. CASE closed
    BY <1>2, <1>3, <2>1 DEF CloseLock
  <2>2. CASE ~closed
    <3>1. /\ Goto(c, <<"cNext">>) /\ closed' = TRUE /\ lock' = c /\ UNCHANGED <<ring, out, hist>>
          /\ result' = [t \in Threads |-> IF t \in Elems(sendq) THEN "CLOSED" ELSE result[t]]
      BY <1>3, <2>2 DEF CloseLock, Acquire
    <3>2. Settles(c)
      BY <1>0, <1>1, <3>1, PlainHeads, SettleForms
    <3>3. result' \in [Threads -> Results]
      BY <3>1 DEF StateTypes, Results
    <3> QED BY <1>0, <3>1, <3>2, <3>3, SettleTypes DEF StateTypes, hist
  <2> QED BY <2>1, <2>2
<1>4. CASE CloseNext(c)
  <2>1. CASE recvq = << >>
    BY <1>2, <1>4, <2>1 DEF CloseNext, Release
  <2>2. CASE recvq # << >>
    <3>1. PICK w, ok, fail : w \in Threads /\ th' = Pop(c, w, ok, fail)
      BY <1>4, <2>2, HeadTypes DEF CloseNext
    <3>2. Settles(c)
      BY <1>0, <3>1, SettleForms
    <3> QED BY <1>0, <1>4, <2>2, <3>2, SettleTypes DEF CloseNext, StateTypes, waiters, hist
  <2> QED BY <2>1, <2>2
<1>5. CASE CloseServe(c)
  <2>1. Settles(c)
    BY <1>0, <1>1, <1>5, PlainHeads, SettleForms DEF CloseServe
  <2>2. result' \in [Threads -> Results]
    BY <1>5 DEF CloseServe, StateTypes, Results
  <2> QED BY <1>0, <1>5, <2>1, <2>2, SettleTypes DEF CloseServe, StateTypes, hist
<1> QED BY <1>3, <1>4, <1>5

\* Every step keeps the types.
LEMMA TypesKeep ==
    ASSUME FrameInv, KindInv, RingTypes, StateTypes, [Next]_vars
    PROVE  RingTypes' /\ StateTypes'
<1>0. /\ Senders \subseteq Threads /\ Receivers \subseteq Threads /\ Closers \subseteq Threads
      /\ {"bSend", "sClosed", "bRecv", "rSendCnt", "cLock"} \cap MidRing = {}
  BY DEF Threads, MidRing
<1>1. ASSUME NEW s \in Senders, CallSend(s) \/ SendStep(s) PROVE RingTypes' /\ StateTypes'
  <2>1. CASE CallSend(s)
    <3>1. PICK m, l : l \in {"bSend", "sClosed"} /\ Enter(s, m, <<l>>)
      BY <2>1 DEF CallSend
    <3> QED BY <1>0, <3>1, EnterTypes
  <2>2. CASE SendStep(s)
    BY <1>0, <2>2, SendStepTypes, RingStepTypes, HelperStepTypes, ParkStepTypes DEF SendStep
  <2> QED BY <1>1, <2>1, <2>2
<1>2. ASSUME NEW r \in Receivers, CallRecv(r) \/ RecvStep(r) PROVE RingTypes' /\ StateTypes'
  <2>1. CASE CallRecv(r)
    <3>1. PICK m, l : l \in {"bRecv", "rSendCnt"} /\ Enter(r, m, <<l>>)
      BY <2>1 DEF CallRecv
    <3> QED BY <1>0, <3>1, EnterTypes
  <2>2. CASE RecvStep(r)
    BY <1>0, <2>2, RecvStepTypes, RingStepTypes, HelperStepTypes, ParkStepTypes DEF RecvStep
  <2> QED BY <1>2, <2>1, <2>2
<1>3. ASSUME NEW c \in Closers, CallClose(c) \/ CloseStep(c) PROVE RingTypes' /\ StateTypes'
  <2>1. CASE CallClose(c)
    BY <1>0, <2>1, EnterTypes DEF CallClose
  <2>2. CASE CloseStep(c)
    BY <1>0, <2>2, CloseStepTypes, RingStepTypes DEF CloseStep
  <2> QED BY <1>3, <2>1, <2>2
<1>4. CASE UNCHANGED vars
  BY <1>4 DEF vars, ring, waiters, hist, RingTypes, LocalType, StateTypes
<1> QED BY <1>1, <1>2, <1>3, <1>4 DEF Next

------------------------------------------------------------------------------
(* Theorems.                                                               *)

\* Every step keeps the invariants.
LEMMA NextKeeps ==
    ASSUME Inv, ModeInv, [Next]_vars
    PROVE  Inv'
<1>0. FrameInv /\ KindInv
  BY DEF Inv
<1>1. ASSUME NEW s \in Senders, CallSend(s) \/ SendStep(s) PROVE Inv'
  <2>0. s \in Threads
    BY DEF Threads
  <2>1. CASE CallSend(s)
    <3>1. PICK m \in SendModes : Enter(s, m, IF m = "burst" THEN <<"bSend">> ELSE <<"sClosed">>)
      BY <2>1 DEF CallSend
    <3>2. CASE m = "burst"
      BY <2>0, <3>1, <3>2, EnterKeeps
    <3>3. CASE m # "burst"
      BY <2>0, <3>1, <3>3, EnterKeeps
    <3> QED BY <3>2, <3>3
  <2>2. CASE \/ SendClosed(s) \/ SendSendCnt(s) \/ SendRecvCnt(s) \/ SendPushed(s) \/ SendBurst(s) \/ BurstNone(s)
             \/ SendLock(s) /\ closed
    BY <1>0, <2>0, <2>2, SendFast, QuietKeeps
  <2>3. CASE (SendLock(s) /\ ~closed) \/ SendPark(s) \/ SendAgain(s)
    BY <2>3, SendKeeps
  <2>4. CASE RingStep(s)
    BY <1>0, <2>0, <2>4, RingQuiet, QuietKeeps
  <2>5. CASE HelperStep(s) \/ ParkStep(s)
    BY <2>0, <2>5, HelperKeeps, ParkKeeps
  <2> QED BY <1>1, <2>1, <2>2, <2>3, <2>4, <2>5 DEF SendStep
<1>2. ASSUME NEW r \in Receivers, CallRecv(r) \/ RecvStep(r) PROVE Inv'
  <2>0. r \in Threads
    BY DEF Threads
  <2>1. CASE CallRecv(r)
    <3>1. PICK m \in RecvModes : Enter(r, m, IF m = "burst" THEN <<"bRecv">> ELSE <<"rSendCnt">>)
      BY <2>1 DEF CallRecv
    <3>2. CASE m = "burst"
      BY <2>0, <3>1, <3>2, EnterKeeps
    <3>3. CASE m # "burst"
      BY <2>0, <3>1, <3>3, EnterKeeps
    <3> QED BY <3>2, <3>3
  <2>2. CASE RecvSendCnt(r) \/ RecvRecvCnt(r) \/ RecvEmpty(r) \/ RecvPopped(r) \/ RecvBurst(r) \/ BurstNone(r)
    BY <1>0, <2>0, <2>2, RecvFast, QuietKeeps
  <2>3. CASE \/ RecvLock(r) \/ RecvHelp(r) \/ RecvHelped(r) \/ RecvHelpFailed(r) \/ RecvWake(r)
             \/ RecvMeet(r) \/ RecvPark(r) \/ RecvAgain(r)
    BY <2>3, RecvKeeps
  <2>4. CASE RingStep(r)
    BY <1>0, <2>0, <2>4, RingQuiet, QuietKeeps
  <2>5. CASE HelperStep(r) \/ ParkStep(r)
    BY <2>0, <2>5, HelperKeeps, ParkKeeps
  <2> QED BY <1>2, <2>1, <2>2, <2>3, <2>4, <2>5 DEF RecvStep
<1>3. ASSUME NEW c \in Closers, CallClose(c) \/ CloseStep(c) PROVE Inv'
  <2>0. c \in Threads
    BY DEF Threads
  <2>1. CASE CallClose(c)
    BY <2>0, <2>1, EnterKeeps DEF CallClose
  <2>2. CASE CloseLock(c) /\ closed
    BY <1>0, <2>0, <2>2, LoadQuiet, QuietKeeps
  <2>3. CASE (CloseLock(c) /\ ~closed) \/ CloseNext(c) \/ CloseServe(c)
    BY <2>3, CloserKeeps
  <2>4. CASE RingStep(c)
    BY <1>0, <2>0, <2>4, RingQuiet, QuietKeeps
  <2> QED BY <1>3, <2>1, <2>2, <2>3, <2>4 DEF CloseStep
<1>4. CASE UNCHANGED vars
  <2>1. UNCHANGED <<lock, sendq, recvq, sendCnt, recvCnt, closed, th, word, calls>>
    BY <1>4 DEF vars, queues, waiters, hist
  <2>2. FrameInv' /\ KindInv' /\ SleepInv' /\ CloseInv' /\ CountInv'
    BY <2>1 DEF Inv, FrameInv, KindInv, SleepInv, CloseInv, CountInv, Doing, InRing, MayPark, HandOf, Queued, InHand, ToWake
  <2>3. RecvOnce'
    BY <2>1 DEF Inv, RecvOnce, Once, Asleep, Doing, InRing
  <2>4. (TimedFree => SendOnce)' /\ NoTimeouts'
    BY <2>1 DEF Inv, SendOnce, Once, Asleep, Doing, InRing, TimedFree, NoTimeouts
  <2> QED BY <2>2, <2>3, <2>4 DEF Inv
<1> QED BY <1>1, <1>2, <1>3, <1>4 DEF Next

\* The invariants hold at the start.
LEMMA InitInv ==
    ASSUME Init
    PROVE  Inv
<1>1. /\ DOMAIN th = Threads
      /\ \A t \in Threads : th[t] = Idle
  BY DEF Init
<1>2. <<"idle">> \in Stacks /\ Head(<<"idle">>) = "idle" /\ Bottom(<<"idle">>) = "idle" /\ "idle" \notin RingLabels
  BY CallLabels, PlainStack
<1>3. \A t \in Threads : /\ Fields \subseteq DOMAIN th[t] /\ th[t].at = <<"idle">>
  BY <1>1 DEF Idle, Fields
<1>4. \A t \in Threads : Doing(t) = "idle" /\ ~InRing(t) /\ ~MayPark(t)
  BY <1>2, <1>3 DEF Doing, InRing, MayPark
<1>5. FrameInv
  BY <1>1, <1>2, <1>3, <1>4, LabelFacts DEF FrameInv, Fields
<1>6. KindInv
  <2>1. \A t \in Threads : HandOf(t)
    BY <1>4, LabelFacts DEF HandOf, InRing, RingLabels
  <2> QED BY <1>4, <2>1, EmptyFacts, ChanBufAssumption DEF KindInv, Init
<1>7. SleepInv
  BY <1>4 DEF SleepInv
<1>8. CloseInv
  BY DEF CloseInv, Init
<1>9. CountInv
  <2>1. "idle" \notin Registered
    BY DEF Registered
  <2>2. {s \in Senders : Doing(s) \in Registered} = {} /\ {r \in Receivers : Doing(r) \in Registered} = {}
    BY <1>4, <2>1 DEF Threads
  <2> QED BY <2>2, FS_EmptySet DEF CountInv, Init
<1>10. RecvOnce /\ SendOnce /\ NoTimeouts
  <2>1. \A t \in Threads : Doing(t) \notin HasReceiver \cup HasSender \cup {"rWake", "timedOut"}
    BY <1>4, LabelFacts
  <2>2. sendq = << >> /\ recvq = << >>
    BY DEF Init
  <2> QED BY <2>1, <2>2, EmptyFacts DEF RecvOnce, SendOnce, Once, NoTimeouts, Threads
<1> QED BY <1>5, <1>6, <1>7, <1>8, <1>9, <1>10 DEF Inv

\* The lock is held only where the code holds it, everybody asleep is looked
\* after, and the state of a closed channel is as the closing thread left it.
THEOREM BufferedInvariant == Spec => [](Inv /\ ModeInv)
<1>1. Init => Inv /\ ModeInv
  <2>1. ASSUME Init, NEW s \in Senders PROVE th[s].mode = "block"
    <3>1. th[s] = Idle
      BY <2>1 DEF Init, Threads
    <3> QED BY <3>1 DEF Idle
  <2> QED BY <2>1, InitInv DEF ModeInv
<1>2. Inv /\ ModeInv /\ [Next]_vars => Inv' /\ ModeInv'
  BY NextKeeps, ModeKeeps DEF Inv
<1> QED BY <1>1, <1>2, PTL DEF Spec

\* chan_close wakes every waiter, whatever the waiters, the helpers and the
\* receivers that serve parked senders were doing when it took the lock, and
\* whoever timed out in between (chan_close in chan.c).
THEOREM CloseReachesAll == Spec => []CloseWakesAll
<1>1. Inv => CloseWakesAll
  <2>1. SUFFICES ASSUME Inv, Quiescent, closed, NEW t \in Threads, Parked(t) PROVE FALSE
    BY DEF CloseWakesAll
  <2>2. \A u \in Threads : Doing(u) \in {"idle", "parked"}
    BY <2>1, CallLabels, DoingFacts DEF Quiescent, Parked, Inv
  <2>3. Doing(t) = "parked" /\ word[t] = 0
    BY <2>1, CallLabels, DoingFacts DEF Parked, Inv
  <2>4. \A u \in Threads : Doing(u) \notin HasSender \cup HasReceiver \cup Closing \cup {"rWake"}
    BY <2>2, LabelFacts
  <2>5. ~InHand(t) /\ ~ToWake(t)
    BY <2>4 DEF InHand, ToWake
  <2>6. Queued(t)
    BY <2>1, <2>3, <2>5 DEF Inv, SleepInv
  <2>7. sendq = << >> /\ recvq = << >>
    BY <2>1, <2>4 DEF Inv, CloseInv
  <2> QED BY <2>6, <2>7, EmptyFacts DEF Queued
<1> QED BY <1>1, BufferedInvariant, PTL

\* Every thread in a wait queue is counted, and inside the call it queued for:
\* the gates of the fast paths cannot overlook it (send_waiter_cnt and
\* recv_waiter_cnt, chan_send.c and chan_recv.c).  It is so as long as no send
\* has a timeout: a receiver wakes the sender it served after the unlock, and
\* the wake may reach the next wait of a sender that timed out meanwhile.
THEOREM WaitersCounted ==
    ASSUME "timed" \notin SendModes
    PROVE  Spec => []QueuedIsCounted
<1>1. Inv => QueuedIsCounted
  <2>1. SUFFICES ASSUME Inv PROVE QueuedIsCounted
    OBVIOUS
  <2>2. Once(recvq, HasReceiver) /\ Once(sendq, HasSender \cup {"rWake"})
    BY <2>1 DEF Inv, TimedFree, RecvOnce, SendOnce
  <2>3. PICK A, B : A = {s \in Senders : Doing(s) \in Registered} /\ B = {r \in Receivers : Doing(r) \in Registered}
    OBVIOUS
  <2>4. /\ IsFiniteSet(A) /\ IsFiniteSet(B)
        /\ sendCnt = Cardinality(A) /\ recvCnt = Cardinality(B)
    BY <2>1, <2>3 DEF Inv, CountInv
  <2>5. sendq \in Seq(Senders) /\ recvq \in Seq(Receivers) /\ Elems(sendq) \subseteq Senders /\ Elems(recvq) \subseteq Receivers
    BY <2>1, KindFacts DEF Inv
  <2>6. Elems(sendq) \subseteq A /\ Elems(recvq) \subseteq B /\ Distinct(sendq) /\ Distinct(recvq)
    BY <2>2, <2>3, <2>5 DEF Once
  <2>7. Len(sendq) <= sendCnt /\ Len(recvq) <= recvCnt
    BY <2>4, <2>5, <2>6, QueueBound
  <2>8. ASSUME NEW t \in Threads, Doing(t) \in Registered PROVE th[t].at # <<"idle">>
    <3>1. "idle" \in PlainLabels \cup HelperLabels /\ "idle" \notin RingLabels /\ "idle" \notin Registered
      BY CallLabels, FreeLabels
    <3> QED BY <2>1, <2>8, <3>1, PlainStack, CallLabels, DoingFacts DEF At, Inv
  <2>9. /\ \A i \in DOMAIN sendq : sendq[i] \in A /\ sendq[i] \in Threads
        /\ \A i \in DOMAIN recvq : recvq[i] \in B /\ recvq[i] \in Threads
    BY <2>5, <2>6 DEF Elems, Threads
  <2> QED BY <2>3, <2>7, <2>8, <2>9 DEF QueuedIsCounted
<1> QED BY <1>1, BufferedInvariant, PTL

\* The types hold throughout, for what the theorems below need of them.
LEMMA TypesHold == Spec => [](RingTypes /\ StateTypes)
<1>1. Init => RingTypes /\ StateTypes
  <2>1. ASSUME Init, NEW t \in Threads PROVE LocalType(t)
    <3>1. th[t] = Idle
      BY <2>1 DEF Init
    <3>2. th[t].w = None /\ th[t].old = 0 /\ th[t].at = <<"idle">>
      BY <3>1 DEF Idle
    <3>3. Head(<<"idle">>) \notin MidRing
      BY DEF MidRing
    <3> QED BY <3>2, <3>3 DEF LocalType, MidRing
  <2>2. ASSUME Init PROVE RingTypes
    <3>1. log = << >> /\ prodTail = 0 /\ consHead = 0 /\ consTail = 0
      BY <2>2 DEF Init
    <3> QED BY <2>1, <2>2, <3>1 DEF RingTypes
  <2>3. ASSUME Init PROVE StateTypes
    <3>1. /\ lock = None /\ closed = FALSE /\ accepted = {} /\ refused = {}
          /\ result = [t \in Threads |-> "OK"] /\ out = [r \in Receivers |-> NoMsg]
          /\ rcvd = [r \in Receivers |-> << >>]
      BY <2>3 DEF Init
    <3>2. "OK" \in Results /\ << >> \in Seq(Messages \cup {NoMsg})
      BY DEF Results
    <3> QED BY <3>1, <3>2 DEF StateTypes
  <2> QED BY <2>2, <2>3
<1>2. Inv /\ RingTypes /\ StateTypes /\ [Next]_vars => RingTypes' /\ StateTypes'
  BY TypesKeep DEF Inv
<1> QED BY <1>1, <1>2, BufferedInvariant, PTL DEF Spec

\* Every variable keeps its type, with any mix of call forms.  Besides what the
\* names promise this says that a pop never takes a slot without a message,
\* that nobody is served who is not a waiter, and that no count goes below
\* zero (the decrements after a wake, a timeout and a late success).
THEOREM TypeCorrect == Spec => []TypeOK
<1>1. Inv /\ RingTypes /\ StateTypes => TypeOK
  <2>1. SUFFICES ASSUME Inv, RingTypes, StateTypes PROVE TypeOK
    OBVIOUS
  <2>2. sendCnt \in Nat /\ recvCnt \in Nat
    BY <2>1, FS_CardinalityType DEF Inv, CountInv
  <2> QED BY <2>1, <2>2 DEF Inv, KindInv, RingTypes, LocalType, StateTypes, TypeOK
<1> QED BY <1>1, TypesHold, BufferedInvariant, PTL

------------------------------------------------------------------------------
(* Where the messages are.  Every message has at most one place: a slot of *)
(* the ring, a pop in progress, a receiver's buffer, or what a receive has *)
(* returned; and every thread in a call knows, by its position or by what  *)
(* its waiter has been told, whether its message has moved.                *)

\* The ring operations of a call's own, by where they return to on success.
OwnOps == {"sPushed", "sAgain", "deliver", "rPopped", "rAgain", "rHelp"}

\* After a success of one's own: on the way out of the call.
Fulfilled == {"sPushed", "sAgain", "rPopped", "rHelp", "rHelped", "rHelpFailed", "rWake", "rAgain"}
OwnAt(a) == Head(a) \in Fulfilled \/ Bottom(a) = "done"

\* The thread with locals c has pushed or popped by itself.
Own(c) ==
    IF Head(c.at) \in RingLabels
    THEN IF Head(c.ok) \in OwnOps THEN Head(c.at) = "pushCommit" ELSE OwnAt(c.fail)
    ELSE OwnAt(c.at)

\* The thread with locals c has moved the message of the waiter x in its hand,
\* and has not told x yet.
Serving == {"delivered", "cGiven", "admitted", "rHelped", "rWake"}
Serves(c, x) ==
    /\ c.w = x
    /\ Head(c.at) \in Serving \/ (Head(c.at) = "pushCommit" /\ Head(c.ok) \in HasSender)

WaitLabels == {"unlockPark", "parked", "timedOut", "timeoutDec"}
Told(x) == result[x] = "OK" /\ (word[x] = 1 \/ Doing(x) = "timeoutDec")
Served(x) == \E u \in Threads : Serves(th[u], x)

\* The message of the call that x is in has moved.
Has(x) == Own(th[x]) \/ (Doing(x) \in WaitLabels /\ (Told(x) \/ Served(x)))

AtRecv(m) ==
    \/ \E r \in Receivers : out[r] = m
    \/ \E r \in Receivers : \E i \in 1..Len(rcvd[r]) : rcvd[r][i] = m

Given(m) == (\E i \in 1..Len(log) : log[i] = m) \/ AtRecv(m)

Popping(t) == Head(th[t].at) = "popCommit"

\* The slots: no message twice, one pop per slot between the consumers'
\* cursors, and exactly the slots below the tail have been handed over.
PlaceInv ==
    /\ \A i, j \in 1..Len(log) : log[i] = log[j] => i = j
    /\ consTail <= consHead
    /\ \A t \in Threads : Popping(t) => consTail <= th[t].old
    /\ \A t, u \in Threads : Popping(t) /\ Popping(u) /\ th[t].old = th[u].old => t = u
    /\ \A i \in (consTail + 1)..consHead : \E t \in Threads : Popping(t) /\ th[t].old = i - 1
    /\ \A i \in 1..Len(log) : AtRecv(log[i]) <=> i <= consTail

\* The receivers: no message twice, and no more messages than calls.
RecvInv ==
    /\ \A q, r \in Receivers : out[q] = out[r] /\ out[q] # NoMsg => q = r
    /\ \A q, r \in Receivers : \A i \in 1..Len(rcvd[r]) : rcvd[r][i] # NoMsg /\ out[q] # rcvd[r][i]
    /\ \A q, r \in Receivers : \A i \in 1..Len(rcvd[q]), j \in 1..Len(rcvd[r]) :
          rcvd[q][i] = rcvd[r][j] => q = r /\ i = j
    /\ \A r \in Receivers : Len(rcvd[r]) <= calls[r] /\ (Doing(r) # "idle" => Len(rcvd[r]) < calls[r])

\* A ring operation that is not for a waiter in hand is for the caller.
OwnOp(c, t) == Head(c.at) \in RingLabels /\ Head(c.ok) \in OwnOps => c.w = t
OwnInv == \A t \in Threads : OwnOp(th[t], t)

\* A receiver's buffer is full when its call has a message, and only then.
GotInv == \A r \in Receivers : out[r] # NoMsg <=> Has(r)

\* A sender's message has moved when its call knows that it has; what was
\* accepted has moved, and what was refused has not.
MovedInv ==
    /\ \A s \in Senders : Doing(s) # "idle" => (Given(Msg(s)) <=> Has(s)) /\ Msg(s) \notin accepted \cup refused
    /\ \A s \in Senders : \A n \in 1..MaxCalls :
          Given(<<s, n>>) \/ <<s, n>> \in accepted \cup refused => n <= calls[s]
    /\ \A m \in accepted : Given(m)
    /\ \A m \in refused : ~Given(m)

\* A waiter not woken yet has the result it was queued with.
ResultInv == \A x \in Threads : Doing(x) \in Registered \ {"timeoutDec"} /\ word[x] = 0 => result[x] = "OK"

DataInv == PlaceInv /\ RecvInv /\ OwnInv /\ GotInv /\ MovedInv /\ ResultInv

\* Success and failure of a ring operation: one's own makes the difference, one
\* for a waiter does not.
LEMMA ExitOwn ==
    ASSUME NEW ok, NEW fail, <<ok, fail>> \in Exits
    PROVE  /\ Head(ok) \in OwnOps => OwnAt(ok) /\ ~OwnAt(fail)
           /\ Head(ok) \notin OwnOps => (OwnAt(ok) <=> OwnAt(fail)) /\ Head(ok) \in HasSender \cup HasReceiver
           /\ Head(ok) \in HasSender => Head(ok) \in Serving
           /\ Head(ok) \in HasReceiver => Head(ok) \in Serving
           /\ Head(ok) \notin HasSender \cup HasReceiver => Head(ok) \notin Serving
           /\ Head(fail) \notin Serving
           /\ Head(ok) \notin WaitLabels /\ Head(fail) \notin WaitLabels \ {"unlockPark"}
           /\ Head(ok) \in OwnOps => Head(ok) \notin HasSender \cup HasReceiver
<1> USE DEF HasSender, HasReceiver, Returns, OwnOps, Fulfilled, Serving, WaitLabels, OwnAt
<1>1. CASE ok = <<"sPushed">> /\ fail \in {<<"sLock">>, <<"sClosed">>, <<"bNone">>}
  <2>1. /\ Head(ok) = "sPushed" /\ Bottom(ok) = "sPushed"
        /\ Head(fail) \in {"sLock", "sClosed", "bNone"} /\ Bottom(fail) \in {"sLock", "sClosed", "bNone"}
    BY <1>1, PlainStack DEF PlainLabels
  <2> QED BY <2>1
<1>2. CASE ok = <<"rPopped">> /\ fail \in {<<"rEmpty">>, <<"bNone">>}
  <2>1. /\ Head(ok) = "rPopped" /\ Bottom(ok) = "rPopped"
        /\ Head(fail) \in {"rEmpty", "bNone"} /\ Bottom(fail) \in {"rEmpty", "bNone"}
    BY <1>2, PlainStack DEF PlainLabels
  <2> QED BY <2>1
<1>3. CASE ok = <<"deliver", "done">> /\ fail = <<"deliver", "sPark">>
  <2>1. Head(ok) = "deliver" /\ Bottom(ok) = "done" /\ Head(fail) = "deliver" /\ Bottom(fail) = "sPark"
    BY <1>3, HelperStack DEF HelperLabels
  <2> QED BY <2>1
<1>4. CASE \E r \in Returns : ok = <<"delivered", r>> /\ fail = <<"undelivered", r>>
  <2>1. PICK r \in Returns : ok = <<"delivered", r>> /\ fail = <<"undelivered", r>>
    BY <1>4
  <2>2. Head(ok) = "delivered" /\ Bottom(ok) = r /\ Head(fail) = "undelivered" /\ Bottom(fail) = r
    BY <2>1, HelperStack DEF HelperLabels
  <2> QED BY <2>2
<1>5. CASE \E r \in Returns : ok = <<"admitted", r>> /\ fail = <<"unadmitted", r>>
  <2>1. PICK r \in Returns : ok = <<"admitted", r>> /\ fail = <<"unadmitted", r>>
    BY <1>5
  <2>2. Head(ok) = "admitted" /\ Bottom(ok) = r /\ Head(fail) = "unadmitted" /\ Bottom(fail) = r
    BY <2>1, HelperStack DEF HelperLabels
  <2> QED BY <2>2
<1>6. CASE \/ ok = <<"sAgain">> /\ fail = <<"unlockPark">>
           \/ ok = <<"rAgain">> /\ fail = <<"unlockPark">>
  <2>1. Head(ok) \in {"sAgain", "rAgain"} /\ Head(fail) = "unlockPark" /\ Bottom(fail) = "unlockPark"
    BY <1>6, PlainStack DEF PlainLabels
  <2> QED BY <2>1
<1>7. CASE ok = <<"rHelp">> /\ fail = <<"rMeet">>
  <2>1. Head(ok) = "rHelp" /\ Head(fail) = "rMeet" /\ Bottom(fail) = "rMeet"
    BY <1>7, PlainStack DEF PlainLabels
  <2> QED BY <2>1
<1>8. CASE ok = <<"rHelped">> /\ fail = <<"rHelpFailed">>
  <2>1. Head(ok) = "rHelped" /\ Head(fail) = "rHelpFailed"
    BY <1>8, PlainStack DEF PlainLabels
  <2> QED BY <2>1
<1>9. CASE ok = <<"cGiven">> /\ fail = <<"cRefused">>
  <2>1. Head(ok) = "cGiven" /\ Bottom(ok) = "cGiven" /\ Head(fail) = "cRefused" /\ Bottom(fail) = "cRefused"
    BY <1>9, PlainStack DEF PlainLabels
  <2> QED BY <2>1
<1> QED BY <1>1, <1>2, <1>3, <1>4, <1>5, <1>6, <1>7, <1>8, <1>9 DEF Exits

\* What a position outside the ring says.
LEMMA OwnPlain ==
    ASSUME NEW c, NEW l \in PlainLabels \ RingLabels, c.at = <<l>>
    PROVE  /\ Own(c) <=> l \in Fulfilled \cup {"done"}
           /\ \A x : Serves(c, x) <=> c.w = x /\ l \in Serving
           /\ \A x : OwnOp(c, x)
<1>1. Head(<<l>>) = l /\ Bottom(<<l>>) = l
  BY PlainStack
<1>2. l # "pushCommit"
  BY DEF RingLabels, PushLabels
<1> QED BY <1>1, <1>2 DEF Own, OwnAt, Serves, OwnOp

\* The same inside a helper.
LEMMA OwnHelper ==
    ASSUME NEW c, NEW l \in HelperLabels, NEW r \in Returns, c.at = <<l, r>>
    PROVE  /\ Own(c) <=> r = "done"
           /\ \A x : Serves(c, x) <=> c.w = x /\ l \in Serving
           /\ \A x : OwnOp(c, x)
<1>1. Head(<<l, r>>) = l /\ Bottom(<<l, r>>) = r
  BY HelperStack
<1>2. l # "pushCommit" /\ l \notin RingLabels /\ l \notin Fulfilled
  BY LabelsApart DEF RingLabels, PushLabels, HelperLabels, Fulfilled
<1> QED BY <1>1, <1>2 DEF Own, OwnAt, Serves, OwnOp

\* The same in a ring operation.
LEMMA OwnRing ==
    ASSUME NEW c, NEW l \in RingLabels, c.at = <<l>>, <<c.ok, c.fail>> \in Exits
    PROVE  /\ Own(c) <=> IF Head(c.ok) \in OwnOps THEN l = "pushCommit" ELSE OwnAt(c.fail)
           /\ \A x : Serves(c, x) <=> c.w = x /\ l = "pushCommit" /\ Head(c.ok) \in HasSender
           /\ \A x : OwnOp(c, x) <=> (Head(c.ok) \in OwnOps => c.w = x)
<1>1. Head(<<l>>) = l
  BY PlainStack, LabelsApart
<1>2. l \notin Serving
  BY DEF RingLabels, PushLabels, PopLabels, Serving
<1> QED BY <1>1, <1>2 DEF Own, Serves, OwnOp

------------------------------------------------------------------------------
(* Steps that move no message.                                             *)

\* A step wakes nobody with a result that is not yet there.
ResOK(t) ==
    /\ \A x \in Threads : x # t /\ word'[x] = 0 => word[x] = 0 /\ result'[x] \in {"OK", result[x]}
    /\ Doing(t)' \in Registered \ {"timeoutDec"} /\ word'[t] = 0 =>
          \/ result'[t] = "OK"
          \/ result'[t] = result[t] /\ word[t] = 0 /\ Doing(t) \in Registered \ {"timeoutDec"}

\* Waiters keep their results.
LEMMA ResultStep ==
    ASSUME ResultInv, NEW t \in Threads, Steps(t), ResOK(t)
    PROVE  ResultInv'
<1>1. ASSUME NEW x \in Threads, x # t, Doing(x)' \in Registered \ {"timeoutDec"}, word'[x] = 0
      PROVE  result'[x] = "OK"
  <2>1. Doing(x) = Doing(x)'
    BY <1>1, OthersStay
  <2>2. word[x] = 0 /\ result'[x] \in {"OK", result[x]}
    BY <1>1 DEF ResOK
  <2> QED BY <1>1, <2>1, <2>2 DEF ResultInv
<1>2. ASSUME Doing(t)' \in Registered \ {"timeoutDec"}, word'[t] = 0 PROVE result'[t] = "OK"
  BY <1>2 DEF ResOK, ResultInv
<1> QED BY <1>1, <1>2 DEF ResultInv

\* Whose message has moved besides that of t: nobody's who is told nothing and
\* is served as before.
LEMMA HasOthers ==
    ASSUME NEW t \in Threads, Steps(t), NEW x \in Threads, x # t,
           word'[x] = word[x], result'[x] = result[x], Serves(th'[t], x) <=> Serves(th[t], x)
    PROVE  Has(x)' <=> Has(x)
<1>1. th'[x] = th[x] /\ Doing(x)' = Doing(x)
  BY OthersStay DEF Steps
<1>2. Served(x)' <=> Served(x)
  BY DEF Served, Steps
<1> QED BY <1>1, <1>2 DEF Has, Told

\* A thread that does not wait knows by its position.
LEMMA HasSelf ==
    ASSUME FrameInv, NEW t \in Threads
    PROVE  /\ Doing(t) \notin WaitLabels => (Has(t) <=> Own(th[t]))
           /\ Doing(t) \in WaitLabels => ~Own(th[t]) /\ (Has(t) <=> Told(t) \/ Served(t))
<1>1. ASSUME Doing(t) \in WaitLabels PROVE ~Own(th[t])
  <2>1. ~InRing(t) /\ Head(th[t].at) = Doing(t)
    BY <1>1, DoingFacts, ExitOwn DEF FrameInv, Doing, InRing
  <2>2. Doing(t) \in PlainLabels \ RingLabels
    BY <1>1 DEF WaitLabels, PlainLabels, RingLabels, PushLabels, PopLabels
  <2>3. th[t].at = <<Doing(t)>>
    BY <2>1, <2>2, StackCases DEF FrameInv
  <2>4. Doing(t) \notin Fulfilled \cup {"done"}
    BY <1>1 DEF WaitLabels, Fulfilled
  <2> QED BY <2>2, <2>3, <2>4, OwnPlain
<1> QED BY <1>1 DEF Has

Calm(t) ==
    /\ Steps(t) /\ UNCHANGED <<log, consHead, consTail, out, rcvd, accepted, refused, calls>>
    /\ ~Popping(t) /\ ~Popping(t)'
    /\ Doing(t) # "idle"
    /\ OwnOp(th'[t], t)
    /\ \A x \in Senders \cup Receivers : Has(x)' <=> Has(x)
    /\ ResOK(t)

\* The slots do not change.
LEMMA PlaceStill ==
    ASSUME PlaceInv, NEW t \in Threads, Steps(t), UNCHANGED <<log, consHead, consTail, out, rcvd>>,
           ~Popping(t), ~Popping(t)'
    PROVE  PlaceInv'
<1>1. \A u \in Threads : Popping(u)' <=> Popping(u)
  BY DEF Steps, Popping
<1>2. \A u \in Threads : Popping(u) => th'[u].old = th[u].old
  BY DEF Steps
<1>3. \A m : AtRecv(m)' <=> AtRecv(m)
  BY DEF AtRecv
<1> QED BY <1>1, <1>2, <1>3 DEF PlaceInv

\* Only t changes its position.
LEMMA OwnStep ==
    ASSUME OwnInv, NEW t \in Threads, Steps(t), OwnOp(th'[t], t)
    PROVE  OwnInv'
BY DEF OwnInv, Steps

\* A calm step.
LEMMA CalmKeeps ==
    ASSUME DataInv, NEW t \in Threads, Calm(t)
    PROVE  DataInv'
<1>0. Steps(t) /\ UNCHANGED <<log, consHead, consTail, out, rcvd, accepted, refused, calls>>
  BY DEF Calm
<1>1. PlaceInv'
  BY <1>0, PlaceStill DEF Calm, DataInv
<1>2. \A x \in Threads : Doing(x)' # "idle" => Doing(x) # "idle"
  BY <1>0, OthersStay DEF Calm
<1>3. RecvInv'
  <2>1. \A r \in Receivers : r \in Threads
    BY DEF Threads
  <2> QED BY <1>0, <1>2, <2>1 DEF RecvInv, DataInv
<1>4. OwnInv'
  BY <1>0, OwnStep DEF Calm, DataInv
<1>5. GotInv'
  BY <1>0 DEF GotInv, DataInv, Calm
<1>6. MovedInv'
  <2>1. \A m : Given(m)' <=> Given(m)
    BY <1>0 DEF Given, AtRecv
  <2>2. \A s \in Senders : s \in Threads /\ Msg(s)' = Msg(s)
    BY <1>0 DEF Threads, Msg
  <2>3. \A s \in Senders : Has(s)' <=> Has(s)
    BY DEF Calm
  <2>4. MovedInv
    BY DEF DataInv
  <2>5. \A s \in Senders : Doing(s)' # "idle" => (Given(Msg(s))' <=> Has(s)') /\ Msg(s)' \notin (accepted \cup refused)'
    BY <1>0, <1>2, <2>1, <2>2, <2>3, <2>4 DEF MovedInv
  <2> QED BY <1>0, <2>1, <2>4, <2>5 DEF MovedInv
<1>7. ResultInv'
  BY <1>0, ResultStep DEF Calm, DataInv
<1> QED BY <1>1, <1>3, <1>4, <1>5, <1>6, <1>7 DEF DataInv

\* t moves between positions that say the same about its message.
Still == UNCHANGED <<log, consHead, consTail, out, rcvd, accepted, refused, calls, word, result>>

Awake(t) == Doing(t) \notin WaitLabels \cup {"idle"} /\ ~Popping(t) /\ \A x : ~Serves(th[t], x)

Reaches(t, a) ==
    /\ DOMAIN th' = Threads /\ \A u \in Threads : u # t => th'[u] = th[u]
    /\ Fields \subseteq DOMAIN th'[t] /\ th'[t].at = a

\* Nobody learns anything.
LEMMA CalmAny ==
    ASSUME NEW t \in Threads, Steps(t), Still, Doing(t) \notin WaitLabels \cup {"idle"}, ~Popping(t), ~Popping(t)',
           OwnOp(th'[t], t),
           Doing(t)' \notin WaitLabels, Doing(t)' \in {"sAgain", "rAgain"} => Doing(t) \in {"sAgain", "rAgain"},
           Own(th'[t]) <=> Own(th[t]), \A x : Serves(th'[t], x) <=> Serves(th[t], x)
    PROVE  Calm(t)
<1>1. UNCHANGED <<log, consHead, consTail, out, rcvd, accepted, refused, calls, word, result>>
  BY DEF Still
<1>2. ASSUME NEW x \in Threads PROVE Has(x)' <=> Has(x)
  <2>1. CASE x = t
    BY <2>1 DEF Has
  <2>2. CASE x # t
    BY <1>1, <2>2, HasOthers
  <2> QED BY <2>1, <2>2
<1>3. ResOK(t)
  BY <1>1 DEF ResOK, Registered, WaitLabels
<1>4. Senders \cup Receivers \subseteq Threads
  BY DEF Threads
<1> QED BY <1>1, <1>2, <1>3, <1>4 DEF Calm

\* The same, serving nobody.
LEMMA CalmMove ==
    ASSUME NEW t \in Threads, Steps(t), Still, Awake(t), ~Popping(t)', OwnOp(th'[t], t),
           Doing(t)' \notin WaitLabels, Doing(t)' \in {"sAgain", "rAgain"} => Doing(t) \in {"sAgain", "rAgain"},
           Own(th'[t]) <=> Own(th[t]), \A x : ~Serves(th'[t], x)
    PROVE  Calm(t)
<1>1. \A x : Serves(th'[t], x) <=> Serves(th[t], x)
  BY DEF Awake
<1>2. Doing(t) \notin WaitLabels \cup {"idle"} /\ ~Popping(t)
  BY DEF Awake
<1> QED BY <1>1, <1>2, CalmAny

\* To a plain position.
LEMMA CalmToPlain ==
    ASSUME FrameInv, NEW t \in Threads, Still, Awake(t),
           NEW m \in PlainLabels \ (RingLabels \cup WaitLabels \cup Serving \cup {"sAgain", "rAgain"}),
           Own(th[t]) <=> m \in Fulfilled \cup {"done"}, Reaches(t, <<m>>)
    PROVE  Calm(t)
<1>1. Steps(t) /\ Doing(t)' = m
  BY ToPlain DEF Reaches
<1>2. Own(th'[t]) <=> m \in Fulfilled \cup {"done"}
  BY OwnPlain DEF Reaches
<1>3. \A x : ~Serves(th'[t], x)
  BY OwnPlain DEF Reaches
<1>4. OwnOp(th'[t], t)
  BY OwnPlain DEF Reaches
<1>5. ~Popping(t)'
  <2>1. Head(<<m>>) = m /\ m # "popCommit"
    BY PlainStack DEF RingLabels, PopLabels
  <2> QED BY <2>1 DEF Popping, Reaches
<1> QED BY <1>1, <1>2, <1>3, <1>4, <1>5, CalmMove

\* To a helper.
LEMMA CalmToHelper ==
    ASSUME FrameInv, NEW t \in Threads, Still, Awake(t),
           NEW k \in HelperLabels \ Serving, NEW r \in Returns,
           Own(th[t]) <=> r = "done", Reaches(t, <<k, r>>)
    PROVE  Calm(t)
<1>1. Steps(t) /\ Doing(t)' = k
  BY ToHelper DEF Reaches
<1>2. Own(th'[t]) <=> r = "done"
  BY OwnHelper DEF Reaches
<1>3. \A x : ~Serves(th'[t], x)
  BY OwnHelper DEF Reaches
<1>4. OwnOp(th'[t], t)
  BY OwnHelper DEF Reaches
<1>5. ~Popping(t)' /\ k \notin WaitLabels \cup {"sAgain", "rAgain"}
  <2>1. Head(<<k, r>>) = k /\ k # "popCommit" /\ k \notin WaitLabels \cup {"sAgain", "rAgain"}
    BY HelperStack DEF HelperLabels, WaitLabels
  <2> QED BY <2>1 DEF Popping, Reaches
<1> QED BY <1>1, <1>2, <1>3, <1>4, <1>5, CalmMove

\* To a ring operation, or further in it.
LEMMA CalmToRing ==
    ASSUME FrameInv, NEW t \in Threads, Still, Awake(t),
           NEW l \in RingLabels \ {"pushCommit", "popCommit"}, NEW ok, NEW fail, <<ok, fail>> \in Exits,
           Own(th[t]) <=> Head(ok) \notin OwnOps /\ OwnAt(fail),
           Head(ok) \in {"sAgain", "rAgain"} => Doing(t) \in {"sAgain", "rAgain"},
           Reaches(t, <<l>>), th'[t].ok = ok, th'[t].fail = fail, Head(ok) \in OwnOps => th'[t].w = t
    PROVE  Calm(t)
<1>1. Steps(t) /\ Doing(t)' = Head(ok) /\ Head(th'[t].at) = l
  BY ToRing DEF Reaches
<1>2. Own(th'[t]) <=> Head(ok) \notin OwnOps /\ OwnAt(fail)
  BY OwnRing DEF Reaches
<1>3. \A x : ~Serves(th'[t], x)
  BY OwnRing DEF Reaches
<1>4. OwnOp(th'[t], t)
  BY OwnRing DEF Reaches
<1>5. ~Popping(t)' /\ Head(ok) \notin WaitLabels
  BY <1>1, ExitOwn DEF Popping
<1> QED BY <1>1, <1>2, <1>3, <1>4, <1>5, CalmMove

\* From a plain position.
LEMMA FromPlain ==
    ASSUME FrameInv, NEW t \in Threads, NEW l \in PlainLabels \ RingLabels, At(t, l)
    PROVE  /\ Doing(t) = l /\ th[t].at = <<l>> /\ ~Popping(t)
           /\ Own(th[t]) <=> l \in Fulfilled \cup {"done"}
           /\ \A x : Serves(th[t], x) <=> th[t].w = x /\ l \in Serving
           /\ l \notin WaitLabels \cup Serving \cup {"idle"} => Awake(t)
<1>1. th[t].at = <<l>>
  BY StackCases DEF FrameInv, At
<1>2. Doing(t) = l
  BY DoingFacts
<1>3. Own(th[t]) <=> l \in Fulfilled \cup {"done"}
  BY <1>1, OwnPlain
<1>4. \A x : Serves(th[t], x) <=> th[t].w = x /\ l \in Serving
  BY <1>1, OwnPlain
<1>5. ~Popping(t)
  BY DEF At, Popping, RingLabels, PopLabels
<1> QED BY <1>1, <1>2, <1>3, <1>4, <1>5 DEF Awake

\* From a helper.
LEMMA FromHelper ==
    ASSUME FrameInv, NEW t \in Threads, NEW l \in HelperLabels, At(t, l)
    PROVE  /\ \E r \in Returns : /\ th[t].at = <<l, r>> /\ Rest(t) = <<r>> /\ (Own(th[t]) <=> r = "done")
                                 /\ \A k \in HelperLabels : <<k>> \o Rest(t) = <<k, r>>
           /\ Doing(t) = l /\ ~Popping(t)
           /\ \A x : Serves(th[t], x) <=> th[t].w = x /\ l \in Serving
           /\ l \notin Serving => Awake(t)
<1>0. l \notin RingLabels
  BY LabelsApart
<1>1. PICK r \in Returns : th[t].at = <<l, r>> /\ Rest(t) = <<r>>
  BY StackCases DEF FrameInv, At, Rest
<1>2. Doing(t) = l
  BY <1>0, DoingFacts
<1>3. Own(th[t]) <=> r = "done"
  BY <1>1, OwnHelper
<1>4. \A x : Serves(th[t], x) <=> th[t].w = x /\ l \in Serving
  BY <1>1, OwnHelper
<1>5. ~Popping(t) /\ l \notin WaitLabels \cup {"idle"}
  BY DEF At, Popping, HelperLabels, WaitLabels
<1>6. \A k \in HelperLabels : <<k>> \o Rest(t) = <<k, r>>
  BY <1>1, HelperStack
<1> QED BY <1>1, <1>2, <1>3, <1>4, <1>5, <1>6 DEF Awake

\* From within a ring operation.
LEMMA FromRing ==
    ASSUME FrameInv, NEW t \in Threads, NEW l \in RingLabels, At(t, l)
    PROVE  /\ th[t].at = <<l>> /\ <<th[t].ok, th[t].fail>> \in Exits /\ Doing(t) = Head(th[t].ok) /\ InRing(t)
           /\ Own(th[t]) <=> IF Head(th[t].ok) \in OwnOps THEN l = "pushCommit" ELSE OwnAt(th[t].fail)
           /\ \A x : Serves(th[t], x) <=> th[t].w = x /\ l = "pushCommit" /\ Head(th[t].ok) \in HasSender
           /\ Doing(t) \notin WaitLabels \cup {"idle"}
           /\ l \notin {"pushCommit", "popCommit"} => Awake(t)
           /\ l # "popCommit" => ~Popping(t)
<1>1. /\ InRing(t) /\ <<th[t].ok, th[t].fail>> \in Exits
      /\ Doing(t) = Head(th[t].ok) /\ th[t].at = <<l>>
  BY StackCases, LabelsApart DEF FrameInv, At, InRing, Doing
<1>2. Own(th[t]) <=> IF Head(th[t].ok) \in OwnOps THEN l = "pushCommit" ELSE OwnAt(th[t].fail)
  BY <1>1, OwnRing
<1>3. \A x : Serves(th[t], x) <=> th[t].w = x /\ l = "pushCommit" /\ Head(th[t].ok) \in HasSender
  BY <1>1, OwnRing
<1>4. Doing(t) \notin WaitLabels \cup {"idle"}
  BY <1>1, ExitOwn, ExitFacts
<1>5. l # "popCommit" => ~Popping(t)
  BY DEF At, Popping
<1> QED BY <1>1, <1>2, <1>3, <1>4, <1>5 DEF Awake

------------------------------------------------------------------------------
(* Who has whom in hand.                                                   *)

Hand(u, x) == th[u].w = x /\ Doing(u) \in HasSender \cup HasReceiver \cup {"rWake"}

\* Who serves has in hand.
LEMMA ServesHand ==
    ASSUME FrameInv, NEW u \in Threads, NEW x, Serves(th[u], x)
    PROVE  Hand(u, x)
<1>1. CASE Head(th[u].at) \in Serving
  <2>1. Head(th[u].at) \in PlainLabels \cup HelperLabels /\ Head(th[u].at) \notin RingLabels
    BY <1>1 DEF Serving, PlainLabels, HelperLabels, RingLabels, PushLabels, PopLabels
  <2>2. Doing(u) = Head(th[u].at)
    BY <2>1, DoingFacts DEF At
  <2> QED BY <1>1, <2>2 DEF Hand, Serves, Serving, HasSender, HasReceiver
<1>2. CASE Head(th[u].at) = "pushCommit" /\ Head(th[u].ok) \in HasSender
  <2>1. Doing(u) = Head(th[u].ok)
    BY <1>2 DEF Doing, InRing, RingLabels, PushLabels
  <2> QED BY <1>2, <2>1 DEF Hand, Serves
<1> QED BY <1>1, <1>2 DEF Serves

\* A thread in hand sleeps, is not queued, and is in no other hand.
LEMMA HandAlone ==
    ASSUME Inv, TimedFree, NEW u \in Threads, NEW x, Hand(u, x)
    PROVE  /\ x \in Threads /\ Asleep(x) /\ ~Queued(x)
           /\ \A v \in Threads : Hand(v, x) => v = u
<1>0. /\ Once(recvq, HasReceiver) /\ Once(sendq, HasSender \cup {"rWake"})
      /\ KindInv /\ Elems(sendq) \subseteq Senders /\ Elems(recvq) \subseteq Receivers
      /\ Senders \cap Receivers = {}
  BY KindFacts, ChanBufAssumption DEF Inv, RecvOnce, SendOnce
<1>1. \A v \in Threads : /\ Doing(v) \in HasSender \cup {"rWake"} => th[v].w \in Senders
                         /\ Doing(v) \in HasReceiver => th[v].w \in Receivers
  BY <1>0 DEF KindInv, HandOf
<1>2. CASE Doing(u) \in HasSender \cup {"rWake"}
  <2>1. x \in Senders /\ \A v \in Threads : Hand(v, x) => Doing(v) \in HasSender \cup {"rWake"} /\ th[v].w = th[u].w
    BY <1>0, <1>1, <1>2 DEF Hand
  <2> QED BY <1>0, <1>2, <2>1 DEF Hand, Once, Queued, Threads
<1>3. CASE Doing(u) \in HasReceiver
  <2>1. x \in Receivers /\ \A v \in Threads : Hand(v, x) => Doing(v) \in HasReceiver /\ th[v].w = th[u].w
    BY <1>0, <1>1, <1>3 DEF Hand
  <2> QED BY <1>0, <1>3, <2>1 DEF Hand, Once, Queued, Threads
<1> QED BY <1>2, <1>3 DEF Hand

\* Nobody serves a thread that is awake, or woken, or queued.
LEMMA NotServed ==
    ASSUME Inv, TimedFree, NEW x, ~Asleep(x) \/ Queued(x)
    PROVE  ~Served(x)
BY ServesHand, HandAlone DEF Served, Inv

\* A queued thread is in its call and knows of no success.
LEMMA QueuedFresh ==
    ASSUME Inv, TimedFree, NEW x, Queued(x)
    PROVE  /\ x \in Threads /\ word[x] = 0 /\ Doing(x) \in Registered \ {"timeoutDec"}
           /\ ~Served(x) /\ ~Told(x) /\ (Doing(x) \in WaitLabels => ~Has(x))
<1>0. /\ Once(recvq, HasReceiver) /\ Once(sendq, HasSender \cup {"rWake"})
      /\ Elems(sendq) \subseteq Senders /\ Elems(recvq) \subseteq Receivers
  BY KindFacts DEF Inv, RecvOnce, SendOnce
<1>1. word[x] = 0 /\ Doing(x) \in Registered \ {"timeoutDec"} /\ x \in Threads
  BY <1>0 DEF Once, Queued, Threads
<1>2. ~Served(x)
  BY NotServed
<1>3. ~Told(x)
  BY <1>1 DEF Told
<1> QED BY <1>1, <1>2, <1>3, HasSelf DEF Inv

\* A thread in the hand of one that has not served it yet knows of no success.
LEMMA HandFresh ==
    ASSUME Inv, TimedFree, NEW u \in Threads, NEW x, Hand(u, x), ~Serves(th[u], x)
    PROVE  x \in Threads /\ Asleep(x) /\ ~Served(x) /\ ~Told(x) /\ ~Has(x)
<1>1. x \in Threads /\ Asleep(x) /\ \A v \in Threads : Hand(v, x) => v = u
  BY HandAlone
<1>2. ~Served(x)
  BY <1>1, ServesHand DEF Served, Inv
<1>3. ~Told(x) /\ Doing(x) \in WaitLabels
  BY <1>1 DEF Told, Asleep, WaitLabels
<1> QED BY <1>1, <1>2, <1>3, HasSelf DEF Inv

\* One whom it has served does.
LEMMA HandServed ==
    ASSUME Inv, TimedFree, NEW u \in Threads, NEW x, Serves(th[u], x)
    PROVE  x \in Threads /\ Asleep(x) /\ Served(x) /\ Has(x) /\ Hand(u, x) /\ Doing(x) \in WaitLabels
<1>1. Hand(u, x)
  BY ServesHand DEF Inv
<1>2. x \in Threads /\ Asleep(x)
  BY <1>1, HandAlone
<1>3. Served(x) /\ Doing(x) \in WaitLabels
  BY <1>2 DEF Served, Asleep, WaitLabels
<1> QED BY <1>1, <1>2, <1>3 DEF Has

------------------------------------------------------------------------------
(* The steps of a ring operation.                                          *)

\* The loads, and a CAS that fails.
LEMMA RingRetry ==
    ASSUME FrameInv, DataInv, NEW t \in Threads, NEW k \in RingLabels \ {"pushCommit", "popCommit"}, At(t, k),
           NEW l \in RingLabels \ {"pushCommit", "popCommit"}, Still, Reaches(t, <<l>>),
           th'[t].w = th[t].w, th'[t].ok = th[t].ok, th'[t].fail = th[t].fail
    PROVE  DataInv'
<1>1. PICK ok, fail : ok = th[t].ok /\ fail = th[t].fail
  OBVIOUS
<1>2. /\ <<ok, fail>> \in Exits /\ Doing(t) = Head(ok) /\ Awake(t)
      /\ Own(th[t]) <=> Head(ok) \notin OwnOps /\ OwnAt(fail)
  BY <1>1, FromRing
<1>3. Head(ok) \in OwnOps => th'[t].w = t
  <2>1. OwnOp(th[t], t)
    BY DEF DataInv, OwnInv
  <2> QED BY <1>1, <2>1 DEF OwnOp, At
<1>4. Calm(t)
  BY <1>1, <1>2, <1>3, CalmToRing
<1> QED BY <1>4, CalmKeeps

\* Leaving the ring.
LEMMA RingExit ==
    ASSUME FrameInv, NEW t \in Threads, NEW a \in Stacks, Head(a) \notin RingLabels, Reaches(t, a)
    PROVE  /\ Steps(t) /\ Doing(t)' = Head(a) /\ ~Popping(t)' /\ OwnOp(th'[t], t)
           /\ Own(th'[t]) <=> OwnAt(a)
           /\ \A x : Serves(th'[t], x) <=> th'[t].w = x /\ Head(a) \in Serving
<1>1. Steps(t) /\ Doing(t)' = Head(a)
  BY DEF Steps, Reaches, Doing, InRing
<1>2. Head(a) # "pushCommit" /\ Head(a) # "popCommit"
  BY DEF RingLabels, PushLabels, PopLabels
<1>3. th'[t].at = a
  BY DEF Reaches
<1> QED BY <1>1, <1>2, <1>3 DEF Popping, OwnOp, Own, Serves

\* The ring looks full, or empty: the message has not moved.
LEMMA RingFails ==
    ASSUME Inv, TimedFree, DataInv, NEW t \in Threads,
           NEW k \in RingLabels \ {"pushCommit", "popCommit"}, At(t, k), Still,
           Reaches(t, th[t].fail)
    PROVE  DataInv'
<1>0. FrameInv
  BY DEF Inv
<1>1. PICK ok, fail : ok = th[t].ok /\ fail = th[t].fail
  OBVIOUS
<1>2. /\ <<ok, fail>> \in Exits /\ Doing(t) = Head(ok) /\ Awake(t)
      /\ Own(th[t]) <=> Head(ok) \notin OwnOps /\ OwnAt(fail)
  BY <1>0, <1>1, FromRing
<1>3. /\ fail \in Stacks /\ Head(fail) \notin RingLabels
      /\ Head(ok) \in {"sAgain", "rAgain"} <=> Head(fail) = "unlockPark"
      /\ Head(fail) \notin {"idle", "rWake", "parked", "timedOut", "timeoutDec", "sAgain", "rAgain"}
  BY <1>2, ExitFacts
<1>4. /\ Head(ok) \in OwnOps => ~OwnAt(fail)
      /\ Head(fail) \notin Serving /\ Head(fail) \notin WaitLabels \ {"unlockPark"}
  BY <1>2, ExitOwn
<1>5. /\ Steps(t) /\ Doing(t)' = Head(fail) /\ ~Popping(t)' /\ OwnOp(th'[t], t)
      /\ Own(th'[t]) <=> OwnAt(fail)
      /\ \A x : ~Serves(th'[t], x)
  <2>1. Reaches(t, fail)
    BY <1>1
  <2> QED BY <1>0, <1>3, <1>4, <2>1, RingExit
<1>6. Own(th'[t]) <=> Own(th[t])
  BY <1>2, <1>4, <1>5
<1>7. CASE Head(fail) # "unlockPark"
  <2>1. Calm(t)
    BY <1>2, <1>3, <1>4, <1>5, <1>6, <1>7, CalmMove
  <2> QED BY <2>1, CalmKeeps
<1>8. CASE Head(fail) = "unlockPark"
  <2>0. UNCHANGED <<log, consHead, consTail, out, rcvd, accepted, refused, calls, word, result>>
    BY DEF Still
  <2>1. Queued(t) /\ Doing(t) \in {"sAgain", "rAgain"}
    BY <1>2, <1>3, <1>8 DEF Inv, SleepInv
  <2>2. word[t] = 0 /\ ~Served(t) /\ ~Told(t)
    BY <2>1, QueuedFresh
  <2>3. ~Has(t)
    <3>1. ~Own(th[t])
      BY <1>2, <1>4, <2>1 DEF OwnOps
    <3>2. Doing(t) \notin WaitLabels
      BY <2>1 DEF WaitLabels
    <3> QED BY <3>1, <3>2 DEF Has
  <2>4. ~Has(t)'
    <3>1. ~Own(th'[t])
      BY <1>2, <1>4, <1>6, <2>1 DEF OwnOps
    <3>2. ~Told(t)'
      BY <1>5, <1>8, <2>0, <2>2 DEF Told
    <3>3. ~Served(t)'
      BY <1>5, <2>2 DEF Served, Steps
    <3> QED BY <3>1, <3>2, <3>3 DEF Has
  <2>5. ASSUME NEW x \in Threads PROVE Has(x)' <=> Has(x)
    <3>1. CASE x = t
      BY <2>3, <2>4, <3>1
    <3>2. CASE x # t
      BY <1>2, <1>5, <2>0, <3>2, HasOthers DEF Awake
    <3> QED BY <3>1, <3>2
  <2>6. ResOK(t)
    BY <2>0, <2>1, <2>2 DEF ResOK, Registered
  <2>7. Senders \cup Receivers \subseteq Threads
    BY DEF Threads
  <2>8. Calm(t)
    BY <1>2, <1>5, <2>0, <2>5, <2>6, <2>7 DEF Calm, Awake
  <2> QED BY <2>8, CalmKeeps
<1> QED BY <1>7, <1>8

\* The commit of a push: the message moved when its slot was reserved.
LEMMA PushCommits ==
    ASSUME FrameInv, KindInv, DataInv, NEW t \in Threads, At(t, "pushCommit"), Still,
           Reaches(t, th[t].ok), th'[t].w = th[t].w
    PROVE  DataInv'
<1>1. PICK ok, fail : ok = th[t].ok /\ fail = th[t].fail
  OBVIOUS
<1>2. /\ <<ok, fail>> \in Exits /\ Doing(t) = Head(ok) /\ ~Popping(t) /\ Doing(t) \notin WaitLabels \cup {"idle"}
      /\ Own(th[t]) <=> IF Head(ok) \in OwnOps THEN TRUE ELSE OwnAt(fail)
      /\ \A x : Serves(th[t], x) <=> th[t].w = x /\ Head(ok) \in HasSender
  <2>1. "pushCommit" \in RingLabels /\ "pushCommit" # "popCommit"
    BY DEF RingLabels, PushLabels
  <2> QED BY <1>1, <2>1, FromRing
<1>3. ok \in Stacks /\ Head(ok) \notin RingLabels
  BY <1>2, ExitFacts
<1>4. /\ Steps(t) /\ Doing(t)' = Head(ok) /\ ~Popping(t)' /\ OwnOp(th'[t], t)
      /\ Own(th'[t]) <=> OwnAt(ok)
      /\ \A x : Serves(th'[t], x) <=> th'[t].w = x /\ Head(ok) \in Serving
  <2>1. Reaches(t, ok)
    BY <1>1
  <2> QED BY <1>3, <2>1, RingExit
<1>5. Own(th'[t]) <=> Own(th[t])
  BY <1>2, <1>4, ExitOwn
<1>6. \A x : Serves(th'[t], x) <=> Serves(th[t], x)
  <2>0. Head(ok) \notin HasReceiver
    <3>1. HandOf(t) /\ Head(th[t].at) \in PushLabels
      BY DEF KindInv, At, PushLabels
    <3> QED BY <1>2, <3>1, ChanBufAssumption DEF HandOf
  <2>1. Head(ok) \in Serving <=> Head(ok) \in HasSender
    BY <1>2, <2>0, ExitOwn
  <2> QED BY <1>2, <1>4, <2>1
<1>7. Calm(t)
  BY <1>2, <1>4, <1>5, <1>6, CalmAny
<1> QED BY <1>7, CalmKeeps

\* The CAS of a push: the message of w moves into the ring.
LEMMA PushReserves ==
    ASSUME Inv, TimedFree, RingTypes, StateTypes, DataInv, NEW t \in Threads, At(t, "pushCas"),
           Reaches(t, <<"pushCommit">>), th'[t].w = th[t].w, th'[t].ok = th[t].ok, th'[t].fail = th[t].fail,
           log' = Append(log, Msg(th[t].w)),
           UNCHANGED <<consHead, consTail, out, rcvd, accepted, refused, calls, word, result>>
    PROVE  DataInv'
<1>0. FrameInv /\ KindInv /\ PlaceInv /\ RecvInv /\ OwnInv /\ GotInv /\ MovedInv /\ ResultInv
  BY DEF Inv, DataInv
<1>1. PICK ok, fail, w : ok = th[t].ok /\ fail = th[t].fail /\ w = th[t].w
  OBVIOUS
<1>2. /\ <<ok, fail>> \in Exits /\ Doing(t) = Head(ok) /\ Awake(t) /\ ~Popping(t)
      /\ Own(th[t]) <=> Head(ok) \notin OwnOps /\ OwnAt(fail)
      /\ OwnOp(th[t], t) /\ Head(th[t].at) = "pushCas"
  <2>1. "pushCas" \in RingLabels \ {"pushCommit", "popCommit"}
    BY DEF RingLabels, PushLabels
  <2> QED BY <1>0, <1>1, <2>1, FromRing DEF OwnInv, At
<1>3. /\ Steps(t) /\ Doing(t)' = Head(ok) /\ Head(th'[t].at) = "pushCommit"
      /\ Own(th'[t]) <=> Head(ok) \in OwnOps \/ OwnAt(fail)
      /\ \A x : Serves(th'[t], x) <=> x = w /\ Head(ok) \in HasSender
      /\ OwnOp(th'[t], t)
  <2>1. "pushCommit" \in RingLabels
    BY DEF RingLabels, PushLabels
  <2>2. Steps(t) /\ Doing(t)' = Head(ok) /\ Head(th'[t].at) = "pushCommit"
    BY <1>0, <1>1, <1>2, <2>1, ToRing DEF Reaches
  <2>3. /\ Own(th'[t]) <=> Head(ok) \in OwnOps \/ OwnAt(fail)
        /\ \A x : Serves(th'[t], x) <=> x = w /\ Head(ok) \in HasSender
        /\ OwnOp(th'[t], t) <=> (Head(ok) \in OwnOps => w = t)
    BY <1>1, <1>2, <2>1, OwnRing DEF Reaches
  <2>4. Head(ok) \in OwnOps => w = t
    BY <1>1, <1>2 DEF OwnOp, RingLabels, PushLabels
  <2> QED BY <2>2, <2>3, <2>4
<1>4. w \in Senders /\ calls[w] \in 1..MaxCalls /\ Head(ok) \notin HasReceiver
  <2>1. HandOf(t) /\ Head(th[t].at) \in PushLabels
    BY <1>0, <1>2 DEF KindInv, PushLabels
  <2>2. w \in Senders /\ calls[w] > 0 /\ Head(ok) \notin HasReceiver
    BY <1>1, <1>2, <2>1, ChanBufAssumption DEF HandOf
  <2> QED BY <1>0, <2>2, ChanBufAssumption DEF KindInv, Threads
<1>5. Doing(w) # "idle" /\ ~Has(w) /\ Has(w)' /\ w \in Threads
  <2>1. CASE Head(ok) \in OwnOps
    <3>1. w = t /\ Doing(t) \notin WaitLabels \cup {"idle"}
      BY <1>1, <1>2, <2>1 DEF OwnOp, RingLabels, PushLabels, Awake
    <3>2. ~Own(th[t]) /\ Own(th'[t])
      BY <1>2, <1>3, <2>1
    <3> QED BY <3>1, <3>2 DEF Has
  <2>2. CASE Head(ok) \notin OwnOps
    <3>1. Head(ok) \in HasSender
      BY <1>2, <1>4, <2>2, ExitOwn
    <3>2. Hand(t, w) /\ ~Serves(th[t], w)
      BY <1>1, <1>2, <3>1 DEF Hand, Awake
    <3>3. w \in Threads /\ Asleep(w) /\ ~Has(w)
      BY <3>2, HandFresh
    <3>4. w # t
      BY <1>2, <3>1, <3>3 DEF Asleep, HasSender
    <3>5. Doing(w)' = Doing(w)
      BY <1>3, <3>3, <3>4, OthersStay
    <3>6. Doing(w) \in WaitLabels /\ Doing(w) # "idle"
      BY <3>3 DEF Asleep, WaitLabels
    <3>7. Served(w)'
      BY <1>3, <3>1 DEF Served
    <3> QED BY <3>3, <3>5, <3>6, <3>7 DEF Has
  <2> QED BY <2>1, <2>2
<1>6. ASSUME NEW x \in Threads, x # w PROVE Has(x)' <=> Has(x)
  <2>1. CASE x = t
    <3>1. Head(ok) \notin OwnOps
      BY <1>1, <1>2, <1>6, <2>1 DEF OwnOp, RingLabels, PushLabels
    <3>2. Doing(t) \notin WaitLabels /\ Doing(t)' \notin WaitLabels /\ (Own(th'[t]) <=> Own(th[t]))
      BY <1>2, <1>3, <3>1 DEF Awake
    <3> QED BY <2>1, <3>2 DEF Has
  <2>2. CASE x # t
    <3>1. Serves(th'[t], x) <=> Serves(th[t], x)
      BY <1>2, <1>3, <1>6 DEF Awake
    <3> QED BY <1>3, <2>2, <3>1, HasOthers
  <2> QED BY <2>1, <2>2
<1>7. PICK m : m = Msg(w) /\ m = <<w, calls[w]>>
  BY DEF Msg
<1>8. /\ log \in Seq(Messages) /\ m \in Messages /\ log' = Append(log, m)
      /\ Len(log) \in Nat /\ Len(log') = Len(log) + 1 /\ log'[Len(log) + 1] = m
      /\ \A i \in 1..Len(log) : log'[i] = log[i]
  <2>1. log \in Seq(Messages) /\ m \in Messages /\ log' = Append(log, m)
    BY <1>1, <1>4, <1>7 DEF RingTypes, Messages
  <2> QED BY <2>1
<1>9. ~Given(m)
  BY <1>0, <1>4, <1>5, <1>7 DEF MovedInv
<1>10. \A x : AtRecv(x)' <=> AtRecv(x)
  BY DEF AtRecv
<1>11. \A x : Given(x)' <=> Given(x) \/ x = m
  <2>1. \A x : (\E i \in 1..Len(log') : log'[i] = x) <=> (\E i \in 1..Len(log) : log[i] = x) \/ x = m
    BY <1>8
  <2> QED BY <1>10, <2>1 DEF Given
<1>12. \A u \in Threads : (Popping(u)' <=> Popping(u)) /\ (Popping(u) => th'[u].old = th[u].old)
  BY <1>2, <1>3 DEF Popping, Steps
<1>13. PlaceInv'
  <2>1. ~AtRecv(m) /\ \A i \in 1..Len(log) : log[i] # m
    BY <1>9 DEF Given
  <2>2. \A i, j \in 1..Len(log') : log'[i] = log'[j] => i = j
    BY <1>0, <1>8, <2>1 DEF PlaceInv
  <2>3. consTail <= Len(log) /\ consTail \in Nat
    BY <1>0, <1>8 DEF RingTypes, PlaceInv
  <2>4. (\A i \in 1..Len(log) : AtRecv(log[i]) <=> i <= consTail)'
    <3>1. ASSUME NEW i \in 1..Len(log') PROVE AtRecv(log[i])' <=> i <= consTail
      <4>1. PICK x : x = log'[i]
        OBVIOUS
      <4>2. AtRecv(x) <=> i <= consTail
        BY <1>0, <1>8, <2>1, <2>3, <3>1, <4>1 DEF PlaceInv
      <4>3. AtRecv(log[i])' <=> AtRecv(x)
        BY <4>1 DEF AtRecv
      <4> QED BY <4>2, <4>3
    <3> QED BY <3>1
  <2> QED BY <1>0, <1>12, <2>2, <2>4 DEF PlaceInv
<1>14. \A x \in Threads : Doing(x)' = Doing(x)
  BY <1>2, <1>3, OthersStay
<1>15. RecvInv'
  BY <1>0, <1>14 DEF RecvInv, Threads
<1>16. OwnInv'
  BY <1>0, <1>3, OwnStep
<1>17. GotInv'
  <2>1. \A r \in Receivers : r \in Threads /\ r # w
    BY <1>4, ChanBufAssumption DEF Threads
  <2> QED BY <1>0, <1>6, <2>1 DEF GotInv
<1>18. MovedInv'
  <2>0. calls' = calls /\ accepted' = accepted /\ refused' = refused
    OBVIOUS
  <2>1. ASSUME NEW s \in Senders, Doing(s)' # "idle"
        PROVE  (Given(Msg(s))' <=> Has(s)') /\ Msg(s)' \notin (accepted \cup refused)'
    <3>1. Doing(s) # "idle" /\ s \in Threads
      BY <1>14, <2>1 DEF Threads
    <3>2. (Given(Msg(s)) <=> Has(s)) /\ Msg(s) \notin accepted \cup refused
      BY <1>0, <3>1 DEF MovedInv
    <3>0. PICK y : y = <<s, calls[s]>>
      OBVIOUS
    <3>3. y = Msg(s) /\ y = Msg(s)' /\ y[1] = s
      BY <2>0, <3>0 DEF Msg
    <3>4. Given(y)' <=> Given(y) \/ y = m
      BY <1>11
    <3>5. CASE s = w
      <4>1. y = m
        BY <1>7, <3>3, <3>5
      <4>2. Given(Msg(s))'
        BY <3>3, <3>4, <4>1 DEF Given, AtRecv
      <4> QED BY <1>5, <3>2, <3>3, <3>5, <4>2
    <3>6. CASE s # w
      <4>1. y # m
        BY <1>7, <3>3, <3>6
      <4>2. Given(Msg(s))' <=> Given(Msg(s))
        BY <3>3, <3>4, <4>1 DEF Given, AtRecv
      <4> QED BY <1>6, <3>1, <3>2, <3>3, <3>6, <4>2
    <3> QED BY <3>5, <3>6
  <2>2. \A s \in Senders : \A n \in 1..MaxCalls :
           Given(<<s, n>>)' \/ <<s, n>> \in (accepted \cup refused)' => n <= calls'[s]
    <3>1. \A s \in Senders : \A n \in 1..MaxCalls : <<s, n>> = m => n <= calls[s]
      BY <1>4, <1>7
    <3>2. \A s \in Senders : \A n \in 1..MaxCalls :
             Given(<<s, n>>) \/ <<s, n>> \in accepted \cup refused => n <= calls[s]
      BY <1>0 DEF MovedInv
    <3> QED BY <1>11, <2>0, <3>1, <3>2
  <2>3. m \notin refused
    BY <1>0, <1>4, <1>5, <1>7 DEF MovedInv
  <2>4. \A x \in accepted : Given(x)'
    BY <1>0, <1>11 DEF MovedInv
  <2>5. \A x \in refused : ~Given(x)'
    BY <1>0, <1>11, <2>3 DEF MovedInv
  <2> QED BY <2>0, <2>1, <2>2, <2>4, <2>5 DEF MovedInv
<1>19. ResultInv'
  BY <1>0, <1>14 DEF ResultInv
<1> QED BY <1>13, <1>15, <1>16, <1>17, <1>18, <1>19 DEF DataInv

\* The CAS of a pop: the message leaves the ring for t.
LEMMA PopReserves ==
    ASSUME FrameInv, RingTypes, DataInv, NEW t \in Threads, At(t, "popCas"),
           Reaches(t, <<"popCommit">>), th'[t].w = th[t].w, th'[t].ok = th[t].ok, th'[t].fail = th[t].fail,
           th'[t].old = th[t].old, th[t].old = consHead, consHead' = consHead + 1,
           UNCHANGED <<log, consTail, out, rcvd, accepted, refused, calls, word, result>>
    PROVE  DataInv'
<1>0. PlaceInv /\ RecvInv /\ OwnInv /\ GotInv /\ MovedInv /\ ResultInv
  BY DEF DataInv
<1>1. PICK ok, fail : ok = th[t].ok /\ fail = th[t].fail
  OBVIOUS
<1>l. {"popCas", "popCommit"} \subseteq RingLabels
  BY DEF RingLabels, PopLabels
<1>2. /\ <<ok, fail>> \in Exits /\ Doing(t) = Head(ok) /\ Awake(t) /\ ~Popping(t)
      /\ Own(th[t]) <=> Head(ok) \notin OwnOps /\ OwnAt(fail)
      /\ OwnOp(th[t], t) /\ Head(th[t].at) = "popCas"
  BY <1>0, <1>1, <1>l, FromRing DEF OwnInv, At
<1>3. Steps(t) /\ Doing(t)' = Head(ok) /\ Head(th'[t].at) = "popCommit"
  BY <1>1, <1>2, <1>l, ToRing DEF Reaches
<1>4. /\ Own(th'[t]) <=> Head(ok) \notin OwnOps /\ OwnAt(fail)
      /\ \A x : ~Serves(th'[t], x)
      /\ OwnOp(th'[t], t)
  <2>1. /\ Own(th'[t]) <=> Head(ok) \notin OwnOps /\ OwnAt(fail)
        /\ \A x : ~Serves(th'[t], x)
        /\ OwnOp(th'[t], t) <=> (Head(ok) \in OwnOps => th[t].w = t)
    BY <1>1, <1>2, <1>l, OwnRing DEF Reaches
  <2>2. Head(ok) \in OwnOps => th[t].w = t
    BY <1>1, <1>2, <1>l DEF OwnOp
  <2> QED BY <2>1, <2>2
<1>5. \A x \in Threads : Doing(x)' = Doing(x)
  BY <1>2, <1>3, OthersStay
<1>6. ASSUME NEW x \in Threads PROVE Has(x)' <=> Has(x)
  <2>1. CASE x = t
    BY <1>2, <1>4, <1>5, <2>1 DEF Has, Awake
  <2>2. CASE x # t
    BY <1>2, <1>3, <1>4, <2>2, HasOthers DEF Awake
  <2> QED BY <2>1, <2>2
<1>7. PlaceInv'
  <2>0. /\ consHead \in Nat /\ consTail \in Nat /\ consTail <= consHead
        /\ \A u \in Threads : Popping(u) => th[u].old \in Nat /\ th[u].old < consHead
    BY <1>0 DEF RingTypes, LocalType, PlaceInv, Popping
  <2>1. /\ Popping(t)' /\ th'[t].old = consHead
        /\ \A u \in Threads : u # t => (Popping(u)' <=> Popping(u)) /\ th'[u].old = th[u].old
    BY <1>3 DEF Popping, Steps
  <2>2. \A x : AtRecv(x)' <=> AtRecv(x)
    BY DEF AtRecv
  <2>3. \A u \in Threads : Popping(u)' => consTail <= th'[u].old
    BY <1>0, <2>0, <2>1 DEF PlaceInv
  <2>4. \A u, v \in Threads : Popping(u)' /\ Popping(v)' /\ th'[u].old = th'[v].old => u = v
    BY <1>0, <2>0, <2>1 DEF PlaceInv
  <2>5. \A i \in (consTail + 1)..(consHead + 1) : \E u \in Threads : Popping(u)' /\ th'[u].old = i - 1
    <3>1. ASSUME NEW i \in (consTail + 1)..(consHead + 1) PROVE \E u \in Threads : Popping(u)' /\ th'[u].old = i - 1
      <4>1. CASE i = consHead + 1
        BY <2>0, <2>1, <4>1
      <4>2. CASE i # consHead + 1
        <5>1. i \in (consTail + 1)..consHead
          BY <2>0, <3>1, <4>2
        <5>2. PICK u \in Threads : Popping(u) /\ th[u].old = i - 1
          BY <1>0, <5>1 DEF PlaceInv
        <5> QED BY <1>2, <2>1, <5>2
      <4> QED BY <4>1, <4>2
    <3> QED BY <3>1
  <2>6. consTail <= consHead + 1
    BY <2>0
  <2> QED BY <1>0, <2>2, <2>3, <2>4, <2>5, <2>6 DEF PlaceInv
<1>8. RecvInv'
  BY <1>0, <1>5 DEF RecvInv, Threads
<1>9. OwnInv'
  BY <1>0, <1>3, <1>4, OwnStep
<1>10. GotInv'
  BY <1>0, <1>6 DEF GotInv, Threads
<1>11. MovedInv'
  <2>1. \A m : Given(m)' <=> Given(m)
    BY DEF Given, AtRecv
  <2>2. \A s \in Senders : s \in Threads /\ Msg(s)' = Msg(s)
    BY DEF Threads, Msg
  <2>3. \A s \in Senders : Doing(s)' # "idle" => (Given(Msg(s))' <=> Has(s)') /\ Msg(s)' \notin (accepted \cup refused)'
    BY <1>0, <1>5, <1>6, <2>1, <2>2 DEF MovedInv
  <2> QED BY <1>0, <2>1, <2>3 DEF MovedInv
<1>12. ResultInv'
  BY <1>0, <1>5 DEF ResultInv
<1> QED BY <1>7, <1>8, <1>9, <1>10, <1>11, <1>12 DEF DataInv

\* A message reaches a receiver's buffer that was empty.
LEMMA BufferFills ==
    ASSUME RecvInv, StateTypes, NEW r \in Receivers, out[r] = NoMsg, NEW m \in Messages, ~AtRecv(m),
           out' = [out EXCEPT ![r] = m], UNCHANGED <<rcvd, calls>>,
           \A x \in Receivers : Doing(x)' # "idle" => Doing(x) # "idle"
    PROVE  /\ RecvInv'
           /\ \A x \in Messages : AtRecv(x)' <=> AtRecv(x) \/ x = m
           /\ out'[r] = m /\ m # NoMsg /\ \A q \in Receivers : q # r => out'[q] = out[q]
<1>0. /\ out \in [Receivers -> Messages \cup {NoMsg}]
      /\ out'[r] = m /\ \A q \in Receivers : q # r => out'[q] = out[q]
  BY DEF StateTypes
<1>1. m # NoMsg
  BY ChanBufAssumption DEF Messages, NoMsg, Threads
<1>2. NoMsg \notin Messages
  BY ChanBufAssumption DEF Messages, NoMsg, Threads
<1>3. /\ \A q \in Receivers : out[q] # m
      /\ \A q \in Receivers : \A i \in 1..Len(rcvd[q]) : rcvd[q][i] # m
  BY DEF AtRecv
<1>4. \A x \in Messages : AtRecv(x)' <=> AtRecv(x) \/ x = m
  BY <1>0, <1>2 DEF AtRecv
<1>5. \A p, q \in Receivers : out'[p] = out'[q] /\ out'[p] # NoMsg => p = q
  BY <1>0, <1>3 DEF RecvInv
<1>6. \A p, q \in Receivers : \A i \in 1..Len(rcvd[q]) : rcvd[q][i] # NoMsg /\ out'[p] # rcvd[q][i]
  BY <1>0, <1>3 DEF RecvInv
<1>7. RecvInv'
  BY <1>5, <1>6 DEF RecvInv
<1> QED BY <1>0, <1>1, <1>4, <1>7


\* The commit of a pop: the message reaches the buffer of w.
LEMMA PopDelivers ==
    ASSUME Inv, TimedFree, RingTypes, StateTypes, DataInv, NEW t \in Threads, At(t, "popCommit"),
           Reaches(t, th[t].ok), th'[t].w = th[t].w, th[t].old = consTail, consTail' = consTail + 1,
           out' = [out EXCEPT ![th[t].w] = log[consTail + 1]],
           UNCHANGED <<log, consHead, rcvd, accepted, refused, calls, word, result>>
    PROVE  DataInv'
<1>0. FrameInv /\ KindInv /\ PlaceInv /\ RecvInv /\ OwnInv /\ GotInv /\ MovedInv /\ ResultInv
  BY DEF Inv, DataInv
<1>1. PICK ok, fail, w : ok = th[t].ok /\ fail = th[t].fail /\ w = th[t].w
  OBVIOUS
<1>m. PICK m : m = log[consTail + 1]
  OBVIOUS
<1>l. "popCommit" \in RingLabels /\ "popCommit" \in PopLabels /\ "popCommit" # "pushCommit"
  BY DEF RingLabels, PopLabels
<1>2. /\ <<ok, fail>> \in Exits /\ Doing(t) = Head(ok) /\ Doing(t) \notin WaitLabels \cup {"idle"}
      /\ Own(th[t]) <=> Head(ok) \notin OwnOps /\ OwnAt(fail)
      /\ \A x : ~Serves(th[t], x)
      /\ OwnOp(th[t], t) /\ Head(th[t].at) = "popCommit" /\ Popping(t)
  BY <1>0, <1>1, <1>l, FromRing DEF OwnInv, At, Popping
<1>x. ok \in Stacks /\ Head(ok) \notin RingLabels
  BY <1>2, ExitFacts
<1>3. /\ Steps(t) /\ Doing(t)' = Head(ok) /\ ~Popping(t)' /\ OwnOp(th'[t], t)
      /\ Own(th'[t]) <=> OwnAt(ok)
      /\ \A x : Serves(th'[t], x) <=> x = w /\ Head(ok) \in Serving
  <2>1. Reaches(t, ok)
    BY <1>1
  <2>2. /\ Steps(t) /\ Doing(t)' = Head(ok) /\ ~Popping(t)' /\ OwnOp(th'[t], t)
        /\ Own(th'[t]) <=> OwnAt(ok)
        /\ \A x : Serves(th'[t], x) <=> th'[t].w = x /\ Head(ok) \in Serving
    BY <1>0, <1>x, <2>1, RingExit
  <2> QED BY <1>1, <2>2
<1>4. w \in Receivers /\ w \in Threads /\ Head(ok) \notin HasSender
  <2>1. HandOf(t) /\ Head(th[t].at) \in PopLabels
    BY <1>0, <1>2, <1>l DEF KindInv
  <2> QED BY <1>1, <1>2, <2>1, ChanBufAssumption DEF HandOf, Threads
<1>o. Head(ok) \in OwnOps => w = t
  BY <1>1, <1>2, <1>l DEF OwnOp
<1>5. ~Has(w) /\ Has(w)'
  <2>1. CASE Head(ok) \in OwnOps
    <3>1. ~Own(th[t]) /\ Own(th'[t])
      BY <1>2, <1>3, <2>1, ExitOwn
    <3> QED BY <1>2, <1>o, <2>1, <3>1 DEF Has
  <2>2. CASE Head(ok) \notin OwnOps
    <3>1. Head(ok) \in HasReceiver /\ Head(ok) \in Serving
      BY <1>2, <1>4, <2>2, ExitOwn
    <3>2. Hand(t, w) /\ ~Serves(th[t], w)
      BY <1>1, <1>2, <3>1 DEF Hand
    <3>3. Asleep(w) /\ ~Has(w)
      BY <3>2, HandFresh
    <3>4. w # t
      BY <1>2, <3>1, <3>3 DEF Asleep, HasReceiver
    <3>5. Doing(w)' = Doing(w)
      BY <1>3, <1>4, <3>4, OthersStay
    <3>6. Doing(w) \in WaitLabels
      BY <3>3 DEF Asleep, WaitLabels
    <3>7. Served(w)'
      BY <1>3, <3>1 DEF Served
    <3> QED BY <3>3, <3>5, <3>6, <3>7 DEF Has
  <2> QED BY <2>1, <2>2
<1>6. ASSUME NEW x \in Threads, x # w PROVE Has(x)' <=> Has(x)
  <2>1. CASE x = t
    <3>1. Head(ok) \notin OwnOps
      BY <1>o, <1>6, <2>1
    <3>2. Doing(t)' \notin WaitLabels /\ (Own(th'[t]) <=> Own(th[t]))
      BY <1>2, <1>3, <3>1, ExitOwn
    <3> QED BY <1>2, <2>1, <3>2 DEF Has
  <2>2. CASE x # t
    <3>1. Serves(th'[t], x) <=> Serves(th[t], x)
      BY <1>2, <1>3, <1>6
    <3> QED BY <1>3, <2>2, <3>1, HasOthers
  <2> QED BY <2>1, <2>2
<1>7. /\ consTail \in Nat /\ consHead \in Nat /\ consTail < consHead /\ consHead <= Len(log) /\ Len(log) \in Nat
      /\ log \in Seq(Messages) /\ consTail + 1 \in 1..Len(log)
      /\ \A i \in 1..Len(log) : log[i] \in Messages
  <2>1. /\ consTail \in Nat /\ consHead \in Nat /\ consTail < consHead
        /\ log \in Seq(Messages) /\ consHead <= prodTail /\ prodTail <= Len(log) /\ prodTail \in Nat
    BY <1>2 DEF RingTypes, LocalType
  <2> QED BY <2>1
<1>8. m \in Messages /\ ~AtRecv(m) /\ \A i \in 1..Len(log) : log[i] = m <=> i = consTail + 1
  BY <1>0, <1>7, <1>m DEF PlaceInv
<1>9. \A x \in Threads : Doing(x)' = Doing(x)
  BY <1>2, <1>3, OthersStay
<1>10. /\ RecvInv'
       /\ \A x \in Messages : AtRecv(x)' <=> AtRecv(x) \/ x = m
       /\ out'[w] = m /\ m # NoMsg /\ \A q \in Receivers : q # w => out'[q] = out[q]
  <2>1. out[w] = NoMsg
    BY <1>0, <1>4, <1>5 DEF GotInv
  <2>2. out' = [out EXCEPT ![w] = m]
    BY <1>1, <1>m
  <2>3. \A x \in Receivers : Doing(x)' # "idle" => Doing(x) # "idle"
    BY <1>9 DEF Threads
  <2> QED BY <1>0, <1>4, <1>8, <2>1, <2>2, <2>3, BufferFills
<1>11. \A x \in Messages : Given(x)' <=> Given(x)
  BY <1>7, <1>10, <1>m DEF Given
<1>12. PlaceInv'
  <2>1. \A u \in Threads : u # t => (Popping(u)' <=> Popping(u)) /\ th'[u].old = th[u].old
    BY <1>3 DEF Popping, Steps
  <2>2. \A u \in Threads : Popping(u)' => Popping(u) /\ u # t /\ th'[u].old = th[u].old
    BY <1>3, <2>1
  <2>3. \A u \in Threads : Popping(u)' => consTail + 1 <= th'[u].old
    <3>1. ASSUME NEW u \in Threads, Popping(u)' PROVE consTail + 1 <= th'[u].old
      <4>1. Popping(u) /\ u # t /\ th'[u].old = th[u].old
        BY <2>2, <3>1
      <4>2. th[u].old # consTail /\ consTail <= th[u].old
        BY <1>0, <1>2, <4>1 DEF PlaceInv
      <4>3. th[u].old \in Nat
        BY DEF RingTypes, LocalType
      <4> QED BY <1>7, <4>1, <4>2, <4>3
    <3> QED BY <3>1
  <2>4. \A u, v \in Threads : Popping(u)' /\ Popping(v)' /\ th'[u].old = th'[v].old => u = v
    BY <1>0, <2>2 DEF PlaceInv
  <2>5. \A i \in (consTail + 2)..consHead : \E u \in Threads : Popping(u)' /\ th'[u].old = i - 1
    <3>1. ASSUME NEW i \in (consTail + 2)..consHead PROVE \E u \in Threads : Popping(u)' /\ th'[u].old = i - 1
      <4>1. i \in (consTail + 1)..consHead /\ i - 1 # consTail
        BY <1>7, <3>1
      <4>2. PICK u \in Threads : Popping(u) /\ th[u].old = i - 1
        BY <1>0, <4>1 DEF PlaceInv
      <4>3. u # t
        BY <4>1, <4>2
      <4> QED BY <2>1, <4>2, <4>3
    <3> QED BY <3>1
  <2>6. (\A i \in 1..Len(log) : AtRecv(log[i]) <=> i <= consTail)'
    <3>1. ASSUME NEW i \in 1..Len(log) PROVE AtRecv(log[i])' <=> i <= consTail + 1
      <4>1. PICK x : x = log[i]
        OBVIOUS
      <4>2. x \in Messages /\ (AtRecv(x) <=> i <= consTail) /\ (x = m <=> i = consTail + 1)
        BY <1>0, <1>7, <1>8, <3>1, <4>1 DEF PlaceInv
      <4>3. AtRecv(x)' <=> i <= consTail + 1
        BY <1>7, <1>10, <3>1, <4>2
      <4>4. AtRecv(log[i])' <=> AtRecv(x)'
        BY <4>1
      <4> QED BY <4>3, <4>4
    <3> QED BY <3>1
  <2>7. consTail + 1 <= consHead /\ consTail + 1 + 1 = consTail + 2
    BY <1>7
  <2> QED BY <1>0, <2>3, <2>4, <2>5, <2>6, <2>7 DEF PlaceInv
<1>13. OwnInv'
  BY <1>0, <1>3, OwnStep
<1>14. GotInv'
  BY <1>0, <1>5, <1>6, <1>10 DEF GotInv, Threads
<1>15. MovedInv'
  <2>1. ASSUME NEW s \in Senders, Doing(s)' # "idle"
        PROVE  (Given(Msg(s))' <=> Has(s)') /\ Msg(s)' \notin (accepted \cup refused)'
    <3>0. PICK y : y = <<s, calls[s]>>
      OBVIOUS
    <3>1. Doing(s) # "idle" /\ s \in Threads /\ s # w
      BY <1>4, <1>9, <2>1, ChanBufAssumption DEF Threads
    <3>2. y = Msg(s) /\ y = Msg(s)'
      BY <3>0 DEF Msg
    <3>3. y \in Messages
      BY <1>0, <3>0, <3>1, ChanBufAssumption DEF KindInv, Messages
    <3>4. Given(y)' <=> Given(y)
      BY <1>11, <3>3
    <3>5. (Given(y) <=> Has(s)) /\ y \notin accepted \cup refused
      BY <1>0, <3>1, <3>2 DEF MovedInv
    <3>6. Given(Msg(s))' <=> Given(y)'
      BY <3>2
    <3> QED BY <1>6, <3>1, <3>2, <3>4, <3>5, <3>6
  <2>2. \A s \in Senders : \A n \in 1..MaxCalls : <<s, n>> \in Messages
    BY DEF Messages
  <2>3. accepted \subseteq Messages /\ refused \subseteq Messages
    BY DEF StateTypes
  <2> QED BY <1>0, <1>11, <2>1, <2>2, <2>3 DEF MovedInv
<1>16. ResultInv'
  BY <1>0, <1>9 DEF ResultInv
<1> QED BY <1>10, <1>12, <1>13, <1>14, <1>15, <1>16 DEF DataInv

\* A step of a ring operation.
LEMMA RingData ==
    ASSUME Inv, TimedFree, RingTypes, StateTypes, DataInv, NEW t \in Threads, RingStep(t)
    PROVE  DataInv'
<1>0. FrameInv /\ KindInv
  BY DEF Inv
<1>l. /\ {"pushLoad", "pushCas", "popLoad", "popCas"} \subseteq RingLabels \ {"pushCommit", "popCommit"}
  BY DEF RingLabels, PushLabels, PopLabels
<1>1. CASE PushLoad(t)
  <2>1. PICK a, x : a = <<"pushCas">> /\ x = Len(log)
    OBVIOUS
  <2>2. At(t, "pushLoad") /\ th' = [th EXCEPT ![t].at = a, ![t].old = x] /\ Still
    BY <1>1, <2>1 DEF PushLoad, Still, ring, waiters, hist
  <2>3. Reaches(t, a) /\ th'[t].w = th[t].w /\ th'[t].ok = th[t].ok /\ th'[t].fail = th[t].fail
    BY <1>0, <2>2, Forms DEF Reaches
  <2> QED BY <1>0, <1>l, <2>1, <2>2, <2>3, RingRetry
<1>2. CASE PopLoad(t)
  <2>1. PICK a, x : a = <<"popCas">> /\ x = consHead
    OBVIOUS
  <2>2. At(t, "popLoad") /\ th' = [th EXCEPT ![t].at = a, ![t].old = x] /\ Still
    BY <1>2, <2>1 DEF PopLoad, Still, ring, waiters, hist
  <2>3. Reaches(t, a) /\ th'[t].w = th[t].w /\ th'[t].ok = th[t].ok /\ th'[t].fail = th[t].fail
    BY <1>0, <2>2, Forms DEF Reaches
  <2> QED BY <1>0, <1>l, <2>1, <2>2, <2>3, RingRetry
<1>3. CASE PushFull(t)
  <2>1. PICK a : a = th[t].fail
    OBVIOUS
  <2>2. At(t, "pushCas") /\ th' = [th EXCEPT ![t].at = a] /\ Still
    BY <1>3, <2>1 DEF PushFull, Goto, Still, ring, waiters, hist
  <2>3. Reaches(t, a)
    BY <1>0, <2>2, Forms DEF Reaches
  <2>4. Reaches(t, th[t].fail)
    BY <2>1, <2>3
  <2> QED BY <1>l, <2>2, <2>4, RingFails
<1>4. CASE PopEmpty(t)
  <2>1. PICK a : a = th[t].fail
    OBVIOUS
  <2>2. At(t, "popCas") /\ th' = [th EXCEPT ![t].at = a] /\ Still
    BY <1>4, <2>1 DEF PopEmpty, Goto, Still, ring, waiters, hist
  <2>3. Reaches(t, a)
    BY <1>0, <2>2, Forms DEF Reaches
  <2>4. Reaches(t, th[t].fail)
    BY <2>1, <2>3
  <2> QED BY <1>l, <2>2, <2>4, RingFails
<1>5. CASE PushCas(t)
  <2>0. At(t, "pushCas") /\ UNCHANGED <<consHead, consTail, out, rcvd, accepted, refused, calls, word, result>>
    BY <1>5 DEF PushCas, waiters, hist
  <2>1. CASE log' = Append(log, Msg(th[t].w)) /\ Goto(t, <<"pushCommit">>)
    <3>1. PICK a : a = <<"pushCommit">>
      OBVIOUS
    <3>2. th' = [th EXCEPT ![t].at = a]
      BY <2>1, <3>1 DEF Goto
    <3>3. Reaches(t, a) /\ th'[t].w = th[t].w /\ th'[t].ok = th[t].ok /\ th'[t].fail = th[t].fail
      BY <1>0, <3>2, Forms DEF Reaches
    <3> QED BY <2>0, <2>1, <3>1, <3>3, PushReserves
  <2>2. CASE Goto(t, <<"pushLoad">>) /\ UNCHANGED log
    <3>1. PICK a : a = <<"pushLoad">>
      OBVIOUS
    <3>2. th' = [th EXCEPT ![t].at = a]
      BY <2>2, <3>1 DEF Goto
    <3>3. Reaches(t, a) /\ th'[t].w = th[t].w /\ th'[t].ok = th[t].ok /\ th'[t].fail = th[t].fail
      BY <1>0, <3>2, Forms DEF Reaches
    <3>4. Still
      BY <2>0, <2>2 DEF Still
    <3> QED BY <1>0, <1>l, <2>0, <3>1, <3>3, <3>4, RingRetry
  <2> QED BY <1>5, <2>1, <2>2 DEF PushCas
<1>6. CASE PopCas(t)
  <2>0. At(t, "popCas") /\ UNCHANGED <<log, consTail, out, rcvd, accepted, refused, calls, word, result>>
    BY <1>6 DEF PopCas, waiters, hist
  <2>1. CASE consHead = th[t].old /\ consHead' = consHead + 1 /\ Goto(t, <<"popCommit">>)
    <3>1. PICK a : a = <<"popCommit">>
      OBVIOUS
    <3>2. th' = [th EXCEPT ![t].at = a]
      BY <2>1, <3>1 DEF Goto
    <3>3. /\ Reaches(t, a) /\ th'[t].w = th[t].w /\ th'[t].ok = th[t].ok /\ th'[t].fail = th[t].fail
          /\ th'[t].old = th[t].old
      BY <1>0, <3>2, Forms DEF Reaches
    <3> QED BY <1>0, <2>0, <2>1, <3>1, <3>3, PopReserves
  <2>2. CASE Goto(t, <<"popLoad">>) /\ UNCHANGED consHead
    <3>1. PICK a : a = <<"popLoad">>
      OBVIOUS
    <3>2. th' = [th EXCEPT ![t].at = a]
      BY <2>2, <3>1 DEF Goto
    <3>3. Reaches(t, a) /\ th'[t].w = th[t].w /\ th'[t].ok = th[t].ok /\ th'[t].fail = th[t].fail
      BY <1>0, <3>2, Forms DEF Reaches
    <3>4. Still
      BY <2>0, <2>2 DEF Still
    <3> QED BY <1>0, <1>l, <2>0, <3>1, <3>3, <3>4, RingRetry
  <2> QED BY <1>6, <2>1, <2>2 DEF PopCas
<1>7. CASE PushCommit(t)
  <2>1. PICK a : a = th[t].ok
    OBVIOUS
  <2>2. At(t, "pushCommit") /\ th' = [th EXCEPT ![t].at = a] /\ Still
    BY <1>7, <2>1 DEF PushCommit, Goto, Still, waiters, hist
  <2>3. Reaches(t, a) /\ th'[t].w = th[t].w
    BY <1>0, <2>2, Forms DEF Reaches
  <2>4. Reaches(t, th[t].ok)
    BY <2>1, <2>3
  <2> QED BY <1>0, <2>2, <2>3, <2>4, PushCommits
<1>8. CASE PopCommit(t)
  <2>1. PICK a : a = th[t].ok
    OBVIOUS
  <2>2. /\ At(t, "popCommit") /\ th' = [th EXCEPT ![t].at = a] /\ th[t].old = consTail /\ consTail' = consTail + 1
        /\ out' = [out EXCEPT ![th[t].w] = log[consTail + 1]]
        /\ UNCHANGED <<log, consHead, rcvd, accepted, refused, calls, word, result>>
    BY <1>8, <2>1 DEF PopCommit, Goto, hist
  <2>3. Reaches(t, a) /\ th'[t].w = th[t].w
    BY <1>0, <2>2, Forms DEF Reaches
  <2>4. Reaches(t, th[t].ok)
    BY <2>1, <2>3
  <2> QED BY <2>2, <2>3, <2>4, PopDelivers
<1> QED BY <1>1, <1>2, <1>3, <1>4, <1>5, <1>6, <1>7, <1>8 DEF RingStep

------------------------------------------------------------------------------
(* Returns.                                                                *)

\* A call returns OK if and only if its message has moved; a receiver hands
\* over what is in its buffer.
LEMMA ReturnKeeps ==
    ASSUME FrameInv, KindInv, RingTypes, StateTypes, DataInv, NEW t \in Threads, NEW res, Return(t, res),
           Doing(t) # "idle", ~Popping(t), t \in Senders \cup Receivers => (res = "OK" <=> Has(t)),
           \A x \in Senders \cup Receivers : x # t => (Has(x)' <=> Has(x)),
           ResOK(t), UNCHANGED <<log, consHead, consTail>>
    PROVE  DataInv'
<1>0. PlaceInv /\ RecvInv /\ OwnInv /\ GotInv /\ MovedInv /\ ResultInv
  BY DEF DataInv
<1>1. Steps(t) /\ Doing(t)' = "idle" /\ calls' = calls
  BY ReturnForm
<1>2. th'[t] = Idle /\ th'[t].at = <<"idle">>
  BY DEF Return, Idle, FrameInv
<1>3. ~Popping(t)' /\ ~Own(th'[t]) /\ OwnOp(th'[t], t)
  <2>1. Head(<<"idle">>) = "idle" /\ "idle" \in PlainLabels \ RingLabels /\ "idle" \notin Fulfilled \cup {"done"}
    BY CallLabels, PlainStack DEF Fulfilled
  <2> QED BY <1>2, <2>1, OwnPlain DEF Popping
<1>4. ~Has(t)'
  BY <1>1, <1>3 DEF Has, WaitLabels
<1>5. \A x \in Threads : Doing(x)' # "idle" => Doing(x) # "idle" /\ x # t
  BY <1>1, OthersStay
<1>6. OwnInv'
  BY <1>0, <1>1, <1>3, OwnStep
<1>7. ResultInv'
  BY <1>0, <1>1, ResultStep
<1>8. \A u \in Threads : (Popping(u)' <=> Popping(u)) /\ (Popping(u) => th'[u].old = th[u].old)
  BY <1>1, <1>3 DEF Steps, Popping
<1>r. /\ out \in [Receivers -> Messages \cup {NoMsg}] /\ rcvd \in [Receivers -> Seq(Messages \cup {NoMsg})]
      /\ accepted \subseteq Messages /\ refused \subseteq Messages /\ NoMsg \notin Messages
  BY ChanBufAssumption DEF StateTypes, Messages, NoMsg, Threads
<1>9. RecvInv' /\ GotInv' /\ \A m \in Messages : AtRecv(m)' <=> AtRecv(m)
  <2>1. CASE t \in Receivers /\ res = "OK"
    <3>1. PICK m : m = out[t]
      OBVIOUS
    <3>2. m \in Messages
      BY <1>0, <1>r, <2>1, <3>1 DEF GotInv
    <3>3. PICK q : q = rcvd[t] /\ q \in Seq(Messages \cup {NoMsg})
      BY <1>r, <2>1
    <3>4. rcvd' = [rcvd EXCEPT ![t] = Append(q, m)] /\ out' = [out EXCEPT ![t] = NoMsg]
      BY <2>1, <3>1, <3>3 DEF Return
    <3>5. /\ out'[t] = NoMsg /\ \A r \in Receivers : r # t => out'[r] = out[r] /\ rcvd'[r] = rcvd[r]
          /\ Len(q) \in Nat /\ Len(rcvd'[t]) = Len(q) + 1 /\ rcvd'[t][Len(q) + 1] = m
          /\ \A i \in 1..Len(q) : rcvd'[t][i] = q[i]
      BY <1>r, <2>1, <3>2, <3>3, <3>4
    <3>6. \A r \in Receivers : r # t => out[r] # m
      BY <1>0, <1>r, <2>1, <3>1, <3>2 DEF RecvInv
    <3>7. \A r \in Receivers : \A i \in 1..Len(rcvd[r]) : rcvd[r][i] # m
      BY <1>0, <2>1, <3>1 DEF RecvInv
    <3>8. \A y \in Messages : AtRecv(y)' <=> AtRecv(y)
      <4>1. ASSUME NEW y \in Messages, AtRecv(y) PROVE AtRecv(y)'
        <5>1. CASE \E r \in Receivers : out[r] = y
          <6>1. PICK r \in Receivers : out[r] = y
            BY <5>1
          <6>2. CASE r = t
            <7>1. rcvd'[t][Len(q) + 1] = y /\ Len(q) + 1 \in 1..Len(rcvd'[t])
              BY <3>1, <3>5, <6>1, <6>2
            <7> QED BY <2>1, <7>1 DEF AtRecv
          <6>3. CASE r # t
            BY <3>5, <6>1, <6>3 DEF AtRecv
          <6> QED BY <6>2, <6>3
        <5>2. CASE \E r \in Receivers : \E i \in 1..Len(rcvd[r]) : rcvd[r][i] = y
          <6>1. PICK r \in Receivers : \E i \in 1..Len(rcvd[r]) : rcvd[r][i] = y
            BY <5>2
          <6>2. PICK i \in 1..Len(rcvd[r]) : rcvd[r][i] = y
            BY <6>1
          <6>3. i \in 1..Len(rcvd'[r]) /\ rcvd'[r][i] = y
            BY <3>3, <3>5, <6>2
          <6> QED BY <6>3 DEF AtRecv
        <5> QED BY <4>1, <5>1, <5>2 DEF AtRecv
      <4>2. ASSUME NEW y \in Messages, AtRecv(y)' PROVE AtRecv(y)
        <5>1. CASE \E r \in Receivers : out'[r] = y
          <6>1. PICK r \in Receivers : out'[r] = y
            BY <5>1
          <6>2. r # t
            BY <1>r, <3>5, <6>1
          <6> QED BY <3>5, <6>1, <6>2 DEF AtRecv
        <5>2. CASE \E r \in Receivers : \E i \in 1..Len(rcvd'[r]) : rcvd'[r][i] = y
          <6>1. PICK r \in Receivers : \E i \in 1..Len(rcvd'[r]) : rcvd'[r][i] = y
            BY <5>2
          <6>2. PICK i \in 1..Len(rcvd'[r]) : rcvd'[r][i] = y
            BY <6>1
          <6>3. CASE r = t /\ i = Len(q) + 1
            <7>1. out[t] = y
              BY <3>1, <3>5, <6>2, <6>3
            <7> QED BY <2>1, <7>1 DEF AtRecv
          <6>4. CASE ~(r = t /\ i = Len(q) + 1)
            <7>1. i \in 1..Len(rcvd[r]) /\ rcvd[r][i] = y
              BY <3>3, <3>5, <6>2, <6>4
            <7> QED BY <7>1 DEF AtRecv
          <6> QED BY <6>3, <6>4
        <5> QED BY <4>2, <5>1, <5>2 DEF AtRecv
      <4> QED BY <4>1, <4>2
    <3>9. \A p, r \in Receivers : out'[p] = out'[r] /\ out'[p] # NoMsg => p = r
      BY <1>0, <3>5 DEF RecvInv
    <3>10. ASSUME NEW r \in Receivers, NEW i \in 1..Len(rcvd'[r])
           PROVE  \/ r = t /\ i = Len(q) + 1 /\ rcvd'[r][i] = m
                  \/ i \in 1..Len(rcvd[r]) /\ rcvd'[r][i] = rcvd[r][i]
      <4>1. CASE r = t
        BY <3>3, <3>5, <3>10, <4>1
      <4>2. CASE r # t
        BY <3>5, <3>10, <4>2
      <4> QED BY <4>1, <4>2
    <3>11. ASSUME NEW p \in Receivers, NEW r \in Receivers, NEW i \in 1..Len(rcvd'[r])
           PROVE  rcvd'[r][i] # NoMsg /\ out'[p] # rcvd'[r][i]
      <4>1. CASE r = t /\ i = Len(q) + 1 /\ rcvd'[r][i] = m
        BY <1>r, <3>2, <3>5, <3>6, <4>1
      <4>2. CASE i \in 1..Len(rcvd[r]) /\ rcvd'[r][i] = rcvd[r][i]
        <5>1. rcvd[r][i] # NoMsg /\ out[p] # rcvd[r][i]
          BY <1>0, <4>2 DEF RecvInv
        <5> QED BY <3>5, <4>2, <5>1
      <4> QED BY <3>10, <4>1, <4>2
    <3>12. ASSUME NEW p \in Receivers, NEW r \in Receivers, NEW i \in 1..Len(rcvd'[p]), NEW j \in 1..Len(rcvd'[r]),
                  rcvd'[p][i] = rcvd'[r][j]
           PROVE  p = r /\ i = j
      <4>1. \/ p = t /\ i = Len(q) + 1 /\ rcvd'[p][i] = m
            \/ i \in 1..Len(rcvd[p]) /\ rcvd'[p][i] = rcvd[p][i]
        BY <3>10
      <4>2. \/ r = t /\ j = Len(q) + 1 /\ rcvd'[r][j] = m
            \/ j \in 1..Len(rcvd[r]) /\ rcvd'[r][j] = rcvd[r][j]
        BY <3>10
      <4> QED BY <1>0, <3>7, <3>12, <4>1, <4>2 DEF RecvInv
    <3>13. \A r \in Receivers : Len(rcvd'[r]) <= calls'[r] /\ (Doing(r)' # "idle" => Len(rcvd'[r]) < calls'[r])
      <4>1. Len(q) < calls[t] /\ calls[t] \in Nat
        BY <1>0, <2>1, <3>3, ChanBufAssumption DEF RecvInv, KindInv, Threads
      <4>2. Len(rcvd'[t]) <= calls'[t]
        BY <1>1, <3>5, <4>1
      <4> QED BY <1>0, <1>1, <1>5, <3>5, <4>2 DEF RecvInv, Threads
    <3>14. RecvInv'
      BY <3>9, <3>11, <3>12, <3>13 DEF RecvInv
    <3>15. GotInv'
      BY <1>0, <1>4, <3>5 DEF GotInv
    <3> QED BY <3>8, <3>14, <3>15
  <2>2. CASE ~(t \in Receivers /\ res = "OK")
    <3>1. UNCHANGED <<out, rcvd>>
      BY <2>2 DEF Return
    <3>2. \A m : AtRecv(m)' <=> AtRecv(m)
      BY <3>1 DEF AtRecv
    <3>3. RecvInv'
      BY <1>0, <1>1, <1>5, <3>1 DEF RecvInv, Threads
    <3>4. GotInv'
      BY <1>0, <1>4, <2>2, <3>1 DEF GotInv
    <3> QED BY <3>2, <3>3, <3>4
  <2> QED BY <2>1, <2>2
<1>10. \A m \in Messages : Given(m)' <=> Given(m)
  BY <1>9 DEF Given
<1>11. PlaceInv'
  <2>1. \A i \in 1..Len(log) : log[i] \in Messages
    BY DEF RingTypes
  <2>2. (\A i \in 1..Len(log) : AtRecv(log[i]) <=> i <= consTail)'
    <3>1. ASSUME NEW i \in 1..Len(log) PROVE AtRecv(log[i])' <=> i <= consTail
      <4>1. PICK x : x = log[i]
        OBVIOUS
      <4>2. AtRecv(x)' <=> AtRecv(x)
        BY <1>9, <2>1, <4>1
      <4>3. AtRecv(log[i])' <=> AtRecv(x)'
        BY <4>1
      <4> QED BY <1>0, <4>1, <4>2, <4>3 DEF PlaceInv
    <3> QED BY <3>1
  <2> QED BY <1>0, <1>8, <2>2 DEF PlaceInv
<1>12. MovedInv'
  <2>1. \A s \in Senders : s \in Threads /\ (Doing(s) # "idle" => calls[s] \in 1..MaxCalls /\ <<s, calls[s]>> \in Messages)
    BY ChanBufAssumption DEF KindInv, Threads, Messages
  <2>2. /\ accepted' \subseteq accepted \cup {Msg(t)} /\ refused' \subseteq refused \cup {Msg(t)}
        /\ t \notin Senders => accepted' = accepted /\ refused' = refused
        /\ t \in Senders /\ res = "OK" => refused' = refused
        /\ t \in Senders /\ res # "OK" => accepted' = accepted
    BY DEF Return
  <2>3. PICK y : y = Msg(t) /\ y = <<t, calls[t]>>
    BY DEF Msg
  <2>4. ASSUME NEW s \in Senders, Doing(s)' # "idle"
        PROVE  (Given(Msg(s))' <=> Has(s)') /\ Msg(s)' \notin (accepted \cup refused)'
    <3>0. PICK z : z = <<s, calls[s]>>
      OBVIOUS
    <3>1. Doing(s) # "idle" /\ s # t
      BY <1>5, <2>1, <2>4
    <3>2. z = Msg(s) /\ z = Msg(s)' /\ z \in Messages /\ z # y
      BY <1>1, <2>1, <2>3, <3>0, <3>1 DEF Msg
    <3>3. (Given(z) <=> Has(s)) /\ z \notin accepted \cup refused
      BY <1>0, <3>1, <3>2 DEF MovedInv
    <3>4. Given(Msg(s))' <=> Given(z)'
      BY <3>2
    <3>5. z \notin accepted' \cup refused'
      BY <2>2, <2>3, <3>2, <3>3
    <3> QED BY <1>10, <3>1, <3>2, <3>3, <3>4, <3>5
  <2>5. \A s \in Senders : \A n \in 1..MaxCalls :
           Given(<<s, n>>)' \/ <<s, n>> \in (accepted \cup refused)' => n <= calls'[s]
    <3>1. ASSUME NEW s \in Senders, NEW n \in 1..MaxCalls, Given(<<s, n>>)' \/ <<s, n>> \in (accepted \cup refused)'
          PROVE  n <= calls[s]
      <4>0. PICK z : z = <<s, n>>
        OBVIOUS
      <4>1. z \in Messages /\ (Given(z)' <=> Given(z))
        BY <1>10, <4>0 DEF Messages
      <4>2. Given(<<s, n>>)' <=> Given(z)'
        BY <4>0
      <4>3. CASE Given(z) \/ z \in accepted \cup refused
        BY <1>0, <4>0, <4>3 DEF MovedInv
      <4>4. CASE z = y
        BY <2>1, <2>3, <4>0, <4>4
      <4> QED BY <2>2, <2>3, <3>1, <4>0, <4>1, <4>2, <4>3, <4>4
    <3> QED BY <1>1, <3>1
  <2>6. t \in Senders => y \in Messages /\ (Given(y) <=> res = "OK")
    BY <1>0, <2>1, <2>3 DEF MovedInv
  <2>7. \A m \in accepted' : Given(m)'
    <3>1. ASSUME NEW m \in accepted' PROVE Given(m)'
      <4>1. m \in Messages /\ Given(m)
        BY <1>0, <1>r, <2>2, <2>3, <2>6, <3>1 DEF MovedInv
      <4> QED BY <1>10, <4>1
    <3> QED BY <3>1
  <2>8. \A m \in refused' : ~Given(m)'
    <3>1. ASSUME NEW m \in refused' PROVE ~Given(m)'
      <4>1. m \in Messages /\ ~Given(m)
        BY <1>0, <1>r, <2>2, <2>3, <2>6, <3>1 DEF MovedInv
      <4> QED BY <1>10, <4>1
    <3> QED BY <3>1
  <2> QED BY <2>4, <2>5, <2>7, <2>8 DEF MovedInv
<1> QED BY <1>6, <1>7, <1>9, <1>11, <1>12 DEF DataInv

\* An idle thread serves nobody.
LEMMA IdleSelf ==
    ASSUME FrameInv, NEW t \in Threads, NEW res, Return(t, res)
    PROVE  \A x : ~Serves(th'[t], x)
<1>1. th'[t] = Idle /\ th'[t].at = <<"idle">>
  BY DEF Return, Idle, FrameInv
<1>2. "idle" \in PlainLabels \ RingLabels /\ "idle" \notin Serving
  BY CallLabels DEF Serving
<1> QED BY <1>1, <1>2, OwnPlain

\* From a position that says by itself how the call ends.
LEMMA ReturnPlain ==
    ASSUME FrameInv, KindInv, RingTypes, StateTypes, DataInv, NEW t \in Threads,
           NEW l \in PlainLabels \ (RingLabels \cup WaitLabels \cup Serving \cup {"idle"}), At(t, l),
           NEW res, Return(t, res),
           t \in Senders \cup Receivers => (res = "OK" <=> l \in Fulfilled \cup {"done"}),
           UNCHANGED <<log, consHead, consTail, word, result>>
    PROVE  DataInv'
<1>1. /\ Doing(t) = l /\ ~Popping(t) /\ (Own(th[t]) <=> l \in Fulfilled \cup {"done"})
      /\ \A x : ~Serves(th[t], x)
  BY FromPlain
<1>2. Steps(t) /\ Doing(t)' = "idle"
  BY ReturnForm
<1>3. Has(t) <=> l \in Fulfilled \cup {"done"}
  BY <1>1 DEF Has
<1>4. \A x : ~Serves(th'[t], x)
  BY IdleSelf
<1>5. \A x \in Senders \cup Receivers : x # t => (Has(x)' <=> Has(x))
  BY <1>1, <1>2, <1>4, HasOthers DEF Threads
<1>6. ResOK(t)
  BY <1>2 DEF ResOK, Registered
<1> QED BY <1>1, <1>3, <1>5, <1>6, ReturnKeeps

\* After a wait: the waiter's result tells.
LEMMA ReturnWaited ==
    ASSUME Inv, TimedFree, RingTypes, StateTypes, DataInv, NEW t \in Threads,
           (At(t, "parked") /\ word[t] = 1) \/ At(t, "timeoutDec"), Return(t, result[t]),
           UNCHANGED <<log, consHead, consTail, word, result>>
    PROVE  DataInv'
<1>0. FrameInv /\ KindInv
  BY DEF Inv
<1>1. PICK l \in {"parked", "timeoutDec"} : At(t, l) /\ (l = "parked" => word[t] = 1)
  OBVIOUS
<1>2. /\ Doing(t) = l /\ ~Popping(t) /\ \A x : ~Serves(th[t], x)
  <2>1. l \in PlainLabels \ RingLabels /\ l \notin Serving
    BY CallLabels DEF Serving
  <2> QED BY <1>0, <1>1, <2>1, FromPlain
<1>3. Steps(t) /\ Doing(t)' = "idle"
  BY <1>0, ReturnForm
<1>4. ~Served(t)
  <2>1. ~Asleep(t)
    BY <1>1, <1>2 DEF Asleep
  <2> QED BY <2>1, NotServed
<1>5. Has(t) <=> result[t] = "OK"
  <2>1. Doing(t) \in WaitLabels
    BY <1>2 DEF WaitLabels
  <2>2. Told(t) <=> result[t] = "OK"
    BY <1>1, <1>2 DEF Told
  <2> QED BY <1>0, <1>4, <2>1, <2>2, HasSelf
<1>6. \A x : ~Serves(th'[t], x)
  BY <1>0, IdleSelf
<1>7. \A x \in Senders \cup Receivers : x # t => (Has(x)' <=> Has(x))
  BY <1>2, <1>3, <1>6, HasOthers DEF Threads
<1>8. ResOK(t)
  BY <1>3 DEF ResOK, Registered
<1>9. Doing(t) # "idle"
  BY <1>2
<1>10. PICK res : res = result[t]
  OBVIOUS
<1> QED BY <1>0, <1>2, <1>5, <1>7, <1>8, <1>9, <1>10, ReturnKeeps

\* A receiver that serves a sender wakes it last.
LEMMA WakeData ==
    ASSUME Inv, TimedFree, RingTypes, StateTypes, DataInv, NEW r \in Receivers, RecvWake(r)
    PROVE  DataInv'
<1>0. FrameInv /\ KindInv /\ r \in Threads
  BY DEF Inv, Threads
<1>1. /\ At(r, "rWake") /\ word' \in WakeOutcomes(r) /\ Return(r, "OK")
      /\ UNCHANGED <<log, consHead, consTail, result>>
  BY DEF RecvWake, ring
<1>2. PICK w : w = th[r].w
  OBVIOUS
<1>3. /\ Doing(r) = "rWake" /\ ~Popping(r) /\ Own(th[r]) /\ Serves(th[r], w) /\ \A x : x # w => ~Serves(th[r], x)
  <2>1. "rWake" \in PlainLabels \ RingLabels /\ "rWake" \in Serving /\ "rWake" \in Fulfilled
    BY CallLabels DEF Serving, Fulfilled
  <2> QED BY <1>0, <1>1, <1>2, <2>1, FromPlain
<1>4. w \in Threads /\ Asleep(w) /\ Has(w) /\ Hand(r, w) /\ Doing(w) \in WaitLabels
  BY <1>0, <1>3, HandServed
<1>5. ~Queued(w) /\ \A v \in Threads : Hand(v, w) => v = r
  BY <1>0, <1>4, HandAlone
<1>6. calls[w] = th[r].old
  <2>1. Queued(w) \/ InHand(w) \/ ToWake(w)
    BY <1>4 DEF Inv, SleepInv, Asleep
  <2>2. ~InHand(w)
    <3>1. ASSUME NEW u \in Threads, Doing(u) \in HasSender \cup HasReceiver, th[u].w = w PROVE FALSE
      <4>1. u = r
        BY <1>5, <3>1 DEF Hand
      <4> QED BY <1>3, <3>1, <4>1 DEF HasSender, HasReceiver
    <3> QED BY <3>1 DEF InHand
  <2>3. PICK u \in Threads : Doing(u) = "rWake" /\ th[u].w = w /\ th[u].old = calls[w]
    BY <1>5, <2>1, <2>2 DEF ToWake
  <2>4. u = r
    BY <1>5, <2>3 DEF Hand
  <2> QED BY <2>3, <2>4
<1>7. word' = [word EXCEPT ![w] = 1]
  BY <1>1, <1>2, <1>6 DEF WakeOutcomes
<1>8. word \in [Threads -> {0, 1}] /\ word'[w] = 1 /\ \A x \in Threads : x # w => word'[x] = word[x]
  BY <1>0, <1>4, <1>7 DEF KindInv
<1>9. Steps(r) /\ Doing(r)' = "idle"
  BY <1>0, <1>1, ReturnForm
<1>10. \A x : ~Serves(th'[r], x)
  BY <1>0, <1>1, IdleSelf
<1>11. w # r
  BY <1>3, <1>4 DEF Asleep
<1>12. Has(w)'
  <2>1. Doing(w)' = Doing(w)
    BY <1>0, <1>4, <1>9, <1>11, OthersStay
  <2>2. result[w] = "OK"
    BY <1>4 DEF DataInv, ResultInv, Asleep, Registered
  <2>3. Told(w)'
    BY <1>1, <1>8, <2>2 DEF Told
  <2> QED BY <1>4, <2>1, <2>3 DEF Has
<1>13. ASSUME NEW x \in Senders \cup Receivers, x # r PROVE Has(x)' <=> Has(x)
  <2>0. x \in Threads
    BY DEF Threads
  <2>1. CASE x = w
    BY <1>4, <1>12, <2>1
  <2>2. CASE x # w
    BY <1>0, <1>1, <1>3, <1>8, <1>9, <1>10, <1>13, <2>0, <2>2, HasOthers
  <2> QED BY <2>1, <2>2
<1>14. ResOK(r)
  BY <1>1, <1>8, <1>9 DEF ResOK, Registered
<1>15. Has(r)
  BY <1>3 DEF Has
<1>16. Doing(r) # "idle"
  BY <1>3
<1> QED BY <1>0, <1>1, <1>3, <1>13, <1>14, <1>15, <1>16, ReturnKeeps

\* A call begins: its message is new.
LEMMA EnterData ==
    ASSUME FrameInv, KindInv, StateTypes, DataInv, NEW t \in Threads, NEW m,
           NEW l \in {"bSend", "sClosed", "bRecv", "rSendCnt", "cLock"}, Enter(t, m, <<l>>)
    PROVE  DataInv'
<1>0. PlaceInv /\ RecvInv /\ OwnInv /\ GotInv /\ MovedInv /\ ResultInv
  BY DEF DataInv
<1>1. PICK a : a = <<l>> /\ th' = [th EXCEPT ![t].at = a, ![t].mode = m]
  BY DEF Enter
<1>2. /\ At(t, "idle") /\ calls[t] < MaxCalls /\ calls' = [calls EXCEPT ![t] = @ + 1]
      /\ UNCHANGED <<log, consHead, consTail, out, rcvd, accepted, refused, word, result>>
  BY DEF Enter, ring, waiters
<1>3. DOMAIN th = Threads /\ Fields \subseteq DOMAIN th[t]
  BY DEF FrameInv, Fields
<1>4. /\ DOMAIN th' = Threads /\ \A u \in Threads : u # t => th'[u] = th[u]
      /\ Fields \subseteq DOMAIN th'[t] /\ th'[t].at = <<l>>
  BY <1>1, <1>3 DEF Fields
<1>5. {"idle", l} \subseteq PlainLabels \ RingLabels /\ {"idle", l} \cap (Serving \cup WaitLabels \cup Registered) = {}
      /\ {"idle", l} \cap (Fulfilled \cup {"done"}) = {}
  BY CallLabels DEF Serving, WaitLabels, Registered, Fulfilled
<1>6. Steps(t) /\ Doing(t)' = l
  BY <1>4, <1>5, ToPlain
<1>7. /\ Doing(t) = "idle" /\ ~Popping(t) /\ ~Own(th[t]) /\ \A x : ~Serves(th[t], x)
  BY <1>2, <1>5, FromPlain
<1>8. ~Own(th'[t]) /\ OwnOp(th'[t], t) /\ \A x : ~Serves(th'[t], x)
  BY <1>4, <1>5, OwnPlain
<1>9. ~Popping(t)'
  <2>1. Head(<<l>>) = l /\ l # "popCommit"
    OBVIOUS
  <2> QED BY <1>4, <2>1 DEF Popping
<1>10. ~Has(t) /\ ~Has(t)'
  BY <1>5, <1>6, <1>7, <1>8 DEF Has
<1>11. \A x \in Threads : Has(x)' <=> Has(x)
  BY <1>2, <1>6, <1>7, <1>8, <1>10, HasOthers
<1>12. /\ calls \in [Threads -> 0..MaxCalls] /\ calls'[t] = calls[t] + 1 /\ calls[t] \in Nat
       /\ \A x \in Threads : x # t => calls'[x] = calls[x] /\ Doing(x)' = Doing(x)
  BY <1>2, <1>6, OthersStay, ChanBufAssumption DEF KindInv
<1>13. PlaceInv'
  BY <1>0, <1>2, <1>6, <1>7, <1>9, PlaceStill
<1>14. RecvInv'
  <2>1. \A r \in Receivers : r \in Threads
    BY DEF Threads
  <2>2. ASSUME NEW r \in Receivers PROVE Len(rcvd[r]) <= calls'[r] /\ (Doing(r)' # "idle" => Len(rcvd[r]) < calls'[r])
    <3>1. CASE r = t
      <4>1. Len(rcvd[r]) <= calls[r] /\ Len(rcvd[r]) \in Nat
        BY <1>0 DEF RecvInv, StateTypes
      <4> QED BY <1>12, <3>1, <4>1
    <3>2. CASE r # t
      BY <1>0, <1>12, <2>1, <3>2 DEF RecvInv
    <3> QED BY <3>1, <3>2
  <2> QED BY <1>0, <1>2, <2>2 DEF RecvInv
<1>15. OwnInv'
  BY <1>0, <1>6, <1>8, OwnStep
<1>16. GotInv'
  BY <1>0, <1>2, <1>11 DEF GotInv, Threads
<1>17. MovedInv'
  <2>1. \A y : Given(y)' <=> Given(y)
    BY <1>2 DEF Given, AtRecv
  <2>2. ASSUME NEW s \in Senders, Doing(s)' # "idle"
        PROVE  (Given(Msg(s))' <=> Has(s)') /\ Msg(s)' \notin (accepted \cup refused)'
    <3>0. s \in Threads
      BY DEF Threads
    <3>1. PICK z : z = <<s, calls'[s]>>
      OBVIOUS
    <3>2. z = Msg(s)'
      BY <3>1 DEF Msg
    <3>3. Given(Msg(s))' <=> Given(z)
      <4>1. Given(Msg(s))' <=> Given(z)'
        BY <3>2
      <4> QED BY <2>1, <4>1
    <3>4. CASE s = t
      <4>1. ~Given(z) /\ z \notin accepted \cup refused
        <5>1. calls[t] + 1 \in 1..MaxCalls
          BY <1>2, <1>12, ChanBufAssumption
        <5>2. ~(calls[t] + 1 <= calls[t])
          BY <1>12
        <5> QED BY <1>0, <1>12, <3>1, <3>4, <5>1, <5>2 DEF MovedInv
      <4> QED BY <1>2, <1>10, <3>2, <3>3, <3>4, <4>1
    <3>5. CASE s # t
      <4>1. z = Msg(s) /\ Doing(s) # "idle"
        BY <1>12, <2>2, <3>0, <3>1, <3>5 DEF Msg
      <4> QED BY <1>0, <1>2, <1>11, <3>0, <3>2, <3>3, <4>1 DEF MovedInv
    <3> QED BY <3>4, <3>5
  <2>3. ASSUME NEW s \in Senders PROVE calls[s] <= calls'[s] /\ calls[s] \in Nat /\ calls'[s] \in Nat
    BY <1>12, ChanBufAssumption DEF Threads
  <2>4. \A s \in Senders : \A n \in 1..MaxCalls :
           Given(<<s, n>>)' \/ <<s, n>> \in (accepted \cup refused)' => n <= calls'[s]
    <3>1. ASSUME NEW s \in Senders, NEW n \in 1..MaxCalls, Given(<<s, n>>)' \/ <<s, n>> \in (accepted \cup refused)'
          PROVE  n <= calls'[s]
      <4>1. n <= calls[s]
        BY <1>0, <1>2, <2>1, <3>1 DEF MovedInv
      <4> QED BY <2>3, <4>1
    <3> QED BY <3>1
  <2> QED BY <1>0, <1>2, <2>1, <2>2, <2>4 DEF MovedInv
<1>18. ResultInv'
  <2>1. ResOK(t)
    BY <1>2, <1>5, <1>6 DEF ResOK
  <2> QED BY <1>0, <1>6, <2>1, ResultStep
<1> QED BY <1>13, <1>14, <1>15, <1>16, <1>17, <1>18 DEF DataInv

------------------------------------------------------------------------------
(* Waiters are told.                                                       *)

\* The result of the waiter in hand is set and it is woken.
LEMMA TellKeeps ==
    ASSUME Inv, TimedFree, DataInv, NEW t \in Threads, NEW w, w = th[t].w,
           Doing(t) \in HasSender \cup HasReceiver, Steps(t), ~Popping(t), ~Popping(t)', OwnOp(th'[t], t),
           Doing(t)' \notin WaitLabels \cup Registered, Own(th'[t]) <=> Own(th[t]),
           \A x : ~Serves(th'[t], x), NEW res, res = "OK" <=> Serves(th[t], w),
           word' = [word EXCEPT ![w] = 1], result' = [result EXCEPT ![w] = res],
           StateTypes, UNCHANGED <<log, consHead, consTail, out, rcvd, accepted, refused, calls>>
    PROVE  DataInv'
<1>0. FrameInv /\ KindInv
  BY DEF Inv
<1>1. Hand(t, w)
  BY DEF Hand
<1>2. w \in Threads /\ Asleep(w) /\ \A v \in Threads : Hand(v, w) => v = t
  BY <1>1, HandAlone
<1>3. /\ word'[w] = 1 /\ result'[w] = res
      /\ \A x \in Threads : x # w => word'[x] = word[x] /\ result'[x] = result[x]
  BY <1>0, <1>2 DEF KindInv, StateTypes
<1>l. Doing(t) \notin WaitLabels \cup {"idle"}
  BY DEF HasSender, HasReceiver, WaitLabels
<1>4. w # t
  BY <1>2, <1>l DEF Asleep, WaitLabels
<1>5. Doing(w)' = Doing(w) /\ Doing(w) \in {"parked", "timedOut"} /\ th'[w] = th[w]
  BY <1>2, <1>4, OthersStay DEF Asleep, Steps
<1>6. Has(w)' <=> Has(w)
  <2>1. CASE Serves(th[t], w)
    <3>1. Has(w)
      BY <2>1, HandServed
    <3>2. Told(w)'
      BY <1>3, <2>1 DEF Told
    <3> QED BY <1>5, <3>1, <3>2 DEF Has, WaitLabels
  <2>2. CASE ~Serves(th[t], w)
    <3>1. ~Served(w) /\ ~Has(w)
      BY <1>1, <2>2, HandFresh
    <3>2. ~Told(w)'
      BY <1>3, <2>2 DEF Told
    <3>3. ~Served(w)'
      BY <3>1 DEF Served, Steps
    <3> QED BY <1>5, <3>1, <3>2, <3>3 DEF Has
  <2> QED BY <2>1, <2>2
<1>7. ASSUME NEW x \in Threads PROVE Has(x)' <=> Has(x)
  <2>1. CASE x = w
    BY <1>6, <2>1
  <2>2. CASE x = t
    BY <1>l, <2>2 DEF Has
  <2>3. CASE x # w /\ x # t
    <3>1. ~Serves(th[t], x)
      BY <2>3 DEF Serves
    <3> QED BY <1>3, <2>3, <3>1, HasOthers
  <2> QED BY <2>1, <2>2, <2>3
<1>8. ResOK(t)
  BY <1>3 DEF ResOK
<1>9. Calm(t)
  <2>1. Senders \cup Receivers \subseteq Threads
    BY DEF Threads
  <2> QED BY <1>7, <1>8, <1>l, <2>1 DEF Calm
<1> QED BY <1>9, CalmKeeps

\* The result is set before the unlock, the wake follows.
LEMMA HelpedData ==
    ASSUME Inv, TimedFree, StateTypes, DataInv, NEW r \in Receivers, RecvHelped(r)
    PROVE  DataInv'
<1>0. FrameInv /\ KindInv /\ r \in Threads
  BY DEF Inv, Threads
<1>1. PICK a, w, x : a = <<"rWake">> /\ w = th[r].w /\ x = calls[th[r].w]
  OBVIOUS
<1>2. /\ At(r, "rHelped") /\ th' = [th EXCEPT ![r].at = a, ![r].old = x] /\ result' = [result EXCEPT ![w] = "OK"]
      /\ UNCHANGED <<log, consHead, consTail, out, rcvd, accepted, refused, calls, word>>
  BY <1>1 DEF RecvHelped, ring, hist
<1>3. /\ DOMAIN th' = Threads /\ \A u \in Threads : u # r => th'[u] = th[u]
      /\ Fields \subseteq DOMAIN th'[r] /\ th'[r].at = <<"rWake">> /\ th'[r].w = w
  <2>1. /\ DOMAIN th' = Threads /\ \A u \in Threads : u # r => th'[u] = th[u]
        /\ Fields \subseteq DOMAIN th'[r] /\ th'[r].at = a /\ th'[r].w = th[r].w
    <3>1. th' = [th EXCEPT ![r].at = a, ![r].old = x]
      BY <1>2
    <3> QED BY <1>0, <3>1, Forms
  <2> QED BY <1>1, <2>1
<1>l. /\ {"rHelped", "rWake"} \subseteq (PlainLabels \ RingLabels) \cap Serving \cap Fulfilled
      /\ {"rHelped", "rWake"} \cap (WaitLabels \cup Registered) = {}
  BY CallLabels DEF Serving, Fulfilled, WaitLabels, Registered
<1>4. /\ Doing(r) = "rHelped" /\ ~Popping(r) /\ Own(th[r]) /\ \A y : Serves(th[r], y) <=> w = y
  BY <1>0, <1>1, <1>2, <1>l, FromPlain
<1>5. Steps(r) /\ Doing(r)' = "rWake"
  BY <1>0, <1>3, <1>l, ToPlain
<1>6. Own(th'[r]) /\ OwnOp(th'[r], r) /\ \A y : Serves(th'[r], y) <=> w = y
  BY <1>3, <1>l, OwnPlain
<1>7. ~Popping(r)'
  BY <1>3, PlainStack, CallLabels DEF Popping
<1>8. w \in Threads /\ Asleep(w) /\ Has(w) /\ Doing(w) \in WaitLabels
  BY <1>0, <1>4, HandServed
<1>9. result'[w] = "OK" /\ \A y \in Threads : y # w => result'[y] = result[y]
  BY <1>2, <1>8 DEF StateTypes
<1>10. w # r
  BY <1>4, <1>8, <1>l
<1>11. Has(w)'
  <2>1. Doing(w)' = Doing(w)
    BY <1>0, <1>5, <1>8, <1>10, OthersStay
  <2>2. Served(w)'
    BY <1>0, <1>6 DEF Served
  <2> QED BY <1>8, <2>1, <2>2 DEF Has
<1>12. ASSUME NEW y \in Threads PROVE Has(y)' <=> Has(y)
  <2>1. CASE y = w
    BY <1>8, <1>11, <2>1
  <2>2. CASE y = r
    BY <1>4, <1>6, <2>2 DEF Has
  <2>3. CASE y # w /\ y # r
    BY <1>0, <1>2, <1>4, <1>5, <1>6, <1>9, <2>3, HasOthers
  <2> QED BY <2>1, <2>2, <2>3
<1>13. ResOK(r)
  BY <1>2, <1>5, <1>8, <1>9, <1>l DEF ResOK
<1>14. Calm(r)
  <2>1. Senders \cup Receivers \subseteq Threads
    BY DEF Threads
  <2> QED BY <1>2, <1>4, <1>5, <1>6, <1>7, <1>12, <1>13, <2>1 DEF Calm
<1> QED BY <1>0, <1>14, CalmKeeps

\* A waiter goes to sleep, or gives up sleeping.
LEMMA WaitKeeps ==
    ASSUME Inv, TimedFree, DataInv, NEW t \in Threads, NEW l, NEW m, {l, m} \subseteq {"unlockPark", "parked", "timedOut"},
           At(t, l), Goto(t, <<m>>), Still
    PROVE  DataInv'
<1>0. FrameInv
  BY DEF Inv
<1>l. /\ {l, m} \subseteq PlainLabels \ RingLabels /\ {l, m} \cap (Serving \cup Fulfilled \cup {"done", "idle", "timeoutDec"}) = {}
      /\ {l, m} \subseteq WaitLabels \cap Registered
  BY CallLabels DEF Serving, Fulfilled, WaitLabels, Registered
<1>1. UNCHANGED <<log, consHead, consTail, out, rcvd, accepted, refused, calls, word, result>>
  BY DEF Still
<1>2. Doing(t) = l /\ ~Popping(t) /\ ~Own(th[t]) /\ \A x : ~Serves(th[t], x)
  BY <1>0, <1>l, FromPlain
<1>3. /\ DOMAIN th' = Threads /\ \A u \in Threads : u # t => th'[u] = th[u]
      /\ Fields \subseteq DOMAIN th'[t] /\ th'[t].at = <<m>>
  <2>1. PICK a : a = <<m>> /\ th' = [th EXCEPT ![t].at = a]
    BY DEF Goto
  <2> QED BY <1>0, <2>1, Forms
<1>4. Steps(t) /\ Doing(t)' = m
  BY <1>0, <1>3, <1>l, ToPlain
<1>5. ~Own(th'[t]) /\ OwnOp(th'[t], t) /\ \A x : ~Serves(th'[t], x)
  BY <1>3, <1>l, OwnPlain
<1>6. ~Popping(t)'
  BY <1>3, <1>l, PlainStack DEF Popping, RingLabels, PopLabels
<1>7. Has(t)' <=> Has(t)
  <2>1. Told(t)' <=> Told(t)
    BY <1>1, <1>2, <1>4, <1>l DEF Told
  <2>2. Served(t)' <=> Served(t)
    BY <1>2, <1>4, <1>5 DEF Served, Steps
  <2> QED BY <1>2, <1>4, <1>5, <1>l, <2>1, <2>2 DEF Has
<1>8. \A x \in Threads : Has(x)' <=> Has(x)
  BY <1>1, <1>2, <1>4, <1>5, <1>7, HasOthers
<1>9. ResOK(t)
  BY <1>1, <1>2, <1>4, <1>l DEF ResOK
<1>10. Calm(t)
  <2>1. Senders \cup Receivers \subseteq Threads
    BY DEF Threads
  <2> QED BY <1>1, <1>2, <1>4, <1>5, <1>6, <1>8, <1>9, <1>l, <2>1 DEF Calm
<1> QED BY <1>10, CalmKeeps

\* A waiter that timed out finds out, under the lock, whether it was served.
LEMMA TimeoutData ==
    ASSUME Inv, TimedFree, StateTypes, DataInv, NEW t \in Senders \cup Receivers, TimeoutLock(t)
    PROVE  DataInv'
<1>0. FrameInv /\ KindInv /\ t \in Threads
  BY DEF Inv, Threads
<1>1. PICK res : res = IF t \in Elems(sendq) \cup Elems(recvq) THEN "TIMEOUT" ELSE result[t]
  OBVIOUS
<1>2. /\ At(t, "timedOut") /\ lock = None /\ result' = [result EXCEPT ![t] = res] /\ Goto(t, <<"timeoutDec">>)
      /\ UNCHANGED <<log, consHead, consTail, out, rcvd, accepted, refused, calls, word>>
  BY <1>1 DEF TimeoutLock, ring, hist
<1>l. /\ {"timedOut", "timeoutDec"} \subseteq PlainLabels \ RingLabels
      /\ {"timedOut", "timeoutDec"} \cap (Serving \cup Fulfilled \cup {"done", "idle"}) = {}
      /\ {"timedOut", "timeoutDec"} \subseteq WaitLabels
  BY CallLabels DEF Serving, Fulfilled, WaitLabels
<1>3. Doing(t) = "timedOut" /\ ~Popping(t) /\ ~Own(th[t]) /\ \A x : ~Serves(th[t], x)
  BY <1>0, <1>2, <1>l, FromPlain
<1>4. /\ DOMAIN th' = Threads /\ \A u \in Threads : u # t => th'[u] = th[u]
      /\ Fields \subseteq DOMAIN th'[t] /\ th'[t].at = <<"timeoutDec">>
  <2>1. PICK a : a = <<"timeoutDec">> /\ th' = [th EXCEPT ![t].at = a]
    BY <1>2 DEF Goto
  <2> QED BY <1>0, <2>1, Forms
<1>5. Steps(t) /\ Doing(t)' = "timeoutDec"
  BY <1>0, <1>4, <1>l, ToPlain
<1>6. ~Own(th'[t]) /\ OwnOp(th'[t], t) /\ \A x : ~Serves(th'[t], x)
  BY <1>4, <1>l, OwnPlain
<1>7. ~Popping(t)'
  BY <1>4, <1>l, PlainStack DEF Popping, RingLabels, PopLabels
<1>8. result'[t] = res /\ \A x \in Threads : x # t => result'[x] = result[x]
  BY <1>0, <1>2 DEF StateTypes
<1>9. Served(t)' <=> Served(t)
  BY <1>3, <1>5, <1>6 DEF Served, Steps
<1>10. Told(t)' <=> res = "OK"
  BY <1>5, <1>8 DEF Told
<1>11. t \in Receivers /\ t \notin Senders
  BY <1>3 DEF Inv, NoTimeouts
<1>12. Has(t)' <=> Has(t)
  <2>1. CASE Queued(t)
    <3>1. ~Has(t) /\ ~Served(t)
      BY <1>3, <1>l, <2>1, QueuedFresh
    <3>2. ~Told(t)'
      BY <1>1, <1>10, <2>1 DEF Queued
    <3> QED BY <1>6, <1>9, <3>1, <3>2 DEF Has
  <2>2. CASE ~Queued(t)
    <3>1. word[t] = 1
      <4>1. SUFFICES ASSUME word[t] # 1 PROVE FALSE
        OBVIOUS
      <4>2. word[t] = 0
        BY <1>0, <4>1 DEF KindInv
      <4>3. InHand(t) \/ ToWake(t)
        BY <1>0, <1>3, <2>2, <4>2 DEF Inv, SleepInv
      <4>4. CASE InHand(t)
        <5>1. PICK u \in Threads : Doing(u) \in HasSender \cup HasReceiver
          BY <4>4 DEF InHand
        <5>2. lock = u
          BY <1>0, <5>1, LabelFacts DEF FrameInv
        <5> QED BY <1>2, <5>2, ChanBufAssumption
      <4>5. CASE ToWake(t)
        <5>1. PICK u \in Threads : Doing(u) = "rWake" /\ th[u].w = t
          BY <4>5 DEF ToWake
        <5>2. t \in Senders
          BY <1>0, <5>1 DEF KindInv, HandOf
        <5> QED BY <1>11, <5>2
      <4> QED BY <4>3, <4>4, <4>5
    <3>2. ~Served(t)
      BY <3>1, NotServed DEF Asleep
    <3>3. Told(t) <=> result[t] = "OK"
      BY <3>1 DEF Told
    <3>4. res = result[t]
      BY <1>1, <2>2 DEF Queued
    <3> QED BY <1>3, <1>5, <1>6, <1>9, <1>10, <1>l, <3>2, <3>3, <3>4 DEF Has
  <2> QED BY <2>1, <2>2
<1>13. \A x \in Threads : Has(x)' <=> Has(x)
  BY <1>0, <1>2, <1>3, <1>5, <1>6, <1>8, <1>12, HasOthers
<1>14. ResOK(t)
  BY <1>0, <1>2, <1>5, <1>8 DEF ResOK
<1>15. Calm(t)
  <2>1. Senders \cup Receivers \subseteq Threads
    BY DEF Threads
  <2> QED BY <1>2, <1>3, <1>5, <1>6, <1>7, <1>13, <1>14, <2>1 DEF Calm
<1> QED BY <1>0, <1>15, CalmKeeps

\* The close tells the queued senders that they have failed.
LEMMA ClosingData ==
    ASSUME Inv, TimedFree, StateTypes, DataInv, NEW c \in Closers, CloseLock(c), ~closed
    PROVE  DataInv'
<1>0. FrameInv /\ KindInv /\ c \in Threads
  BY DEF Inv, Threads
<1>1. /\ At(c, "cLock") /\ lock = None /\ Goto(c, <<"cNext">>)
      /\ result' = [t \in Threads |-> IF t \in Elems(sendq) THEN "CLOSED" ELSE result[t]]
      /\ word' = [t \in Threads |-> IF t \in Elems(sendq) THEN 1 ELSE word[t]]
      /\ UNCHANGED <<log, consHead, consTail, out, rcvd, accepted, refused, calls>>
  BY DEF CloseLock, ring, hist
<1>l. /\ {"cLock", "cNext"} \subseteq PlainLabels \ RingLabels
      /\ {"cLock", "cNext"} \cap (Serving \cup Fulfilled \cup WaitLabels \cup Registered \cup {"done", "idle"}) = {}
  BY CallLabels DEF Serving, Fulfilled, WaitLabels, Registered
<1>2. Doing(c) = "cLock" /\ ~Popping(c) /\ ~Own(th[c]) /\ \A x : ~Serves(th[c], x)
  BY <1>0, <1>1, <1>l, FromPlain
<1>3. /\ DOMAIN th' = Threads /\ \A u \in Threads : u # c => th'[u] = th[u]
      /\ Fields \subseteq DOMAIN th'[c] /\ th'[c].at = <<"cNext">>
  <2>1. PICK a : a = <<"cNext">> /\ th' = [th EXCEPT ![c].at = a]
    BY <1>1 DEF Goto
  <2> QED BY <1>0, <2>1, Forms
<1>4. Steps(c) /\ Doing(c)' = "cNext"
  BY <1>0, <1>3, <1>l, ToPlain
<1>5. ~Own(th'[c]) /\ OwnOp(th'[c], c) /\ \A x : ~Serves(th'[c], x)
  BY <1>3, <1>l, OwnPlain
<1>6. ~Popping(c)'
  BY <1>3, <1>l, PlainStack DEF Popping, RingLabels, PopLabels
<1>7. ASSUME NEW x \in Threads PROVE Has(x)' <=> Has(x)
  <2>1. CASE x = c
    BY <1>2, <1>4, <1>5, <1>l, <2>1 DEF Has
  <2>2. CASE x # c /\ x \notin Elems(sendq)
    BY <1>0, <1>1, <1>2, <1>4, <1>5, <2>2, HasOthers
  <2>3. CASE x # c /\ x \in Elems(sendq)
    <3>1. Queued(x)
      BY <2>3 DEF Queued
    <3>2. Doing(x) \in Registered \ {"timeoutDec"} /\ ~Served(x) /\ (Doing(x) \in WaitLabels => ~Has(x))
      BY <3>1, QueuedFresh
    <3>3. Doing(x) \in WaitLabels
      <4>1. Doing(x) \notin Locking
        BY <1>0, <1>1, ChanBufAssumption DEF FrameInv
      <4> QED BY <3>2, <4>1 DEF Registered, Locking, WaitLabels
    <3>4. ~Own(th[x]) /\ th'[x] = th[x]
      BY <1>4, <2>3, <3>2, <3>3 DEF Has, Steps
    <3>5. ~Told(x)'
      BY <1>1, <2>3 DEF Told
    <3>6. ~Served(x)'
      BY <1>4, <1>5, <3>2 DEF Served, Steps
    <3> QED BY <3>2, <3>3, <3>4, <3>5, <3>6 DEF Has
  <2> QED BY <2>1, <2>2, <2>3
<1>8. ResOK(c)
  BY <1>1, <1>4, <1>l DEF ResOK
<1>9. Calm(c)
  <2>1. Senders \cup Receivers \subseteq Threads
    BY DEF Threads
  <2> QED BY <1>1, <1>2, <1>4, <1>5, <1>6, <1>7, <1>8, <2>1 DEF Calm
<1> QED BY <1>0, <1>9, CalmKeeps

\* A thread queues itself and tries once more.
LEMMA JoinData ==
    ASSUME FrameInv, KindInv, StateTypes, DataInv, NEW t \in Threads, NEW l \in {"sPark", "rMeet"}, At(t, l),
           NEW p \in {"pushLoad", "popLoad"}, NEW k \in {"sAgain", "rAgain"},
           Reaches(t, <<p>>), th'[t].w = t, th'[t].ok = <<k>>, th'[t].fail = <<"unlockPark">>,
           word' = [word EXCEPT ![t] = 0], result' = [result EXCEPT ![t] = "OK"],
           UNCHANGED <<log, consHead, consTail, out, rcvd, accepted, refused, calls>>
    PROVE  DataInv'
<1>l. /\ l \in PlainLabels \ RingLabels /\ l \notin Serving \cup Fulfilled \cup WaitLabels \cup {"done", "idle"}
      /\ p \in RingLabels \ {"pushCommit", "popCommit"} /\ k \in OwnOps
      /\ <<<<k>>, <<"unlockPark">>>> \in Exits /\ Head(<<k>>) = k /\ k \notin WaitLabels
  BY CallLabels, PlainStack DEF Serving, Fulfilled, WaitLabels, RingLabels, PushLabels, PopLabels, OwnOps, Exits
<1>1. PICK ok, fail : ok = <<k>> /\ fail = <<"unlockPark">>
  OBVIOUS
<1>2. Doing(t) = l /\ ~Popping(t) /\ ~Own(th[t]) /\ \A x : ~Serves(th[t], x)
  BY <1>l, FromPlain
<1>3. Steps(t) /\ Doing(t)' = k /\ Head(th'[t].at) = p
  <2>1. <<ok, fail>> \in Exits /\ th'[t].ok = ok /\ th'[t].fail = fail /\ Head(ok) = k
    BY <1>1, <1>l
  <2> QED BY <1>l, <2>1, ToRing DEF Reaches
<1>4. ~Own(th'[t]) /\ OwnOp(th'[t], t) /\ \A x : ~Serves(th'[t], x)
  <2>1. <<th'[t].ok, th'[t].fail>> \in Exits /\ Head(th'[t].ok) = k /\ th'[t].at = <<p>>
    BY <1>l DEF Reaches
  <2> QED BY <1>l, <2>1, OwnRing
<1>5. ~Popping(t)'
  BY <1>3, <1>l DEF Popping
<1>6. /\ word'[t] = 0 /\ result'[t] = "OK"
      /\ \A x \in Threads : x # t => word'[x] = word[x] /\ result'[x] = result[x]
  BY DEF KindInv, StateTypes
<1>7. \A x \in Threads : Has(x)' <=> Has(x)
  <2>1. ~Has(t) /\ ~Has(t)'
    BY <1>2, <1>3, <1>4, <1>l DEF Has
  <2> QED BY <1>2, <1>3, <1>4, <1>6, <2>1, HasOthers
<1>8. ResOK(t)
  BY <1>6 DEF ResOK
<1>9. Calm(t)
  <2>1. Senders \cup Receivers \subseteq Threads
    BY DEF Threads
  <2> QED BY <1>2, <1>3, <1>4, <1>5, <1>7, <1>8, <1>l, <2>1 DEF Calm
<1> QED BY <1>9, CalmKeeps

\* The rendezvous: the message of a queued sender goes straight to the receiver.
LEMMA MeetData ==
    ASSUME Inv, TimedFree, RingTypes, StateTypes, DataInv, NEW r \in Receivers, RecvMeet(r)
    PROVE  DataInv'
<1>0. FrameInv /\ KindInv /\ r \in Threads /\ PlaceInv /\ RecvInv /\ OwnInv /\ GotInv /\ MovedInv /\ ResultInv
  BY DEF Inv, DataInv, Threads
<1>1. PICK a, s, x : a = <<"rWake">> /\ s = Head(sendq) /\ x = calls[Head(sendq)]
  OBVIOUS
<1>m. PICK m : m = Msg(s) /\ m = <<s, calls[s]>>
  BY DEF Msg
<1>2. /\ At(r, "rMeet") /\ sendq # << >> /\ out' = [out EXCEPT ![r] = m] /\ result' = [result EXCEPT ![s] = "OK"]
      /\ th' = [th EXCEPT ![r].at = a, ![r].w = s, ![r].old = x]
      /\ UNCHANGED <<log, consHead, consTail, rcvd, accepted, refused, calls, word>>
  BY <1>1, <1>m DEF RecvMeet, ring, hist
<1>3. /\ DOMAIN th' = Threads /\ \A u \in Threads : u # r => th'[u] = th[u]
      /\ Fields \subseteq DOMAIN th'[r] /\ th'[r].at = <<"rWake">> /\ th'[r].w = s
  <2>1. DOMAIN th = Threads /\ Fields \subseteq DOMAIN th[r]
    BY <1>0 DEF FrameInv, Fields
  <2> QED BY <1>0, <1>1, <1>2, <2>1 DEF Fields
<1>l. /\ {"rMeet", "rWake"} \subseteq PlainLabels \ RingLabels
      /\ "rMeet" \notin Serving \cup Fulfilled \cup WaitLabels \cup {"done", "idle"} /\ "rMeet" \in Locking
      /\ "rWake" \in Serving \cap Fulfilled /\ "rWake" \notin WaitLabels \cup Registered
  BY CallLabels DEF Serving, Fulfilled, WaitLabels, Registered, Locking
<1>4. Doing(r) = "rMeet" /\ ~Popping(r) /\ ~Own(th[r]) /\ \A y : ~Serves(th[r], y)
  BY <1>0, <1>2, <1>l, FromPlain
<1>5. Steps(r) /\ Doing(r)' = "rWake"
  BY <1>0, <1>3, <1>l, ToPlain
<1>6. Own(th'[r]) /\ OwnOp(th'[r], r) /\ \A y : Serves(th'[r], y) <=> s = y
  BY <1>3, <1>l, OwnPlain
<1>7. ~Popping(r)'
  BY <1>3, PlainStack, CallLabels DEF Popping
<1>8. /\ s \in Senders /\ s \in Threads /\ s # r /\ s \notin Receivers /\ calls[s] \in 1..MaxCalls /\ m \in Messages
      /\ Queued(s)
  <2>1. s \in Senders /\ s \in Threads /\ calls[s] \in 1..MaxCalls
    BY <1>0, <1>1, <1>2, HeadTypes
  <2>2. Queued(s)
    <3>1. sendq \in Seq(Senders)
      BY <1>0 DEF KindInv
    <3> QED BY <1>1, <1>2, <3>1 DEF Queued, Elems
  <2> QED BY <1>m, <2>1, <2>2, ChanBufAssumption DEF Messages
<1>9. Doing(s) \in WaitLabels /\ ~Has(s) /\ Doing(s) # "idle"
  <2>1. Doing(s) \in Registered \ {"timeoutDec"} /\ (Doing(s) \in WaitLabels => ~Has(s))
    BY <1>8, QueuedFresh
  <2>2. Doing(s) \notin Locking
    BY <1>0, <1>4, <1>8, <1>l DEF FrameInv
  <2> QED BY <2>1, <2>2 DEF Registered, Locking, WaitLabels
<1>10. /\ result'[s] = "OK" /\ \A y \in Threads : y # s => result'[y] = result[y]
  BY <1>2, <1>8 DEF StateTypes
<1>11. ~Has(r) /\ Has(r)' /\ Has(s)'
  <2>1. ~Has(r)
    BY <1>4, <1>l DEF Has
  <2>2. Doing(s)' = Doing(s)
    BY <1>0, <1>5, <1>8, OthersStay
  <2>3. Served(s)'
    BY <1>0, <1>6 DEF Served
  <2> QED BY <1>6, <1>9, <2>1, <2>2, <2>3 DEF Has
<1>12. \A y \in Threads : y # r /\ y # s => (Has(y)' <=> Has(y))
  BY <1>0, <1>2, <1>4, <1>5, <1>6, <1>10, HasOthers
<1>13. ~Given(m)
  BY <1>0, <1>8, <1>9, <1>m DEF MovedInv
<1>14. \A y \in Threads : Doing(y)' # "idle" => Doing(y) # "idle"
  BY <1>0, <1>4, <1>5, <1>l, OthersStay
<1>15. /\ RecvInv'
       /\ \A y \in Messages : AtRecv(y)' <=> AtRecv(y) \/ y = m
       /\ out'[r] = m /\ m # NoMsg /\ \A q \in Receivers : q # r => out'[q] = out[q]
  <2>1. out[r] = NoMsg
    BY <1>0, <1>11 DEF GotInv
  <2>2. ~AtRecv(m)
    BY <1>13 DEF Given
  <2>3. \A y \in Receivers : Doing(y)' # "idle" => Doing(y) # "idle"
    BY <1>14 DEF Threads
  <2> QED BY <1>0, <1>2, <1>8, <2>1, <2>2, <2>3, BufferFills
<1>16. \A y \in Messages : Given(y)' <=> Given(y) \/ y = m
  BY <1>2, <1>15 DEF Given
<1>17. PlaceInv'
  <2>1. \A u \in Threads : (Popping(u)' <=> Popping(u)) /\ (Popping(u) => th'[u].old = th[u].old)
    BY <1>4, <1>5, <1>7 DEF Popping, Steps
  <2>2. \A i \in 1..Len(log) : log[i] \in Messages /\ log[i] # m
    BY <1>13 DEF RingTypes, Given
  <2>3. (\A i \in 1..Len(log) : AtRecv(log[i]) <=> i <= consTail)'
    <3>1. ASSUME NEW i \in 1..Len(log) PROVE AtRecv(log[i])' <=> i <= consTail
      <4>1. PICK y : y = log[i]
        OBVIOUS
      <4>2. AtRecv(y)' <=> AtRecv(y)
        BY <1>15, <2>2, <4>1
      <4>3. AtRecv(log[i])' <=> AtRecv(y)'
        BY <1>2, <4>1
      <4> QED BY <1>0, <4>1, <4>2, <4>3 DEF PlaceInv
    <3> QED BY <1>2, <3>1
  <2> QED BY <1>0, <1>2, <2>1, <2>3 DEF PlaceInv
<1>18. OwnInv'
  BY <1>0, <1>5, <1>6, OwnStep
<1>19. GotInv'
  BY <1>0, <1>8, <1>11, <1>12, <1>15 DEF GotInv, Threads
<1>20. MovedInv'
  <2>1. ASSUME NEW u \in Senders, Doing(u)' # "idle"
        PROVE  (Given(Msg(u))' <=> Has(u)') /\ Msg(u)' \notin (accepted \cup refused)'
    <3>0. PICK y : y = <<u, calls[u]>>
      OBVIOUS
    <3>1. Doing(u) # "idle" /\ u \in Threads /\ u # r
      BY <1>14, <2>1, ChanBufAssumption DEF Threads
    <3>2. y = Msg(u) /\ y = Msg(u)' /\ y \in Messages
      BY <1>0, <1>2, <3>0, <3>1, ChanBufAssumption DEF Msg, KindInv, Messages
    <3>3. (Given(y) <=> Has(u)) /\ y \notin accepted \cup refused
      BY <1>0, <3>1, <3>2 DEF MovedInv
    <3>4. Given(Msg(u))' <=> Given(y)'
      BY <3>2
    <3>5. y = m <=> u = s
      BY <1>m, <3>0
    <3>6. Given(y)' <=> Has(u)'
      BY <1>11, <1>12, <1>16, <3>1, <3>2, <3>3, <3>5
    <3> QED BY <1>2, <3>2, <3>3, <3>4, <3>6
  <2>2. ASSUME NEW u \in Senders, NEW n \in 1..MaxCalls, Given(<<u, n>>)' \/ <<u, n>> \in (accepted \cup refused)'
        PROVE  n <= calls'[u]
    <3>0. <<u, n>> \in Messages
      BY DEF Messages
    <3>1. PICK y : y = <<u, n>> /\ y \in Messages
      BY <3>0
    <3>2. Given(<<u, n>>)' <=> Given(y)'
      BY <3>1
    <3>3. CASE y = m
      BY <1>2, <1>8, <1>m, <3>1, <3>3
    <3>4. CASE Given(y) \/ y \in accepted \cup refused
      BY <1>0, <1>2, <3>1, <3>4 DEF MovedInv
    <3> QED BY <1>2, <1>16, <2>2, <3>1, <3>2, <3>3, <3>4
  <2>3. accepted \subseteq Messages /\ refused \subseteq Messages
    BY DEF StateTypes
  <2>4. m \notin refused
    BY <1>0, <1>8, <1>9, <1>m DEF MovedInv
  <2>5. \A y \in accepted : Given(y)'
    BY <1>0, <1>16, <2>3 DEF MovedInv
  <2>6. \A y \in refused : ~Given(y)'
    BY <1>0, <1>16, <2>3, <2>4 DEF MovedInv
  <2> QED BY <1>2, <2>1, <2>2, <2>5, <2>6 DEF MovedInv
<1>21. ResultInv'
  <2>1. ResOK(r)
    BY <1>2, <1>5, <1>10, <1>l DEF ResOK
  <2> QED BY <1>0, <1>5, <2>1, ResultStep
<1> QED BY <1>15, <1>17, <1>18, <1>19, <1>20, <1>21 DEF DataInv

------------------------------------------------------------------------------
(* The steps of the calls.                                                 *)

\* Where a Goto leads.
LEMMA GotoReaches ==
    ASSUME FrameInv, NEW t \in Threads, NEW a, Goto(t, a)
    PROVE  Reaches(t, a) /\ th'[t].w = th[t].w
BY Forms DEF Goto, Reaches

\* Where a Push and a Pop lead.
LEMMA StartReaches ==
    ASSUME FrameInv, NEW t \in Threads, NEW w, NEW ok, NEW fail,
           th' = Push(t, w, ok, fail) \/ th' = Pop(t, w, ok, fail)
    PROVE  \E p \in {"pushLoad", "popLoad"} :
              Reaches(t, <<p>>) /\ th'[t].w = w /\ th'[t].ok = ok /\ th'[t].fail = fail
BY PushForm, PopForm DEF Reaches

\* Positions that neither wait nor serve.
Plain == PlainLabels \ (RingLabels \cup WaitLabels \cup Serving \cup {"idle"})

\* To another such position.
LEMMA GotoData ==
    ASSUME FrameInv, DataInv, NEW t \in Threads, NEW l \in Plain, At(t, l),
           NEW m \in Plain \ {"sAgain", "rAgain"}, l \in Fulfilled \cup {"done"} <=> m \in Fulfilled \cup {"done"},
           Reaches(t, <<m>>), Still
    PROVE  DataInv'
<1>1. Awake(t) /\ (Own(th[t]) <=> m \in Fulfilled \cup {"done"})
  BY FromPlain DEF Plain
<1>2. Calm(t)
  BY <1>1, CalmToPlain DEF Plain
<1> QED BY <1>2, CalmKeeps

\* To a helper, after a success.
LEMMA HelpData ==
    ASSUME FrameInv, DataInv, NEW t \in Threads, NEW l \in Plain \cap Fulfilled, At(t, l),
           NEW k \in HelperLabels \ Serving, Reaches(t, <<k, "done">>), Still
    PROVE  DataInv'
<1>1. Awake(t) /\ Own(th[t])
  BY FromPlain DEF Plain
<1>2. Calm(t)
  BY <1>1, CalmToHelper DEF Returns
<1> QED BY <1>2, CalmKeeps

\* To a ring operation.
LEMMA StartData ==
    ASSUME FrameInv, DataInv, NEW t \in Threads, NEW l \in Plain, At(t, l),
           NEW p \in {"pushLoad", "popLoad"}, NEW ok, NEW fail, <<ok, fail>> \in Exits,
           Head(ok) \notin {"sAgain", "rAgain"},
           l \in Fulfilled \cup {"done"} <=> Head(ok) \notin OwnOps /\ OwnAt(fail),
           Reaches(t, <<p>>), th'[t].ok = ok, th'[t].fail = fail, Head(ok) \in OwnOps => th'[t].w = t, Still
    PROVE  DataInv'
<1>1. Awake(t) /\ (Own(th[t]) <=> Head(ok) \notin OwnOps /\ OwnAt(fail))
  BY FromPlain DEF Plain
<1>2. p \in RingLabels \ {"pushCommit", "popCommit"}
  BY DEF RingLabels, PushLabels, PopLabels
<1>3. Calm(t)
  BY <1>1, <1>2, CalmToRing
<1> QED BY <1>3, CalmKeeps

\* An operation for the caller itself, before any success.
LEMMA TryData ==
    ASSUME FrameInv, DataInv, NEW t \in Threads, NEW l \in Plain \ (Fulfilled \cup {"done"}), At(t, l),
           NEW ok, NEW fail, <<ok, fail>> \in Exits, Head(ok) \in OwnOps \ {"sAgain", "rAgain"},
           th' = Push(t, t, ok, fail) \/ th' = Pop(t, t, ok, fail), Still
    PROVE  DataInv'
<1>1. PICK p \in {"pushLoad", "popLoad"} :
         Reaches(t, <<p>>) /\ th'[t].w = t /\ th'[t].ok = ok /\ th'[t].fail = fail
  BY StartReaches
<1> QED BY <1>1, StartData

\* Which positions are plain, and which of them follow a success.
LEMMA PlainOnes ==
    /\ {"sClosed", "sSendCnt", "sRecvCnt", "sPushed", "sLock", "sPark", "sAgain", "rSendCnt", "rRecvCnt", "rEmpty",
        "rPopped", "rLock", "rHelp", "rHelpFailed", "rMeet", "rAgain", "bSend", "bRecv", "bNone", "done",
        "cLock", "cNext"} \subseteq Plain
    /\ {"sPushed", "sAgain", "rPopped", "rHelp", "rHelpFailed", "rAgain"} \subseteq Fulfilled
    /\ {"sClosed", "sSendCnt", "sRecvCnt", "sLock", "sPark", "rSendCnt", "rRecvCnt", "rEmpty", "rLock", "rMeet",
        "bSend", "bRecv", "bNone", "cLock", "cNext"} \cap (Fulfilled \cup {"done"}) = {}
BY CallLabels DEF Plain, Fulfilled, WaitLabels, Serving

\* The exits of the operations begun outside the helpers.
LEMMA OwnExits ==
    /\ \A f \in {"sLock", "sClosed", "bNone"} : <<<<"sPushed">>, <<f>>>> \in Exits
    /\ \A f \in {"rEmpty", "bNone"} : <<<<"rPopped">>, <<f>>>> \in Exits
    /\ <<<<"deliver", "done">>, <<"deliver", "sPark">>>> \in Exits /\ <<<<"rHelp">>, <<"rMeet">>>> \in Exits
    /\ <<<<"rHelped">>, <<"rHelpFailed">>>> \in Exits /\ <<<<"cGiven">>, <<"cRefused">>>> \in Exits
    /\ Head(<<"sPushed">>) = "sPushed" /\ Head(<<"rPopped">>) = "rPopped" /\ Head(<<"deliver", "done">>) = "deliver"
    /\ Head(<<"rHelp">>) = "rHelp" /\ Head(<<"rHelped">>) = "rHelped" /\ Head(<<"cGiven">>) = "cGiven"
    /\ OwnAt(<<"rHelpFailed">>) /\ ~OwnAt(<<"cRefused">>)
<1>1. /\ Head(<<"rHelpFailed">>) = "rHelpFailed"
      /\ Head(<<"cRefused">>) = "cRefused" /\ Bottom(<<"cRefused">>) = "cRefused"
  BY CallLabels, PlainStack
<1> QED BY <1>1 DEF Exits, OwnAt, Fulfilled

\* chan_send.
LEMMA SendData ==
    ASSUME Inv, TimedFree, RingTypes, StateTypes, DataInv, NEW s \in Senders,
           \/ SendClosed(s) \/ SendSendCnt(s) \/ SendRecvCnt(s) \/ SendPushed(s)
           \/ SendLock(s) \/ SendPark(s) \/ SendAgain(s) \/ SendBurst(s)
    PROVE  DataInv'
<1>0. FrameInv /\ KindInv /\ s \in Threads
  BY DEF Inv, Threads
<1>1. CASE SendClosed(s) \/ SendSendCnt(s)
  <2>1. PICK l \in {"sClosed", "sSendCnt"}, m \in {"sLock", "sSendCnt", "sRecvCnt"} : At(s, l) /\ Goto(s, <<m>>)
    BY <1>1 DEF SendClosed, SendSendCnt
  <2>2. Still
    BY <1>1 DEF SendClosed, SendSendCnt, Still, ring, waiters, hist
  <2>3. Reaches(s, <<m>>)
    BY <1>0, <2>1, GotoReaches
  <2> QED BY <1>0, <2>1, <2>2, <2>3, GotoData, PlainOnes
<1>2. CASE SendRecvCnt(s)
  <2>0. At(s, "sRecvCnt") /\ Still
    BY <1>2 DEF SendRecvCnt, Still, ring, waiters, hist
  <2>1. CASE Goto(s, <<"sLock">>)
    <3>1. Reaches(s, <<"sLock">>)
      BY <1>0, <2>1, GotoReaches
    <3> QED BY <1>0, <2>0, <3>1, GotoData, PlainOnes
  <2>2. CASE th' = [Push(s, s, <<"sPushed">>, IF th[s].spin >= Spin THEN <<"sLock">> ELSE <<"sClosed">>)
                      EXCEPT ![s].spin = @ + 1]
    <3>1. PICK f \in {"sLock", "sClosed"} : th' = [Push(s, s, <<"sPushed">>, <<f>>) EXCEPT ![s].spin = @ + 1]
      BY <2>2
    <3>2. PICK ok, fail, a : ok = <<"sPushed">> /\ fail = <<f>> /\ a = <<"pushLoad">>
      OBVIOUS
    <3>3. DOMAIN th = Threads /\ Fields \subseteq DOMAIN th[s]
      BY <1>0 DEF FrameInv, Fields
    <3>4. Reaches(s, a) /\ th'[s].w = s /\ th'[s].ok = ok /\ th'[s].fail = fail
      BY <1>0, <3>1, <3>2, <3>3 DEF Push, Reaches, Fields
    <3>5. <<ok, fail>> \in Exits /\ Head(ok) = "sPushed" /\ "sPushed" \in OwnOps
      BY <3>1, <3>2, OwnExits DEF OwnOps
    <3>6. Reaches(s, <<"pushLoad">>)
      BY <3>2, <3>4
    <3> QED BY <1>0, <2>0, <3>4, <3>5, <3>6, StartData, PlainOnes
  <2> QED BY <1>2, <2>1, <2>2 DEF SendRecvCnt
<1>3. CASE SendPushed(s)
  <2>0. At(s, "sPushed") /\ UNCHANGED <<log, consHead, consTail>>
    BY <1>3 DEF SendPushed, ring
  <2>1. CASE Goto(s, <<"deliverLock", "done">>) /\ UNCHANGED <<waiters, hist>>
    <3>1. Still /\ Reaches(s, <<"deliverLock", "done">>)
      BY <1>0, <2>0, <2>1, GotoReaches DEF Still, waiters, hist
    <3>2. "deliverLock" \in HelperLabels \ Serving
      BY DEF HelperLabels, Serving
    <3> QED BY <1>0, <2>0, <3>1, <3>2, HelpData, PlainOnes
  <2>2. CASE Return(s, "OK") /\ UNCHANGED <<word, result>>
    BY <1>0, <2>0, <2>2, ReturnPlain, PlainOnes DEF Plain
  <2> QED BY <1>3, <2>1, <2>2 DEF SendPushed
<1>4. CASE SendLock(s)
  <2>0. At(s, "sLock") /\ UNCHANGED <<log, consHead, consTail>>
    BY <1>4 DEF SendLock, ring
  <2>1. CASE Return(s, "CLOSED") /\ UNCHANGED <<lock, word, result>>
    BY <1>0, <2>0, <2>1, ReturnPlain, PlainOnes DEF Plain
  <2>2. CASE th' = Push(s, s, <<"deliver", "done">>, <<"deliver", "sPark">>) /\ UNCHANGED <<waiters, hist>>
    <3>1. Still
      BY <2>0, <2>2 DEF Still, waiters, hist
    <3>2. PICK ok, fail : ok = <<"deliver", "done">> /\ fail = <<"deliver", "sPark">> /\ th' = Push(s, s, ok, fail)
      BY <2>2
    <3>3. <<ok, fail>> \in Exits /\ Head(ok) \in OwnOps \ {"sAgain", "rAgain"}
      BY <3>2, OwnExits DEF OwnOps
    <3> QED BY <1>0, <2>0, <3>1, <3>2, <3>3, TryData, PlainOnes
  <2> QED BY <1>4, <2>1, <2>2 DEF SendLock
<1>5. CASE SendPark(s)
  <2>0. At(s, "sPark") /\ UNCHANGED <<log, consHead, consTail>>
    BY <1>5 DEF SendPark, ring
  <2>1. CASE Return(s, "WOULDBLOCK") /\ UNCHANGED <<queues, word, result>>
    BY <1>0, <2>0, <2>1, ReturnPlain, PlainOnes DEF Plain
  <2>2. CASE /\ word' = [word EXCEPT ![s] = 0] /\ result' = [result EXCEPT ![s] = "OK"]
             /\ th' = Push(s, s, <<"sAgain">>, <<"unlockPark">>) /\ UNCHANGED <<out, hist>>
    <3>1. PICK ok, fail : ok = <<"sAgain">> /\ fail = <<"unlockPark">> /\ th' = Push(s, s, ok, fail)
      BY <2>2
    <3>2. PICK p \in {"pushLoad", "popLoad"} :
             Reaches(s, <<p>>) /\ th'[s].w = s /\ th'[s].ok = ok /\ th'[s].fail = fail
      BY <1>0, <3>1, StartReaches
    <3>3. UNCHANGED <<rcvd, accepted, refused, calls>>
      BY <2>2 DEF hist
    <3> QED BY <1>0, <2>0, <2>2, <3>1, <3>2, <3>3, JoinData
  <2> QED BY <1>5, <2>1, <2>2 DEF SendPark
<1>6. CASE SendAgain(s)
  <2>1. At(s, "sAgain") /\ Goto(s, <<"deliver", "done">>) /\ Still
    BY <1>6 DEF SendAgain, Still, ring, waiters, hist
  <2>2. Reaches(s, <<"deliver", "done">>) /\ "deliver" \in HelperLabels \ Serving
    BY <1>0, <2>1, GotoReaches DEF HelperLabels, Serving
  <2> QED BY <1>0, <2>1, <2>2, HelpData, PlainOnes
<1>7. CASE SendBurst(s)
  <2>0. At(s, "bSend") /\ Still
    BY <1>7 DEF SendBurst, Still, ring, waiters, hist
  <2>1. CASE Goto(s, <<"bNone">>)
    <3>1. Reaches(s, <<"bNone">>)
      BY <1>0, <2>1, GotoReaches
    <3> QED BY <1>0, <2>0, <3>1, GotoData, PlainOnes
  <2>2. CASE th' = Push(s, s, <<"sPushed">>, <<"bNone">>)
    <3>1. PICK ok, fail : ok = <<"sPushed">> /\ fail = <<"bNone">> /\ th' = Push(s, s, ok, fail)
      BY <2>2
    <3>2. <<ok, fail>> \in Exits /\ Head(ok) \in OwnOps \ {"sAgain", "rAgain"}
      BY <3>1, OwnExits DEF OwnOps
    <3> QED BY <1>0, <2>0, <3>1, <3>2, TryData, PlainOnes
  <2> QED BY <1>7, <2>1, <2>2 DEF SendBurst
<1> QED BY <1>1, <1>2, <1>3, <1>4, <1>5, <1>6, <1>7

\* chan_recv.
LEMMA RecvData ==
    ASSUME Inv, TimedFree, RingTypes, StateTypes, DataInv, NEW r \in Receivers,
           \/ RecvSendCnt(r) \/ RecvRecvCnt(r) \/ RecvEmpty(r) \/ RecvPopped(r) \/ RecvLock(r)
           \/ RecvHelp(r) \/ RecvHelpFailed(r) \/ RecvPark(r) \/ RecvAgain(r) \/ RecvBurst(r)
    PROVE  DataInv'
<1>0. FrameInv /\ KindInv /\ r \in Threads
  BY DEF Inv, Threads
<1>1. CASE RecvSendCnt(r)
  <2>1. PICK m \in {"rLock", "rRecvCnt"} : At(r, "rSendCnt") /\ Goto(r, <<m>>) /\ Still
    BY <1>1 DEF RecvSendCnt, Still, ring, waiters, hist
  <2>2. Reaches(r, <<m>>)
    BY <1>0, <2>1, GotoReaches
  <2> QED BY <1>0, <2>1, <2>2, GotoData, PlainOnes
<1>2. CASE RecvRecvCnt(r)
  <2>0. At(r, "rRecvCnt") /\ Still
    BY <1>2 DEF RecvRecvCnt, Still, ring, waiters, hist
  <2>1. CASE Goto(r, <<"rLock">>)
    <3>1. Reaches(r, <<"rLock">>)
      BY <1>0, <2>1, GotoReaches
    <3> QED BY <1>0, <2>0, <3>1, GotoData, PlainOnes
  <2>2. CASE th' = Pop(r, r, <<"rPopped">>, <<"rEmpty">>)
    <3>1. PICK ok, fail : ok = <<"rPopped">> /\ fail = <<"rEmpty">> /\ th' = Pop(r, r, ok, fail)
      BY <2>2
    <3>2. <<ok, fail>> \in Exits /\ Head(ok) \in OwnOps \ {"sAgain", "rAgain"}
      BY <3>1, OwnExits DEF OwnOps
    <3> QED BY <1>0, <2>0, <3>1, <3>2, TryData, PlainOnes
  <2> QED BY <1>2, <2>1, <2>2 DEF RecvRecvCnt
<1>3. CASE RecvEmpty(r)
  <2>0. At(r, "rEmpty") /\ Still
    BY <1>3 DEF RecvEmpty, Still, ring, waiters, hist
  <2>1. CASE Goto(r, <<"rLock">>)
    <3>1. Reaches(r, <<"rLock">>)
      BY <1>0, <2>1, GotoReaches
    <3> QED BY <1>0, <2>0, <3>1, GotoData, PlainOnes
  <2>2. CASE th' = [th EXCEPT ![r].at = <<"rSendCnt">>, ![r].spin = @ + 1]
    <3>1. DOMAIN th = Threads /\ Fields \subseteq DOMAIN th[r]
      BY <1>0 DEF FrameInv, Fields
    <3>2. Reaches(r, <<"rSendCnt">>)
      BY <1>0, <2>2, <3>1 DEF Reaches, Fields
    <3> QED BY <1>0, <2>0, <3>2, GotoData, PlainOnes
  <2> QED BY <1>3, <2>1, <2>2 DEF RecvEmpty
<1>4. CASE RecvPopped(r)
  <2>0. At(r, "rPopped") /\ UNCHANGED <<log, consHead, consTail>>
    BY <1>4 DEF RecvPopped, ring
  <2>1. CASE Goto(r, <<"admitLock", "done">>) /\ UNCHANGED <<waiters, hist>>
    <3>1. Still /\ Reaches(r, <<"admitLock", "done">>)
      BY <1>0, <2>0, <2>1, GotoReaches DEF Still, waiters, hist
    <3>2. "admitLock" \in HelperLabels \ Serving
      BY DEF HelperLabels, Serving
    <3> QED BY <1>0, <2>0, <3>1, <3>2, HelpData, PlainOnes
  <2>2. CASE Return(r, "OK") /\ UNCHANGED <<word, result>>
    BY <1>0, <2>0, <2>2, ReturnPlain, PlainOnes DEF Plain
  <2> QED BY <1>4, <2>1, <2>2 DEF RecvPopped
<1>5. CASE RecvLock(r)
  <2>0. At(r, "rLock") /\ Still
    BY <1>5 DEF RecvLock, Still, ring, waiters, hist
  <2>1. PICK ok, fail : ok = <<"rHelp">> /\ fail = <<"rMeet">> /\ th' = Pop(r, r, ok, fail)
    BY <1>5 DEF RecvLock
  <2>2. <<ok, fail>> \in Exits /\ Head(ok) \in OwnOps \ {"sAgain", "rAgain"}
    BY <2>1, OwnExits DEF OwnOps
  <2> QED BY <1>0, <2>0, <2>1, <2>2, TryData, PlainOnes
<1>6. CASE RecvHelp(r)
  <2>0. At(r, "rHelp") /\ UNCHANGED <<log, consHead, consTail>>
    BY <1>6 DEF RecvHelp, ring
  <2>1. CASE Return(r, "OK") /\ UNCHANGED <<word, result>>
    BY <1>0, <2>0, <2>1, ReturnPlain, PlainOnes DEF Plain
  <2>2. CASE th' = Push(r, Head(sendq), <<"rHelped">>, <<"rHelpFailed">>) /\ UNCHANGED <<waiters, hist>>
    <3>1. Still
      BY <2>0, <2>2 DEF Still, waiters, hist
    <3>2. PICK w, ok, fail : /\ w = Head(sendq) /\ ok = <<"rHelped">> /\ fail = <<"rHelpFailed">>
                             /\ th' = Push(r, w, ok, fail)
      BY <2>2
    <3>3. PICK p \in {"pushLoad", "popLoad"} :
             Reaches(r, <<p>>) /\ th'[r].w = w /\ th'[r].ok = ok /\ th'[r].fail = fail
      BY <1>0, <3>2, StartReaches
    <3>4. <<ok, fail>> \in Exits /\ Head(ok) = "rHelped" /\ "rHelped" \notin OwnOps /\ OwnAt(fail)
      BY <3>2, OwnExits DEF OwnOps
    <3> QED BY <1>0, <2>0, <3>1, <3>3, <3>4, StartData, PlainOnes
  <2> QED BY <1>6, <2>1, <2>2 DEF RecvHelp
<1>7. CASE RecvHelpFailed(r)
  <2>1. At(r, "rHelpFailed") /\ Return(r, "OK") /\ UNCHANGED <<log, consHead, consTail, word, result>>
    BY <1>7 DEF RecvHelpFailed, ring
  <2> QED BY <1>0, <2>1, ReturnPlain, PlainOnes DEF Plain
<1>8. CASE RecvPark(r)
  <2>0. At(r, "rMeet") /\ UNCHANGED <<log, consHead, consTail>>
    BY <1>8 DEF RecvPark, ring
  <2>1. CASE \E res \in {"CLOSED", "WOULDBLOCK"} : Return(r, res) /\ UNCHANGED <<word, result>>
    BY <1>0, <2>0, <2>1, ReturnPlain, PlainOnes DEF Plain
  <2>2. CASE /\ word' = [word EXCEPT ![r] = 0] /\ result' = [result EXCEPT ![r] = "OK"]
             /\ th' = Pop(r, r, <<"rAgain">>, <<"unlockPark">>) /\ UNCHANGED <<out, hist>>
    <3>1. PICK ok, fail : ok = <<"rAgain">> /\ fail = <<"unlockPark">> /\ th' = Pop(r, r, ok, fail)
      BY <2>2
    <3>2. PICK p \in {"pushLoad", "popLoad"} :
             Reaches(r, <<p>>) /\ th'[r].w = r /\ th'[r].ok = ok /\ th'[r].fail = fail
      BY <1>0, <3>1, StartReaches
    <3>3. UNCHANGED <<rcvd, accepted, refused, calls>>
      BY <2>2 DEF hist
    <3> QED BY <1>0, <2>0, <2>2, <3>1, <3>2, <3>3, JoinData
  <2> QED BY <1>8, <2>1, <2>2 DEF RecvPark
<1>9. CASE RecvAgain(r)
  <2>1. At(r, "rAgain") /\ Return(r, "OK") /\ UNCHANGED <<log, consHead, consTail, word, result>>
    BY <1>9 DEF RecvAgain, ring
  <2> QED BY <1>0, <2>1, ReturnPlain, PlainOnes DEF Plain
<1>10. CASE RecvBurst(r)
  <2>0. At(r, "bRecv") /\ Still
    BY <1>10 DEF RecvBurst, Still, ring, waiters, hist
  <2>1. PICK ok, fail : ok = <<"rPopped">> /\ fail = <<"bNone">> /\ th' = Pop(r, r, ok, fail)
    BY <1>10 DEF RecvBurst
  <2>2. <<ok, fail>> \in Exits /\ Head(ok) \in OwnOps \ {"sAgain", "rAgain"}
    BY <2>1, OwnExits DEF OwnOps
  <2> QED BY <1>0, <2>0, <2>1, <2>2, TryData, PlainOnes
<1> QED BY <1>1, <1>2, <1>3, <1>4, <1>5, <1>6, <1>7, <1>8, <1>9, <1>10

\* A burst that moved nothing.
LEMMA BurstData ==
    ASSUME Inv, RingTypes, StateTypes, DataInv, NEW t \in Threads, BurstNone(t)
    PROVE  DataInv'
<1>1. At(t, "bNone") /\ Return(t, "WOULDBLOCK") /\ UNCHANGED <<log, consHead, consTail, word, result>>
  BY DEF BurstNone, ring
<1>2. FrameInv /\ KindInv
  BY DEF Inv
<1> QED BY <1>1, <1>2, ReturnPlain, PlainOnes DEF Plain

\* The helpers.
LEMMA HelperData ==
    ASSUME Inv, TimedFree, RingTypes, StateTypes, DataInv, NEW t \in Threads, HelperStep(t)
    PROVE  DataInv'
<1>0. FrameInv /\ KindInv
  BY DEF Inv
<1>h. {"deliverLock", "deliver", "deliverTest", "delivered", "undelivered",
       "admitLock", "admit", "admitTest", "admitted", "unadmitted"} \subseteq HelperLabels
  BY DEF HelperLabels
<1>s. {"deliverLock", "deliver", "deliverTest", "undelivered", "admitLock", "admit", "admitTest", "unadmitted"}
        \cap Serving = {} /\ {"delivered", "admitted"} \subseteq Serving
  BY DEF Serving
<1>1. CASE HelperLock(t)
  <2>1. PICK l \in {"deliverLock", "admitLock"}, m \in {"deliver", "admit"} : At(t, l) /\ Goto(t, <<m>> \o Rest(t))
    BY <1>1 DEF HelperLock
  <2>2. Still
    BY <1>1 DEF HelperLock, Still, ring, waiters, hist
  <2>3. l \in HelperLabels /\ l \notin Serving /\ m \in HelperLabels \ Serving
    BY <1>h, <1>s
  <2>4. PICK r \in Returns : (Own(th[t]) <=> r = "done") /\ \A k \in HelperLabels : <<k>> \o Rest(t) = <<k, r>>
    BY <1>0, <2>1, <2>3, FromHelper
  <2>5. Awake(t)
    BY <1>0, <2>1, <2>3, FromHelper
  <2>6. Reaches(t, <<m, r>>)
    <3>1. PICK a : a = <<m>> \o Rest(t) /\ Goto(t, a)
      BY <2>1
    <3>2. Reaches(t, a) /\ a = <<m, r>>
      BY <1>0, <2>3, <2>4, <3>1, GotoReaches
    <3> QED BY <3>2
  <2>7. Calm(t)
    BY <1>0, <2>2, <2>3, <2>4, <2>5, <2>6, CalmToHelper
  <2> QED BY <2>7, CalmKeeps
<1>2. CASE DeliverLoad(t) \/ AdmitLoad(t)
  <2>1. PICK l, m, a, x :
           l \in {"deliver", "admit"} /\ m \in {"deliverTest", "admitTest"} /\ At(t, l) /\ a = <<m>> \o Rest(t) /\ th' = [th EXCEPT ![t].at = a, ![t].old = x]
    <3>1. CASE DeliverLoad(t)
      <4>1. PICK a, x : a = <<"deliverTest">> \o Rest(t) /\ x = prodTail
        OBVIOUS
      <4>2. At(t, "deliver") /\ th' = [th EXCEPT ![t].at = a, ![t].old = x]
        BY <3>1, <4>1 DEF DeliverLoad
      <4> QED BY <4>1, <4>2
    <3>2. CASE AdmitLoad(t)
      <4>1. PICK a, x : a = <<"admitTest">> \o Rest(t) /\ x = Len(log)
        OBVIOUS
      <4>2. At(t, "admit") /\ th' = [th EXCEPT ![t].at = a, ![t].old = x]
        BY <3>2, <4>1 DEF AdmitLoad
      <4> QED BY <4>1, <4>2
    <3> QED BY <1>2, <3>1, <3>2
  <2>2. Still
    BY <1>2 DEF DeliverLoad, AdmitLoad, Still, ring, waiters, hist
  <2>3. l \in HelperLabels /\ l \notin Serving /\ m \in HelperLabels \ Serving
    BY <1>h, <1>s, <2>1
  <2>4. PICK r \in Returns : (Own(th[t]) <=> r = "done") /\ \A k \in HelperLabels : <<k>> \o Rest(t) = <<k, r>>
    BY <1>0, <2>1, <2>3, FromHelper
  <2>5. Awake(t)
    BY <1>0, <2>1, <2>3, FromHelper
  <2>6. Reaches(t, <<m, r>>)
    <3>1. Reaches(t, a) /\ a = <<m, r>>
      BY <1>0, <2>1, <2>3, <2>4, Forms DEF Reaches
    <3> QED BY <3>1
  <2>7. Calm(t)
    BY <1>0, <2>2, <2>3, <2>4, <2>5, <2>6, CalmToHelper
  <2> QED BY <2>7, CalmKeeps
<1>3. CASE DeliverTest(t) \/ AdmitTest(t) \/ HelperMissed(t)
  <2>0. Still
    BY <1>3 DEF DeliverTest, AdmitTest, HelperMissed, Still, ring, waiters, hist
  <2>1. PICK l \in {"deliverTest", "admitTest", "undelivered", "unadmitted"} : At(t, l)
    BY <1>3 DEF DeliverTest, AdmitTest, HelperMissed
  <2>2. l \in HelperLabels /\ l \notin Serving
    BY <1>h, <1>s
  <2>3. PICK r \in Returns : /\ Rest(t) = <<r>> /\ (Own(th[t]) <=> r = "done")
                             /\ \A k \in HelperLabels : <<k>> \o Rest(t) = <<k, r>>
    BY <1>0, <2>1, <2>2, FromHelper
  <2>4. Awake(t)
    BY <1>0, <2>1, <2>2, FromHelper
  <2>5. CASE Goto(t, Rest(t))
    <3>1. PICK a : a = Rest(t) /\ Goto(t, a)
      BY <2>5
    <3>2. Reaches(t, a)
      BY <1>0, <3>1, GotoReaches
    <3>3. Reaches(t, <<r>>)
      BY <2>3, <3>1, <3>2
    <3>4. /\ r \in PlainLabels \ (RingLabels \cup WaitLabels \cup Serving \cup {"sAgain", "rAgain"})
          /\ r \in Fulfilled \cup {"done"} <=> r = "done"
      BY PlainOnes DEF Plain, Returns, Fulfilled
    <3>5. Calm(t)
      BY <1>0, <2>0, <2>3, <2>4, <3>3, <3>4, CalmToPlain
    <3> QED BY <3>5, CalmKeeps
  <2>6. CASE \/ th' = Pop(t, Head(recvq), <<"delivered">> \o Rest(t), <<"undelivered">> \o Rest(t))
             \/ th' = Push(t, Head(sendq), <<"admitted">> \o Rest(t), <<"unadmitted">> \o Rest(t))
    <3>1. PICK w, k, f, ok, fail :
             /\ k \in {"delivered", "admitted"} /\ f \in {"undelivered", "unadmitted"}
             /\ (k = "delivered" <=> f = "undelivered") /\ ok = <<k>> \o Rest(t) /\ fail = <<f>> \o Rest(t)
             /\ th' = Pop(t, w, ok, fail) \/ th' = Push(t, w, ok, fail)
      <4>1. CASE th' = Pop(t, Head(recvq), <<"delivered">> \o Rest(t), <<"undelivered">> \o Rest(t))
        <5>1. PICK w, ok, fail : /\ w = Head(recvq) /\ ok = <<"delivered">> \o Rest(t) /\ fail = <<"undelivered">> \o Rest(t)
                                 /\ th' = Pop(t, w, ok, fail)
          BY <4>1
        <5>2. PICK k, f : k = "delivered" /\ f = "undelivered"
          OBVIOUS
        <5>3. /\ k \in {"delivered", "admitted"} /\ f \in {"undelivered", "unadmitted"}
              /\ ok = <<k>> \o Rest(t) /\ fail = <<f>> \o Rest(t) /\ (k = "delivered" <=> f = "undelivered")
          BY <5>1, <5>2
        <5> QED BY <5>1, <5>3
      <4>2. CASE th' = Push(t, Head(sendq), <<"admitted">> \o Rest(t), <<"unadmitted">> \o Rest(t))
        <5>1. PICK w, ok, fail : /\ w = Head(sendq) /\ ok = <<"admitted">> \o Rest(t) /\ fail = <<"unadmitted">> \o Rest(t)
                                 /\ th' = Push(t, w, ok, fail)
          BY <4>2
        <5>2. PICK k, f : k = "admitted" /\ f = "unadmitted"
          OBVIOUS
        <5>3. /\ k \in {"delivered", "admitted"} /\ f \in {"undelivered", "unadmitted"}
              /\ ok = <<k>> \o Rest(t) /\ fail = <<f>> \o Rest(t) /\ (k = "delivered" <=> f = "undelivered")
          BY <5>1, <5>2
        <5> QED BY <5>1, <5>3
      <4> QED BY <2>6, <4>1, <4>2
    <3>2. ok = <<k, r>> /\ fail = <<f, r>>
      BY <1>h, <2>3, <3>1
    <3>3. PICK p \in {"pushLoad", "popLoad"} :
             Reaches(t, <<p>>) /\ th'[t].w = w /\ th'[t].ok = ok /\ th'[t].fail = fail
      BY <1>0, <3>1, StartReaches
    <3>4. <<ok, fail>> \in Exits
      BY <3>1, <3>2 DEF Exits, Returns
    <3>5. Head(ok) = k /\ k \notin OwnOps \cup {"sAgain", "rAgain"} /\ Head(fail) = f /\ Bottom(fail) = r
      <4>1. k \in HelperLabels /\ f \in HelperLabels
        BY <1>h, <3>1
      <4>2. Head(<<k, r>>) = k /\ Head(<<f, r>>) = f /\ Bottom(<<f, r>>) = r
        BY <4>1, HelperStack
      <4>3. k \notin OwnOps \cup {"sAgain", "rAgain"}
        BY <3>1 DEF OwnOps
      <4> QED BY <3>2, <4>2, <4>3
    <3>6. OwnAt(fail) <=> r = "done"
      BY <3>1, <3>5 DEF OwnAt, Fulfilled
    <3>7. p \in RingLabels \ {"pushCommit", "popCommit"}
      BY DEF RingLabels, PushLabels, PopLabels
    <3>8. Calm(t)
      BY <1>0, <2>0, <2>3, <2>4, <3>3, <3>4, <3>5, <3>6, <3>7, CalmToRing
    <3> QED BY <3>8, CalmKeeps
  <2> QED BY <1>3, <2>5, <2>6 DEF DeliverTest, AdmitTest, HelperMissed
<1>4. CASE HelperServed(t)
  <2>1. PICK l, m : /\ <<l, m>> \in {<<"delivered", "deliver">>, <<"admitted", "admit">>}
                    /\ At(t, l) /\ Goto(t, <<m>> \o Rest(t))
    BY <1>4 DEF HelperServed
  <2>2. PICK w : w = th[t].w
    OBVIOUS
  <2>3. /\ word' = [word EXCEPT ![w] = 1] /\ result' = [result EXCEPT ![w] = "OK"]
        /\ UNCHANGED <<log, consHead, consTail, out, rcvd, accepted, refused, calls>>
    BY <1>4, <2>2 DEF HelperServed, ring, hist
  <2>4. l \in HelperLabels \cap Serving /\ m \in HelperLabels \ Serving /\ l \in HasSender \cup HasReceiver
    BY <1>h, <1>s, <2>1 DEF HasSender, HasReceiver
  <2>5. PICK r \in Returns : (Own(th[t]) <=> r = "done") /\ \A k \in HelperLabels : <<k>> \o Rest(t) = <<k, r>>
    BY <1>0, <2>1, <2>4, FromHelper
  <2>6. Doing(t) = l /\ ~Popping(t) /\ Serves(th[t], w)
    BY <1>0, <2>1, <2>2, <2>4, FromHelper
  <2>7. Reaches(t, <<m, r>>)
    <3>1. PICK a : a = <<m>> \o Rest(t) /\ Goto(t, a)
      BY <2>1
    <3>2. Reaches(t, a) /\ a = <<m, r>>
      BY <1>0, <2>4, <2>5, <3>1, GotoReaches
    <3> QED BY <3>2
  <2>8. Steps(t) /\ Doing(t)' = m
    BY <1>0, <2>4, <2>7, ToHelper DEF Reaches
  <2>9. (Own(th'[t]) <=> r = "done") /\ OwnOp(th'[t], t) /\ \A x : ~Serves(th'[t], x)
    BY <2>4, <2>7, OwnHelper DEF Reaches
  <2>10. ~Popping(t)' /\ m \notin WaitLabels \cup Registered
    <3>1. Head(<<m, r>>) = m /\ m # "popCommit" /\ m \notin WaitLabels \cup Registered
      BY <2>1, <2>4, HelperStack DEF WaitLabels, Registered
    <3> QED BY <2>7, <3>1 DEF Popping, Reaches
  <2>11. Own(th'[t]) <=> Own(th[t])
    BY <2>5, <2>9
  <2> QED BY <2>2, <2>3, <2>4, <2>6, <2>8, <2>9, <2>10, <2>11, TellKeeps
<1>5. CASE UnlockOK(t)
  <2>1. At(t, "done") /\ Return(t, "OK") /\ UNCHANGED <<log, consHead, consTail, word, result>>
    BY <1>5 DEF UnlockOK, ring
  <2> QED BY <1>0, <2>1, ReturnPlain, PlainOnes DEF Plain
<1> QED BY <1>1, <1>2, <1>3, <1>4, <1>5 DEF HelperStep

\* Parking.
LEMMA ParkData ==
    ASSUME Inv, TimedFree, RingTypes, StateTypes, DataInv, NEW t \in Senders \cup Receivers, ParkStep(t)
    PROVE  DataInv'
<1>0. t \in Threads
  BY DEF Threads
<1>1. CASE UnlockPark(t)
  <2>1. At(t, "unlockPark") /\ Goto(t, <<"parked">>) /\ Still
    BY <1>1 DEF UnlockPark, Still, ring, waiters, hist
  <2> QED BY <1>0, <2>1, WaitKeeps
<1>2. CASE Timeout(t)
  <2>1. At(t, "parked") /\ Goto(t, <<"timedOut">>) /\ Still
    BY <1>2 DEF Timeout, Still, ring, waiters, hist
  <2> QED BY <1>0, <2>1, WaitKeeps
<1>3. CASE Woken(t) \/ TimeoutReturn(t)
  <2>1. /\ (At(t, "parked") /\ word[t] = 1) \/ At(t, "timeoutDec")
        /\ Return(t, result[t]) /\ UNCHANGED <<log, consHead, consTail, word, result>>
    BY <1>3 DEF Woken, TimeoutReturn, Deregister, ring
  <2> QED BY <1>0, <2>1, ReturnWaited
<1>4. CASE TimeoutLock(t)
  BY <1>4, TimeoutData
<1> QED BY <1>1, <1>2, <1>3, <1>4 DEF ParkStep

\* chan_close.
LEMMA CloseData ==
    ASSUME Inv, TimedFree, RingTypes, StateTypes, DataInv, NEW c \in Closers,
           CloseLock(c) \/ CloseNext(c) \/ CloseServe(c)
    PROVE  DataInv'
<1>0. FrameInv /\ KindInv /\ c \in Threads /\ c \notin Senders \cup Receivers
  BY ChanBufAssumption DEF Inv, Threads
<1>1. CASE CloseLock(c) /\ closed
  <2>1. At(c, "cLock") /\ Return(c, "CLOSED") /\ UNCHANGED <<log, consHead, consTail, word, result>>
    BY <1>1 DEF CloseLock, ring
  <2> QED BY <1>0, <2>1, ReturnPlain, PlainOnes DEF Plain
<1>2. CASE CloseLock(c) /\ ~closed
  BY <1>2, ClosingData
<1>3. CASE CloseNext(c)
  <2>0. At(c, "cNext") /\ UNCHANGED <<log, consHead, consTail>>
    BY <1>3 DEF CloseNext, ring
  <2>1. CASE Return(c, "OK") /\ UNCHANGED <<word, result>>
    BY <1>0, <2>0, <2>1, ReturnPlain, PlainOnes DEF Plain
  <2>2. CASE th' = Pop(c, Head(recvq), <<"cGiven">>, <<"cRefused">>) /\ UNCHANGED <<waiters, hist>>
    <3>1. Still
      BY <2>0, <2>2 DEF Still, waiters, hist
    <3>2. PICK w, ok, fail : /\ w = Head(recvq) /\ ok = <<"cGiven">> /\ fail = <<"cRefused">>
                             /\ th' = Pop(c, w, ok, fail)
      BY <2>2
    <3>3. PICK p \in {"pushLoad", "popLoad"} :
             Reaches(c, <<p>>) /\ th'[c].w = w /\ th'[c].ok = ok /\ th'[c].fail = fail
      BY <1>0, <3>2, StartReaches
    <3>4. <<ok, fail>> \in Exits /\ Head(ok) = "cGiven" /\ "cGiven" \notin OwnOps /\ ~OwnAt(fail)
      BY <3>2, OwnExits DEF OwnOps
    <3> QED BY <1>0, <2>0, <3>1, <3>3, <3>4, StartData, PlainOnes
  <2> QED BY <1>3, <2>1, <2>2 DEF CloseNext
<1>4. CASE CloseServe(c)
  <2>1. PICK l \in {"cGiven", "cRefused"} : At(c, l)
    BY <1>4 DEF CloseServe
  <2>2. PICK w, res : w = th[c].w /\ res = IF At(c, "cGiven") THEN "OK" ELSE "CLOSED"
    OBVIOUS
  <2>3. /\ word' = [word EXCEPT ![w] = 1] /\ result' = [result EXCEPT ![w] = res] /\ Goto(c, <<"cNext">>)
        /\ UNCHANGED <<log, consHead, consTail, out, rcvd, accepted, refused, calls>>
    BY <1>4, <2>2 DEF CloseServe, ring, hist
  <2>4. /\ l \in PlainLabels \ RingLabels /\ l \in HasReceiver /\ l \notin Fulfilled \cup {"done"}
        /\ l \in Serving <=> l = "cGiven"
    BY CallLabels DEF HasReceiver, Fulfilled, Serving
  <2>5. /\ Doing(c) = l /\ ~Popping(c) /\ ~Own(th[c]) /\ (Serves(th[c], w) <=> l = "cGiven")
    BY <1>0, <2>1, <2>2, <2>4, FromPlain
  <2>6. res = "OK" <=> Serves(th[c], w)
    BY <2>1, <2>2, <2>5 DEF At
  <2>7. Reaches(c, <<"cNext">>)
    BY <1>0, <2>3, GotoReaches
  <2>8. Steps(c) /\ Doing(c)' = "cNext"
    BY <1>0, <2>7, CallLabels, ToPlain DEF Reaches
  <2>9. "cNext" \notin Serving \cup Fulfilled \cup WaitLabels \cup Registered \cup {"done"}
    BY DEF Serving, Fulfilled, WaitLabels, Registered
  <2>10. ~Own(th'[c]) /\ OwnOp(th'[c], c) /\ \A x : ~Serves(th'[c], x)
    BY <2>7, <2>9, CallLabels, OwnPlain DEF Reaches
  <2>11. ~Popping(c)'
    BY <2>7, CallLabels, PlainStack DEF Popping, Reaches
  <2>12. /\ Doing(c) \in HasSender \cup HasReceiver /\ Doing(c)' \notin WaitLabels \cup Registered
         /\ Own(th'[c]) <=> Own(th[c])
    BY <2>4, <2>5, <2>8, <2>9, <2>10
  <2>13. w = th[c].w /\ ~Popping(c)
    BY <2>2, <2>5
  <2> QED BY <1>0, <2>3, <2>6, <2>8, <2>10, <2>11, <2>12, <2>13, TellKeeps
<1> QED BY <1>1, <1>2, <1>3, <1>4

\* Every step keeps every message in one place.
LEMMA DataKeeps ==
    ASSUME Inv, TimedFree, RingTypes, StateTypes, DataInv, [Next]_vars
    PROVE  DataInv'
<1>0. FrameInv /\ KindInv
  BY DEF Inv
<1>1. ASSUME NEW s \in Senders, CallSend(s) \/ SendStep(s) PROVE DataInv'
  <2>0. s \in Threads
    BY DEF Threads
  <2>1. CASE CallSend(s)
    <3>1. PICK m \in SendModes : Enter(s, m, IF m = "burst" THEN <<"bSend">> ELSE <<"sClosed">>)
      BY <2>1 DEF CallSend
    <3>2. CASE m = "burst"
      BY <1>0, <2>0, <3>1, <3>2, EnterData
    <3>3. CASE m # "burst"
      BY <1>0, <2>0, <3>1, <3>3, EnterData
    <3> QED BY <3>2, <3>3
  <2>2. CASE \/ SendClosed(s) \/ SendSendCnt(s) \/ SendRecvCnt(s) \/ SendPushed(s)
             \/ SendLock(s) \/ SendPark(s) \/ SendAgain(s) \/ SendBurst(s)
    BY <2>2, SendData
  <2>3. CASE BurstNone(s) \/ RingStep(s) \/ HelperStep(s)
    BY <2>0, <2>3, BurstData, RingData, HelperData
  <2>4. CASE ParkStep(s)
    BY <2>4, ParkData
  <2> QED BY <1>1, <2>1, <2>2, <2>3, <2>4 DEF SendStep
<1>2. ASSUME NEW r \in Receivers, CallRecv(r) \/ RecvStep(r) PROVE DataInv'
  <2>0. r \in Threads
    BY DEF Threads
  <2>1. CASE CallRecv(r)
    <3>1. PICK m \in RecvModes : Enter(r, m, IF m = "burst" THEN <<"bRecv">> ELSE <<"rSendCnt">>)
      BY <2>1 DEF CallRecv
    <3>2. CASE m = "burst"
      BY <1>0, <2>0, <3>1, <3>2, EnterData
    <3>3. CASE m # "burst"
      BY <1>0, <2>0, <3>1, <3>3, EnterData
    <3> QED BY <3>2, <3>3
  <2>2. CASE \/ RecvSendCnt(r) \/ RecvRecvCnt(r) \/ RecvEmpty(r) \/ RecvPopped(r) \/ RecvLock(r)
             \/ RecvHelp(r) \/ RecvHelpFailed(r) \/ RecvPark(r) \/ RecvAgain(r) \/ RecvBurst(r)
    BY <2>2, RecvData
  <2>3. CASE RecvHelped(r) \/ RecvWake(r) \/ RecvMeet(r)
    BY <2>3, HelpedData, WakeData, MeetData
  <2>4. CASE BurstNone(r) \/ RingStep(r) \/ HelperStep(r)
    BY <2>0, <2>4, BurstData, RingData, HelperData
  <2>5. CASE ParkStep(r)
    BY <2>5, ParkData
  <2> QED BY <1>2, <2>1, <2>2, <2>3, <2>4, <2>5 DEF RecvStep
<1>3. ASSUME NEW c \in Closers, CallClose(c) \/ CloseStep(c) PROVE DataInv'
  <2>0. c \in Threads
    BY DEF Threads
  <2>1. CASE CallClose(c)
    BY <1>0, <2>0, <2>1, EnterData DEF CallClose
  <2>2. CASE CloseLock(c) \/ CloseNext(c) \/ CloseServe(c)
    BY <2>2, CloseData
  <2>3. CASE RingStep(c)
    BY <2>0, <2>3, RingData
  <2> QED BY <1>3, <2>1, <2>2, <2>3 DEF CloseStep
<1>4. CASE UNCHANGED vars
  <2>1. UNCHANGED <<log, consHead, consTail, th, word, result, out, calls, accepted, refused, rcvd>>
    BY <1>4 DEF vars, ring, waiters, hist
  <2>2. \A x : Has(x)' <=> Has(x)
    BY <2>1 DEF Has, Told, Served, Doing, InRing
  <2>3. \A x : (AtRecv(x)' <=> AtRecv(x)) /\ (Given(x)' <=> Given(x))
    BY <2>1 DEF AtRecv, Given
  <2>4. PlaceInv'
    BY <2>1, <2>3 DEF DataInv, PlaceInv, Popping
  <2>5. RecvInv' /\ OwnInv' /\ GotInv'
    BY <2>1, <2>2 DEF DataInv, RecvInv, OwnInv, GotInv, Doing, InRing
  <2>6. MovedInv' /\ ResultInv'
    BY <2>1, <2>2, <2>3 DEF DataInv, MovedInv, ResultInv, Doing, InRing, Msg
  <2> QED BY <2>4, <2>5, <2>6 DEF DataInv
<1> QED BY <1>1, <1>2, <1>3, <1>4 DEF Next

\* At the start there is no message.
LEMMA InitData ==
    ASSUME Init
    PROVE  DataInv
<1>1. /\ log = << >> /\ consHead = 0 /\ consTail = 0 /\ out = [r \in Receivers |-> NoMsg]
      /\ rcvd = [r \in Receivers |-> << >>] /\ accepted = {} /\ refused = {} /\ calls = [t \in Threads |-> 0]
  BY DEF Init
<1>2. \A t \in Threads : th[t].at = <<"idle">>
  BY DEF Init, Idle
<1>3. Head(<<"idle">>) = "idle" /\ "idle" \in PlainLabels \ RingLabels /\ "idle" \notin Fulfilled \cup {"done"}
  BY CallLabels, PlainStack DEF Fulfilled
<1>4. \A t \in Threads : /\ Doing(t) = "idle" /\ ~Popping(t) /\ ~Own(th[t]) /\ OwnOp(th[t], t)
  BY <1>2, <1>3, OwnPlain DEF Doing, InRing, Popping
<1>5. \A t \in Threads : ~Has(t)
  BY <1>4 DEF Has, WaitLabels
<1>6. \A r \in Receivers : r \in Threads /\ out[r] = NoMsg /\ rcvd[r] = << >> /\ Len(rcvd[r]) = 0 /\ calls[r] = 0
  BY <1>1 DEF Threads
<1>7. NoMsg \notin Messages /\ Len(log) = 0
  BY <1>1, ChanBufAssumption DEF NoMsg, Messages, Threads
<1>8. \A m \in Messages : ~Given(m)
  BY <1>6, <1>7 DEF Given, AtRecv
<1>9. PlaceInv
  BY <1>1, <1>4, <1>7 DEF PlaceInv
<1>10. RecvInv /\ GotInv /\ OwnInv /\ ResultInv
  <2>1. RecvInv
    BY <1>4, <1>6 DEF RecvInv
  <2>2. GotInv /\ OwnInv
    BY <1>4, <1>5, <1>6 DEF GotInv, OwnInv
  <2>3. ResultInv
    BY <1>4 DEF ResultInv, Registered
  <2> QED BY <2>1, <2>2, <2>3
<1>11. MovedInv
  <2>1. \A s \in Senders : \A n \in 1..MaxCalls : <<s, n>> \in Messages
    BY DEF Messages
  <2> QED BY <1>1, <1>4, <1>8, <2>1 DEF MovedInv, Threads
<1> QED BY <1>9, <1>10, <1>11 DEF DataInv

\* The four places of a message.
Slots(m) == {i \in (consHead + 1)..Len(log) : log[i] = m}
Pops(m) == {t \in Threads : At(t, "popCommit") /\ log[th[t].old + 1] = m}
Bufs(m) == {r \in Receivers : out[r] = m}
Gots(m) == {x \in Receivers \X (1..(2 * MaxCalls)) :
               x[2] <= Len(rcvd[x[1]]) /\ rcvd[x[1]][x[2]] = m}

\* A message a receiver has is in one buffer or was returned by one receive.
LEMMA AtOneReceiver ==
    ASSUME KindInv, StateTypes, RecvInv, NEW m \in Messages
    PROVE  \/ AtRecv(m) /\ Gots(m) = {} /\ \E r : Bufs(m) = {r}
           \/ AtRecv(m) /\ Bufs(m) = {} /\ \E x : Gots(m) = {x}
           \/ ~AtRecv(m) /\ Bufs(m) = {} /\ Gots(m) = {}
<1>0. m # NoMsg
  BY ChanBufAssumption DEF NoMsg, Messages, Threads
<1>1. \A r \in Receivers : rcvd[r] \in Seq(Messages \cup {NoMsg}) /\ Len(rcvd[r]) \in Nat
  BY DEF StateTypes
<1>2. ASSUME NEW r \in Receivers PROVE Len(rcvd[r]) \in 0..(2 * MaxCalls)
  <2>1. r \in Threads /\ calls[r] \in 0..MaxCalls /\ Len(rcvd[r]) <= calls[r] /\ MaxCalls \in Nat
    BY ChanBufAssumption DEF KindInv, RecvInv, Threads
  <2> QED BY <1>1, <2>1
<1>3. ASSUME NEW x \in Gots(m)
      PROVE  /\ x[1] \in Receivers /\ x[2] \in 1..Len(rcvd[x[1]]) /\ rcvd[x[1]][x[2]] = m
             /\ x = <<x[1], x[2]>>
  <2>1. x \in Receivers \X (1..(2 * MaxCalls)) /\ x[2] <= Len(rcvd[x[1]]) /\ rcvd[x[1]][x[2]] = m
    BY DEF Gots
  <2>2. x[1] \in Receivers /\ x[2] \in 1..(2 * MaxCalls) /\ x = <<x[1], x[2]>>
    BY <2>1
  <2>3. x[2] \in 1..Len(rcvd[x[1]])
    BY <1>1, <2>1, <2>2, ChanBufAssumption
  <2> QED BY <2>1, <2>2, <2>3
<1>4. CASE \E r \in Receivers : out[r] = m
  <2>1. PICK r \in Receivers : out[r] = m
    BY <1>4
  <2>2. Bufs(m) = {r}
    BY <1>0, <2>1 DEF Bufs, RecvInv
  <2>3. Gots(m) = {}
    BY <1>3, <2>1 DEF RecvInv
  <2>4. AtRecv(m)
    BY <2>1 DEF AtRecv
  <2> QED BY <2>2, <2>3, <2>4
<1>5. CASE /\ \A r \in Receivers : out[r] # m
           /\ \E r \in Receivers : \E i \in 1..Len(rcvd[r]) : rcvd[r][i] = m
  <2>1. PICK r \in Receivers : \E i \in 1..Len(rcvd[r]) : rcvd[r][i] = m
    BY <1>5
  <2>2. PICK i \in 1..Len(rcvd[r]) : rcvd[r][i] = m
    BY <2>1
  <2>3. PICK z : z = <<r, i>>
    OBVIOUS
  <2>4. z \in Gots(m)
    <3>1. i \in 1..(2 * MaxCalls) /\ i <= Len(rcvd[r])
      BY <1>2, <2>2, ChanBufAssumption
    <3>2. z[1] = r /\ z[2] = i /\ z \in Receivers \X (1..(2 * MaxCalls))
      BY <2>3, <3>1
    <3> QED BY <2>2, <3>1, <3>2 DEF Gots
  <2>5. ASSUME NEW x \in Gots(m) PROVE x = z
    <3>1. PICK q, j : q = x[1] /\ j = x[2]
      OBVIOUS
    <3>2. q \in Receivers /\ j \in 1..Len(rcvd[q]) /\ rcvd[q][j] = m /\ x = <<q, j>>
      BY <1>3, <2>5, <3>1
    <3>3. q = r /\ j = i
      BY <2>2, <3>2 DEF RecvInv
    <3> QED BY <2>3, <3>2, <3>3
  <2>6. Gots(m) = {z}
    BY <2>4, <2>5
  <2>7. AtRecv(m) /\ Bufs(m) = {}
    BY <1>5 DEF AtRecv, Bufs
  <2> QED BY <2>6, <2>7
<1>6. CASE /\ \A r \in Receivers : out[r] # m
           /\ \A r \in Receivers : \A i \in 1..Len(rcvd[r]) : rcvd[r][i] # m
  <2>1. ~AtRecv(m) /\ Bufs(m) = {}
    BY <1>6 DEF AtRecv, Bufs
  <2>2. Gots(m) = {}
    BY <1>3, <1>6
  <2> QED BY <2>1, <2>2
<1> QED BY <1>4, <1>5, <1>6

\* A message that was pushed and that no receiver has is in one slot or in
\* the hand of one pop.
LEMMA InOneSlot ==
    ASSUME RingTypes, PlaceInv, NEW m \in Messages
    PROVE  \/ Given(m) /\ ~AtRecv(m) /\ Pops(m) = {} /\ \E i : Slots(m) = {i}
           \/ Given(m) /\ ~AtRecv(m) /\ Slots(m) = {} /\ \E t : Pops(m) = {t}
           \/ (Given(m) <=> AtRecv(m)) /\ Slots(m) = {} /\ Pops(m) = {}
<1>1. /\ Len(log) \in Nat /\ consHead \in Nat /\ consTail \in Nat /\ consTail <= consHead /\ consHead <= Len(log)
      /\ \A t \in Threads : th[t].old \in Nat
  BY DEF RingTypes, PlaceInv, LocalType
<1>2. ASSUME NEW t \in Pops(m)
      PROVE  /\ t \in Threads /\ Popping(t) /\ log[th[t].old + 1] = m
             /\ th[t].old + 1 \in (consTail + 1)..consHead /\ th[t].old + 1 \in 1..Len(log)
  <2>1. t \in Threads /\ Popping(t) /\ log[th[t].old + 1] = m
    BY DEF Pops, Popping, At
  <2>2. consTail <= th[t].old /\ th[t].old < consHead
    BY <2>1 DEF RingTypes, LocalType, PlaceInv, Popping
  <2> QED BY <1>1, <2>1, <2>2
<1>3. ASSUME NEW i \in Slots(m) PROVE i \in 1..Len(log) /\ log[i] = m /\ consHead < i
  BY <1>1 DEF Slots
<1>4. CASE \E i \in 1..Len(log) : log[i] = m
  <2>1. PICK i \in 1..Len(log) : log[i] = m
    BY <1>4
  <2>2. \A j \in 1..Len(log) : log[j] = m => j = i
    BY <2>1 DEF PlaceInv
  <2>3. Given(m) /\ (AtRecv(m) <=> i <= consTail)
    BY <2>1 DEF Given, PlaceInv
  <2>4. CASE consHead < i
    <3>1. Slots(m) = {i}
      <4>1. i \in Slots(m)
        BY <1>1, <2>1, <2>4 DEF Slots
      <4> QED BY <1>3, <2>2, <4>1
    <3>2. Pops(m) = {}
      BY <1>1, <1>2, <2>2, <2>4
    <3>3. ~AtRecv(m)
      <4>1. ~(i <= consTail)
        BY <1>1, <2>1, <2>4
      <4> QED BY <2>3, <4>1
    <3> QED BY <2>3, <3>1, <3>2, <3>3
  <2>5. CASE consTail < i /\ i <= consHead
    <3>1. i \in (consTail + 1)..consHead
      BY <1>1, <2>5
    <3>2. PICK t \in Threads : Popping(t) /\ th[t].old = i - 1
      BY <3>1 DEF PlaceInv
    <3>3. t \in Pops(m)
      <4>1. th[t].old + 1 = i
        BY <3>2
      <4> QED BY <2>1, <3>2, <4>1 DEF Pops, Popping, At
    <3>4. ASSUME NEW u \in Pops(m) PROVE u = t
      <4>1. u \in Threads /\ Popping(u) /\ th[u].old + 1 = i
        BY <1>2, <2>2, <3>4
      <4>2. th[u].old = th[t].old
        BY <1>1, <3>2, <4>1
      <4> QED BY <3>2, <4>1, <4>2 DEF PlaceInv
    <3>5. Pops(m) = {t}
      BY <3>3, <3>4
    <3>6. Slots(m) = {}
      BY <1>1, <1>3, <2>2, <2>5
    <3>7. ~AtRecv(m)
      <4>1. ~(i <= consTail)
        BY <1>1, <2>1, <2>5
      <4> QED BY <2>3, <4>1
    <3> QED BY <2>3, <3>5, <3>6, <3>7
  <2>6. CASE i <= consTail
    <3>1. Slots(m) = {}
      BY <1>1, <1>3, <2>2, <2>6
    <3>2. Pops(m) = {}
      BY <1>1, <1>2, <2>2, <2>6
    <3> QED BY <2>3, <2>6, <3>1, <3>2
  <2>7. consHead < i \/ (consTail < i /\ i <= consHead) \/ i <= consTail
    BY <1>1, <2>1
  <2> QED BY <2>4, <2>5, <2>6, <2>7
<1>5. CASE ~ \E i \in 1..Len(log) : log[i] = m
  <2>1. Slots(m) = {} /\ Pops(m) = {}
    BY <1>2, <1>3, <1>5
  <2> QED BY <1>5, <2>1 DEF Given
<1> QED BY <1>4, <1>5

\* A message that has moved is in exactly one of the four places, and one
\* that has not is in none.
LEMMA OneCopy ==
    ASSUME KindInv, RingTypes, StateTypes, DataInv, NEW m \in Messages
    PROVE  Copies(m) = IF Given(m) THEN 1 ELSE 0
<1>1. Copies(m) = Cardinality(Slots(m)) + Cardinality(Pops(m)) + Cardinality(Bufs(m)) + Cardinality(Gots(m))
  BY DEF Copies, Slots, Pops, Bufs, Gots
<1>2. Cardinality({}) = 0 /\ \A x : Cardinality({x}) = 1
  BY FS_EmptySet, FS_Singleton
<1>3. \/ AtRecv(m) /\ Cardinality(Gots(m)) = 0 /\ Cardinality(Bufs(m)) = 1
      \/ AtRecv(m) /\ Cardinality(Bufs(m)) = 0 /\ Cardinality(Gots(m)) = 1
      \/ ~AtRecv(m) /\ Cardinality(Bufs(m)) = 0 /\ Cardinality(Gots(m)) = 0
  BY <1>2, AtOneReceiver DEF DataInv
<1>4. \/ Given(m) /\ ~AtRecv(m) /\ Cardinality(Pops(m)) = 0 /\ Cardinality(Slots(m)) = 1
      \/ Given(m) /\ ~AtRecv(m) /\ Cardinality(Slots(m)) = 0 /\ Cardinality(Pops(m)) = 1
      \/ (Given(m) <=> AtRecv(m)) /\ Cardinality(Slots(m)) = 0 /\ Cardinality(Pops(m)) = 0
  BY <1>2, InOneSlot DEF DataInv
<1>5. Given(m) \in BOOLEAN /\ AtRecv(m) \in BOOLEAN
  BY DEF Given, AtRecv
<1> QED BY <1>1, <1>3, <1>4, <1>5

\* With no timed senders the messages' places are kept along every behaviour.
LEMMA PlacesHold ==
    ASSUME "timed" \notin SendModes
    PROVE  Spec => []DataInv
<1>1. Init => DataInv
  BY InitData
<1>2. Inv /\ RingTypes /\ StateTypes /\ DataInv /\ [Next]_vars => DataInv'
  BY DataKeeps DEF TimedFree
<1> QED BY <1>1, <1>2, BufferedInvariant, TypesHold, PTL DEF Spec

\* Exactly once, without timed sends: a message whose send returned OK exists
\* exactly once, in the ring, in a pop's hand, in a receiver's buffer or
\* returned by one receive; one whose send was refused exists nowhere; no
\* message is ever there twice, although a helper, a closer or a receiver may
\* move it for its owner; and no receive returns OK without a message.
THEOREM MessagesOnce ==
    ASSUME "timed" \notin SendModes
    PROVE  Spec => []ExactlyOnce
<1>1. KindInv /\ RingTypes /\ StateTypes /\ DataInv => ExactlyOnce
  <2>1. SUFFICES ASSUME KindInv, RingTypes, StateTypes, DataInv PROVE ExactlyOnce
    OBVIOUS
  <2>2. ASSUME NEW m \in Messages
        PROVE Copies(m) <= 1 /\ (m \in accepted => Copies(m) = 1) /\ (m \in refused => Copies(m) = 0)
    <3>1. Copies(m) = IF Given(m) THEN 1 ELSE 0
      BY <2>1, OneCopy
    <3>2. (m \in accepted => Given(m)) /\ (m \in refused => ~Given(m))
      BY <2>1 DEF DataInv, MovedInv
    <3> QED BY <3>1, <3>2
  <2>3. ASSUME NEW r \in Receivers, NEW i \in DOMAIN rcvd[r] PROVE rcvd[r][i] # NoMsg
    <3>1. i \in 1..Len(rcvd[r])
      BY <2>1 DEF StateTypes
    <3> QED BY <2>1, <3>1 DEF DataInv, RecvInv
  <2> QED BY <2>2, <2>3 DEF ExactlyOnce
<1>2. Inv => KindInv
  BY DEF Inv
<1> QED BY <1>1, <1>2, BufferedInvariant, TypesHold, PlacesHold, PTL

------------------------------------------------------------------------------
(* The order of each sender's messages, from the ring to a receiver.        *)

Earlier(x, y) == x[1] = y[1] => x[2] < y[2]

\* Receiver r has message m.
HasGot(r, m) == out[r] = m \/ \E k \in 1..Len(rcvd[r]) : rcvd[r][k] = m

\* In the ring, between the ring and the receivers, between a pop and the
\* receiver it is for, and at a receiver.
SlotOrder == \A i, j \in 1..Len(log) : i < j => Earlier(log[i], log[j])
AheadOrder == \A i \in (consHead + 1)..Len(log) : \A m \in Messages : AtRecv(m) => Earlier(m, log[i])
PopOrder ==
    \A t \in Threads : Popping(t) => \A m \in Messages : HasGot(th[t].w, m) => Earlier(m, log[th[t].old + 1])
OutOrder == \A r \in Receivers : out[r] # NoMsg => \A k \in 1..Len(rcvd[r]) : Earlier(rcvd[r][k], out[r])
GotOrder == \A r \in Receivers : \A i, j \in 1..Len(rcvd[r]) : i < j => Earlier(rcvd[r][i], rcvd[r][j])

\* A slot that is not committed yet belongs to a push in progress.
CommitInv ==
    \A i \in (prodTail + 1)..Len(log) :
        \E u \in Threads : Head(th[u].at) = "pushCommit" /\ th[u].old = i - 1 /\ log[i][1] = th[u].w

\* A receiver that found the ring empty under the lock will not overtake, with
\* a queued sender's message, one that this sender has in the ring.
MeetInv ==
    \A r \in Receivers : Head(th[r].at) = "rMeet" =>
        \A s \in Elems(sendq) : \A i \in (consHead + 1)..Len(log) : log[i][1] # s

OrderInv == SlotOrder /\ AheadOrder /\ PopOrder /\ OutOrder /\ GotOrder /\ CommitInv /\ MeetInv

\* A step of t that moves nothing within the ring, and queues a sender only
\* under the lock.
Passes(t) ==
    /\ \A u \in Threads : u # t => th'[u] = th[u]
    /\ Head(th[t].at) # "pushCommit" /\ Head(th'[t].at) # "popCommit"
    /\ t \in Receivers => Head(th'[t].at) # "rMeet"
    /\ UNCHANGED <<log, prodTail, consHead>>
    /\ Elems(sendq') \subseteq Elems(sendq) \/ lock = t

\* Such a step keeps what the ring owes.
LEMMA RingOrder ==
    ASSUME FrameInv, SlotOrder, CommitInv, MeetInv, NEW t \in Threads, Passes(t)
    PROVE  SlotOrder' /\ CommitInv' /\ MeetInv'
<1>1. SlotOrder'
  BY DEF SlotOrder, Passes
<1>2. CommitInv'
  BY DEF CommitInv, Passes
<1>3. ASSUME NEW r \in Receivers, Head(th'[r].at) = "rMeet",
             NEW s \in Elems(sendq'), NEW i \in (consHead + 1)..Len(log)
      PROVE  log[i][1] # s
  <2>1. r \in Threads /\ r # t /\ Head(th[r].at) = "rMeet"
    BY <1>3 DEF Threads, Passes
  <2>2. lock = r
    <3>1. Doing(r) = "rMeet"
      BY <2>1, CallLabels, DoingFacts DEF At
    <3> QED BY <2>1, <3>1 DEF FrameInv, Locking
  <2>3. s \in Elems(sendq)
    BY <1>3, <2>1, <2>2 DEF Passes
  <2> QED BY <1>3, <2>1, <2>3 DEF MeetInv
<1>4. MeetInv'
  BY <1>3 DEF MeetInv, Passes
<1> QED BY <1>1, <1>2, <1>4

\* A step that passes and moves no message.
LEMMA PassOrder ==
    ASSUME FrameInv, OrderInv, NEW t \in Threads, Passes(t), UNCHANGED <<out, rcvd>>
    PROVE  OrderInv'
<1>1. SlotOrder' /\ CommitInv' /\ MeetInv'
  BY RingOrder DEF OrderInv
<1>2. \A m : (AtRecv(m)' <=> AtRecv(m)) /\ \A r : HasGot(r, m)' <=> HasGot(r, m)
  BY DEF AtRecv, HasGot
<1>3. AheadOrder'
  BY <1>2 DEF AheadOrder, OrderInv, Passes
<1>4. PopOrder'
  <2>1. ASSUME NEW u \in Threads, Popping(u)', NEW m \in Messages, HasGot(th[u].w, m)'
        PROVE  Earlier(m, log[th'[u].old + 1])
    <3>1. u # t /\ th'[u] = th[u]
      BY <2>1 DEF Passes, Popping
    <3>2. PICK w : w = th[u].w /\ w = th'[u].w
      BY <3>1
    <3>3. HasGot(w, m)
      BY <1>2, <2>1, <3>2 DEF HasGot
    <3> QED BY <2>1, <3>1, <3>2, <3>3 DEF PopOrder, OrderInv, Popping
  <2>2. log' = log
    BY DEF Passes
  <2> QED BY <2>1, <2>2 DEF PopOrder
<1>5. OutOrder' /\ GotOrder'
  BY DEF OutOrder, GotOrder, OrderInv
<1> QED BY <1>1, <1>3, <1>4, <1>5 DEF OrderInv

\* What a receiver has is at a receiver.
LEMMA HasGotFacts ==
    ASSUME NEW m
    PROVE  AtRecv(m) <=> \E r \in Receivers : HasGot(r, m)
BY DEF AtRecv, HasGot

\* A pop is for a receiver.
LEMMA PopsFor ==
    ASSUME KindInv, NEW u \in Threads, Popping(u)
    PROVE  th[u].w \in Receivers
BY DEF KindInv, HandOf, Popping, PopLabels

\* A step that passes and gives no message to a receiver.
LEMMA HoldOrder ==
    ASSUME FrameInv, KindInv, OrderInv, NEW t \in Threads, Passes(t),
           \A m \in Messages : \A r \in Receivers : HasGot(r, m)' => HasGot(r, m)
    PROVE  SlotOrder' /\ CommitInv' /\ MeetInv' /\ AheadOrder' /\ PopOrder'
<1>1. SlotOrder' /\ CommitInv' /\ MeetInv'
  BY RingOrder DEF OrderInv
<1>2. ASSUME NEW m \in Messages, AtRecv(m)' PROVE AtRecv(m)
  <2>1. PICK r \in Receivers : HasGot(r, m)'
    BY <1>2 DEF AtRecv, HasGot
  <2> QED BY <2>1, HasGotFacts
<1>3. AheadOrder'
  BY <1>2 DEF AheadOrder, OrderInv, Passes
<1>4. PopOrder'
  <2>1. ASSUME NEW u \in Threads, Popping(u)', NEW m \in Messages, HasGot(th[u].w, m)'
        PROVE  Earlier(m, log[th'[u].old + 1])
    <3>1. u # t /\ th'[u] = th[u]
      BY <2>1 DEF Passes, Popping
    <3>2. PICK w : w = th[u].w /\ w = th'[u].w
      BY <3>1
    <3>3. Popping(u) /\ w \in Receivers
      BY <2>1, <3>1, <3>2, PopsFor DEF Popping
    <3>4. HasGot(w, m)'
      BY <2>1, <3>2 DEF HasGot
    <3>5. HasGot(w, m)
      BY <3>3, <3>4
    <3> QED BY <2>1, <3>1, <3>2, <3>3, <3>5 DEF PopOrder, OrderInv
  <2>2. log' = log
    BY DEF Passes
  <2> QED BY <2>1, <2>2 DEF PopOrder
<1> QED BY <1>1, <1>3, <1>4

\* A return: what was in the buffer comes after what was returned before.
LEMMA ReturnOrder ==
    ASSUME FrameInv, KindInv, StateTypes, RecvInv', OrderInv, NEW t \in Threads, NEW res, Return(t, res),
           Head(th[t].at) # "pushCommit", UNCHANGED <<log, prodTail, consHead>>,
           Elems(sendq') \subseteq Elems(sendq) \/ lock = t
    PROVE  OrderInv'
<1>1. Passes(t)
  <2>1. /\ \A u \in Threads : u # t => th'[u] = th[u]
        /\ th'[t] = Idle
    BY DEF FrameInv, Return
  <2>2. Head(th'[t].at) = "idle"
    BY <2>1 DEF Idle
  <2> QED BY <2>1, <2>2 DEF Passes
<1>2. CASE ~(t \in Receivers /\ res = "OK")
  <2>1. UNCHANGED <<out, rcvd>>
    BY <1>2 DEF Return
  <2> QED BY <1>1, <2>1, PassOrder
<1>3. CASE t \in Receivers /\ res = "OK"
  <2>1. PICK o, q : o = out[t] /\ q = rcvd[t]
    OBVIOUS
  <2>2. /\ out' = [out EXCEPT ![t] = NoMsg] /\ rcvd' = [rcvd EXCEPT ![t] = Append(q, o)]
    BY <1>3, <2>1 DEF Return
  <2>3. /\ o \in Messages \cup {NoMsg} /\ q \in Seq(Messages \cup {NoMsg}) /\ Len(q) \in Nat
        /\ out'[t] = NoMsg /\ rcvd'[t] = Append(q, o)
        /\ \A r \in Receivers : r # t => out'[r] = out[r] /\ rcvd'[r] = rcvd[r]
    BY <1>3, <2>1, <2>2 DEF StateTypes
  <2>4. /\ Len(rcvd'[t]) = Len(q) + 1 /\ rcvd'[t][Len(q) + 1] = o
        /\ \A k \in 1..Len(q) : rcvd'[t][k] = q[k]
    BY <2>3
  <2>5. o # NoMsg
    <3>1. Len(q) + 1 \in 1..Len(rcvd'[t])
      BY <2>3, <2>4
    <3> QED BY <1>3, <2>4, <3>1 DEF RecvInv
  <2>6. ASSUME NEW m \in Messages, NEW r \in Receivers, HasGot(r, m)' PROVE HasGot(r, m)
    <3>0. m # NoMsg
      BY ChanBufAssumption DEF NoMsg, Messages, Threads
    <3>1. CASE r # t
      BY <2>3, <2>6, <3>1 DEF HasGot
    <3>2. CASE r = t
      <4>1. PICK k \in 1..Len(rcvd'[t]) : rcvd'[t][k] = m
        BY <2>3, <2>6, <3>0, <3>2 DEF HasGot
      <4>2. CASE k \in 1..Len(q)
        BY <2>1, <2>4, <3>2, <4>1, <4>2 DEF HasGot
      <4>3. CASE k = Len(q) + 1
        BY <2>1, <2>4, <3>2, <4>1, <4>3 DEF HasGot
      <4> QED BY <2>3, <2>4, <4>1, <4>2, <4>3
    <3> QED BY <3>1, <3>2
  <2>7. SlotOrder' /\ CommitInv' /\ MeetInv' /\ AheadOrder' /\ PopOrder'
    BY <1>1, <2>6, HoldOrder
  <2>8. OutOrder'
    BY <2>3 DEF OutOrder, OrderInv
  <2>9. GotOrder'
    <3>1. ASSUME NEW r \in Receivers, r # t, NEW i \in 1..Len(rcvd'[r]), NEW j \in 1..Len(rcvd'[r]), i < j
          PROVE  Earlier(rcvd'[r][i], rcvd'[r][j])
      BY <2>3, <3>1 DEF GotOrder, OrderInv
    <3>2. ASSUME NEW i \in 1..Len(rcvd'[t]), NEW j \in 1..Len(rcvd'[t]), i < j
          PROVE  Earlier(rcvd'[t][i], rcvd'[t][j])
      <4>1. i \in 1..Len(q) /\ rcvd'[t][i] = q[i]
        BY <2>3, <2>4, <3>2
      <4>2. CASE j \in 1..Len(q)
        <5>1. rcvd'[t][j] = q[j] /\ Earlier(q[i], q[j])
          BY <1>3, <2>1, <2>4, <3>2, <4>1, <4>2 DEF GotOrder, OrderInv
        <5> QED BY <4>1, <5>1
      <4>3. CASE j = Len(q) + 1
        <5>1. rcvd'[t][j] = o /\ Earlier(q[i], o)
          BY <1>3, <2>1, <2>4, <2>5, <4>1, <4>3 DEF OutOrder, OrderInv
        <5> QED BY <4>1, <5>1
      <4> QED BY <2>3, <2>4, <3>2, <4>2, <4>3
    <3> QED BY <3>1, <3>2 DEF GotOrder, Earlier
  <2> QED BY <2>7, <2>8, <2>9 DEF OrderInv
<1> QED BY <1>2, <1>3

\* Who pushes the message of a queued sender holds the lock.
LEMMA QueuedPush ==
    ASSUME Inv, TimedFree, OwnInv, NEW u \in Threads, Head(th[u].at) \in PushLabels, th[u].w \in Elems(sendq)
    PROVE  lock = u
<1>0. FrameInv /\ SendOnce
  BY DEF Inv
<1>1. /\ Head(th[u].at) \in RingLabels /\ Doing(u) = Head(th[u].ok) /\ <<th[u].ok, th[u].fail>> \in Exits
  BY <1>0 DEF RingLabels, FrameInv, InRing, Doing
<1>2. CASE Head(th[u].ok) \in OwnOps
  <2>1. th[u].w = u
    BY <1>1, <1>2 DEF OwnInv, OwnOp
  <2>2. Doing(u) \in Registered \ {"timeoutDec"}
    BY <1>0, <2>1 DEF SendOnce, Once
  <2>3. Doing(u) \in Locking
    BY <1>1, <1>2, <2>2 DEF Registered, OwnOps, Locking
  <2> QED BY <1>0, <2>3 DEF FrameInv
<1>3. CASE Head(th[u].ok) \notin OwnOps
  <2>1. Doing(u) \in HasSender \cup HasReceiver
    BY <1>1, <1>3, ExitOwn
  <2>2. Doing(u) \in Locking
    BY <2>1 DEF HasSender, HasReceiver, Locking
  <2> QED BY <1>0, <2>2 DEF FrameInv
<1> QED BY <1>2, <1>3

\* A receiver at the rendezvous holds the lock.
LEMMA MeetLocks ==
    ASSUME FrameInv, NEW r \in Threads, Head(th[r].at) = "rMeet"
    PROVE  lock = r /\ Doing(r) = "rMeet"
<1>1. Doing(r) = "rMeet"
  BY CallLabels, DoingFacts DEF At
<1> QED BY <1>1 DEF FrameInv, Locking

\* The message a sender is sending comes after all that it has sent.
LEMMA LatestMessage ==
    ASSUME KindInv, MovedInv, NEW s \in Senders, NEW m, m = <<s, calls[s]>>, NEW x \in Messages, Given(x), x # m
    PROVE  Earlier(x, m)
<1>1. PICK y \in Senders, n \in 1..MaxCalls : x = <<y, n>>
  BY DEF Messages
<1>2. n <= calls[y]
  BY <1>1 DEF MovedInv
<1>3. calls[s] \in Nat /\ n \in Nat /\ m[1] = s /\ m[2] = calls[s] /\ x[1] = y /\ x[2] = n
  BY <1>1, ChanBufAssumption DEF KindInv, Threads
<1>4. y = s => n # calls[s]
  BY <1>1
<1> QED BY <1>2, <1>3, <1>4 DEF Earlier

\* The CAS of a push.
LEMMA PushOrder ==
    ASSUME Inv, TimedFree, RingTypes, StateTypes, DataInv, PlaceInv', OrderInv, NEW t \in Threads, At(t, "pushCas"),
           \A u \in Threads : u # t => th'[u] = th[u],
           th'[t].at = <<"pushCommit">>, th'[t].w = th[t].w, th'[t].old = Len(log),
           log' = Append(log, Msg(th[t].w)), UNCHANGED <<prodTail, consHead, consTail, out, rcvd, sendq>>
    PROVE  OrderInv'
<1>0. /\ FrameInv /\ KindInv /\ MovedInv /\ OwnInv /\ PlaceInv
      /\ SlotOrder /\ AheadOrder /\ PopOrder /\ OutOrder /\ GotOrder /\ CommitInv /\ MeetInv
  BY DEF Inv, DataInv, OrderInv
<1>1. PICK w, m : w = th[t].w /\ m = <<w, calls[w]>> /\ m = Msg(th[t].w)
  BY DEF Msg
<1>2. w \in Senders /\ calls[w] \in 1..MaxCalls /\ Head(th[t].at) \in PushLabels
  <2>1. HandOf(t) /\ Head(th[t].at) \in PushLabels
    BY <1>0 DEF KindInv, PushLabels, At
  <2>2. w \in Senders /\ calls[w] > 0
    BY <1>1, <2>1 DEF HandOf
  <2> QED BY <1>0, <2>1, <2>2, ChanBufAssumption DEF KindInv, Threads
<1>3. /\ log \in Seq(Messages) /\ m \in Messages /\ Len(log) \in Nat /\ consHead \in Nat /\ consTail \in Nat /\ prodTail \in Nat
      /\ consTail <= consHead /\ consHead <= Len(log) /\ prodTail <= Len(log)
      /\ Len(log') = Len(log) + 1 /\ log'[Len(log) + 1] = m /\ \A i \in 1..Len(log) : log'[i] = log[i]
  <2>1. log \in Seq(Messages) /\ m \in Messages /\ log' = Append(log, m)
    BY <1>1, <1>2 DEF RingTypes, Messages
  <2>2. consHead \in Nat /\ consTail \in Nat /\ prodTail \in Nat /\ consTail <= consHead /\ consHead <= prodTail /\ prodTail <= Len(log)
    BY <1>0 DEF RingTypes, PlaceInv
  <2> QED BY <2>1, <2>2
<1>4. /\ \A i \in 1..Len(log) : log[i] # m
      /\ ~AtRecv(m)
  <2>1. Len(log) + 1 \in 1..Len(log') /\ \A i \in 1..Len(log) : i \in 1..Len(log') /\ i # Len(log) + 1
    BY <1>3
  <2>2. \A i \in 1..Len(log) : log[i] # m
    BY <1>3, <2>1 DEF PlaceInv
  <2>3. PICK n : n = Len(log) + 1
    OBVIOUS
  <2>4. AtRecv(log[n])' <=> n <= consTail
    BY <2>1, <2>3 DEF PlaceInv
  <2>5. AtRecv(log[n])' <=> AtRecv(m)
    BY <1>3, <2>3 DEF AtRecv
  <2> QED BY <1>3, <2>2, <2>3, <2>4, <2>5
<1>5. ASSUME NEW x \in Messages, Given(x) PROVE Earlier(x, m)
  <2>1. x # m
    BY <1>4, <1>5 DEF Given
  <2> QED BY <1>0, <1>1, <1>2, <1>5, <2>1, LatestMessage
<1>6. \A i \in 1..Len(log) : log[i] \in Messages /\ Given(log[i])
  BY <1>3 DEF Given
<1>7. SlotOrder'
  <2>1. ASSUME NEW i \in 1..Len(log'), NEW j \in 1..Len(log'), i < j PROVE Earlier(log'[i], log'[j])
    <3>1. i \in 1..Len(log) /\ log'[i] = log[i]
      BY <1>3, <2>1
    <3>2. CASE j \in 1..Len(log)
      <4>1. log'[j] = log[j] /\ Earlier(log[i], log[j])
        BY <1>0, <1>3, <2>1, <3>1, <3>2 DEF SlotOrder
      <4> QED BY <3>1, <4>1
    <3>3. CASE j = Len(log) + 1
      BY <1>3, <1>5, <1>6, <3>1, <3>3
    <3> QED BY <1>3, <2>1, <3>2, <3>3
  <2> QED BY <2>1 DEF SlotOrder, Earlier
<1>8. \A x : (AtRecv(x)' <=> AtRecv(x)) /\ \A r : HasGot(r, x)' <=> HasGot(r, x)
  BY DEF AtRecv, HasGot
<1>9. AheadOrder'
  <2>1. ASSUME NEW i \in (consHead + 1)..Len(log'), NEW x \in Messages, AtRecv(x) PROVE Earlier(x, log'[i])
    <3>1. CASE i \in 1..Len(log)
      BY <1>0, <1>3, <2>1, <3>1 DEF AheadOrder
    <3>2. CASE i = Len(log) + 1
      BY <1>3, <1>5, <2>1, <3>2 DEF Given
    <3> QED BY <1>3, <2>1, <3>1, <3>2
  <2> QED BY <1>8, <2>1 DEF AheadOrder, Earlier
<1>10. Head(th'[t].at) = "pushCommit"
  OBVIOUS
<1>11. PopOrder'
  <2>1. ASSUME NEW u \in Threads, Popping(u)', NEW x \in Messages, HasGot(th[u].w, x)'
        PROVE  Earlier(x, log'[th'[u].old + 1])
    <3>1. u # t /\ th'[u] = th[u]
      BY <1>10, <2>1 DEF Popping
    <3>2. PICK v, n : v = th[u].w /\ v = th'[u].w /\ n = th[u].old + 1 /\ n = th'[u].old + 1
      BY <3>1
    <3>3. Popping(u) /\ n \in 1..Len(log)
      BY <1>3, <2>1, <3>1, <3>2 DEF Popping, RingTypes, LocalType
    <3>4. HasGot(v, x)
      BY <2>1, <3>2 DEF HasGot
    <3>5. Earlier(x, log[n])
      BY <1>0, <3>2, <3>3, <3>4 DEF PopOrder
    <3> QED BY <1>3, <3>2, <3>3, <3>5
  <2> QED BY <2>1 DEF PopOrder, Earlier
<1>12. OutOrder' /\ GotOrder'
  BY <1>0 DEF OutOrder, GotOrder
<1>13. CommitInv'
  <2>1. ASSUME NEW i \in (prodTail + 1)..Len(log')
        PROVE  \E u \in Threads : Head(th'[u].at) = "pushCommit" /\ th'[u].old = i - 1 /\ log'[i][1] = th'[u].w
    <3>1. CASE i \in 1..Len(log)
      <4>1. PICK u \in Threads : Head(th[u].at) = "pushCommit" /\ th[u].old = i - 1 /\ log[i][1] = th[u].w
        BY <1>0, <1>3, <2>1, <3>1 DEF CommitInv
      <4>2. u # t /\ th'[u] = th[u] /\ log'[i] = log[i]
        BY <1>3, <3>1, <4>1 DEF At
      <4> QED BY <4>1, <4>2
    <3>2. CASE i = Len(log) + 1
      <4>1. log'[i][1] = th'[t].w /\ th'[t].old = i - 1
        BY <1>1, <1>3, <3>2
      <4> QED BY <1>10, <4>1
    <3> QED BY <1>3, <2>1, <3>1, <3>2
  <2> QED BY <2>1 DEF CommitInv
<1>14. MeetInv'
  <2>1. ASSUME NEW r \in Receivers, Head(th'[r].at) = "rMeet", NEW s \in Elems(sendq), NEW i \in (consHead + 1)..Len(log')
        PROVE  log'[i][1] # s
    <3>1. r \in Threads /\ r # t /\ Head(th[r].at) = "rMeet"
      BY <1>10, <2>1 DEF Threads
    <3>2. lock = r
      BY <1>0, <3>1, MeetLocks
    <3>3. CASE i \in 1..Len(log)
      BY <1>0, <1>3, <2>1, <3>1, <3>3 DEF MeetInv
    <3>4. CASE i = Len(log) + 1
      <4>1. w \notin Elems(sendq)
        BY <1>0, <1>1, <1>2, <3>1, <3>2, QueuedPush
      <4> QED BY <1>1, <1>3, <2>1, <3>4, <4>1
    <3> QED BY <1>3, <2>1, <3>3, <3>4
  <2> QED BY <2>1 DEF MeetInv
<1> QED BY <1>7, <1>9, <1>11, <1>12, <1>13, <1>14 DEF OrderInv

\* The store of the producers' tail: the slots above it have other owners.
LEMMA CommitOrder ==
    ASSUME FrameInv, RingTypes, OrderInv, NEW t \in Threads, th[t].old = prodTail, prodTail' = prodTail + 1,
           \A u \in Threads : u # t => th'[u] = th[u], Head(th'[t].at) \notin {"popCommit", "rMeet"},
           UNCHANGED <<log, consHead, out, rcvd, sendq>>
    PROVE  OrderInv'
<1>0. /\ SlotOrder /\ AheadOrder /\ PopOrder /\ OutOrder /\ GotOrder /\ CommitInv /\ MeetInv
      /\ prodTail \in Nat /\ Len(log) \in Nat
  BY DEF OrderInv, RingTypes
<1>1. SlotOrder' /\ OutOrder' /\ GotOrder'
  BY <1>0 DEF SlotOrder, OutOrder, GotOrder
<1>2. \A x : (AtRecv(x)' <=> AtRecv(x)) /\ \A r : HasGot(r, x)' <=> HasGot(r, x)
  BY DEF AtRecv, HasGot
<1>3. AheadOrder'
  BY <1>0, <1>2 DEF AheadOrder
<1>4. PopOrder'
  <2>1. ASSUME NEW u \in Threads, Popping(u)', NEW x \in Messages, HasGot(th[u].w, x)'
        PROVE  Earlier(x, log[th'[u].old + 1])
    <3>1. u # t /\ th'[u] = th[u]
      BY <2>1 DEF Popping
    <3>2. PICK v : v = th[u].w /\ v = th'[u].w
      BY <3>1
    <3>3. Popping(u) /\ HasGot(v, x)
      BY <2>1, <3>1, <3>2 DEF HasGot, Popping
    <3> QED BY <1>0, <3>1, <3>2, <3>3 DEF PopOrder
  <2> QED BY <2>1 DEF PopOrder
<1>5. CommitInv'
  <2>1. ASSUME NEW i \in (prodTail' + 1)..Len(log)
        PROVE  \E u \in Threads : Head(th'[u].at) = "pushCommit" /\ th'[u].old = i - 1 /\ log[i][1] = th'[u].w
    <3>1. i \in (prodTail + 1)..Len(log) /\ i - 1 # prodTail
      BY <1>0, <2>1
    <3>2. PICK u \in Threads : Head(th[u].at) = "pushCommit" /\ th[u].old = i - 1 /\ log[i][1] = th[u].w
      BY <1>0, <3>1 DEF CommitInv
    <3>3. u # t
      BY <3>1, <3>2
    <3> QED BY <3>2, <3>3
  <2> QED BY <2>1 DEF CommitInv
<1>6. MeetInv'
  BY <1>0 DEF MeetInv, Threads
<1> QED BY <1>1, <1>3, <1>4, <1>5, <1>6 DEF OrderInv

\* The CAS of a pop: the slot it takes was ahead of all that is received.
LEMMA TakeOrder ==
    ASSUME FrameInv, KindInv, RingTypes, OrderInv, NEW t \in Threads, At(t, "popCas"), th[t].old = consHead,
           prodTail # consHead, consHead' = consHead + 1,
           \A u \in Threads : u # t => th'[u] = th[u],
           th'[t].at = <<"popCommit">>, th'[t].w = th[t].w, th'[t].old = th[t].old,
           UNCHANGED <<log, prodTail, out, rcvd, sendq>>
    PROVE  OrderInv'
<1>0. /\ SlotOrder /\ AheadOrder /\ PopOrder /\ OutOrder /\ GotOrder /\ CommitInv /\ MeetInv
      /\ consHead \in Nat /\ prodTail \in Nat /\ Len(log) \in Nat /\ consHead <= prodTail /\ prodTail <= Len(log)
  BY DEF OrderInv, RingTypes
<1>1. SlotOrder' /\ OutOrder' /\ GotOrder'
  BY <1>0 DEF SlotOrder, OutOrder, GotOrder
<1>2. \A x : (AtRecv(x)' <=> AtRecv(x)) /\ \A r : HasGot(r, x)' <=> HasGot(r, x)
  BY DEF AtRecv, HasGot
<1>3. \A i \in (consHead' + 1)..Len(log) : i \in (consHead + 1)..Len(log)
  BY <1>0
<1>4. AheadOrder'
  BY <1>0, <1>2, <1>3 DEF AheadOrder
<1>5. th[t].w \in Receivers
  BY DEF KindInv, HandOf, At, PopLabels
<1>6. PopOrder'
  <2>1. ASSUME NEW u \in Threads, Popping(u)', NEW x \in Messages, HasGot(th[u].w, x)'
        PROVE  Earlier(x, log[th'[u].old + 1])
    <3>1. CASE u # t
      <4>1. th'[u] = th[u]
        BY <3>1
      <4>2. PICK v : v = th[u].w /\ v = th'[u].w
        BY <4>1
      <4>3. Popping(u) /\ HasGot(v, x)
        BY <2>1, <4>1, <4>2 DEF HasGot, Popping
      <4> QED BY <1>0, <4>1, <4>2, <4>3 DEF PopOrder
    <3>2. CASE u = t
      <4>1. PICK v : v = th[t].w /\ v = th'[t].w
        OBVIOUS
      <4>2. HasGot(v, x) /\ v \in Receivers
        BY <1>5, <2>1, <3>2, <4>1 DEF HasGot
      <4>3. AtRecv(x)
        BY <4>2, HasGotFacts
      <4>4. consHead + 1 \in (consHead + 1)..Len(log) /\ th'[u].old + 1 = consHead + 1
        BY <1>0, <3>2
      <4> QED BY <1>0, <4>3, <4>4 DEF AheadOrder
    <3> QED BY <3>1, <3>2
  <2> QED BY <2>1 DEF PopOrder
<1>7. CommitInv'
  <2>1. \A u \in Threads : Head(th[u].at) = "pushCommit" => th'[u] = th[u]
    BY DEF At
  <2> QED BY <1>0, <2>1 DEF CommitInv
<1>8. MeetInv'
  <2>1. Head(th'[t].at) = "popCommit"
    OBVIOUS
  <2>2. \A r \in Receivers : Head(th'[r].at) = "rMeet" => Head(th[r].at) = "rMeet"
    BY <2>1 DEF Threads
  <2> QED BY <1>0, <1>3, <2>2 DEF MeetInv
<1> QED BY <1>1, <1>4, <1>6, <1>7, <1>8 DEF OrderInv

\* The end of a pop: its slot was the last below the consumers' tail.
LEMMA GiveOrder ==
    ASSUME FrameInv, KindInv, RingTypes, StateTypes, PlaceInv, OrderInv, NEW t \in Threads, Popping(t), th[t].old = consTail,
           \A u \in Threads : u # t => th'[u] = th[u], Head(th'[t].at) \notin {"popCommit", "rMeet"},
           NEW w, w = th[t].w, out' = [out EXCEPT ![w] = log[consTail + 1]],
           UNCHANGED <<log, prodTail, consHead, rcvd, sendq>>
    PROVE  OrderInv'
<1>0. /\ SlotOrder /\ AheadOrder /\ PopOrder /\ OutOrder /\ GotOrder /\ CommitInv /\ MeetInv
      /\ consHead \in Nat /\ consTail \in Nat /\ Len(log) \in Nat /\ consHead <= Len(log) /\ consTail < consHead
  <2>1. th[t].old < consHead
    BY DEF RingTypes, LocalType, Popping
  <2> QED BY <2>1 DEF OrderInv, RingTypes
<1>1. Passes(t)
  BY DEF Passes, Popping
<1>2. SlotOrder' /\ CommitInv' /\ MeetInv'
  BY <1>0, <1>1, RingOrder
<1>3. GotOrder'
  BY <1>0 DEF GotOrder
<1>4. PICK m : m = log[consTail + 1]
  OBVIOUS
<1>5. /\ w \in Receivers /\ out'[w] = m /\ \A r \in Receivers : r # w => out'[r] = out[r]
      /\ m \in Messages /\ consTail + 1 \in 1..Len(log)
  <2>1. w \in Receivers
    BY PopsFor
  <2>2. consTail + 1 \in 1..Len(log)
    BY <1>0
  <2>3. m \in Messages
    BY <1>4, <2>2 DEF RingTypes
  <2> QED BY <1>4, <2>1, <2>2, <2>3 DEF StateTypes
<1>6. ASSUME NEW r \in Receivers, NEW x, HasGot(r, x)' PROVE HasGot(r, x) \/ (r = w /\ x = m)
  <2>1. CASE r = w
    BY <1>5, <1>6, <2>1 DEF HasGot
  <2>2. CASE r # w
    BY <1>5, <1>6, <2>2 DEF HasGot
  <2> QED BY <2>1, <2>2
<1>7. \A i \in 1..Len(log) : consTail + 1 < i => Earlier(m, log[i])
  BY <1>0, <1>4, <1>5 DEF SlotOrder
<1>8. AheadOrder'
  <2>1. ASSUME NEW i \in (consHead + 1)..Len(log), NEW x \in Messages, AtRecv(x)' PROVE Earlier(x, log[i])
    <3>1. PICK r \in Receivers : HasGot(r, x)'
      BY <2>1 DEF AtRecv, HasGot
    <3>2. CASE HasGot(r, x)
      BY <1>0, <2>1, <3>2, HasGotFacts DEF AheadOrder
    <3>3. CASE x = m
      BY <1>0, <1>7, <2>1, <3>3
    <3> QED BY <1>6, <3>1, <3>2, <3>3
  <2> QED BY <2>1 DEF AheadOrder
<1>9. PopOrder'
  <2>1. ASSUME NEW u \in Threads, Popping(u)', NEW x \in Messages, HasGot(th[u].w, x)'
        PROVE  Earlier(x, log[th'[u].old + 1])
    <3>1. u # t /\ th'[u] = th[u]
      BY <2>1 DEF Popping
    <3>2. PICK v, n : v = th[u].w /\ v = th'[u].w /\ n = th[u].old /\ n = th'[u].old
      BY <3>1
    <3>3. Popping(u) /\ HasGot(v, x)' /\ v \in Receivers
      BY <2>1, <3>1, <3>2, PopsFor DEF HasGot, Popping
    <3>4. n \in Nat /\ consTail <= n /\ n # consTail /\ n < consHead
      BY <3>1, <3>2, <3>3 DEF PlaceInv, RingTypes, LocalType, Popping
    <3>5. n + 1 \in 1..Len(log) /\ consTail + 1 < n + 1
      BY <1>0, <3>4
    <3>6. CASE HasGot(v, x)
      BY <1>0, <3>2, <3>3, <3>6 DEF PopOrder
    <3>7. CASE x = m
      BY <1>7, <3>2, <3>5, <3>7
    <3> QED BY <1>6, <3>3, <3>6, <3>7
  <2> QED BY <2>1 DEF PopOrder
<1>10. OutOrder'
  <2>1. ASSUME NEW k \in 1..Len(rcvd[w]) PROVE Earlier(rcvd[w][k], m)
    <3>1. PICK x : x = rcvd[w][k]
      OBVIOUS
    <3>2. HasGot(w, x)
      BY <2>1, <3>1 DEF HasGot
    <3>3. CASE x \in Messages
      BY <1>0, <1>4, <3>1, <3>2, <3>3 DEF PopOrder
    <3>4. CASE x = NoMsg
      <4>1. m[1] \in Senders /\ x[1] = None /\ None \notin Senders
        BY <1>5, <3>4, ChanBufAssumption DEF Messages, NoMsg, Threads
      <4> QED BY <3>1, <4>1 DEF Earlier
    <3>5. x \in Messages \cup {NoMsg}
      BY <1>5, <2>1, <3>1 DEF StateTypes
    <3> QED BY <3>3, <3>4, <3>5
  <2> QED BY <1>0, <1>5, <2>1 DEF OutOrder
<1> QED BY <1>2, <1>3, <1>8, <1>9, <1>10 DEF OrderInv

\* An empty ring, found by a pop under the lock: what is in the slots above
\* belongs to pushes in progress, none of them for a queued sender.
LEMMA EmptyOrder ==
    ASSUME Inv, TimedFree, RingTypes, OwnInv, OrderInv, NEW t \in Threads, At(t, "popCas"), th[t].old = prodTail,
           \A u \in Threads : u # t => th'[u] = th[u], th'[t].at = th[t].fail,
           UNCHANGED <<log, prodTail, consHead, out, rcvd, sendq>>
    PROVE  OrderInv'
<1>0. FrameInv /\ KindInv /\ "popCas" \in RingLabels
  BY DEF Inv, RingLabels, PopLabels
<1>1. <<th[t].ok, th[t].fail>> \in Exits /\ Doing(t) = Head(th[t].ok)
  BY <1>0, FromRing
<1>2. CASE Head(th'[t].at) # "rMeet"
  <2>1. Head(th'[t].at) # "popCommit"
    BY <1>1, ExitFacts DEF RingLabels, PopLabels
  <2>2. Passes(t)
    BY <1>2, <2>1 DEF Passes, At
  <2> QED BY <1>0, <2>2, PassOrder
<1>3. CASE Head(th'[t].at) = "rMeet"
  <2>1. lock = t
    <3>1. Head(th[t].ok) \in Locking
      BY <1>1, <1>3, ExitFacts DEF Locking
    <3> QED BY <1>0, <1>1, <3>1 DEF FrameInv
  <2>2. consHead = prodTail /\ prodTail \in Nat /\ Len(log) \in Nat
    BY DEF RingTypes, LocalType, At
  <2>3. ASSUME NEW s \in Elems(sendq), NEW i \in (consHead + 1)..Len(log) PROVE log[i][1] # s
    <3>1. PICK u \in Threads : Head(th[u].at) = "pushCommit" /\ log[i][1] = th[u].w
      BY <2>2, <2>3 DEF OrderInv, CommitInv
    <3>2. u # t /\ Head(th[u].at) \in PushLabels
      BY <3>1 DEF At, PushLabels
    <3> QED BY <2>1, <2>3, <3>1, <3>2, QueuedPush
  <2>4. MeetInv'
    BY <2>3 DEF MeetInv, OrderInv, Threads
  <2>5. SlotOrder' /\ OutOrder' /\ GotOrder'
    BY DEF SlotOrder, OutOrder, GotOrder, OrderInv
  <2>6. CommitInv'
    <3>1. \A u \in Threads : Head(th[u].at) = "pushCommit" => th'[u] = th[u]
      BY DEF At
    <3> QED BY <3>1 DEF CommitInv, OrderInv
  <2>7. \A x : (AtRecv(x)' <=> AtRecv(x)) /\ \A r : HasGot(r, x)' <=> HasGot(r, x)
    BY DEF AtRecv, HasGot
  <2>8. AheadOrder'
    BY <2>7 DEF AheadOrder, OrderInv
  <2>9. PopOrder'
    <3>1. ASSUME NEW u \in Threads, Popping(u)', NEW x \in Messages, HasGot(th[u].w, x)'
          PROVE  Earlier(x, log[th'[u].old + 1])
      <4>1. u # t /\ th'[u] = th[u]
        BY <1>3, <3>1 DEF Popping
      <4>2. PICK v : v = th[u].w /\ v = th'[u].w
        BY <4>1
      <4>3. Popping(u) /\ HasGot(v, x)
        BY <3>1, <4>1, <4>2 DEF HasGot, Popping
      <4> QED BY <4>1, <4>2, <4>3 DEF PopOrder, OrderInv
    <3> QED BY <3>1 DEF PopOrder
  <2> QED BY <2>4, <2>5, <2>6, <2>8, <2>9 DEF OrderInv
<1> QED BY <1>2, <1>3

\* No success leads to the rendezvous, and of the failures only a receiver's.
LEMMA MeetExits ==
    ASSUME NEW ok, NEW fail, <<ok, fail>> \in Exits
    PROVE  Head(ok) \notin {"popCommit", "rMeet"} /\ (Head(fail) = "rMeet" => Head(ok) \in OwnOps)
<1>1. Head(ok) # "popCommit"
  BY ExitFacts DEF RingLabels, PopLabels
<1>2. Head(ok) # "rMeet" /\ (Head(fail) = "rMeet" => Head(ok) \in OwnOps)
  BY ExitOwn DEF Exits, OwnOps
<1> QED BY <1>1, <1>2

\* The steps of the ring operations.
LEMMA RingStepOrder ==
    ASSUME Inv, TimedFree, RingTypes, StateTypes, DataInv, DataInv', OrderInv, NEW t \in Threads, RingStep(t)
    PROVE  OrderInv'
<1>0. FrameInv /\ KindInv /\ OwnInv /\ PlaceInv /\ PlaceInv'
  BY DEF Inv, DataInv
<1>1. CASE PushLoad(t) \/ PopLoad(t)
  <2>1. PICK l, a, x : l \in {"pushCas", "popCas"} /\ a = <<l>> /\ th' = [th EXCEPT ![t].at = a, ![t].old = x]
    <3>1. CASE PushLoad(t)
      <4>1. PICK a, x : a = <<"pushCas">> /\ x = Len(log)
        OBVIOUS
      <4>2. th' = [th EXCEPT ![t].at = a, ![t].old = x]
        BY <3>1, <4>1 DEF PushLoad
      <4> QED BY <4>1, <4>2
    <3>2. CASE PopLoad(t)
      <4>1. PICK a, x : a = <<"popCas">> /\ x = consHead
        OBVIOUS
      <4>2. th' = [th EXCEPT ![t].at = a, ![t].old = x]
        BY <3>2, <4>1 DEF PopLoad
      <4> QED BY <4>1, <4>2
    <3> QED BY <1>1, <3>1, <3>2
  <2>2. (\A u \in Threads : u # t => th'[u] = th[u]) /\ th'[t].at = a
    BY <1>0, <2>1, Forms
  <2>3. /\ UNCHANGED <<log, prodTail, consHead, out, rcvd, sendq>>
        /\ Head(th[t].at) \in {"pushLoad", "popLoad"}
    BY <1>1 DEF PushLoad, PopLoad, ring, queues, waiters, hist, At
  <2>4. Head(th'[t].at) = l /\ l \notin {"popCommit", "rMeet"}
    <3>1. l \in PlainLabels /\ l \notin {"popCommit", "rMeet"}
      BY <2>1 DEF PlainLabels, RingLabels, PushLabels, PopLabels
    <3> QED BY <2>1, <2>2, <3>1, PlainStack
  <2>5. Passes(t)
    BY <2>2, <2>3, <2>4 DEF Passes
  <2> QED BY <1>0, <2>3, <2>5, PassOrder
<1>2. CASE PushFull(t)
  <2>1. PICK a : a = th[t].fail /\ th' = [th EXCEPT ![t].at = a]
    BY <1>2 DEF PushFull, Goto
  <2>2. (\A u \in Threads : u # t => th'[u] = th[u]) /\ th'[t].at = a
    BY <1>0, <2>1, Forms
  <2>3. At(t, "pushCas") /\ UNCHANGED <<log, prodTail, consHead, out, rcvd, sendq>>
    BY <1>2 DEF PushFull, ring, queues, waiters, hist
  <2>4. "pushCas" \in RingLabels /\ "pushCas" \in PushLabels
    BY DEF RingLabels, PushLabels
  <2>5. <<th[t].ok, th[t].fail>> \in Exits
    BY <1>0, <2>3, <2>4, FromRing
  <2>6. Head(a) # "popCommit"
    BY <2>1, <2>5, ExitFacts DEF RingLabels, PopLabels
  <2>7. t \in Receivers => Head(a) # "rMeet"
    <3>1. th[t].w \in Senders
      BY <1>0, <2>3, <2>4 DEF KindInv, HandOf, At
    <3>2. Head(a) = "rMeet" => th[t].w = t
      BY <1>0, <2>1, <2>3, <2>4, <2>5, MeetExits DEF OwnInv, OwnOp, At
    <3> QED BY <3>1, <3>2, ChanBufAssumption
  <2>8. Passes(t)
    BY <2>2, <2>3, <2>6, <2>7 DEF Passes, At
  <2> QED BY <1>0, <2>3, <2>8, PassOrder
<1>3. CASE PushCas(t)
  <2>1. /\ At(t, "pushCas") /\ UNCHANGED <<prodTail, consHead, consTail, out, rcvd, sendq>>
    BY <1>3 DEF PushCas, queues, waiters, hist
  <2>2. CASE Len(log) = th[t].old /\ log' = Append(log, Msg(th[t].w)) /\ Goto(t, <<"pushCommit">>)
    <3>1. PICK a : a = <<"pushCommit">> /\ th' = [th EXCEPT ![t].at = a]
      BY <2>2 DEF Goto
    <3>2. /\ \A u \in Threads : u # t => th'[u] = th[u]
          /\ th'[t].at = a /\ th'[t].w = th[t].w /\ th'[t].old = th[t].old
      BY <1>0, <3>1, Forms
    <3> QED BY <1>0, <2>1, <2>2, <3>1, <3>2, PushOrder
  <2>3. CASE Goto(t, <<"pushLoad">>) /\ UNCHANGED log
    <3>1. PICK a : a = <<"pushLoad">> /\ th' = [th EXCEPT ![t].at = a]
      BY <2>3 DEF Goto
    <3>2. (\A u \in Threads : u # t => th'[u] = th[u]) /\ th'[t].at = a
      BY <1>0, <3>1, Forms
    <3>3. Passes(t)
      BY <2>1, <2>3, <3>1, <3>2 DEF Passes, At
    <3> QED BY <1>0, <2>1, <3>3, PassOrder
  <2> QED BY <1>3, <2>2, <2>3 DEF PushCas
<1>4. CASE PushCommit(t)
  <2>1. PICK a : a = th[t].ok /\ th' = [th EXCEPT ![t].at = a]
    BY <1>4 DEF PushCommit, Goto
  <2>2. (\A u \in Threads : u # t => th'[u] = th[u]) /\ th'[t].at = a
    BY <1>0, <2>1, Forms
  <2>3. /\ At(t, "pushCommit") /\ prodTail = th[t].old /\ prodTail' = prodTail + 1
        /\ UNCHANGED <<log, consHead, out, rcvd, sendq>>
    BY <1>4 DEF PushCommit, queues, waiters, hist
  <2>4. <<th[t].ok, th[t].fail>> \in Exits
    <3>1. "pushCommit" \in RingLabels
      BY DEF RingLabels, PushLabels
    <3> QED BY <1>0, <2>3, <3>1, FromRing
  <2>5. Head(a) \notin {"popCommit", "rMeet"}
    BY <2>1, <2>4, MeetExits
  <2> QED BY <1>0, <2>2, <2>3, <2>5, CommitOrder
<1>5. CASE PopEmpty(t)
  <2>1. PICK a : a = th[t].fail /\ th' = [th EXCEPT ![t].at = a]
    BY <1>5 DEF PopEmpty, Goto
  <2>2. (\A u \in Threads : u # t => th'[u] = th[u]) /\ th'[t].at = th[t].fail
    BY <1>0, <2>1, Forms
  <2>3. At(t, "popCas") /\ prodTail = th[t].old /\ UNCHANGED <<log, prodTail, consHead, out, rcvd, sendq>>
    BY <1>5 DEF PopEmpty, ring, queues, waiters, hist
  <2> QED BY <1>0, <2>2, <2>3, EmptyOrder
<1>6. CASE PopCas(t)
  <2>1. /\ At(t, "popCas") /\ prodTail # th[t].old /\ UNCHANGED <<log, prodTail, out, rcvd, sendq>>
    BY <1>6 DEF PopCas, queues, waiters, hist
  <2>2. CASE consHead = th[t].old /\ consHead' = consHead + 1 /\ Goto(t, <<"popCommit">>)
    <3>1. PICK a : a = <<"popCommit">> /\ th' = [th EXCEPT ![t].at = a]
      BY <2>2 DEF Goto
    <3>2. /\ \A u \in Threads : u # t => th'[u] = th[u]
          /\ th'[t].at = a /\ th'[t].w = th[t].w /\ th'[t].old = th[t].old
      BY <1>0, <3>1, Forms
    <3> QED BY <1>0, <2>1, <2>2, <3>1, <3>2, TakeOrder
  <2>3. CASE Goto(t, <<"popLoad">>) /\ UNCHANGED consHead
    <3>1. PICK a : a = <<"popLoad">> /\ th' = [th EXCEPT ![t].at = a]
      BY <2>3 DEF Goto
    <3>2. (\A u \in Threads : u # t => th'[u] = th[u]) /\ th'[t].at = a
      BY <1>0, <3>1, Forms
    <3>3. Passes(t)
      BY <2>1, <2>3, <3>1, <3>2 DEF Passes, At
    <3> QED BY <1>0, <2>1, <3>3, PassOrder
  <2> QED BY <1>6, <2>2, <2>3 DEF PopCas
<1>7. CASE PopCommit(t)
  <2>1. PICK a, w : a = th[t].ok /\ w = th[t].w /\ th' = [th EXCEPT ![t].at = a]
    BY <1>7 DEF PopCommit, Goto
  <2>2. (\A u \in Threads : u # t => th'[u] = th[u]) /\ th'[t].at = a
    BY <1>0, <2>1, Forms
  <2>3. /\ At(t, "popCommit") /\ consTail = th[t].old /\ out' = [out EXCEPT ![w] = log[consTail + 1]]
        /\ UNCHANGED <<log, prodTail, consHead, rcvd, sendq>>
    BY <1>7, <2>1 DEF PopCommit, queues, hist
  <2>4. Popping(t) /\ <<th[t].ok, th[t].fail>> \in Exits
    <3>1. "popCommit" \in RingLabels
      BY DEF RingLabels, PopLabels
    <3> QED BY <1>0, <2>3, <3>1, FromRing DEF Popping, At
  <2>5. Head(a) \notin {"popCommit", "rMeet"}
    BY <2>1, <2>4, MeetExits
  <2> QED BY <1>0, <2>1, <2>2, <2>3, <2>4, <2>5, GiveOrder
<1> QED BY <1>1, <1>2, <1>3, <1>4, <1>5, <1>6, <1>7 DEF RingStep

\* The rendezvous: the sender's message comes after all of its own that a
\* receiver has, and none of them is left in the ring.
LEMMA MeetOrder ==
    ASSUME Inv, StateTypes, DataInv, RecvInv', OrderInv, NEW r \in Receivers, RecvMeet(r)
    PROVE  OrderInv'
<1>0. FrameInv /\ KindInv /\ MovedInv /\ r \in Threads
  BY DEF Inv, DataInv, Threads
<1>1. PICK s, m, a : s = Head(sendq) /\ m = <<s, calls[s]>> /\ a = <<"rWake">>
  OBVIOUS
<1>2. /\ At(r, "rMeet") /\ sendq # << >> /\ sendq' = Tail(sendq) /\ out' = [out EXCEPT ![r] = m]
      /\ UNCHANGED <<log, prodTail, consHead, rcvd>>
  BY <1>1 DEF RecvMeet, Msg, ring, hist
<1>3. (\A u \in Threads : u # r => th'[u] = th[u]) /\ Head(th'[r].at) = "rWake"
  BY <1>0 DEF RecvMeet, FrameInv
<1>4. s \in Elems(sendq) /\ s \in Senders /\ calls[s] \in 1..MaxCalls /\ Elems(sendq') \subseteq Elems(sendq)
  <2>1. sendq \in Seq(Senders) /\ calls \in [Threads -> 0..MaxCalls] /\ \A x \in Elems(sendq) : calls[x] > 0
    BY <1>0 DEF KindInv
  <2>2. s \in Elems(sendq) /\ s \in Senders /\ Elems(sendq') \subseteq Elems(sendq)
    BY <1>1, <1>2, <2>1 DEF Elems
  <2> QED BY <2>1, <2>2, ChanBufAssumption DEF Threads
<1>5. Passes(r)
  BY <1>2, <1>3, <1>4 DEF Passes, At
<1>6. SlotOrder' /\ CommitInv' /\ MeetInv'
  BY <1>0, <1>5, RingOrder DEF OrderInv
<1>7. GotOrder'
  BY <1>2 DEF GotOrder, OrderInv
<1>8. m \in Messages /\ out'[r] = m /\ \A q \in Receivers : q # r => out'[q] = out[q]
  BY <1>1, <1>2, <1>4 DEF Messages, StateTypes
<1>9. ASSUME NEW q \in Receivers, NEW x, HasGot(q, x)' PROVE HasGot(q, x) \/ (q = r /\ x = m)
  <2>1. CASE q = r
    BY <1>2, <1>8, <1>9, <2>1 DEF HasGot
  <2>2. CASE q # r
    BY <1>2, <1>8, <1>9, <2>2 DEF HasGot
  <2> QED BY <2>1, <2>2
<1>10. AheadOrder'
  <2>1. ASSUME NEW i \in (consHead + 1)..Len(log), NEW x \in Messages, AtRecv(x)' PROVE Earlier(x, log[i])
    <3>1. PICK q \in Receivers : HasGot(q, x)'
      BY <2>1 DEF AtRecv, HasGot
    <3>2. CASE HasGot(q, x)
      BY <2>1, <3>2, HasGotFacts DEF AheadOrder, OrderInv
    <3>3. CASE x = m
      <4>1. log[i][1] # s
        BY <1>2, <1>4, <2>1 DEF MeetInv, OrderInv, At
      <4> QED BY <1>1, <3>3, <4>1 DEF Earlier
    <3> QED BY <1>9, <3>1, <3>2, <3>3
  <2> QED BY <1>2, <2>1 DEF AheadOrder
<1>11. PopOrder'
  <2>1. ASSUME NEW u \in Threads, Popping(u)', NEW x \in Messages, HasGot(th[u].w, x)'
        PROVE  Earlier(x, log[th'[u].old + 1])
    <3>1. u # r /\ th'[u] = th[u]
      BY <1>3, <2>1 DEF Popping
    <3>2. PICK v : v = th[u].w /\ v = th'[u].w
      BY <3>1
    <3>3. Popping(u) /\ HasGot(v, x)' /\ v \in Receivers
      BY <1>0, <2>1, <3>1, <3>2, PopsFor DEF HasGot, Popping
    <3>4. v # r
      <4>1. SUFFICES ASSUME v = r PROVE FALSE
        OBVIOUS
      <4>2. lock = r
        BY <1>0, <1>2, MeetLocks DEF At
      <4>3. "popCommit" \in RingLabels
        BY DEF RingLabels, PopLabels
      <4>4. <<th[u].ok, th[u].fail>> \in Exits /\ Doing(u) = Head(th[u].ok)
        BY <1>0, <3>3, <4>3, FromRing DEF Popping, At
      <4>5. Head(th[u].ok) \notin OwnOps
        BY <3>1, <3>2, <3>3, <4>1, <4>3 DEF DataInv, OwnInv, OwnOp, Popping
      <4>6. Doing(u) \in Locking
        BY <4>4, <4>5, ExitOwn DEF HasSender, HasReceiver, Locking
      <4> QED BY <1>0, <3>1, <4>2, <4>6 DEF FrameInv
    <3>5. HasGot(v, x)
      BY <1>9, <3>3, <3>4
    <3> QED BY <3>1, <3>2, <3>3, <3>5 DEF PopOrder, OrderInv
  <2> QED BY <1>2, <2>1 DEF PopOrder
<1>12. OutOrder'
  <2>1. ASSUME NEW k \in 1..Len(rcvd[r]) PROVE Earlier(rcvd[r][k], m)
    <3>1. PICK x : x = rcvd[r][k]
      OBVIOUS
    <3>2. x # m /\ x # NoMsg
      BY <1>2, <1>8, <2>1, <3>1 DEF RecvInv
    <3>3. x \in Messages
      BY <2>1, <3>1, <3>2 DEF StateTypes
    <3>4. Given(x)
      BY <2>1, <3>1 DEF Given, AtRecv
    <3> QED BY <1>0, <1>1, <1>4, <3>1, <3>2, <3>3, <3>4, LatestMessage
  <2> QED BY <1>2, <1>8, <2>1 DEF OutOrder, OrderInv
<1> QED BY <1>6, <1>7, <1>10, <1>11, <1>12 DEF OrderInv

\* A step outside the ring operations: a return, or a step to a position that
\* is neither in a pop nor at the rendezvous.
Goes(t) ==
    \/ \E res : Return(t, res)
    \/ /\ \A u \in Threads : u # t => th'[u] = th[u]
       /\ Head(th'[t].at) \notin {"popCommit", "rMeet"} /\ UNCHANGED <<out, rcvd>>

\* Positions outside the ring operations and the rendezvous.
LEMMA GoesGoto ==
    ASSUME FrameInv, NEW t \in Threads, NEW a, Goto(t, a), Head(a) \notin {"popCommit", "rMeet"}, UNCHANGED <<out, rcvd>>
    PROVE  Goes(t)
<1>1. Reaches(t, a)
  BY GotoReaches
<1> QED BY <1>1 DEF Reaches, Goes

\* Starting a ring operation.
LEMMA GoesStart ==
    ASSUME FrameInv, NEW t \in Threads, NEW w, NEW ok, NEW fail,
           th' = Push(t, w, ok, fail) \/ th' = Pop(t, w, ok, fail), UNCHANGED <<out, rcvd>>
    PROVE  Goes(t)
<1>1. PICK p \in {"pushLoad", "popLoad"} : Reaches(t, <<p>>)
  BY StartReaches
<1>2. Head(th'[t].at) \in {"pushLoad", "popLoad"}
  BY <1>1 DEF Reaches
<1> QED BY <1>1, <1>2 DEF Reaches, Goes

\* Such a step keeps the order.
LEMMA GoesOrder ==
    ASSUME FrameInv, KindInv, StateTypes, RecvInv', OrderInv, NEW t \in Threads, Goes(t),
           Head(th[t].at) # "pushCommit", UNCHANGED <<log, prodTail, consHead>>,
           Elems(sendq') \subseteq Elems(sendq) \/ lock = t
    PROVE  OrderInv'
<1>1. CASE \E res : Return(t, res)
  <2>1. PICK res : Return(t, res)
    BY <1>1
  <2> QED BY <2>1, ReturnOrder
<1>2. CASE /\ \A u \in Threads : u # t => th'[u] = th[u]
           /\ Head(th'[t].at) \notin {"popCommit", "rMeet"} /\ UNCHANGED <<out, rcvd>>
  <2>1. Passes(t)
    BY <1>2 DEF Passes
  <2> QED BY <1>2, <2>1, PassOrder
<1> QED BY <1>1, <1>2 DEF Goes

\* The queue of senders shrinks, or the lock is held.
LEMMA QueueShrinks ==
    ASSUME KindInv, NEW t,
           sendq' \in {sendq, Without(sendq, t), << >>} \/ (sendq' = Tail(sendq) /\ sendq # << >>)
    PROVE  Elems(sendq') \subseteq Elems(sendq)
<1>1. sendq \in Seq(Senders)
  BY DEF KindInv
<1>2. CASE sendq' = Tail(sendq) /\ sendq # << >>
  BY <1>1, <1>2 DEF Elems
<1>3. CASE sendq' = Without(sendq, t)
  BY <1>1, <1>3, RemoveFacts
<1>4. CASE sendq' = << >>
  BY <1>4, EmptyFacts
<1> QED BY <1>2, <1>3, <1>4

\* chan_send_impl and the burst.
LEMMA SendOrder ==
    ASSUME Inv, StateTypes, RecvInv', OrderInv, NEW s \in Senders,
           \/ SendClosed(s) \/ SendSendCnt(s) \/ SendRecvCnt(s) \/ SendPushed(s)
           \/ SendLock(s) \/ SendPark(s) \/ SendAgain(s) \/ SendBurst(s)
    PROVE  OrderInv'
<1>0. FrameInv /\ KindInv /\ s \in Threads
  BY DEF Inv, Threads
<1>1. Head(th[s].at) # "pushCommit" /\ UNCHANGED <<log, prodTail, consHead>>
  BY DEF SendClosed, SendSendCnt, SendRecvCnt, SendPushed, SendLock, SendPark, SendAgain, SendBurst, At, ring
<1>2. Elems(sendq') \subseteq Elems(sendq) \/ lock = s
  <2>1. CASE SendPark(s)
    <3>1. "sPark" \in PlainLabels \ RingLabels /\ "sPark" \in Locking
      BY CallLabels DEF Locking
    <3>2. Doing(s) = "sPark"
      BY <1>0, <2>1, <3>1, DoingFacts DEF SendPark
    <3> QED BY <1>0, <3>1, <3>2 DEF FrameInv
  <2>2. CASE SendAgain(s)
    BY <1>0, <2>2, QueueShrinks DEF SendAgain
  <2>3. CASE \/ SendClosed(s) \/ SendSendCnt(s) \/ SendRecvCnt(s) \/ SendPushed(s) \/ SendLock(s) \/ SendBurst(s)
    BY <2>3 DEF SendClosed, SendSendCnt, SendRecvCnt, SendPushed, SendLock, SendBurst, queues
  <2> QED BY <2>1, <2>2, <2>3
<1>3. Goes(s)
  <2>1. CASE SendClosed(s) \/ SendSendCnt(s)
    <3>1. PICK l \in {"sLock", "sSendCnt", "sRecvCnt"} : Goto(s, <<l>>)
      BY <2>1 DEF SendClosed, SendSendCnt
    <3>2. Head(<<l>>) \notin {"popCommit", "rMeet"} /\ UNCHANGED <<out, rcvd>>
      BY <2>1 DEF SendClosed, SendSendCnt, waiters, hist
    <3> QED BY <1>0, <3>1, <3>2, GoesGoto
  <2>2. CASE SendRecvCnt(s)
    <3>0. UNCHANGED <<out, rcvd>>
      BY <2>2 DEF SendRecvCnt, waiters, hist
    <3>1. CASE Goto(s, <<"sLock">>)
      BY <1>0, <3>0, <3>1, GoesGoto
    <3>2. CASE th' = [Push(s, s, <<"sPushed">>, IF th[s].spin >= Spin THEN <<"sLock">> ELSE <<"sClosed">>)
                        EXCEPT ![s].spin = @ + 1]
      <4>1. DOMAIN th = Threads /\ Fields \subseteq DOMAIN th[s]
        BY <1>0 DEF FrameInv, Fields
      <4>2. PICK f : th' = [Push(s, s, <<"sPushed">>, f) EXCEPT ![s].spin = @ + 1]
        BY <3>2
      <4>3. PICK ok, a : ok = <<"sPushed">> /\ a = <<"pushLoad">>
        OBVIOUS
      <4>4. (\A u \in Threads : u # s => th'[u] = th[u]) /\ th'[s].at = a
        BY <1>0, <4>1, <4>2, <4>3 DEF Push, Fields
      <4>5. Head(th'[s].at) = "pushLoad"
        BY <4>3, <4>4
      <4> QED BY <3>0, <4>4, <4>5 DEF Goes
    <3> QED BY <2>2, <3>1, <3>2 DEF SendRecvCnt
  <2>3. CASE SendPushed(s)
    <3>1. CASE Goto(s, <<"deliverLock", "done">>) /\ UNCHANGED <<waiters, hist>>
      <4>1. UNCHANGED <<out, rcvd>> /\ Head(<<"deliverLock", "done">>) = "deliverLock"
        BY <3>1 DEF waiters, hist
      <4> QED BY <1>0, <3>1, <4>1, GoesGoto
    <3> QED BY <2>3, <3>1 DEF SendPushed, Goes
  <2>4. CASE SendLock(s)
    <3>1. CASE th' = Push(s, s, <<"deliver", "done">>, <<"deliver", "sPark">>) /\ UNCHANGED <<waiters, hist>>
      BY <1>0, <3>1, GoesStart DEF waiters, hist
    <3> QED BY <2>4, <3>1 DEF SendLock, Goes
  <2>5. CASE SendPark(s)
    <3>1. CASE th' = Push(s, s, <<"sAgain">>, <<"unlockPark">>) /\ UNCHANGED <<out, hist>>
      BY <1>0, <3>1, GoesStart DEF hist
    <3> QED BY <2>5, <3>1 DEF SendPark, Goes
  <2>6. CASE SendAgain(s)
    <3>1. UNCHANGED <<out, rcvd>> /\ Head(<<"deliver", "done">>) = "deliver" /\ Goto(s, <<"deliver", "done">>)
      BY <2>6 DEF SendAgain, waiters, hist
    <3> QED BY <1>0, <3>1, GoesGoto
  <2>7. CASE SendBurst(s)
    <3>0. UNCHANGED <<out, rcvd>>
      BY <2>7 DEF SendBurst, waiters, hist
    <3>1. CASE Goto(s, <<"bNone">>)
      BY <1>0, <3>0, <3>1, GoesGoto
    <3>2. CASE th' = Push(s, s, <<"sPushed">>, <<"bNone">>)
      BY <1>0, <3>0, <3>2, GoesStart
    <3> QED BY <2>7, <3>1, <3>2 DEF SendBurst
  <2> QED BY <2>1, <2>2, <2>3, <2>4, <2>5, <2>6, <2>7
<1> QED BY <1>0, <1>1, <1>2, <1>3, GoesOrder

\* chan_recv_impl and the burst, the rendezvous apart.
LEMMA RecvOrder ==
    ASSUME Inv, StateTypes, RecvInv', OrderInv, NEW r \in Receivers,
           \/ RecvSendCnt(r) \/ RecvRecvCnt(r) \/ RecvEmpty(r) \/ RecvPopped(r) \/ RecvLock(r) \/ RecvHelp(r)
           \/ RecvHelped(r) \/ RecvHelpFailed(r) \/ RecvWake(r) \/ RecvPark(r) \/ RecvAgain(r) \/ RecvBurst(r)
    PROVE  OrderInv'
<1>0. FrameInv /\ KindInv /\ r \in Threads
  BY DEF Inv, Threads
<1>1. Head(th[r].at) # "pushCommit" /\ UNCHANGED <<log, prodTail, consHead>>
  BY DEF RecvSendCnt, RecvRecvCnt, RecvEmpty, RecvPopped, RecvLock, RecvHelp, RecvHelped, RecvHelpFailed,
         RecvWake, RecvPark, RecvAgain, RecvBurst, At, ring
<1>2. Elems(sendq') \subseteq Elems(sendq) \/ lock = r
  <2>1. CASE RecvHelpFailed(r)
    <3>1. "rHelpFailed" \in PlainLabels \ RingLabels /\ "rHelpFailed" \in Locking
      BY CallLabels DEF Locking
    <3>2. Doing(r) = "rHelpFailed"
      BY <1>0, <2>1, <3>1, DoingFacts DEF RecvHelpFailed
    <3> QED BY <1>0, <3>1, <3>2 DEF FrameInv
  <2>2. CASE RecvHelp(r)
    BY <1>0, <2>2, QueueShrinks DEF RecvHelp
  <2>3. CASE \/ RecvSendCnt(r) \/ RecvRecvCnt(r) \/ RecvEmpty(r) \/ RecvPopped(r) \/ RecvLock(r)
             \/ RecvHelped(r) \/ RecvWake(r) \/ RecvPark(r) \/ RecvAgain(r) \/ RecvBurst(r)
    BY <2>3 DEF RecvSendCnt, RecvRecvCnt, RecvEmpty, RecvPopped, RecvLock, RecvHelped, RecvWake, RecvPark,
                RecvAgain, RecvBurst, queues
  <2> QED BY <2>1, <2>2, <2>3
<1>3. Goes(r)
  <2>1. CASE RecvSendCnt(r)
    <3>1. PICK l \in {"rLock", "rRecvCnt"} : Goto(r, <<l>>)
      BY <2>1 DEF RecvSendCnt
    <3>2. Head(<<l>>) \notin {"popCommit", "rMeet"} /\ UNCHANGED <<out, rcvd>>
      BY <2>1 DEF RecvSendCnt, waiters, hist
    <3> QED BY <1>0, <3>1, <3>2, GoesGoto
  <2>2. CASE RecvRecvCnt(r)
    <3>0. UNCHANGED <<out, rcvd>>
      BY <2>2 DEF RecvRecvCnt, waiters, hist
    <3>1. CASE Goto(r, <<"rLock">>)
      BY <1>0, <3>0, <3>1, GoesGoto
    <3>2. CASE th' = Pop(r, r, <<"rPopped">>, <<"rEmpty">>)
      BY <1>0, <3>0, <3>2, GoesStart
    <3> QED BY <2>2, <3>1, <3>2 DEF RecvRecvCnt
  <2>3. CASE RecvEmpty(r)
    <3>0. UNCHANGED <<out, rcvd>>
      BY <2>3 DEF RecvEmpty, waiters, hist
    <3>1. CASE Goto(r, <<"rLock">>)
      BY <1>0, <3>0, <3>1, GoesGoto
    <3>2. CASE th' = [th EXCEPT ![r].at = <<"rSendCnt">>, ![r].spin = @ + 1]
      <4>1. DOMAIN th = Threads /\ Fields \subseteq DOMAIN th[r]
        BY <1>0 DEF FrameInv, Fields
      <4>2. PICK a, x : a = <<"rSendCnt">> /\ x = th[r].spin + 1
        OBVIOUS
      <4>3. th' = [th EXCEPT ![r].at = a, ![r].spin = x]
        BY <3>2, <4>1, <4>2 DEF Fields
      <4>4. (\A u \in Threads : u # r => th'[u] = th[u]) /\ th'[r].at = a
        BY <1>0, <4>1, <4>3 DEF Fields
      <4>5. Head(th'[r].at) = "rSendCnt"
        BY <4>2, <4>4
      <4> QED BY <3>0, <4>4, <4>5 DEF Goes
    <3> QED BY <2>3, <3>1, <3>2 DEF RecvEmpty
  <2>4. CASE RecvPopped(r)
    <3>1. CASE Goto(r, <<"admitLock", "done">>) /\ UNCHANGED <<waiters, hist>>
      <4>1. UNCHANGED <<out, rcvd>> /\ Head(<<"admitLock", "done">>) = "admitLock"
        BY <3>1 DEF waiters, hist
      <4> QED BY <1>0, <3>1, <4>1, GoesGoto
    <3> QED BY <2>4, <3>1 DEF RecvPopped, Goes
  <2>5. CASE RecvLock(r)
    BY <1>0, <2>5, GoesStart DEF RecvLock, waiters, hist
  <2>6. CASE RecvHelp(r)
    <3>1. CASE th' = Push(r, Head(sendq), <<"rHelped">>, <<"rHelpFailed">>) /\ UNCHANGED <<waiters, hist>>
      BY <1>0, <3>1, GoesStart DEF waiters, hist
    <3> QED BY <2>6, <3>1 DEF RecvHelp, Goes
  <2>7. CASE RecvHelped(r)
    <3>1. PICK a, x : a = <<"rWake">> /\ x = calls[th[r].w]
      OBVIOUS
    <3>2. th' = [th EXCEPT ![r].at = a, ![r].old = x] /\ UNCHANGED <<out, rcvd>>
      BY <2>7, <3>1 DEF RecvHelped, hist
    <3>3. (\A u \in Threads : u # r => th'[u] = th[u]) /\ th'[r].at = a
      BY <1>0, <3>2, Forms
    <3>4. Head(th'[r].at) = "rWake"
      BY <3>1, <3>3
    <3> QED BY <3>2, <3>3, <3>4 DEF Goes
  <2>8. CASE RecvHelpFailed(r) \/ RecvWake(r) \/ RecvAgain(r)
    BY <2>8 DEF RecvHelpFailed, RecvWake, RecvAgain, Goes
  <2>9. CASE RecvPark(r)
    <3>1. CASE th' = Pop(r, r, <<"rAgain">>, <<"unlockPark">>) /\ UNCHANGED <<out, hist>>
      BY <1>0, <3>1, GoesStart DEF hist
    <3> QED BY <2>9, <3>1 DEF RecvPark, Goes
  <2>10. CASE RecvBurst(r)
    BY <1>0, <2>10, GoesStart DEF RecvBurst, waiters, hist
  <2> QED BY <2>1, <2>2, <2>3, <2>4, <2>5, <2>6, <2>7, <2>8, <2>9, <2>10
<1> QED BY <1>0, <1>1, <1>2, <1>3, GoesOrder

\* The helpers, and the end of a burst.
LEMMA HelperOrder ==
    ASSUME Inv, StateTypes, RecvInv', OrderInv, NEW t \in Threads, HelperStep(t) \/ BurstNone(t)
    PROVE  OrderInv'
<1>0. FrameInv /\ KindInv
  BY DEF Inv
<1>1. Head(th[t].at) # "pushCommit" /\ UNCHANGED <<log, prodTail, consHead>>
  BY DEF HelperStep, HelperLock, DeliverLoad, DeliverTest, AdmitLoad, AdmitTest, HelperServed, HelperMissed,
         UnlockOK, BurstNone, At, ring
<1>2. Elems(sendq') \subseteq Elems(sendq) \/ lock = t
  <2>1. CASE HelperMissed(t)
    <3>1. PICK l \in {"undelivered", "unadmitted"} : At(t, l)
      BY <2>1 DEF HelperMissed
    <3>2. l \in HelperLabels /\ l \notin RingLabels /\ l \in Locking
      BY DEF HelperLabels, RingLabels, PushLabels, PopLabels, Locking
    <3>3. Doing(t) = l
      BY <1>0, <3>1, <3>2, DoingFacts
    <3> QED BY <1>0, <3>2, <3>3 DEF FrameInv
  <2>2. CASE AdmitTest(t)
    BY <1>0, <2>2, QueueShrinks DEF AdmitTest
  <2>3. CASE HelperLock(t) \/ DeliverLoad(t) \/ DeliverTest(t) \/ AdmitLoad(t) \/ HelperServed(t) \/ UnlockOK(t) \/ BurstNone(t)
    BY <2>3 DEF HelperLock, DeliverLoad, DeliverTest, AdmitLoad, HelperServed, UnlockOK, BurstNone, queues
  <2> QED BY <2>1, <2>2, <2>3 DEF HelperStep
<1>h. {"deliverLock", "admitLock", "deliver", "deliverTest", "delivered", "undelivered",
       "admit", "admitTest", "admitted", "unadmitted"} \subseteq HelperLabels
  BY DEF HelperLabels
<1>r. \A l \in HelperLabels : l \notin {"popCommit", "rMeet"}
  BY DEF HelperLabels
<1>3. Goes(t)
  <2>1. CASE HelperLock(t) \/ HelperServed(t)
    <3>1. PICK l \in HelperLabels, k \in HelperLabels : At(t, l) /\ Goto(t, <<k>> \o Rest(t))
      BY <1>h, <2>1 DEF HelperLock, HelperServed
    <3>2. PICK r \in Returns : <<k>> \o Rest(t) = <<k, r>>
      BY <1>0, <3>1, FromHelper
    <3>3. PICK a : a = <<k, r>> /\ Goto(t, a)
      BY <3>1, <3>2
    <3>4. Head(a) = k
      BY <3>3, HelperStack
    <3>5. UNCHANGED <<out, rcvd>>
      BY <2>1 DEF HelperLock, HelperServed, waiters, hist
    <3> QED BY <1>0, <1>r, <3>3, <3>4, <3>5, GoesGoto
  <2>2. CASE DeliverLoad(t) \/ AdmitLoad(t)
    <3>1. PICK l, k, a, x : /\ l \in HelperLabels /\ k \in HelperLabels /\ At(t, l) /\ a = <<k>> \o Rest(t)
                            /\ th' = [th EXCEPT ![t].at = a, ![t].old = x]
      <4>1. CASE DeliverLoad(t)
        <5>1. PICK a, x : a = <<"deliverTest">> \o Rest(t) /\ x = prodTail
          OBVIOUS
        <5>2. At(t, "deliver") /\ th' = [th EXCEPT ![t].at = a, ![t].old = x]
          BY <4>1, <5>1 DEF DeliverLoad
        <5> QED BY <1>h, <5>1, <5>2
      <4>2. CASE AdmitLoad(t)
        <5>1. PICK a, x : a = <<"admitTest">> \o Rest(t) /\ x = Len(log)
          OBVIOUS
        <5>2. At(t, "admit") /\ th' = [th EXCEPT ![t].at = a, ![t].old = x]
          BY <4>2, <5>1 DEF AdmitLoad
        <5> QED BY <1>h, <5>1, <5>2
      <4> QED BY <2>2, <4>1, <4>2
    <3>2. PICK r \in Returns : a = <<k, r>>
      BY <1>0, <3>1, FromHelper
    <3>3. (\A u \in Threads : u # t => th'[u] = th[u]) /\ th'[t].at = a
      BY <1>0, <3>1, Forms
    <3>4. Head(th'[t].at) = k
      BY <3>1, <3>2, <3>3, HelperStack
    <3>5. UNCHANGED <<out, rcvd>>
      BY <2>2 DEF DeliverLoad, AdmitLoad, waiters, hist
    <3> QED BY <1>r, <3>1, <3>3, <3>4, <3>5 DEF Goes
  <2>3. CASE DeliverTest(t) \/ AdmitTest(t) \/ HelperMissed(t)
    <3>0. UNCHANGED <<out, rcvd>>
      BY <2>3 DEF DeliverTest, AdmitTest, HelperMissed, waiters, hist
    <3>1. CASE Goto(t, Rest(t))
      <4>1. PICK l \in HelperLabels : At(t, l)
        BY <1>h, <2>3 DEF DeliverTest, AdmitTest, HelperMissed
      <4>2. PICK r \in Returns : Rest(t) = <<r>>
        BY <1>0, <4>1, FromHelper
      <4>3. PICK a : a = <<r>> /\ Goto(t, a)
        BY <3>1, <4>2
      <4>4. r \in PlainLabels /\ r \notin {"popCommit", "rMeet"}
        BY <4>2 DEF Returns, PlainLabels
      <4>5. Head(a) = r
        BY <4>3, <4>4, PlainStack
      <4> QED BY <1>0, <3>0, <4>3, <4>4, <4>5, GoesGoto
    <3>2. CASE \/ th' = Pop(t, Head(recvq), <<"delivered">> \o Rest(t), <<"undelivered">> \o Rest(t))
               \/ th' = Push(t, Head(sendq), <<"admitted">> \o Rest(t), <<"unadmitted">> \o Rest(t))
      BY <1>0, <3>0, <3>2, GoesStart
    <3> QED BY <2>3, <3>1, <3>2 DEF DeliverTest, AdmitTest, HelperMissed
  <2>4. CASE UnlockOK(t) \/ BurstNone(t)
    BY <2>4 DEF UnlockOK, BurstNone, Goes
  <2> QED BY <2>1, <2>2, <2>3, <2>4 DEF HelperStep
<1> QED BY <1>0, <1>1, <1>2, <1>3, GoesOrder

\* Parking.
LEMMA ParkOrder ==
    ASSUME Inv, StateTypes, RecvInv', OrderInv, NEW t \in Threads, ParkStep(t)
    PROVE  OrderInv'
<1>0. FrameInv /\ KindInv
  BY DEF Inv
<1>1. Head(th[t].at) # "pushCommit" /\ UNCHANGED <<log, prodTail, consHead>>
  BY DEF ParkStep, UnlockPark, Woken, Timeout, TimeoutLock, TimeoutReturn, Deregister, At, ring
<1>2. Elems(sendq') \subseteq Elems(sendq)
  <2>1. sendq' \in {sendq, Without(sendq, t)}
    BY DEF ParkStep, UnlockPark, Woken, Timeout, TimeoutLock, TimeoutReturn, Deregister, queues
  <2> QED BY <1>0, <2>1, QueueShrinks
<1>3. Goes(t)
  <2>1. CASE UnlockPark(t) \/ Timeout(t) \/ TimeoutLock(t)
    <3>1. PICK l \in {"parked", "timedOut", "timeoutDec"} : Goto(t, <<l>>)
      BY <2>1 DEF UnlockPark, Timeout, TimeoutLock
    <3>2. Head(<<l>>) \notin {"popCommit", "rMeet"} /\ UNCHANGED <<out, rcvd>>
      BY <2>1 DEF UnlockPark, Timeout, TimeoutLock, waiters, hist
    <3> QED BY <1>0, <3>1, <3>2, GoesGoto
  <2>2. CASE Woken(t) \/ TimeoutReturn(t)
    BY <2>2 DEF Woken, TimeoutReturn, Deregister, Goes
  <2> QED BY <2>1, <2>2 DEF ParkStep
<1> QED BY <1>0, <1>1, <1>2, <1>3, GoesOrder

\* chan_close.
LEMMA CloseOrder ==
    ASSUME Inv, StateTypes, RecvInv', OrderInv, NEW c \in Threads, CloseLock(c) \/ CloseNext(c) \/ CloseServe(c)
    PROVE  OrderInv'
<1>0. FrameInv /\ KindInv
  BY DEF Inv
<1>1. Head(th[c].at) # "pushCommit" /\ UNCHANGED <<log, prodTail, consHead>>
  BY DEF CloseLock, CloseNext, CloseServe, At, ring
<1>2. Elems(sendq') \subseteq Elems(sendq)
  <2>1. sendq' \in {sendq, << >>}
    BY DEF CloseLock, CloseNext, CloseServe, queues
  <2> QED BY <1>0, <2>1, QueueShrinks
<1>3. Goes(c)
  <2>1. CASE CloseLock(c)
    <3>1. CASE Goto(c, <<"cNext">>) /\ UNCHANGED <<out, hist>>
      BY <1>0, <3>1, GoesGoto DEF hist
    <3> QED BY <2>1, <3>1 DEF CloseLock, Goes
  <2>2. CASE CloseNext(c)
    <3>1. CASE th' = Pop(c, Head(recvq), <<"cGiven">>, <<"cRefused">>) /\ UNCHANGED <<waiters, hist>>
      BY <1>0, <3>1, GoesStart DEF waiters, hist
    <3> QED BY <2>2, <3>1 DEF CloseNext, Goes
  <2>3. CASE CloseServe(c)
    BY <1>0, <2>3, GoesGoto DEF CloseServe, hist
  <2> QED BY <2>1, <2>2, <2>3
<1> QED BY <1>0, <1>1, <1>2, <1>3, GoesOrder

\* The start of a call.
LEMMA EnterOrder ==
    ASSUME FrameInv, KindInv, OrderInv, NEW t \in Threads, NEW m, NEW a, Enter(t, m, a),
           Head(a) \notin {"popCommit", "rMeet"}
    PROVE  OrderInv'
<1>1. DOMAIN th = Threads /\ Fields \subseteq DOMAIN th[t]
  BY DEF FrameInv, Fields
<1>2. (\A u \in Threads : u # t => th'[u] = th[u]) /\ th'[t].at = a
  BY <1>1 DEF Enter, Fields
<1>3. /\ Head(th[t].at) # "pushCommit" /\ UNCHANGED <<log, prodTail, consHead, out, rcvd, sendq>>
  BY DEF Enter, At, ring, queues, waiters
<1>4. Passes(t)
  BY <1>2, <1>3 DEF Passes
<1> QED BY <1>3, <1>4, PassOrder

\* Every step keeps the order.
LEMMA OrderKeeps ==
    ASSUME Inv, TimedFree, RingTypes, StateTypes, DataInv, DataInv', OrderInv, [Next]_vars
    PROVE  OrderInv'
<1>0. FrameInv /\ KindInv /\ RecvInv'
  BY DEF Inv, DataInv
<1>1. ASSUME NEW s \in Senders, CallSend(s) \/ SendStep(s) PROVE OrderInv'
  <2>0. s \in Threads
    BY DEF Threads
  <2>1. CASE CallSend(s)
    <3>1. PICK m \in SendModes : Enter(s, m, IF m = "burst" THEN <<"bSend">> ELSE <<"sClosed">>)
      BY <2>1 DEF CallSend
    <3>2. CASE m = "burst"
      <4>1. Enter(s, m, <<"bSend">>) /\ Head(<<"bSend">>) \notin {"popCommit", "rMeet"}
        BY <3>1, <3>2
      <4> QED BY <1>0, <2>0, <4>1, EnterOrder
    <3>3. CASE m # "burst"
      <4>1. Enter(s, m, <<"sClosed">>) /\ Head(<<"sClosed">>) \notin {"popCommit", "rMeet"}
        BY <3>1, <3>3
      <4> QED BY <1>0, <2>0, <4>1, EnterOrder
    <3> QED BY <3>2, <3>3
  <2>2. CASE \/ SendClosed(s) \/ SendSendCnt(s) \/ SendRecvCnt(s) \/ SendPushed(s)
             \/ SendLock(s) \/ SendPark(s) \/ SendAgain(s) \/ SendBurst(s)
    BY <1>0, <2>2, SendOrder
  <2>3. CASE BurstNone(s) \/ RingStep(s) \/ HelperStep(s)
    BY <1>0, <2>0, <2>3, HelperOrder, RingStepOrder
  <2>4. CASE ParkStep(s)
    BY <1>0, <2>0, <2>4, ParkOrder
  <2> QED BY <1>1, <2>1, <2>2, <2>3, <2>4 DEF SendStep
<1>2. ASSUME NEW r \in Receivers, CallRecv(r) \/ RecvStep(r) PROVE OrderInv'
  <2>0. r \in Threads
    BY DEF Threads
  <2>1. CASE CallRecv(r)
    <3>1. PICK m \in RecvModes : Enter(r, m, IF m = "burst" THEN <<"bRecv">> ELSE <<"rSendCnt">>)
      BY <2>1 DEF CallRecv
    <3>2. CASE m = "burst"
      <4>1. Enter(r, m, <<"bRecv">>) /\ Head(<<"bRecv">>) \notin {"popCommit", "rMeet"}
        BY <3>1, <3>2
      <4> QED BY <1>0, <2>0, <4>1, EnterOrder
    <3>3. CASE m # "burst"
      <4>1. Enter(r, m, <<"rSendCnt">>) /\ Head(<<"rSendCnt">>) \notin {"popCommit", "rMeet"}
        BY <3>1, <3>3
      <4> QED BY <1>0, <2>0, <4>1, EnterOrder
    <3> QED BY <3>2, <3>3
  <2>2. CASE \/ RecvSendCnt(r) \/ RecvRecvCnt(r) \/ RecvEmpty(r) \/ RecvPopped(r) \/ RecvLock(r) \/ RecvHelp(r)
             \/ RecvHelped(r) \/ RecvHelpFailed(r) \/ RecvWake(r) \/ RecvPark(r) \/ RecvAgain(r) \/ RecvBurst(r)
    BY <1>0, <2>2, RecvOrder
  <2>3. CASE RecvMeet(r)
    BY <1>0, <2>3, MeetOrder
  <2>4. CASE BurstNone(r) \/ RingStep(r) \/ HelperStep(r)
    BY <1>0, <2>0, <2>4, HelperOrder, RingStepOrder
  <2>5. CASE ParkStep(r)
    BY <1>0, <2>0, <2>5, ParkOrder
  <2> QED BY <1>2, <2>1, <2>2, <2>3, <2>4, <2>5 DEF RecvStep
<1>3. ASSUME NEW c \in Closers, CallClose(c) \/ CloseStep(c) PROVE OrderInv'
  <2>0. c \in Threads
    BY DEF Threads
  <2>1. CASE CallClose(c)
    <3>1. Enter(c, "block", <<"cLock">>) /\ Head(<<"cLock">>) \notin {"popCommit", "rMeet"}
      BY <2>1 DEF CallClose
    <3> QED BY <1>0, <2>0, <3>1, EnterOrder
  <2>2. CASE CloseLock(c) \/ CloseNext(c) \/ CloseServe(c)
    BY <1>0, <2>0, <2>2, CloseOrder
  <2>3. CASE RingStep(c)
    BY <2>0, <2>3, RingStepOrder
  <2> QED BY <1>3, <2>1, <2>2, <2>3 DEF CloseStep
<1>4. CASE UNCHANGED vars
  <2>1. UNCHANGED <<log, prodTail, consHead, sendq, th, out, rcvd>>
    BY <1>4 DEF vars, ring, queues, waiters, hist
  <2>2. SlotOrder' /\ OutOrder' /\ GotOrder' /\ CommitInv' /\ MeetInv'
    BY <2>1 DEF OrderInv, SlotOrder, OutOrder, GotOrder, CommitInv, MeetInv
  <2>3. AheadOrder' /\ PopOrder'
    BY <2>1 DEF OrderInv, AheadOrder, PopOrder, AtRecv, HasGot, Popping
  <2> QED BY <2>2, <2>3 DEF OrderInv
<1> QED BY <1>1, <1>2, <1>3, <1>4 DEF Next

\* At the start nothing is in the ring or at a receiver.
LEMMA InitOrder ==
    ASSUME Init
    PROVE  OrderInv
<1>1. /\ log = << >> /\ prodTail = 0 /\ consHead = 0 /\ out = [r \in Receivers |-> NoMsg]
      /\ rcvd = [r \in Receivers |-> << >>] /\ \A t \in Threads : th[t].at = <<"idle">>
  BY DEF Init, Idle
<1>2. Len(log) = 0 /\ \A r \in Receivers : out[r] = NoMsg /\ Len(rcvd[r]) = 0
  BY <1>1
<1>3. \A t \in Threads : Head(th[t].at) = "idle"
  BY <1>1
<1>4. SlotOrder /\ AheadOrder /\ CommitInv
  BY <1>1, <1>2 DEF SlotOrder, AheadOrder, CommitInv
<1>5. PopOrder /\ OutOrder /\ GotOrder
  BY <1>2, <1>3 DEF PopOrder, OutOrder, GotOrder, Popping
<1>6. MeetInv
  BY <1>3 DEF MeetInv, Threads
<1> QED BY <1>4, <1>5, <1>6 DEF OrderInv

\* In order, without timed sends: each receiver gets the messages of one
\* sender in the order they were sent, through the ring, by the hand of a
\* helper or of the closing thread, or in a rendezvous past the ring.
THEOREM MessagesInOrder ==
    ASSUME "timed" \notin SendModes
    PROVE  Spec => []SenderOrder
<1>1. Init => OrderInv
  BY InitOrder
<1>2. Inv /\ RingTypes /\ StateTypes /\ DataInv /\ DataInv' /\ OrderInv /\ [Next]_vars => OrderInv'
  BY OrderKeeps DEF TimedFree
<1>3. StateTypes /\ OrderInv => SenderOrder
  <2>1. SUFFICES ASSUME StateTypes, OrderInv, NEW r \in Receivers, NEW i \in DOMAIN rcvd[r], NEW j \in DOMAIN rcvd[r],
                        i < j, rcvd[r][i][1] = rcvd[r][j][1]
                 PROVE  rcvd[r][i][2] < rcvd[r][j][2]
    BY DEF SenderOrder
  <2>2. i \in 1..Len(rcvd[r]) /\ j \in 1..Len(rcvd[r])
    BY <2>1 DEF StateTypes
  <2> QED BY <2>1, <2>2 DEF OrderInv, GotOrder, Earlier
<1> QED BY <1>1, <1>2, <1>3, BufferedInvariant, TypesHold, PlacesHold, PTL DEF Spec
==============================================================================
