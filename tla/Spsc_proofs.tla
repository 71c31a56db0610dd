----------------------------- MODULE Spsc_proofs -----------------------------
(***************************************************************************)
(* An SPSC channel loses, duplicates and reorders nothing, sleeps through   *)
(* no wake and strands nobody: for every capacity, every form of call and  *)
(* any number of calls, over the store buffers of the unfenced fast paths. *)
(***************************************************************************)
EXTENDS Spsc, TLAPS

\* The invariant: NoSleepThroughWake is inductive once the types are known.
WakeInv == WakeTypes /\ NoSleepThroughWake

\* Thread x has set the word of w and is about to call FUTEX_WAKE for it.
Notifying(x, w) == th[x].w = w /\ th[x].pc \in {"notify", "lateNotify"}

\* Where the positions are.
LEMMA ThreadFacts ==
    /\ Parkers = {P, C} /\ Parkers \subseteq Threads /\ K \in Threads /\ P \in Threads /\ C \in Threads
    /\ \A t \in Parkers : Peer(t) \in Parkers
    /\ Idle \in Positions
<1>1. Parkers = {P, C}
  BY SpscAssumption
<1>2. Parkers \subseteq Threads /\ K \in Threads /\ P \in Threads /\ C \in Threads
  BY <1>1 DEF Threads
<1>3. \A t \in Parkers : Peer(t) \in Parkers
  BY <1>1 DEF Peer
<1>4. P \in Parkers
  BY <1>1
<1>5. Idle \in Positions
  BY <1>4 DEF Idle, Positions, Labels
<1> QED BY <1>1, <1>2, <1>3, <1>5

\* Every initial state has the invariant: nobody sleeps.
LEMMA WakeInit == Init => WakeInv
BY ThreadFacts DEF Init, ParkInit, WakeInv, WakeTypes, NoSleepThroughWake

\* A step that sets no word, puts nobody to sleep and takes no thread away
\* from a FUTEX_WAKE keeps the invariant.
LEMMA WakeFrame ==
    ASSUME WakeInv,
           th' \in [Threads -> Positions],
           word' \in [Parkers -> {0, 1}], backend' = backend,
           asleep' \subseteq asleep,
           \A t \in asleep' : word'[t] = 1 => word[t] = 1,
           \A x \in Threads, w \in asleep' : Notifying(x, w) => Notifying(x, w)'
    PROVE  WakeInv'
<1>1. WakeTypes'
  BY DEF WakeInv, WakeTypes
<1>2. NoSleepThroughWake'
  <2> SUFFICES ASSUME NEW t \in asleep', word'[t] = 1
               PROVE  \E x \in Threads : th'[x].w = t /\ th'[x].pc \in {"notify", "lateNotify"}
    BY DEF NoSleepThroughWake
  <2>1. PICK x \in Threads : Notifying(x, t)
    BY DEF WakeInv, NoSleepThroughWake, Notifying
  <2> QED BY <2>1 DEF Notifying
<1> QED BY <1>1, <1>2 DEF WakeInv

\* A thread outside a FUTEX_WAKE moves; the parks stay as they are.
LEMMA WakeMove ==
    ASSUME WakeInv, UNCHANGED park, NEW t \in Threads,
           NEW f \in Positions,
           th[t].pc \notin {"notify", "lateNotify"},
           th' = [th EXCEPT ![t] = f]
    PROVE  WakeInv'
<1>1. /\ th' \in [Threads -> Positions]
      /\ \A x \in Threads : x # t => th'[x] = th[x]
  BY DEF WakeInv, WakeTypes
<1>2. word' = word /\ asleep' = asleep /\ backend' = backend
  BY DEF park
<1> QED BY <1>1, <1>2, WakeFrame DEF WakeInv, WakeTypes, Notifying

\* The same for a return to the caller.
LEMMA WakeReturn ==
    ASSUME WakeInv, NEW t \in Threads, NEW res, Return(t, res),
           UNCHANGED park, th[t].pc \notin {"notify", "lateNotify"}
    PROVE  WakeInv'
<1>1. /\ th' \in [Threads -> Positions]
      /\ \A x \in Threads : x # t => th'[x].pc = th[x].pc /\ th'[x].w = th[x].w
  BY ThreadFacts DEF Return, WakeInv, WakeTypes, Positions
<1>2. word' = word /\ asleep' = asleep /\ backend' = backend
  BY DEF park
<1> QED BY <1>1, <1>2, WakeFrame DEF WakeInv, WakeTypes, Notifying

\* A waker sets the word of its waiter: on the futex backend it goes on to
\* FUTEX_WAKE, on the other the waiter is up at once.
LEMMA WakeSet ==
    ASSUME WakeInv, NEW t \in Threads, NEW l \in Labels, ParkSet(th[t].w),
           backend = "pthread" \/ l \in {"notify", "lateNotify"},
           th[t].pc \notin {"notify", "lateNotify"},
           th' = [th EXCEPT ![t].pc = l]
    PROVE  WakeInv'
<1> DEFINE v == th[t].w
<1>1. v \in Parkers /\ t \in DOMAIN th /\ th[t] \in Positions
  BY DEF WakeInv, WakeTypes, Positions
<1>2. /\ th' \in [Threads -> Positions]
      /\ \A x \in Threads : x # t => th'[x] = th[x]
      /\ th'[t].pc = l /\ th'[t].w = v
  BY DEF WakeInv, WakeTypes, Positions
<1>3. /\ word' \in [Parkers -> {0, 1}] /\ \A u \in Parkers : u # v => word'[u] = word[u]
      /\ backend' = backend
      /\ asleep' = IF backend = "pthread" THEN asleep \ {v} ELSE asleep
  BY <1>1 DEF ParkSet, WakeInv, WakeTypes
<1>4. WakeTypes'
  BY <1>2, <1>3 DEF WakeInv, WakeTypes
<1>5. NoSleepThroughWake'
  <2> SUFFICES ASSUME NEW u \in asleep', word'[u] = 1
               PROVE  \E x \in Threads : th'[x].w = u /\ th'[x].pc \in {"notify", "lateNotify"}
    BY DEF NoSleepThroughWake
  <2> HIDE DEF v
  <2>1. CASE u = v
    <3>1. l \in {"notify", "lateNotify"}
      BY <1>3, <2>1
    <3> QED BY <1>2, <2>1, <3>1
  <2>2. CASE u # v
    <3>1. u \in asleep /\ word[u] = 1
      BY <1>3, <2>2 DEF WakeInv, WakeTypes
    <3>2. PICK x \in Threads : th[x].w = u /\ th[x].pc \in {"notify", "lateNotify"}
      BY <3>1 DEF WakeInv, NoSleepThroughWake
    <3> QED BY <1>2, <3>2
  <2> QED BY <2>1, <2>2
<1> QED BY <1>4, <1>5 DEF WakeInv

\* A FUTEX_WAKE wakes the waiter, so the thread that made it may go on.
LEMMA WakeNotify ==
    ASSUME WakeInv, NEW t \in Threads, ParkNotify(th[t].w),
           th' \in [Threads -> Positions],
           \A x \in Threads : x # t => th'[x].pc = th[x].pc /\ th'[x].w = th[x].w
    PROVE  WakeInv'
<1>1. word' = word /\ asleep' = asleep \ {th[t].w} /\ backend' = backend
  BY DEF ParkNotify
<1> QED BY <1>1, WakeFrame DEF WakeInv, WakeTypes, Notifying

\* Going to sleep compares the word; leaving FUTEX_WAIT for another reason
\* only empties the set of sleepers.
LEMMA WakeSleep ==
    ASSUME WakeInv, NEW t \in Parkers, th' = th,
           ParkSleep(t) \/ ParkSpurious(t)
    PROVE  WakeInv'
<1>1. CASE ParkSleep(t)
  <2>1. word' = word /\ asleep' = asleep \cup {t} /\ word[t] = 0 /\ backend' = backend
    BY <1>1 DEF ParkSleep
  <2> QED BY <2>1 DEF WakeInv, WakeTypes, NoSleepThroughWake
<1>2. CASE ParkSpurious(t)
  BY <1>2, WakeFrame DEF ParkSpurious, WakeInv, WakeTypes, Notifying
<1> QED BY <1>1, <1>2

\* Every step of a thread of either side keeps the invariant.
LEMMA WakeStep ==
    ASSUME WakeInv, NEW t \in Parkers, Step(t)
    PROVE  WakeInv'
<1>0. t \in Threads /\ th \in [Threads -> Positions] /\ th[t] \in Positions /\ Peer(t) \in Parkers
  BY ThreadFacts DEF WakeInv, WakeTypes
<1>g. ASSUME NEW l \in Labels, Goto(t, l), UNCHANGED park, th[t].pc \notin {"notify", "lateNotify"}
      PROVE  WakeInv'
  <2> DEFINE f == [th[t] EXCEPT !.pc = l]
  <2>1. f \in Positions /\ th' = [th EXCEPT ![t] = f]
    BY <1>0, <1>g DEF Goto, Positions
  <2> QED BY <1>0, <1>g, <2>1, WakeMove
<1>n. ASSUME NEW l \in Labels, NEW n \in Labels, GotoNext(t, l, n), UNCHANGED park,
             th[t].pc \notin {"notify", "lateNotify"}
      PROVE  WakeInv'
  <2> DEFINE f == [th[t] EXCEPT !.pc = l, !.next = n]
  <2>1. f \in Positions /\ th' = [th EXCEPT ![t] = f]
    BY <1>0, <1>n DEF GotoNext, Positions
  <2> QED BY <1>0, <1>n, <2>1, WakeMove
<1>1. CASE LookForWaiter(t)
  <2>1. UNCHANGED park /\ th[t].pc = "count"
    BY <1>1 DEF LookForWaiter, At
  <2>2. GotoNext(t, "helpLock", "done") \/ Return(t, "OK")
    BY <1>1 DEF LookForWaiter
  <2> QED BY <1>0, <1>n, <2>1, <2>2, WakeReturn DEF Labels
<1>2. CASE HelpLock(t)
  BY <1>g, <1>2 DEF HelpLock, At, Labels
<1>3. CASE Help(t)
  <2>1. UNCHANGED park /\ th[t].pc = "help"
    BY <1>3 DEF Help, At
  <2>2. CASE th' = [th EXCEPT ![t].pc = "wake", ![t].w = Peer(t)]
    <3> DEFINE f == [th[t] EXCEPT !.pc = "wake", !.w = Peer(t)]
    <3>1. f \in Positions /\ th' = [th EXCEPT ![t] = f]
      BY <1>0, <2>2 DEF Positions, Labels
    <3> QED BY <1>0, <2>1, <3>1, WakeMove
  <2>3. CASE Goto(t, th[t].next)
    BY <1>0, <1>g, <2>1, <2>3 DEF Positions
  <2> QED BY <1>3, <2>2, <2>3 DEF Help
<1>4. CASE Wake(t)
  <2> DEFINE l == IF backend = "futex" THEN "notify" ELSE th[t].next
  <2>1. th[t].pc = "wake" /\ ParkSet(th[t].w) /\ th' = [th EXCEPT ![t].pc = l] /\ l \in Labels
    BY <1>0, <1>4 DEF Wake, At, Goto, Positions, Labels
  <2>2. backend = "pthread" \/ l \in {"notify", "lateNotify"}
    BY DEF WakeInv, WakeTypes
  <2> HIDE DEF l
  <2> QED BY <1>0, <2>1, <2>2, WakeSet
<1>5. CASE Notify(t)
  <2>1. /\ ParkNotify(th[t].w) /\ th' \in [Threads -> Positions]
        /\ \A x \in Threads : x # t => th'[x] = th[x]
    BY <1>0, <1>5 DEF Notify, Goto, Positions
  <2> QED BY <1>0, <2>1, WakeNotify
<1>6. CASE Done(t)
  BY <1>0, <1>6, WakeReturn DEF Done, At
<1>7. CASE Register(t)
  <2>1. CASE Return(t, "WOULDBLOCK") /\ UNCHANGED park
    BY <1>0, <1>7, <2>1, WakeReturn DEF Register, At
  <2>2. CASE ParkFresh(t) /\ Goto(t, "again")
    <3>1. th[t].pc = "park"
      BY <1>7 DEF Register, At
    <3>2. word' \in [Parkers -> {0, 1}] /\ asleep' = asleep /\ backend' = backend
          /\ \A u \in asleep : word'[u] = 1 => word[u] = 1
      BY <2>2 DEF ParkFresh, WakeInv, WakeTypes
    <3>3. th' \in [Threads -> Positions] /\ \A x \in Threads : x # t => th'[x] = th[x]
      BY <1>0, <2>2 DEF Goto, Positions, Labels
    <3> QED BY <3>1, <3>2, <3>3, WakeFrame DEF Notifying
  <2> QED BY <1>7, <2>1, <2>2 DEF Register
<1>8. CASE Again(t)
  <2>1. UNCHANGED park /\ th[t].pc = "again"
    BY <1>8 DEF Again, At
  <2>2. GotoNext(t, IF t = P THEN "help" ELSE "done", "done") \/ Goto(t, "parked")
    BY <1>8 DEF Again
  <2> QED BY <1>g, <1>n, <2>1, <2>2 DEF Labels
<1>9. CASE Sleep(t)
  BY <1>9, WakeSleep DEF Sleep
<1>10. CASE Woken(t)
  BY <1>0, <1>10, WakeReturn DEF Woken, At, ParkTrue, Deregister
<1>11. CASE Timeout(t)
  <2>1. word' = word /\ backend' = backend /\ asleep' \subseteq asleep /\ th[t].pc = "parked"
    BY <1>11 DEF Timeout, ParkTimeout, At
  <2>2. th' \in [Threads -> Positions] /\ \A x \in Threads : x # t => th'[x] = th[x]
    BY <1>0, <1>11 DEF Timeout, Goto, Positions, Labels
  <2> QED BY <2>1, <2>2, WakeFrame DEF Notifying, WakeInv, WakeTypes
<1>12. CASE Backstop(t)
  <2>1. UNCHANGED park /\ th[t].pc = "timedOut"
    BY <1>12 DEF Backstop, At
  <2>2. th' = [th EXCEPT ![t].pc = "parked", ![t].phase = 2] \/ Goto(t, "served")
    BY <1>12 DEF Backstop
  <2>3. CASE th' = [th EXCEPT ![t].pc = "parked", ![t].phase = 2]
    <3> DEFINE f == [th[t] EXCEPT !.pc = "parked", !.phase = 2]
    <3>1. f \in Positions /\ th' = [th EXCEPT ![t] = f]
      BY <1>0, <2>3 DEF Positions, Labels
    <3> QED BY <1>0, <2>1, <3>1, WakeMove
  <2> QED BY <1>g, <2>1, <2>2, <2>3 DEF Labels
<1>13. CASE TimedOut(t)
  BY <1>g, <1>13 DEF TimedOut, At, Labels
<1>14. CASE Served(t)
  BY <1>0, <1>14, WakeReturn DEF Served, At, Deregister
<1> QED BY <1>1, <1>2, <1>3, <1>4, <1>5, <1>6, <1>7, <1>8, <1>9, <1>10, <1>11, <1>12, <1>13, <1>14
        DEF Step

\* The steps of the two sides that are not common to both.
LEMMA WakeSideStep ==
    ASSUME WakeInv,
           SendClosed \/ SpscPush \/ SendLock \/ SpscPop \/ RecvLock \/ RecvHelpPush \/ LateWake \/ LateNotify
    PROVE  WakeInv'
<1>0. /\ P \in Threads /\ C \in Threads /\ P \in Parkers
      /\ th \in [Threads -> Positions] /\ th[P] \in Positions /\ th[C] \in Positions
  BY ThreadFacts DEF WakeInv, WakeTypes
<1>g. ASSUME NEW t \in {P, C}, NEW l \in Labels, Goto(t, l), UNCHANGED park,
             th[t].pc \notin {"notify", "lateNotify"}
      PROVE  WakeInv'
  <2> DEFINE f == [th[t] EXCEPT !.pc = l]
  <2>1. f \in Positions /\ th' = [th EXCEPT ![t] = f]
    BY <1>0, <1>g DEF Goto, Positions
  <2> QED BY <1>0, <1>g, <2>1, WakeMove
<1>n. ASSUME NEW t \in {P, C}, NEW l \in Labels, NEW n \in Labels, GotoNext(t, l, n), UNCHANGED park,
             th[t].pc \notin {"notify", "lateNotify"}
      PROVE  WakeInv'
  <2> DEFINE f == [th[t] EXCEPT !.pc = l, !.next = n]
  <2>1. f \in Positions /\ th' = [th EXCEPT ![t] = f]
    BY <1>0, <1>n DEF GotoNext, Positions
  <2> QED BY <1>0, <1>n, <2>1, WakeMove
<1>w. ASSUME th' = [th EXCEPT ![C].pc = "lateWake", ![C].w = P], UNCHANGED park,
             th[C].pc \notin {"notify", "lateNotify"}
      PROVE  WakeInv'
  <2> DEFINE f == [th[C] EXCEPT !.pc = "lateWake", !.w = P]
  <2>1. f \in Positions /\ th' = [th EXCEPT ![C] = f]
    BY <1>0, <1>w DEF Positions, Labels
  <2> QED BY <1>0, <1>w, <2>1, WakeMove
<1>1. CASE SendClosed
  <2>1. UNCHANGED park /\ th[P].pc = "closed" /\ (Goto(P, "lock") \/ Goto(P, "ring"))
    BY <1>1 DEF SendClosed, At
  <2> QED BY <1>g, <2>1 DEF Labels
<1>2. CASE SpscPush
  <2>1. UNCHANGED park /\ th[P].pc = "ring" /\ (Goto(P, "lock") \/ Goto(P, "count"))
    BY <1>2 DEF SpscPush, At
  <2> QED BY <1>g, <2>1 DEF Labels
<1>3. CASE SendLock
  <2>1. UNCHANGED park /\ th[P].pc = "lock"
    BY <1>3 DEF SendLock, At
  <2>2. Return(P, "CLOSED") \/ GotoNext(P, "help", "done") \/ GotoNext(P, "help", "park")
    BY <1>3 DEF SendLock
  <2> QED BY <1>0, <1>n, <2>1, <2>2, WakeReturn DEF Labels
<1>4. CASE SpscPop
  <2>1. UNCHANGED park /\ th[C].pc = "ring" /\ (Goto(C, "lock") \/ Goto(C, "count"))
    BY <1>4 DEF SpscPop, At
  <2> QED BY <1>g, <2>1 DEF Labels
<1>5. CASE RecvLock
  <2>1. UNCHANGED park /\ th[C].pc = "lock"
    BY <1>5 DEF RecvLock, At
  <2>2. \/ Goto(C, "helpPush") \/ Goto(C, "park") \/ Return(C, "CLOSED")
        \/ th' = [th EXCEPT ![C].pc = "lateWake", ![C].w = P]
    BY <1>5 DEF RecvLock
  <2> QED BY <1>0, <1>g, <1>w, <2>1, <2>2, WakeReturn DEF Labels
<1>6. CASE RecvHelpPush
  <2>1. UNCHANGED park /\ th[C].pc = "helpPush"
    BY <1>6 DEF RecvHelpPush, At
  <2>2. Return(C, "OK") \/ th' = [th EXCEPT ![C].pc = "lateWake", ![C].w = P]
    BY <1>6 DEF RecvHelpPush
  <2> QED BY <1>0, <1>w, <2>1, <2>2, WakeReturn
<1>7. CASE LateWake
  <2>1. th[C].pc = "lateWake" /\ th' = [th EXCEPT ![C].pc = "lateNotify"]
    BY <1>7 DEF LateWake, At, Goto
  <2>2. CASE ParkSet(th[C].w)
    BY <1>0, <2>1, <2>2, WakeSet DEF Labels
  <2>3. CASE UNCHANGED park
    BY <1>g, <2>1, <2>3 DEF Goto, Labels
  <2> QED BY <1>7, <2>2, <2>3 DEF LateWake
<1>8. CASE LateNotify
  <2>1. ParkNotify(th[C].w) /\ Return(C, "OK")
    BY <1>8 DEF LateNotify
  <2>2. /\ th' \in [Threads -> Positions]
        /\ \A x \in Threads : x # C => th'[x].pc = th[x].pc /\ th'[x].w = th[x].w
    BY <1>0, <2>1, ThreadFacts DEF Return, Positions
  <2> QED BY <1>0, <2>1, <2>2, WakeNotify
<1> QED BY <1>1, <1>2, <1>3, <1>4, <1>5, <1>6, <1>7, <1>8

\* The steps of chan_close.
LEMMA WakeCloseStep ==
    ASSUME WakeInv, CloseStep
    PROVE  WakeInv'
<1>0. /\ K \in Threads /\ P \in Parkers /\ C \in Parkers
      /\ th \in [Threads -> Positions] /\ th[K] \in Positions
  BY ThreadFacts DEF WakeInv, WakeTypes
<1>g. ASSUME NEW l \in Labels, Goto(K, l), UNCHANGED park, th[K].pc \notin {"notify", "lateNotify"}
      PROVE  WakeInv'
  <2> DEFINE f == [th[K] EXCEPT !.pc = l]
  <2>1. f \in Positions /\ th' = [th EXCEPT ![K] = f]
    BY <1>0, <1>g DEF Goto, Positions
  <2> QED BY <1>0, <1>g, <2>1, WakeMove
<1>w. ASSUME NEW n \in Labels, NEW w \in Parkers,
             th' = [th EXCEPT ![K].pc = "wake", ![K].next = n, ![K].w = w], UNCHANGED park,
             th[K].pc \notin {"notify", "lateNotify"}
      PROVE  WakeInv'
  <2> DEFINE f == [th[K] EXCEPT !.pc = "wake", !.next = n, !.w = w]
  <2>1. f \in Positions /\ th' = [th EXCEPT ![K] = f]
    BY <1>0, <1>w DEF Positions, Labels
  <2> QED BY <1>0, <1>w, <2>1, WakeMove
<1>1. CASE Close
  <2>1. UNCHANGED park /\ th[K].pc = "close"
    BY <1>1 DEF Close, At
  <2>2. \/ Goto(K, "closeRecv")
        \/ th' = [th EXCEPT ![K].pc = "wake", ![K].next = "closeRecv", ![K].w = P]
    BY <1>1 DEF Close
  <2> QED BY <1>0, <1>g, <1>w, <2>1, <2>2 DEF Labels
<1>2. CASE CloseRecv
  <2>1. UNCHANGED park /\ th[K].pc = "closeRecv"
    BY <1>2 DEF CloseRecv, At
  <2>2. \/ Goto(K, "done")
        \/ th' = [th EXCEPT ![K].pc = "wake", ![K].next = "done", ![K].w = C]
    BY <1>2 DEF CloseRecv
  <2> QED BY <1>0, <1>g, <1>w, <2>1, <2>2 DEF Labels
<1>3. CASE Wake(K)
  <2> DEFINE l == IF backend = "futex" THEN "notify" ELSE th[K].next
  <2>1. th[K].pc = "wake" /\ ParkSet(th[K].w) /\ th' = [th EXCEPT ![K].pc = l] /\ l \in Labels
    BY <1>0, <1>3 DEF Wake, At, Goto, Positions, Labels
  <2>2. backend = "pthread" \/ l \in {"notify", "lateNotify"}
    BY DEF WakeInv, WakeTypes
  <2> HIDE DEF l
  <2> QED BY <1>0, <2>1, <2>2, WakeSet
<1>4. CASE Notify(K)
  <2>1. /\ ParkNotify(th[K].w) /\ th' \in [Threads -> Positions]
        /\ \A x \in Threads : x # K => th'[x] = th[x]
    BY <1>0, <1>4 DEF Notify, Goto, Positions
  <2> QED BY <1>0, <2>1, WakeNotify
<1>5. CASE Done(K)
  BY <1>0, <1>5, WakeReturn DEF Done, At
<1> QED BY <1>1, <1>2, <1>3, <1>4, <1>5 DEF CloseStep

\* Every step keeps the invariant.
LEMMA WakeInvStep == WakeInv /\ [Next]_vars => WakeInv'
<1> SUFFICES ASSUME WakeInv, [Next]_vars PROVE WakeInv'
  OBVIOUS
<1>0. Parkers = {P, C} /\ Parkers \subseteq Threads /\ K \in Threads /\ th \in [Threads -> Positions]
  BY ThreadFacts DEF WakeInv, WakeTypes
<1>1. CASE UNCHANGED vars
  BY <1>1 DEF vars, park, WakeInv, WakeTypes, NoSleepThroughWake
<1>2. ASSUME NEW t \in Threads, Enter(t) PROVE WakeInv'
  <2>1. PICK l \in {"closed", "ring", "close"} : th' = [th EXCEPT ![t] = [Idle EXCEPT !.pc = l]]
    BY <1>2 DEF Enter
  <2> DEFINE f == [Idle EXCEPT !.pc = l]
  <2>2. f \in Positions
    BY ThreadFacts DEF Positions, Labels
  <2>3. UNCHANGED park /\ th[t].pc = "idle"
    BY <1>2 DEF Enter, At
  <2> QED BY <2>1, <2>2, <2>3, WakeMove
<1>3. ASSUME NEW t \in {P, C}, Flush(t) \/ Spurious(t) PROVE WakeInv'
  <2>1. CASE Flush(t)
    BY <2>1 DEF Flush, park, WakeInv, WakeTypes, NoSleepThroughWake
  <2>2. CASE Spurious(t)
    BY <1>0, <2>2, WakeSleep DEF Spurious
  <2> QED BY <1>3, <2>1, <2>2
<1>4. CASE SendStep
  BY <1>0, <1>4, WakeSideStep, WakeStep DEF SendStep
<1>5. CASE RecvStep
  BY <1>0, <1>5, WakeSideStep, WakeStep DEF RecvStep
<1> QED BY <1>0, <1>1, <1>2, <1>3, <1>4, <1>5, WakeCloseStep DEF Next, CallSend, CallRecv, CallClose

\* Nobody sleeps in FUTEX_WAIT or on the condition variable with its word set,
\* unless its waker is on the way to FUTEX_WAKE.
THEOREM NoWakeSleptThrough == Spec => []NoSleepThroughWake
<1>1. Spec => []WakeInv
  BY WakeInit, WakeInvStep, PTL DEF Spec
<1>2. WakeInv => NoSleepThroughWake
  BY DEF WakeInv
<1> QED BY <1>1, <1>2, PTL

------------------------------------------------------------------------------
(* Exactly once, and nobody stranded.  Both are said of executions without *)
(* a stale wake, and so is the invariant.                                  *)

\* The positions in which a thread holds the channel's mutex.
Held == {"help", "wake", "notify", "done", "helpPush", "park", "again", "closeRecv"}

Waking(x, w) == th[x].pc \in {"wake", "notify"} /\ th[x].w = w

\* Which positions each thread can be in, where it goes when it has helped,
\* and whom it wakes.
LabelInv ==
    /\ th[P].pc \in Labels \ {"helpPush", "lateWake", "lateNotify", "close", "closeRecv"}
    /\ th[C].pc \in Labels \ {"closed", "close", "closeRecv"}
    /\ th[K].pc \in {"idle", "close", "closeRecv", "wake", "notify", "done"}
    /\ th[P].pc = "helpLock" => th[P].next = "done"
    /\ th[P].pc \in {"help", "wake", "notify"} => th[P].next \in {"done", "park"}
    /\ th[C].pc \in {"helpLock", "help", "wake", "notify"} => th[C].next = "done"
    /\ th[K].pc \in {"wake", "notify"} =>
           \/ th[K].next = "closeRecv" /\ th[K].w = P
           \/ th[K].next = "done" /\ th[K].w = C
    /\ th[P].pc \in {"wake", "notify"} => th[P].w = C
    /\ th[C].pc \in {"wake", "notify", "lateWake", "lateNotify"} => th[C].w = P

\* The mutex is taken where a thread holds it, and by one thread only.
MutexInv ==
    /\ \A t \in Threads : th[t].pc \in Held => lock
    /\ \A t, u \in Threads : th[t].pc \in Held /\ th[u].pc \in Held => t = u
    /\ th[K].pc \in {"wake", "notify", "closeRecv", "done"} => closed

\* A queued thread has not been woken and has not been told anything; a waker
\* has taken its waiter from the queue; the two sides never wait at once;
\* a thread that holds the mutex or is queued has no store on the way.
QueueInv ==
    /\ DOMAIN sb = Parkers /\ queued \in [Parkers -> BOOLEAN] /\ closed \in BOOLEAN /\ lock \in BOOLEAN
    /\ result \in [Parkers -> {"OK", "CLOSED", "TIMEOUT"}]
    /\ \A t \in Parkers : queued[t] =>
           th[t].pc \in {"again", "parked", "timedOut"} /\ word[t] = 0 /\ result[t] = "OK"
    /\ \A t \in Parkers : th[t].pc = "again" => queued[t]
    /\ \A x \in Threads, t \in Parkers : Waking(x, t) => ~queued[t]
    /\ th[C].pc = "lateWake" /\ th[C].phase = 1 =>
           ~queued[P] /\ th[P].pc \in {"parked", "timedOut", "served"}
    /\ ~(queued[P] /\ queued[C])
    /\ th[C].pc \in {"park", "again"} => ~queued[P]
    /\ th[P].pc \in {"park", "again"} => ~queued[C]
    /\ th[P].pc = "help" /\ th[P].next = "park" /\ queued[C] => ~CanPush
    /\ \A t \in Parkers : queued[t] \/ th[t].pc \in Held => sb[t] = << >>

\* Stores s on their way to memory m: a tail, its head, the next tail, ...
Chain(m, s, tail, head) ==
    /\ Len(s) = 0 => m[head] = m[tail]
    /\ Len(s) > 0 =>
           /\ s[Len(s)][1] = head
           /\ s[1][1] = tail => m[tail] = m[head] /\ s[1][2] = m[tail] + 1
           /\ s[1][1] = head => m[tail] = m[head] + 1 /\ s[1][2] = m[tail]
    /\ \A i \in 1..(Len(s) - 1) :
           /\ s[i][1] = tail => s[i + 1][1] = head /\ s[i + 1][2] = s[i][2]
           /\ s[i][1] = head => s[i + 1][1] = tail /\ s[i + 1][2] = s[i][2] + 1
    /\ \A i, j \in 1..Len(s) : i <= j => s[i][2] <= s[j][2]

Cursors == {"ph", "pt", "chd", "ct"}
Stores(tail, head) == Seq({tail, head} \X Nat)

\* The heads as their owners see them.
Taken == Own(C, "chd")
Put == Own(P, "ph")

\* Cursors of the other side, read from memory or from a cache, are behind.
CursorInv ==
    /\ mem \in [Cursors -> Nat] /\ cache \in [Parkers -> Nat]
    /\ sb[P] \in Stores("pt", "ph") /\ Chain(mem, sb[P], "pt", "ph")
    /\ sb[C] \in Stores("ct", "chd") /\ Chain(mem, sb[C], "ct", "chd")
    /\ cache[P] <= mem.ct /\ cache[C] <= mem.pt
    /\ Taken <= mem.pt /\ Put <= Taken + Capacity

\* The item in the slot of position i.
Item(i) == slots[i % Capacity]

\* Received, in the consumer's hand, and in the ring, in this order, the items
\* increase.
OrderInv ==
    /\ slots \in [0..(Capacity - 1) -> Nat] /\ rcvd \in Seq(Nat) /\ out \in Nat
    /\ calls \in [Threads -> Nat]
    /\ \A i, j \in DOMAIN rcvd : i < j => rcvd[i] < rcvd[j]
    /\ \A i \in DOMAIN rcvd : rcvd[i] # NoMsg
    /\ out # NoMsg => \A i \in DOMAIN rcvd : rcvd[i] < out
    /\ \A i \in Taken..(Put - 1) : Item(i) > out /\ \A j \in DOMAIN rcvd : rcvd[j] < Item(i)
    /\ \A i, j \in Taken..(Put - 1) : i < j => Item(i) < Item(j)

\* An item is in the channel or has left it.
Present(m) ==
    \/ \E i \in DOMAIN rcvd : rcvd[i] = m
    \/ \E i \in Taken..(Put - 1) : Item(i) = m
    \/ out = m /\ m # NoMsg

\* The call of t has moved its item.
Moved(t) ==
    \/ th[t].pc \in {"count", "helpLock", "done", "helpPush", "lateWake", "lateNotify"}
    \/ th[t].pc \in {"help", "wake", "notify"} /\ th[t].next = "done"
    \/ th[t].pc \in {"parked", "timedOut"} /\ ~queued[t] /\ result[t] = "OK"
    \/ th[t].pc = "served" /\ result[t] = "OK"

\* Where the item of each call is, and what its sender is or will be told.
ItemInv ==
    /\ \A m \in Nat : Present(m) => m <= calls[P]
    /\ \A m \in accepted \cup refused : m \in Nat /\ m <= calls[P]
    /\ \A m \in accepted : Present(m)
    /\ \A m \in refused : ~Present(m)
    /\ th[P].pc # "idle" =>
           /\ calls[P] > 0 /\ calls[P] \notin accepted \cup refused
           /\ Moved(P) <=> Present(calls[P])
    /\ out # NoMsg <=> Moved(C)

\* A registration is counted while the call lasts; a thread sleeps only where
\* it parks, and parks for good only after it has parked once.
CountInv ==
    /\ DOMAIN cnt = Parkers
    /\ \A t \in Parkers : cnt[t] = IF th[t].pc \in {"again", "parked", "timedOut", "served"} THEN 1 ELSE 0
    /\ \A t \in asleep : th[t].pc = "parked"
    /\ \A t \in Parkers : th[t].phase = 2 =>
           th[t].pc \in {"parked", "timedOut", "served", "lateWake", "lateNotify"}

\* Parked for good, or about to be unless the ring has changed.
Committed(t) ==
    queued[t] /\ form[t] = "block" /\ (th[t].pc = "timedOut" \/ (th[t].pc = "parked" /\ th[t].phase = 2))

\* Who parks for good is seen by the other side after its next operation; a
\* waiter that was taken from its queue is about to be woken; close takes all.
StrandInv ==
    /\ \A t \in Parkers : Committed(t) =>
           /\ sb[Peer(t)] # << >> => th[Peer(t)].pc \in {"count", "helpLock"}
           /\ th[t].pc = "parked" /\ Can(t) => th[Peer(t)].pc \in {"count", "helpLock", "help", "helpPush"}
    /\ \A t \in Parkers : th[t].pc = "parked" /\ ~queued[t] /\ word[t] = 0 =>
           \E x \in Threads : th[x].pc \in {"wake", "lateWake"} /\ th[x].w = t
    /\ closed =>
           /\ ~queued[P]
           /\ queued[C] => th[K].pc = "closeRecv" \/ (th[K].pc \in {"wake", "notify"} /\ th[K].next = "closeRecv")
           /\ th[P].pc \notin {"park", "again"} /\ th[C].pc \notin {"park", "again"}
           /\ ~(th[P].pc \in {"help", "wake", "notify"} /\ th[P].next = "park")

Control == LabelInv /\ MutexInv /\ QueueInv /\ CountInv /\ StrandInv
SpscInv == Control /\ CursorInv /\ OrderInv /\ ItemInv

------------------------------------------------------------------------------
(* The cursors.                                                            *)

\* The elements of a store buffer.
LEMMA StoreFacts ==
    ASSUME NEW tail, NEW head, NEW s \in Stores(tail, head)
    PROVE  /\ Len(s) \in Nat /\ DOMAIN s = 1..Len(s)
           /\ s = << >> <=> Len(s) = 0
           /\ \A i \in 1..Len(s) : s[i][1] \in {tail, head} /\ s[i][2] \in Nat
<1>1. Len(s) \in Nat /\ DOMAIN s = 1..Len(s) /\ (s = << >> <=> Len(s) = 0)
  BY DEF Stores
<1>2. \A i \in 1..Len(s) : s[i] \in {tail, head} \X Nat
  BY DEF Stores
<1>3. \A i \in 1..Len(s) : s[i][1] \in {tail, head} /\ s[i][2] \in Nat
  BY <1>2
<1> QED BY <1>1, <1>3

\* The value of the head: from memory if no store is on the way, else the last.
LEMMA LastStoredFacts ==
    ASSUME NEW tail, NEW head, NEW s \in Stores(tail, head), NEW m, Chain(m, s, tail, head)
    PROVE  /\ s = << >> => LastStored(m, s, head) = m[head]
           /\ s # << >> => LastStored(m, s, head) = s[Len(s)][2]
<1> DEFINE n == Len(s)
           at == {i \in DOMAIN s : s[i][1] = head}
<1>0. n \in Nat /\ DOMAIN s = 1..n /\ (s = << >> <=> n = 0)
  BY StoreFacts
<1>1. CASE s = << >>
  <2>1. at = {}
    BY <1>1
  <2> QED BY <1>1, <2>1 DEF LastStored
<1>2. CASE s # << >>
  <2>1. n > 0 /\ s[n][1] = head
    BY <1>0, <1>2 DEF Chain
  <2>2. n \in at /\ \A j \in at : j \in Int /\ j <= n
    BY <1>0, <2>1
  <2>3. (CHOOSE i \in at : \A j \in at : j <= i) = n
    <3> HIDE DEF at, n
    <3>1. \E i \in at : \A j \in at : j <= i
      BY <2>2
    <3>2. \A i \in at : (\A j \in at : j <= i) => i = n
      BY <2>2
    <3> QED BY <3>1, <3>2
  <2> QED BY <1>2, <2>2, <2>3 DEF LastStored
<1> QED BY <1>1, <1>2

\* The memory is behind what the owner sees, by nothing if no store is pending.
LEMMA ChainFacts ==
    ASSUME NEW tail \in {"pt", "ct"}, NEW head \in {"ph", "chd"}, NEW s \in Stores(tail, head),
           NEW m \in [Cursors -> Nat], Chain(m, s, tail, head)
    PROVE  /\ LastStored(m, s, head) \in Nat
           /\ m[head] <= LastStored(m, s, head) /\ m[tail] <= LastStored(m, s, head)
           /\ s = << >> => LastStored(m, s, head) = m[head] /\ LastStored(m, s, head) = m[tail]
<1> DEFINE n == Len(s)
<1>0. tail # head /\ m[tail] \in Nat /\ m[head] \in Nat
  BY DEF Cursors
<1>1. CASE s = << >>
  <2>1. m[head] = m[tail]
    BY <1>1, StoreFacts DEF Chain
  <2> QED BY <1>0, <1>1, <2>1, LastStoredFacts
<1>2. CASE s # << >>
  <2>1. n \in Nat /\ n > 0 /\ 1 \in 1..n /\ n \in 1..n
    BY <1>2, StoreFacts
  <2>2. s[1][1] \in {tail, head} /\ s[1][2] \in Nat /\ s[n][2] \in Nat
    BY <2>1, StoreFacts
  <2>3. s[1][2] <= s[n][2]
    BY <2>1 DEF Chain
  <2>4. m[tail] <= s[1][2] /\ m[head] <= s[1][2]
    BY <1>0, <2>1, <2>2 DEF Chain
  <2>5. LastStored(m, s, head) = s[n][2]
    BY <1>2, LastStoredFacts
  <2> QED BY <1>0, <1>2, <2>2, <2>3, <2>4, <2>5
<1> QED BY <1>1, <1>2

\* A chain depends on two cursors of the memory only.
LEMMA ChainSame ==
    ASSUME NEW tail, NEW head, NEW s, NEW m, NEW k, m[tail] = k[tail], m[head] = k[head],
           Chain(m, s, tail, head)
    PROVE  Chain(k, s, tail, head) /\ LastStored(k, s, head) = LastStored(m, s, head)
BY DEF Chain, LastStored

\* The oldest of the stores s reaches the memory m; r are left, k is the memory.
Flushed(m, s, k, r) == s # << >> /\ k = [m EXCEPT ![s[1][1]] = s[1][2]] /\ r = Tail(s)

\* A tail and a head of the same value v follow the stores s.
Extended(s, r, tail, head, v) == r = s \o <<<<tail, v>>, <<head, v>>>>

\* The oldest store reaches the memory: the owner sees no difference.
LEMMA ChainFlush ==
    ASSUME NEW tail \in {"pt", "ct"}, NEW head \in {"ph", "chd"}, NEW s \in Stores(tail, head),
           NEW m \in [Cursors -> Nat], Chain(m, s, tail, head),
           NEW k, NEW r, Flushed(m, s, k, r)
    PROVE  /\ r \in Stores(tail, head) /\ Chain(k, r, tail, head)
           /\ LastStored(k, r, head) = LastStored(m, s, head)
           /\ k \in [Cursors -> Nat]
           /\ m[tail] <= k[tail] /\ m[head] <= k[head]
           /\ \A f \in Cursors \ {tail, head} : k[f] = m[f]
<1> DEFINE n == Len(s)
<1>f. s # << >> /\ k = [m EXCEPT ![s[1][1]] = s[1][2]] /\ r = Tail(s)
  BY DEF Flushed
<1>0. tail # head /\ m[tail] \in Nat /\ m[head] \in Nat /\ tail \in Cursors /\ head \in Cursors
  BY DEF Cursors
<1>1. /\ n \in Nat /\ n > 0 /\ 1 \in 1..n /\ n \in 1..n
      /\ \A i \in 1..n : s[i][1] \in {tail, head} /\ s[i][2] \in Nat
  BY <1>f, StoreFacts
<1>2. /\ s[n][1] = head
      /\ s[1][1] = tail => m[tail] = m[head] /\ s[1][2] = m[tail] + 1
      /\ s[1][1] = head => m[tail] = m[head] + 1 /\ s[1][2] = m[tail]
  BY <1>1 DEF Chain
<1>3. /\ \A i \in 1..(n - 1) :
           /\ s[i][1] = tail => s[i + 1][1] = head /\ s[i + 1][2] = s[i][2]
           /\ s[i][1] = head => s[i + 1][1] = tail /\ s[i + 1][2] = s[i][2] + 1
      /\ \A i, j \in 1..n : i <= j => s[i][2] <= s[j][2]
  BY DEF Chain
<1>4. r \in Stores(tail, head) /\ Len(r) = n - 1 /\ \A i \in 1..(n - 1) : r[i] = s[i + 1]
  BY <1>1, <1>f DEF Stores
<1>5. /\ k \in [Cursors -> Nat]
      /\ k[s[1][1]] = s[1][2]
      /\ \A f \in Cursors : f # s[1][1] => k[f] = m[f]
  <2>1. s[1][1] \in Cursors /\ s[1][2] \in Nat
    BY <1>0, <1>1
  <2> QED BY <1>f, <2>1
<1>6. /\ m[tail] <= k[tail] /\ m[head] <= k[head]
      /\ \A f \in Cursors \ {tail, head} : k[f] = m[f]
  BY <1>0, <1>1, <1>2, <1>5
<1>7. CASE n = 1
  <2>1. s[1][1] = head /\ k[head] = k[tail] /\ k[head] = s[n][2]
    BY <1>0, <1>1, <1>2, <1>5, <1>7
  <2>2. r = << >> /\ Len(r) = 0
    BY <1>4, <1>7, StoreFacts
  <2>3. Chain(k, r, tail, head)
    BY <2>1, <2>2 DEF Chain
  <2>4. LastStored(k, r, head) = k[head]
    <3>1. {i \in DOMAIN r : r[i][1] = head} = {}
      BY <2>2
    <3> QED BY <3>1 DEF LastStored
  <2>5. LastStored(m, s, head) = s[n][2]
    BY <1>f, LastStoredFacts
  <2> QED BY <1>4, <1>5, <1>6, <2>1, <2>3, <2>4, <2>5
<1>8. CASE n > 1
  <2>1. r[n - 1] = s[n] /\ r[1] = s[2] /\ 1 \in 1..(n - 1)
    BY <1>1, <1>4, <1>8
  <2>2. /\ r[1][1] = tail => k[tail] = k[head] /\ r[1][2] = k[tail] + 1
        /\ r[1][1] = head => k[tail] = k[head] + 1 /\ r[1][2] = k[tail]
    <3>1. CASE s[1][1] = tail
      BY <1>0, <1>1, <1>2, <1>3, <1>5, <2>1, <3>1
    <3>2. CASE s[1][1] = head
      BY <1>0, <1>1, <1>2, <1>3, <1>5, <2>1, <3>2
    <3> QED BY <1>1, <3>1, <3>2
  <2>3. \A i \in 1..((n - 1) - 1) :
             /\ r[i][1] = tail => r[i + 1][1] = head /\ r[i + 1][2] = r[i][2]
             /\ r[i][1] = head => r[i + 1][1] = tail /\ r[i + 1][2] = r[i][2] + 1
    <3> SUFFICES ASSUME NEW i \in 1..((n - 1) - 1)
                 PROVE  /\ r[i][1] = tail => r[i + 1][1] = head /\ r[i + 1][2] = r[i][2]
                        /\ r[i][1] = head => r[i + 1][1] = tail /\ r[i + 1][2] = r[i][2] + 1
      OBVIOUS
    <3>1. i + 1 \in 1..(n - 1) /\ i \in 1..(n - 1)
      BY <1>1
    <3>2. r[i] = s[i + 1] /\ r[i + 1] = s[(i + 1) + 1]
      BY <1>4, <3>1
    <3> QED BY <1>3, <3>1, <3>2
  <2>4. \A i, j \in 1..(n - 1) : i <= j => r[i][2] <= r[j][2]
    <3> SUFFICES ASSUME NEW i \in 1..(n - 1), NEW j \in 1..(n - 1), i <= j PROVE r[i][2] <= r[j][2]
      OBVIOUS
    <3>1. i + 1 \in 1..n /\ j + 1 \in 1..n /\ i + 1 <= j + 1
      BY <1>1
    <3>2. r[i] = s[i + 1] /\ r[j] = s[j + 1]
      BY <1>4
    <3> QED BY <1>3, <3>1, <3>2
  <2>5. Len(r) = n - 1 /\ n - 1 > 0
    BY <1>1, <1>4, <1>8
  <2> HIDE DEF n
  <2>6. Chain(k, r, tail, head)
    BY <1>2, <2>1, <2>2, <2>3, <2>4, <2>5 DEF Chain
  <2>7. LastStored(k, r, head) = r[n - 1][2] /\ LastStored(m, s, head) = s[n][2]
    <3>1. r # << >> /\ s # << >> /\ Len(r) = n - 1 /\ Len(s) = n
      <4>1. Len(r) = n - 1 /\ Len(s) = n /\ Len(r) # 0
        BY <2>5 DEF n
      <4>2. r # << >>
        BY <1>4, <4>1, StoreFacts
      <4> QED BY <1>f, <4>1, <4>2
    <3>2. LastStored(k, r, head) = r[Len(r)][2]
      BY <1>4, <2>6, <3>1, LastStoredFacts
    <3>3. LastStored(m, s, head) = s[Len(s)][2]
      BY <3>1, LastStoredFacts
    <3> QED BY <3>1, <3>2, <3>3
  <2> QED BY <1>4, <1>5, <1>6, <2>1, <2>6, <2>7
<1>9. n = 1 \/ n > 1
  <2>1. n \in Nat /\ n > 0
    BY <1>1
  <2> HIDE DEF n
  <2> QED BY <2>1
<1> QED BY <1>7, <1>8, <1>9

\* A fast operation stores a tail and then a head, one more than the owner saw.
LEMMA ChainStore ==
    ASSUME NEW tail \in {"pt", "ct"}, NEW head \in {"ph", "chd"}, NEW s \in Stores(tail, head),
           NEW m \in [Cursors -> Nat], Chain(m, s, tail, head),
           NEW v, v = LastStored(m, s, head) + 1,
           NEW r, Extended(s, r, tail, head, v)
    PROVE  /\ r \in Stores(tail, head) /\ Chain(m, r, tail, head)
           /\ LastStored(m, r, head) = v
<1> DEFINE n == Len(s)
<1>0. tail # head /\ m[tail] \in Nat /\ m[head] \in Nat /\ v \in Nat
  BY ChainFacts DEF Cursors
<1>1. /\ n \in Nat /\ (s = << >> <=> n = 0)
      /\ \A i \in 1..n : s[i][1] \in {tail, head} /\ s[i][2] \in Nat
  BY StoreFacts
<1>2. /\ r \in Stores(tail, head) /\ Len(r) = n + 2
      /\ \A i \in 1..n : r[i] = s[i]
      /\ r[n + 1] = <<tail, v>> /\ r[n + 2] = <<head, v>>
  <2>1. <<<<tail, v>>, <<head, v>>>> \in Seq({tail, head} \X Nat)
    BY <1>0
  <2>2. r = s \o <<<<tail, v>>, <<head, v>>>>
    BY DEF Extended
  <2> QED BY <1>1, <2>1, <2>2 DEF Stores
<1>3. n > 0 => s[n][2] = v - 1 /\ s[n][1] = head
  <2> SUFFICES ASSUME n > 0 PROVE s[n][2] = v - 1 /\ s[n][1] = head
    OBVIOUS
  <2>1. LastStored(m, s, head) = s[n][2] /\ s[n][2] \in Nat
    BY <1>1, LastStoredFacts
  <2>2. s[n][1] = head
    BY DEF Chain
  <2> QED BY <2>1, <2>2
<1>4. n = 0 => m[head] = v - 1 /\ m[tail] = v - 1
  BY <1>0, <1>1, ChainFacts
<1>5. /\ r[1][1] = tail => m[tail] = m[head] /\ r[1][2] = m[tail] + 1
      /\ r[1][1] = head => m[tail] = m[head] + 1 /\ r[1][2] = m[tail]
  <2>1. CASE n = 0
    BY <1>0, <1>2, <1>4, <2>1
  <2>2. CASE n > 0
    <3>1. r[1] = s[1]
      BY <1>1, <1>2, <2>2
    <3> QED BY <2>2, <3>1 DEF Chain
  <2> QED BY <1>1, <2>1, <2>2
<1>6. ASSUME NEW i \in 1..(n + 1)
      PROVE  /\ r[i][1] = tail => r[i + 1][1] = head /\ r[i + 1][2] = r[i][2]
             /\ r[i][1] = head => r[i + 1][1] = tail /\ r[i + 1][2] = r[i][2] + 1
  <2>1. CASE i < n
    <3>1. i \in 1..(n - 1) /\ i \in 1..n /\ i + 1 \in 1..n
      BY <1>1, <2>1
    <3>2. r[i] = s[i] /\ r[i + 1] = s[i + 1]
      BY <1>2, <3>1
    <3> QED BY <3>1, <3>2 DEF Chain
  <2>2. CASE i = n
    <3>1. r[i] = s[n] /\ r[i + 1] = <<tail, v>> /\ n > 0
      BY <1>1, <1>2, <2>2
    <3> QED BY <1>0, <1>3, <3>1
  <2>3. CASE i = n + 1
    <3>1. r[i] = <<tail, v>> /\ r[i + 1] = <<head, v>>
      BY <1>1, <1>2, <2>3
    <3> QED BY <1>0, <3>1
  <2> QED BY <1>1, <2>1, <2>2, <2>3
<1>7. ASSUME NEW i \in 1..(n + 2), NEW j \in 1..(n + 2), i <= j PROVE r[i][2] <= r[j][2]
  <2>1. \A x \in 1..n : r[x] = s[x] /\ s[x][2] \in Nat /\ s[x][2] < v
    <3> SUFFICES ASSUME NEW x \in 1..n PROVE s[x][2] \in Nat /\ s[x][2] < v
      BY <1>2
    <3>1. x <= n /\ n \in 1..n
      BY <1>1
    <3>2. s[x][2] <= s[n][2]
      BY <3>1 DEF Chain
    <3> QED BY <1>0, <1>1, <1>3, <3>1, <3>2
  <2>2. CASE j \in 1..n
    <3>1. i \in 1..n
      BY <1>1, <1>7, <2>2
    <3> QED BY <1>7, <2>1, <2>2, <3>1 DEF Chain
  <2>3. CASE j \notin 1..n
    <3>0. j = n + 1 \/ j = n + 2
      BY <1>1, <2>3
    <3>1. r[j][2] = v
      BY <1>2, <3>0
    <3>2. i \in 1..n \/ i = n + 1 \/ i = n + 2
      BY <1>1
    <3>3. i \notin 1..n => r[i][2] = v
      BY <1>2, <3>2
    <3> QED BY <1>0, <2>1, <3>1, <3>3
  <2> QED BY <2>2, <2>3
<1>8. Chain(m, r, tail, head)
  <2>1. Len(r) = n + 2 /\ Len(r) > 0 /\ Len(r) - 1 = n + 1 /\ r[Len(r)][1] = head
    BY <1>1, <1>2
  <2>2. /\ \A i \in 1..(Len(r) - 1) :
               /\ r[i][1] = tail => r[i + 1][1] = head /\ r[i + 1][2] = r[i][2]
               /\ r[i][1] = head => r[i + 1][1] = tail /\ r[i + 1][2] = r[i][2] + 1
        /\ \A i, j \in 1..Len(r) : i <= j => r[i][2] <= r[j][2]
    BY <1>6, <1>7, <2>1
  <2>3. Len(r) # 0
    BY <1>1, <1>2
  <2> QED BY ONLY <1>5, <2>1, <2>2, <2>3 DEF Chain
<1>9. LastStored(m, r, head) = v
  <2>1. r # << >> /\ r[Len(r)][2] = v
    BY <1>1, <1>2, StoreFacts
  <2>2. LastStored(m, r, head) = r[Len(r)][2]
    <3> HIDE DEF n
    <3> QED BY ONLY <1>2, <1>8, <2>1, LastStoredFacts
  <2> QED BY <2>1, <2>2
<1> QED BY <1>2, <1>8, <1>9

\* An operation under the lock moves both cursors of its side by one.
LEMMA ChainBoth ==
    ASSUME NEW tail \in {"pt", "ct"}, NEW head \in {"ph", "chd"},
           NEW m \in [Cursors -> Nat], Chain(m, << >>, tail, head),
           NEW k, k[tail] = m[tail] + 1, k[head] = m[head] + 1
    PROVE  /\ Chain(k, << >>, tail, head) /\ LastStored(k, << >>, head) = m[head] + 1
           /\ LastStored(m, << >>, head) = m[head] /\ m[tail] = m[head]
<1>1. << >> \in Stores(tail, head) /\ Len(<< >>) = 0
  BY DEF Stores
<1>2. m[tail] = m[head]
  BY <1>1 DEF Chain
<1>3. Chain(k, << >>, tail, head)
  BY <1>1, <1>2 DEF Chain
<1> QED BY <1>1, <1>2, <1>3, LastStoredFacts

------------------------------------------------------------------------------
(* The items.                                                              *)

\* Positions less than the capacity apart have different slots.
LEMMA SlotsApart ==
    ASSUME NEW i \in Nat, NEW j \in Nat, i < j, j < i + Capacity
    PROVE  i % Capacity # j % Capacity
<1> SUFFICES ASSUME i % Capacity = j % Capacity PROVE FALSE
  OBVIOUS
<1> DEFINE x == i \div Capacity
           y == j \div Capacity
           r == i % Capacity
<1>1. Capacity \in Nat /\ Capacity > 0
  BY SpscAssumption
<1>2. x \in Int /\ y \in Int /\ r \in Int /\ i = Capacity * x + r /\ j = Capacity * y + r
  BY <1>1
<1> HIDE DEF x, y, r
<1>3. j - i = Capacity * (y - x) /\ y - x \in Int
  BY <1>1, <1>2
<1>4. \A d \in Int : Capacity * d > 0 => Capacity * d >= Capacity
  BY <1>1
<1> QED BY <1>1, <1>3, <1>4

\* A slot is one of the ring.
LEMMA SlotIndex == ASSUME NEW i \in Nat PROVE i % Capacity \in 0..(Capacity - 1)
BY SpscAssumption

\* The data is as it was.
LEMMA DataSame ==
    ASSUME OrderInv, UNCHANGED <<slots, rcvd, out>>, Taken' = Taken, Put' = Put, calls' \in [Threads -> Nat]
    PROVE  OrderInv' /\ \A m : Present(m)' <=> Present(m)
BY DEF OrderInv, Present, Item, NoMsg

\* A push puts an item greater than all others behind them.
LEMMA DataPush ==
    ASSUME OrderInv, UNCHANGED <<rcvd, out, calls>>, Taken \in Nat, Put \in Nat, Taken <= Put,
           NEW v \in Nat, v > 0, \A m \in Nat : Present(m) => m < v,
           Put < Taken + Capacity,
           Taken' = Taken, Put' = Put + 1,
           slots' = [slots EXCEPT ![Put % Capacity] = v]
    PROVE  OrderInv' /\ \A m \in Nat : Present(m)' <=> Present(m) \/ m = v
<1>0. PICK p \in Nat : p = Put
  OBVIOUS
<1>1. slots' \in [0..(Capacity - 1) -> Nat] /\ slots'[Put % Capacity] = v
  BY SlotIndex DEF OrderInv
<1>2. \A i \in Taken..(Put - 1) : Item(i)' = Item(i) /\ Item(i) \in Nat
  <2> SUFFICES ASSUME NEW i \in Taken..(Put - 1) PROVE Item(i)' = Item(i) /\ Item(i) \in Nat
    OBVIOUS
  <2>1. i \in Nat /\ i < Put /\ Put < i + Capacity /\ i % Capacity \in 0..(Capacity - 1)
    BY SlotIndex, SpscAssumption
  <2>2. i % Capacity # Put % Capacity
    BY <2>1, SlotsApart
  <2> QED BY <1>1, <2>1, <2>2 DEF Item, OrderInv
<1>3. Item(p)' = v
  BY <1>0, <1>1 DEF Item
<1>4. Taken'..(Put' - 1) = (Taken..(Put - 1)) \cup {p}
  BY <1>0
<1>5. /\ \A i \in Taken..(Put - 1) : Item(i) < v
      /\ \A i \in DOMAIN rcvd : rcvd[i] \in Nat /\ rcvd[i] < v
      /\ out < v
  <2>1. \A i \in Taken..(Put - 1) : Present(Item(i))
    BY DEF Present
  <2>2. \A i \in DOMAIN rcvd : rcvd[i] \in Nat /\ Present(rcvd[i])
    BY DEF Present, OrderInv
  <2>3. out \in Nat /\ (out # NoMsg => Present(out))
    BY DEF Present, OrderInv
  <2> QED BY <1>2, <2>1, <2>2, <2>3 DEF NoMsg
<1>6. OrderInv'
  <2> DEFINE R == Taken..(Put - 1)
  <2>0. /\ rcvd \in Seq(Nat) /\ out \in Nat /\ calls \in [Threads -> Nat]
        /\ \A i, j \in DOMAIN rcvd : i < j => rcvd[i] < rcvd[j]
        /\ \A i \in DOMAIN rcvd : rcvd[i] # NoMsg
        /\ out # NoMsg => \A i \in DOMAIN rcvd : rcvd[i] < out
    BY DEF OrderInv
  <2>1. \A i \in R \cup {p} : Item(i)' > out /\ \A j \in DOMAIN rcvd : rcvd[j] < Item(i)'
    BY <1>2, <1>3, <1>5 DEF OrderInv
  <2>2. \A i, j \in R \cup {p} : i < j => Item(i)' < Item(j)'
    <3> SUFFICES ASSUME NEW i \in R \cup {p}, NEW j \in R \cup {p}, i < j PROVE Item(i)' < Item(j)'
      OBVIOUS
    <3>1. CASE j \in R
      <4>1. i \in R
        BY <1>0, <3>1
      <4> QED BY <1>2, <3>1, <4>1 DEF OrderInv
    <3>2. CASE j = p
      <4>1. i \in R
        BY <1>0, <3>2
      <4> QED BY <1>2, <1>3, <1>5, <3>2, <4>1
    <3> QED BY <3>1, <3>2
  <2> QED BY <1>1, <1>4, <2>0, <2>1, <2>2 DEF OrderInv
<1>7. \A m \in Nat : Present(m)' <=> Present(m) \/ m = v
  <2>1. \A m \in Nat : (\E i \in Taken'..(Put' - 1) : Item(i)' = m) <=> (\E i \in Taken..(Put - 1) : Item(i) = m) \/ m = v
    BY <1>2, <1>3, <1>4
  <2> QED BY <2>1 DEF Present
<1> QED BY <1>6, <1>7

\* A pop takes the oldest item into the consumer's empty hand.
LEMMA DataPop ==
    ASSUME OrderInv, UNCHANGED <<slots, rcvd, calls>>, Taken \in Nat, Put \in Nat, Taken < Put,
           out = NoMsg, out' = Item(Taken),
           Taken' = Taken + 1, Put' = Put
    PROVE  OrderInv' /\ out' # NoMsg /\ \A m \in Nat : Present(m)' <=> Present(m)
<1>1. Taken..(Put - 1) = (Taken'..(Put' - 1)) \cup {Taken} /\ \A i \in Taken'..(Put' - 1) : i > Taken /\ Taken \in Taken..(Put - 1)
  OBVIOUS
<1>2. \A i : Item(i)' = Item(i)
  BY DEF Item
<1>3. \A i \in Taken..(Put - 1) : Item(i) \in Nat
  <2>1. \A i \in Taken..(Put - 1) : i \in Nat
    OBVIOUS
  <2> QED BY <2>1, SlotIndex DEF Item, OrderInv
<1>4. Item(Taken) \in Nat /\ Item(Taken) > 0
  <2>1. Taken \in Taken..(Put - 1)
    OBVIOUS
  <2> QED BY <1>3, <2>1 DEF OrderInv, NoMsg
<1>5. OrderInv'
  <2>0. /\ slots \in [0..(Capacity - 1) -> Nat] /\ rcvd \in Seq(Nat) /\ calls \in [Threads -> Nat]
        /\ \A i, j \in DOMAIN rcvd : i < j => rcvd[i] < rcvd[j]
        /\ \A i \in DOMAIN rcvd : rcvd[i] # NoMsg
        /\ \A i \in Taken..(Put - 1) : \A j \in DOMAIN rcvd : rcvd[j] < Item(i)
        /\ \A i, j \in Taken..(Put - 1) : i < j => Item(i) < Item(j)
    BY DEF OrderInv
  <2>1. \A i \in DOMAIN rcvd : rcvd[i] < out'
    BY <1>1, <2>0
  <2>2. \A i \in Taken'..(Put' - 1) : i \in Taken..(Put - 1) /\ Item(i)' > out' /\ Item(i)' = Item(i)
    BY <1>1, <1>2, <1>3, <1>4, <2>0
  <2> QED BY <1>4, <2>0, <2>1, <2>2 DEF OrderInv
<1>6. \A m \in Nat : Present(m)' <=> Present(m)
  <2>1. \A m \in Nat : (\E i \in Taken..(Put - 1) : Item(i) = m) <=> (\E i \in Taken'..(Put' - 1) : Item(i)' = m) \/ m = out'
    BY <1>1, <1>2
  <2>2. out' # NoMsg
    BY <1>4 DEF NoMsg
  <2> QED BY <2>1, <2>2 DEF Present
<1> QED BY <1>4, <1>5, <1>6 DEF NoMsg

\* The consumer's call returns: what it holds has been received.
LEMMA DataReceive ==
    ASSUME OrderInv, UNCHANGED <<slots, calls>>, Taken' = Taken, Put' = Put, Taken \in Nat, Put \in Nat,
           out # NoMsg, out' = NoMsg, rcvd' = Append(rcvd, out)
    PROVE  OrderInv' /\ \A m \in Nat : Present(m)' <=> Present(m)
<1> DEFINE n == Len(rcvd)
<1>0. rcvd \in Seq(Nat) /\ out \in Nat /\ n \in Nat /\ DOMAIN rcvd = 1..n
  BY DEF OrderInv
<1>1. /\ rcvd' \in Seq(Nat) /\ DOMAIN rcvd' = 1..(n + 1)
      /\ \A i \in 1..n : rcvd'[i] = rcvd[i]
      /\ rcvd'[n + 1] = out
  BY <1>0
<1>2. 1..(n + 1) = (1..n) \cup {n + 1}
  BY <1>0
<1>3. \A i : Item(i)' = Item(i)
  BY DEF Item
<1>4. \A i \in Taken..(Put - 1) : Item(i) \in Nat
  <2>1. \A i \in Taken..(Put - 1) : i \in Nat
    OBVIOUS
  <2> QED BY <2>1, SlotIndex DEF Item, OrderInv
<1> HIDE DEF n
<1>5. OrderInv'
  <2>0. /\ slots \in [0..(Capacity - 1) -> Nat] /\ calls \in [Threads -> Nat]
        /\ \A i, j \in 1..n : i < j => rcvd[i] < rcvd[j]
        /\ \A i \in 1..n : rcvd[i] # NoMsg /\ rcvd[i] < out
        /\ \A i \in Taken..(Put - 1) : Item(i) > out /\ \A j \in 1..n : rcvd[j] < Item(i)
        /\ \A i, j \in Taken..(Put - 1) : i < j => Item(i) < Item(j)
    BY <1>0 DEF OrderInv
  <2>1. \A i, j \in 1..(n + 1) : i < j => rcvd'[i] < rcvd'[j]
    <3> SUFFICES ASSUME NEW i \in 1..(n + 1), NEW j \in 1..(n + 1), i < j PROVE rcvd'[i] < rcvd'[j]
      OBVIOUS
    <3>1. i \in 1..n
      BY <1>0
    <3>2. CASE j \in 1..n
      BY <1>1, <2>0, <3>1, <3>2
    <3>3. CASE j = n + 1
      BY <1>1, <2>0, <3>1, <3>3
    <3> QED BY <1>2, <3>2, <3>3
  <2>2. \A i \in 1..(n + 1) : rcvd'[i] # NoMsg
    BY <1>1, <1>2, <2>0
  <2>3. \A i \in Taken..(Put - 1) : Item(i)' > out' /\ \A j \in 1..(n + 1) : rcvd'[j] < Item(i)'
    BY <1>0, <1>1, <1>2, <1>3, <1>4, <2>0 DEF NoMsg
  <2> QED BY <1>1, <1>3, <2>0, <2>1, <2>2, <2>3 DEF OrderInv, NoMsg
<1>6. \A m \in Nat : Present(m)' <=> Present(m)
  <2>1. \A m : (\E i \in DOMAIN rcvd' : rcvd'[i] = m) <=> (\E i \in DOMAIN rcvd : rcvd[i] = m) \/ m = out
    BY <1>0, <1>1, <1>2
  <2> QED BY <1>3, <2>1 DEF Present
<1> QED BY <1>5, <1>6

\* The consumer takes the item of a parked producer past an empty ring.
LEMMA DataHand ==
    ASSUME OrderInv, UNCHANGED <<slots, rcvd, calls>>, Taken' = Taken, Put' = Put,
           Taken \in Nat, Put = Taken, out = NoMsg,
           NEW v \in Nat, v > 0, \A m \in Nat : Present(m) => m < v, out' = v
    PROVE  OrderInv' /\ out' # NoMsg /\ \A m \in Nat : Present(m)' <=> Present(m) \/ m = v
<1>1. Taken..(Put - 1) = {} /\ Taken'..(Put' - 1) = {}
  OBVIOUS
<1>2. \A i \in DOMAIN rcvd : rcvd[i] \in Nat /\ rcvd[i] < v
  BY DEF Present, OrderInv
<1>3. OrderInv'
  BY <1>1, <1>2 DEF OrderInv, NoMsg
<1> QED BY <1>1, <1>3 DEF Present, NoMsg

------------------------------------------------------------------------------
(* Where the threads are.                                                  *)

\* Another thread than the one that steps; it may lose the frame it points to.
Kept(x) ==
    /\ th'[x].pc = th[x].pc /\ th'[x].next = th[x].next /\ th'[x].w = th[x].w
    /\ th'[x].phase = th[x].phase \/ (th[x].pc = "lateWake" /\ th'[x].phase = 2)

\* Thread t steps to l, and only t.
Moves(t, l, n, w, f) ==
    /\ th'[t].pc = l /\ th'[t].next = n /\ th'[t].w = w /\ th'[t].phase = f
    /\ \A x \in Threads : x # t => Kept(x)

\* The forms of th' in the actions.
LEMMA Placed ==
    ASSUME WakeTypes, NEW t \in Threads
    PROVE  /\ \A l : Goto(t, l) => Moves(t, l, th[t].next, th[t].w, th[t].phase)
           /\ \A l, n : GotoNext(t, l, n) => Moves(t, l, n, th[t].w, th[t].phase)
           /\ \A l, w : th' = [th EXCEPT ![t].pc = l, ![t].w = w] => Moves(t, l, th[t].next, w, th[t].phase)
           /\ \A l, f : th' = [th EXCEPT ![t].pc = l, ![t].phase = f] => Moves(t, l, th[t].next, th[t].w, f)
           /\ \A l, n, w : th' = [th EXCEPT ![t].pc = l, ![t].next = n, ![t].w = w] => Moves(t, l, n, w, th[t].phase)
           /\ \A l : th' = [th EXCEPT ![t] = [Idle EXCEPT !.pc = l]] => Moves(t, l, "idle", P, 1)
           /\ \A res : Return(t, res) => Moves(t, "idle", "idle", P, 1)
<1>0. th \in [Threads -> Positions] /\ th[t] \in Positions
  BY DEF WakeTypes
<1>1. ASSUME NEW l, Goto(t, l) PROVE Moves(t, l, th[t].next, th[t].w, th[t].phase)
  BY <1>0, <1>1 DEF Goto, Moves, Kept, Positions
<1>2. ASSUME NEW l, NEW n, GotoNext(t, l, n) PROVE Moves(t, l, n, th[t].w, th[t].phase)
  BY <1>0, <1>2 DEF GotoNext, Moves, Kept, Positions
<1>3. ASSUME NEW l, NEW w, th' = [th EXCEPT ![t].pc = l, ![t].w = w]
      PROVE  Moves(t, l, th[t].next, w, th[t].phase)
  BY <1>0, <1>3 DEF Moves, Kept, Positions
<1>4. ASSUME NEW l, NEW f, th' = [th EXCEPT ![t].pc = l, ![t].phase = f]
      PROVE  Moves(t, l, th[t].next, th[t].w, f)
  BY <1>0, <1>4 DEF Moves, Kept, Positions
<1>5. ASSUME NEW l, NEW n, NEW w, th' = [th EXCEPT ![t].pc = l, ![t].next = n, ![t].w = w]
      PROVE  Moves(t, l, n, w, th[t].phase)
  BY <1>0, <1>5 DEF Moves, Kept, Positions
<1>6. ASSUME NEW l, th' = [th EXCEPT ![t] = [Idle EXCEPT !.pc = l]] PROVE Moves(t, l, "idle", P, 1)
  BY <1>0, <1>6 DEF Moves, Kept, Positions, Idle
<1>7. ASSUME NEW res, Return(t, res) PROVE Moves(t, "idle", "idle", P, 1)
  BY <1>0, <1>7 DEF Return, Moves, Kept, Positions, Idle
<1> QED BY <1>1, <1>2, <1>3, <1>4, <1>5, <1>6, <1>7

\* A thread that was to wake t is left behind when t returns.
LEMMA LeftBehind ==
    ASSUME WakeTypes, NEW t \in Threads, NEW res, Return(t, res)
    PROVE  \A x \in Threads : x # t /\ th[x].pc = "lateWake" /\ th[x].w = t => th'[x].phase = 2
BY DEF WakeTypes, Return, Positions

\* The three threads.
LEMMA Names ==
    /\ P \in Threads /\ C \in Threads /\ K \in Threads /\ P # C /\ P # K /\ C # K
    /\ Parkers = {P, C} /\ Threads = {P, C, K} /\ Peer(P) = C /\ Peer(C) = P
BY SpscAssumption DEF Threads, Peer

------------------------------------------------------------------------------
(* Control: one lemma for each action.                                     *)

\* A call begins.
LEMMA EnterControl ==
    ASSUME WakeInv, Control, NEW t \in Threads, Enter(t)
    PROVE  Control'
<1>0. th \in [Threads -> Positions] /\ asleep \subseteq Parkers /\ word \in [Parkers -> {0, 1}]
  BY DEF WakeInv, WakeTypes
<1>1. th[t].pc = "idle"
  BY DEF Enter, At
<1>2. \E l : l = (IF t = P THEN "closed" ELSE IF t = C THEN "ring" ELSE "close") /\ Moves(t, l, "idle", P, 1)
  BY Placed DEF Enter, WakeInv
<1>3. UNCHANGED <<word, asleep, mem, sb, lock, closed, queued, cnt, result, form>>
  BY DEF Enter, park, ring, state, hist
<1>4. LabelInv'
  BY <1>0, <1>1, <1>2, <1>3, Names DEF Control, LabelInv, Labels, Moves, Kept
<1>5. MutexInv'
  BY <1>0, <1>1, <1>2, <1>3, Names DEF Control, MutexInv, LabelInv, Labels, Held, Moves, Kept
<1>6. QueueInv'
  BY <1>0, <1>1, <1>2, <1>3, Names DEF Control, QueueInv, LabelInv, MutexInv, Held, Waking, CanPush, CanPop, Moves, Kept
<1>7. CountInv'
  BY <1>0, <1>1, <1>2, <1>3, Names DEF Control, CountInv, QueueInv, LabelInv, Moves, Kept
<1>8. StrandInv'
  BY <1>0, <1>1, <1>2, <1>3, Names DEF Control, StrandInv, QueueInv, MutexInv, LabelInv, CountInv, Held, Waking, CanPush, CanPop, Can, Committed, Moves, Kept
<1> QED BY <1>4, <1>5, <1>6, <1>7, <1>8 DEF Control

\* A store becomes visible: its owner holds no lock and is not queued.
LEMMA FlushControl ==
    ASSUME WakeInv, Control, NEW t \in {P, C}, Flush(t)
    PROVE  Control'
<1>0. th \in [Threads -> Positions] /\ asleep \subseteq Parkers /\ word \in [Parkers -> {0, 1}]
  BY DEF WakeInv, WakeTypes
<1>1. sb[t] # << >> /\ th' = th
  BY DEF Flush
<1>2. DOMAIN sb' = Parkers /\ \A u \in Parkers : u # t => sb'[u] = sb[u]
  BY DEF Flush, Control, QueueInv
<1>3. ~queued[t] /\ th[t].pc \notin Held
  BY <1>1, Names DEF Control, QueueInv
<1>4. \A u \in Parkers : sb[u] = << >> => sb'[u] = << >>
  BY <1>1, <1>2, Names
<1>5. UNCHANGED <<word, asleep, lock, closed, queued, cnt, result, form>>
  BY DEF Flush, park, ring, state, hist
<1>6. LabelInv'
  BY <1>0, <1>1, <1>2, <1>3, <1>4, <1>5, Names DEF Control, LabelInv, Labels, Moves, Kept
<1>7. MutexInv'
  BY <1>0, <1>1, <1>2, <1>3, <1>4, <1>5, Names DEF Control, MutexInv, LabelInv, Labels, Held, Moves, Kept
<1>8. QueueInv'
  BY <1>0, <1>1, <1>2, <1>3, <1>4, <1>5, Names DEF Control, QueueInv, LabelInv, MutexInv, Held, Waking, CanPush, CanPop, Moves, Kept
<1>9. CountInv'
  BY <1>0, <1>1, <1>2, <1>3, <1>4, <1>5, Names DEF Control, CountInv, QueueInv, LabelInv, Moves, Kept
<1>10. StrandInv'
  BY <1>0, <1>1, <1>2, <1>3, <1>4, <1>5, Names DEF Control, StrandInv, QueueInv, MutexInv, LabelInv, CountInv, Held, Waking, CanPush, CanPop, Can, Committed, Moves, Kept
<1> QED BY <1>6, <1>7, <1>8, <1>9, <1>10 DEF Control

\* The look at the closed flag.
LEMMA SendClosedControl ==
    ASSUME WakeInv, Control, SendClosed
    PROVE  Control'
<1>0. th \in [Threads -> Positions] /\ asleep \subseteq Parkers /\ word \in [Parkers -> {0, 1}]
  BY DEF WakeInv, WakeTypes
<1>1. th[P].pc = "closed"
  BY DEF SendClosed, At
<1>2. \E l \in {"lock", "ring"} : Moves(P, l, th[P].next, th[P].w, th[P].phase)
  BY Names, Placed DEF SendClosed, WakeInv
<1>3. UNCHANGED <<word, asleep, mem, sb, lock, closed, queued, cnt, result, form>>
  BY DEF SendClosed, park, ring, state, hist
<1>4. LabelInv'
  BY <1>0, <1>1, <1>2, <1>3, Names DEF Control, LabelInv, Labels, Moves, Kept
<1>5. MutexInv'
  BY <1>0, <1>1, <1>2, <1>3, Names DEF Control, MutexInv, LabelInv, Labels, Held, Moves, Kept
<1>6. QueueInv'
  BY <1>0, <1>1, <1>2, <1>3, Names DEF Control, QueueInv, LabelInv, MutexInv, Held, Waking, CanPush, CanPop, Moves, Kept
<1>7. CountInv'
  BY <1>0, <1>1, <1>2, <1>3, Names DEF Control, CountInv, QueueInv, LabelInv, Moves, Kept
<1>8. StrandInv'
  BY <1>0, <1>1, <1>2, <1>3, Names DEF Control, StrandInv, QueueInv, MutexInv, LabelInv, CountInv, Held, Waking, CanPush, CanPop, Can, Committed, Moves, Kept
<1> QED BY <1>4, <1>5, <1>6, <1>7, <1>8 DEF Control

\* The fast push.
LEMMA SpscPushControl ==
    ASSUME WakeInv, Control, SpscPush
    PROVE  Control'
<1>0. th \in [Threads -> Positions] /\ asleep \subseteq Parkers /\ word \in [Parkers -> {0, 1}]
  BY DEF WakeInv, WakeTypes
<1>1. th[P].pc = "ring"
  BY DEF SpscPush, At
<1>2. \E l \in {"lock", "count"} : Moves(P, l, th[P].next, th[P].w, th[P].phase) /\ (l = "lock" => sb' = sb)
  BY Names, Placed DEF SpscPush, WakeInv
<1>3. DOMAIN sb' = Parkers /\ \A u \in Parkers : u # P => sb'[u] = sb[u]
  BY Names DEF SpscPush, Control, QueueInv
<1>4. UNCHANGED <<word, asleep, mem, lock, closed, queued, cnt, result, form>>
  BY DEF SpscPush, park, ring, state, hist
<1>5. LabelInv'
  BY <1>0, <1>1, <1>2, <1>3, <1>4, Names DEF Control, LabelInv, Labels, Moves, Kept
<1>6. MutexInv'
  BY <1>0, <1>1, <1>2, <1>3, <1>4, Names DEF Control, MutexInv, LabelInv, Labels, Held, Moves, Kept
<1>7. QueueInv'
  BY <1>0, <1>1, <1>2, <1>3, <1>4, Names DEF Control, QueueInv, LabelInv, MutexInv, Held, Waking, CanPush, CanPop, Moves, Kept
<1>8. CountInv'
  BY <1>0, <1>1, <1>2, <1>3, <1>4, Names DEF Control, CountInv, QueueInv, LabelInv, Moves, Kept
<1>9. StrandInv'
  BY <1>0, <1>1, <1>2, <1>3, <1>4, Names DEF Control, StrandInv, QueueInv, MutexInv, LabelInv, CountInv, Held, Waking, CanPush, CanPop, Can, Committed, Moves, Kept
<1> QED BY <1>5, <1>6, <1>7, <1>8, <1>9 DEF Control

\* The fast pop.
LEMMA SpscPopControl ==
    ASSUME WakeInv, Control, SpscPop
    PROVE  Control'
<1>0. th \in [Threads -> Positions] /\ asleep \subseteq Parkers /\ word \in [Parkers -> {0, 1}]
  BY DEF WakeInv, WakeTypes
<1>1. th[C].pc = "ring"
  BY DEF SpscPop, At
<1>2. \E l \in {"lock", "count"} : Moves(C, l, th[C].next, th[C].w, th[C].phase) /\ (l = "lock" => sb' = sb)
  BY Names, Placed DEF SpscPop, WakeInv
<1>3. DOMAIN sb' = Parkers /\ \A u \in Parkers : u # C => sb'[u] = sb[u]
  BY Names DEF SpscPop, Control, QueueInv
<1>4. UNCHANGED <<word, asleep, mem, lock, closed, queued, cnt, result, form>>
  BY DEF SpscPop, park, ring, state, hist
<1>5. LabelInv'
  BY <1>0, <1>1, <1>2, <1>3, <1>4, Names DEF Control, LabelInv, Labels, Moves, Kept
<1>6. MutexInv'
  BY <1>0, <1>1, <1>2, <1>3, <1>4, Names DEF Control, MutexInv, LabelInv, Labels, Held, Moves, Kept
<1>7. QueueInv'
  BY <1>0, <1>1, <1>2, <1>3, <1>4, Names DEF Control, QueueInv, LabelInv, MutexInv, Held, Waking, CanPush, CanPop, Moves, Kept
<1>8. CountInv'
  BY <1>0, <1>1, <1>2, <1>3, <1>4, Names DEF Control, CountInv, QueueInv, LabelInv, Moves, Kept
<1>9. StrandInv'
  BY <1>0, <1>1, <1>2, <1>3, <1>4, Names DEF Control, StrandInv, QueueInv, MutexInv, LabelInv, CountInv, Held, Waking, CanPush, CanPop, Can, Committed, Moves, Kept
<1> QED BY <1>5, <1>6, <1>7, <1>8, <1>9 DEF Control

\* The look at the count: a waiter that is registered is seen.
LEMMA LookControl ==
    ASSUME WakeInv, Control, NEW t \in {P, C}, LookForWaiter(t)
    PROVE  Control'
<1>0. th \in [Threads -> Positions] /\ asleep \subseteq Parkers /\ word \in [Parkers -> {0, 1}]
  BY DEF WakeInv, WakeTypes
<1>1. th[t].pc = "count"
  BY DEF LookForWaiter, At
<1>2. \/ cnt[Peer(t)] # 0 /\ Moves(t, "helpLock", "done", th[t].w, th[t].phase)
      \/ cnt[Peer(t)] = 0 /\ Moves(t, "idle", "idle", P, 1)
  BY Names, Placed DEF LookForWaiter, WakeInv
<1>3. UNCHANGED <<word, asleep, mem, sb, lock, closed, queued, cnt, result, form>>
  BY DEF LookForWaiter, park, ring, state, hist, Return
<1>4. LabelInv'
  BY <1>0, <1>1, <1>2, <1>3, Names DEF Control, LabelInv, Labels, Moves, Kept
<1>5. MutexInv'
  BY <1>0, <1>1, <1>2, <1>3, Names DEF Control, MutexInv, LabelInv, Labels, Held, Moves, Kept
<1>6. QueueInv'
  BY <1>0, <1>1, <1>2, <1>3, Names DEF Control, QueueInv, LabelInv, MutexInv, Held, Waking, CanPush, CanPop, Moves, Kept
<1>7. CountInv'
  BY <1>0, <1>1, <1>2, <1>3, Names DEF Control, CountInv, QueueInv, LabelInv, Moves, Kept
<1>8. StrandInv'
  BY <1>0, <1>1, <1>2, <1>3, Names DEF Control, StrandInv, QueueInv, MutexInv, LabelInv, CountInv, Held, Waking, CanPush, CanPop, Can, Committed, Moves, Kept
<1> QED BY <1>4, <1>5, <1>6, <1>7, <1>8 DEF Control

\* The helper takes the lock: its stores are visible by then.
LEMMA HelpLockControl ==
    ASSUME WakeInv, Control, NEW t \in {P, C}, HelpLock(t)
    PROVE  Control'
<1>0. th \in [Threads -> Positions] /\ asleep \subseteq Parkers /\ word \in [Parkers -> {0, 1}]
  BY DEF WakeInv, WakeTypes
<1>1. th[t].pc = "helpLock" /\ ~lock /\ lock' /\ sb[t] = << >>
  BY Names DEF HelpLock, At, Acquire
<1>2. Moves(t, "help", th[t].next, th[t].w, th[t].phase)
  BY Names, Placed DEF HelpLock, WakeInv
<1>3. \A u \in Threads : th[u].pc \notin Held
  BY <1>1 DEF Control, MutexInv
<1>4. lock' \in BOOLEAN
  BY <1>1 DEF HelpLock, Acquire
<1>5. UNCHANGED <<word, asleep, mem, sb, closed, queued, cnt, result, form>>
  BY DEF HelpLock, park, ring, state, hist
<1>6. LabelInv'
  BY <1>0, <1>1, <1>2, <1>3, <1>4, <1>5, Names DEF Control, LabelInv, Labels, Moves, Kept
<1>7. MutexInv'
  BY <1>0, <1>1, <1>2, <1>3, <1>4, <1>5, Names DEF Control, MutexInv, LabelInv, Labels, Held, Moves, Kept
<1>8. QueueInv'
  BY <1>0, <1>1, <1>2, <1>3, <1>4, <1>5, Names DEF Control, QueueInv, LabelInv, MutexInv, Held, Waking, CanPush, CanPop, Moves, Kept
<1>9. CountInv'
  BY <1>0, <1>1, <1>2, <1>3, <1>4, <1>5, Names DEF Control, CountInv, QueueInv, LabelInv, Moves, Kept
<1>10. StrandInv'
  BY <1>0, <1>1, <1>2, <1>3, <1>4, <1>5, Names DEF Control, StrandInv, QueueInv, MutexInv, LabelInv, CountInv, Held, Waking, CanPush, CanPop, Can, Committed, Moves, Kept
<1> QED BY <1>6, <1>7, <1>8, <1>9, <1>10 DEF Control

\* A waker that holds the lock sets the word of the waiter it took from the queue.
LEMMA WakeControl ==
    ASSUME WakeInv, Control, NEW t \in Threads, Wake(t)
    PROVE  Control'
<1>0. th \in [Threads -> Positions] /\ asleep \subseteq Parkers /\ word \in [Parkers -> {0, 1}]
  BY DEF WakeInv, WakeTypes
<1>1. th[t].pc = "wake"
  BY DEF Wake, At
<1>2. \E l \in {"notify", th[t].next} : Moves(t, l, th[t].next, th[t].w, th[t].phase)
  BY Placed DEF Wake, WakeInv
<1>3. th[t].w \in Parkers /\ ~queued[th[t].w]
  BY <1>0, <1>1 DEF Positions, Control, QueueInv, Waking
<1>4. asleep' \subseteq asleep /\ word'[th[t].w] = 1 /\ \A u \in Parkers : u # th[t].w => word'[u] = word[u]
  BY <1>0, <1>3 DEF Wake, ParkSet
<1>5. UNCHANGED <<mem, sb, lock, closed, queued, cnt, result, form>>
  BY DEF Wake, park, ring, state, hist
<1>6. LabelInv'
  BY <1>0, <1>1, <1>2, <1>3, <1>4, <1>5, Names DEF Control, LabelInv, Labels, Moves, Kept
<1>7. MutexInv'
  BY <1>0, <1>1, <1>2, <1>3, <1>4, <1>5, Names DEF Control, MutexInv, LabelInv, Labels, Held, Moves, Kept
<1>8. QueueInv'
  BY <1>0, <1>1, <1>2, <1>3, <1>4, <1>5, Names DEF Control, QueueInv, LabelInv, MutexInv, Held, Waking, CanPush, CanPop, Moves, Kept
<1>9. CountInv'
  BY <1>0, <1>1, <1>2, <1>3, <1>4, <1>5, Names DEF Control, CountInv, QueueInv, LabelInv, Moves, Kept
<1>10. StrandInv'
  BY <1>0, <1>1, <1>2, <1>3, <1>4, <1>5, Names DEF Control, StrandInv, QueueInv, MutexInv, LabelInv, CountInv, Held, Waking, CanPush, CanPop, Can, Committed, Moves, Kept
<1> QED BY <1>6, <1>7, <1>8, <1>9, <1>10 DEF Control

\* FUTEX_WAKE under the lock.
LEMMA NotifyControl ==
    ASSUME WakeInv, Control, NEW t \in Threads, Notify(t)
    PROVE  Control'
<1>0. th \in [Threads -> Positions] /\ asleep \subseteq Parkers /\ word \in [Parkers -> {0, 1}]
  BY DEF WakeInv, WakeTypes
<1>1. th[t].pc = "notify"
  BY DEF Notify, At
<1>2. Moves(t, th[t].next, th[t].next, th[t].w, th[t].phase)
  BY Placed DEF Notify, WakeInv
<1>3. asleep' \subseteq asleep /\ word' = word
  BY DEF Notify, ParkNotify
<1>4. UNCHANGED <<mem, sb, lock, closed, queued, cnt, result, form>>
  BY DEF Notify, park, ring, state, hist
<1>5. LabelInv'
  BY <1>0, <1>1, <1>2, <1>3, <1>4, Names DEF Control, LabelInv, Labels, Moves, Kept
<1>6. MutexInv'
  BY <1>0, <1>1, <1>2, <1>3, <1>4, Names DEF Control, MutexInv, LabelInv, Labels, Held, Moves, Kept
<1>7. QueueInv'
  BY <1>0, <1>1, <1>2, <1>3, <1>4, Names DEF Control, QueueInv, LabelInv, MutexInv, Held, Waking, CanPush, CanPop, Moves, Kept
<1>8. CountInv'
  BY <1>0, <1>1, <1>2, <1>3, <1>4, Names DEF Control, CountInv, QueueInv, LabelInv, Moves, Kept
<1>9. StrandInv'
  BY <1>0, <1>1, <1>2, <1>3, <1>4, Names DEF Control, StrandInv, QueueInv, MutexInv, LabelInv, CountInv, Held, Waking, CanPush, CanPop, Can, Committed, Moves, Kept
<1> QED BY <1>5, <1>6, <1>7, <1>8, <1>9 DEF Control

\* The unlock and the return.
LEMMA DoneControl ==
    ASSUME WakeInv, Control, NEW t \in Threads, Done(t)
    PROVE  Control'
<1>0. th \in [Threads -> Positions] /\ asleep \subseteq Parkers /\ word \in [Parkers -> {0, 1}]
  BY DEF WakeInv, WakeTypes
<1>1. th[t].pc = "done" /\ lock' = FALSE
  BY DEF Done, At
<1>2. Moves(t, "idle", "idle", P, 1)
  BY Placed DEF Done, WakeInv
<1>3. lock' \in BOOLEAN
  BY <1>1
<1>4. \A u \in Threads : u # t => th[u].pc \notin Held
  BY <1>1 DEF Control, MutexInv, Held
<1>5. UNCHANGED <<word, asleep, mem, sb, closed, queued, cnt, result, form>>
  BY DEF Done, park, ring, state, hist, Return
<1>6. LabelInv'
  BY <1>0, <1>1, <1>2, <1>3, <1>4, <1>5, Names DEF Control, LabelInv, Labels, Moves, Kept
<1>7. MutexInv'
  BY <1>0, <1>1, <1>2, <1>3, <1>4, <1>5, Names DEF Control, MutexInv, LabelInv, Labels, Held, Moves, Kept
<1>8. QueueInv'
  BY <1>0, <1>1, <1>2, <1>3, <1>4, <1>5, Names DEF Control, QueueInv, LabelInv, MutexInv, Held, Waking, CanPush, CanPop, Moves, Kept
<1>9. CountInv'
  BY <1>0, <1>1, <1>2, <1>3, <1>4, <1>5, Names DEF Control, CountInv, QueueInv, LabelInv, Moves, Kept
<1>10. StrandInv'
  BY <1>0, <1>1, <1>2, <1>3, <1>4, <1>5, Names DEF Control, StrandInv, QueueInv, MutexInv, LabelInv, CountInv, Held, Waking, CanPush, CanPop, Can, Committed, Moves, Kept
<1> QED BY <1>6, <1>7, <1>8, <1>9, <1>10 DEF Control

\* With all stores in memory a ring is not full and empty at once.
LEMMA NotFullAndEmpty ==
    ASSUME CursorInv, sb[P] = << >>, sb[C] = << >>
    PROVE  CanPush \/ CanPop
<1>1. mem.ph = mem.pt /\ mem.chd = mem.ct
  <2>1. Len(<< >>) = 0
    OBVIOUS
  <2> QED BY <2>1 DEF CursorInv, Chain
<1>2. mem.ph \in Nat /\ mem.pt \in Nat /\ mem.chd \in Nat /\ mem.ct \in Nat
  BY DEF CursorInv, Cursors
<1> QED BY <1>1, <1>2, SpscAssumption DEF CanPush, CanPop

\* A waiter of the other side is served, or there is nothing to do for it.
LEMMA HelpControl ==
    ASSUME WakeInv, Control, CursorInv, NEW t \in {P, C}, Help(t)
    PROVE  Control'
<1>0. th \in [Threads -> Positions] /\ asleep \subseteq Parkers /\ word \in [Parkers -> {0, 1}]
  BY DEF WakeInv, WakeTypes
<1>1. th[t].pc = "help" /\ lock
  BY Names DEF Help, At, Control, MutexInv, Held
<1>2. CASE queued[Peer(t)] /\ Can(Peer(t))
  <2>1. Moves(t, "wake", th[t].next, Peer(t), th[t].phase)
    BY <1>2, Names, Placed DEF Help, WakeInv
  <2>2. queued' \in [Parkers -> BOOLEAN] /\ ~queued'[Peer(t)] /\ \A u \in Parkers : u # Peer(t) => queued'[u] = queued[u]
    BY <1>2, Names DEF Help, Control, QueueInv
  <2>3. result' = result
    BY <1>2, Names DEF Help, Control, QueueInv
  <2>4. UNCHANGED <<word, asleep, sb, lock, closed, cnt, form>>
    BY <1>2, Names DEF Help, park, ring, state, hist, RingOp
  <2>5. LabelInv'
    BY <1>0, <1>1, <1>2, <2>1, <2>2, <2>3, <2>4, Names DEF Control, LabelInv, Labels, Moves, Kept
  <2>6. MutexInv'
    BY <1>0, <1>1, <1>2, <2>1, <2>2, <2>3, <2>4, Names DEF Control, MutexInv, LabelInv, Labels, Held, Moves, Kept
  <2>7. QueueInv'
    BY <1>0, <1>1, <1>2, <2>1, <2>2, <2>3, <2>4, Names DEF Control, QueueInv, LabelInv, MutexInv, Held, Waking, CanPush, CanPop, Moves, Kept
  <2>8. CountInv'
    BY <1>0, <1>1, <1>2, <2>1, <2>2, <2>3, <2>4, Names DEF Control, CountInv, QueueInv, LabelInv, Moves, Kept
  <2>9. StrandInv'
    BY <1>0, <1>1, <1>2, <2>1, <2>2, <2>3, <2>4, Names DEF Control, StrandInv, QueueInv, MutexInv, LabelInv, CountInv, Held, Waking, CanPush, CanPop, Can, Committed, Moves, Kept
  <2> QED BY <2>5, <2>6, <2>7, <2>8, <2>9 DEF Control
<1>3. CASE ~(queued[Peer(t)] /\ Can(Peer(t)))
  <2>1. Moves(t, th[t].next, th[t].next, th[t].w, th[t].phase)
    BY <1>3, Names, Placed DEF Help, WakeInv
  <2>2. t = P /\ th[P].next = "park" => ~queued[C]
    BY <1>1, <1>3, Names, NotFullAndEmpty DEF Control, QueueInv, Held, Can
  <2>3. UNCHANGED <<word, asleep, mem, sb, lock, closed, queued, cnt, result, form>>
    BY <1>3, Names DEF Help, park, ring, state, hist
  <2>4. LabelInv'
    BY <1>0, <1>1, <1>3, <2>1, <2>2, <2>3, Names DEF Control, LabelInv, Labels, Moves, Kept
  <2>5. MutexInv'
    BY <1>0, <1>1, <1>3, <2>1, <2>2, <2>3, Names DEF Control, MutexInv, LabelInv, Labels, Held, Moves, Kept
  <2>6. QueueInv'
    BY <1>0, <1>1, <1>3, <2>1, <2>2, <2>3, Names DEF Control, QueueInv, LabelInv, MutexInv, Held, Waking, CanPush, CanPop, Moves, Kept
  <2>7. CountInv'
    BY <1>0, <1>1, <1>3, <2>1, <2>2, <2>3, Names DEF Control, CountInv, QueueInv, LabelInv, Moves, Kept
  <2>8. StrandInv'
    BY <1>0, <1>1, <1>3, <2>1, <2>2, <2>3, Names DEF Control, StrandInv, QueueInv, MutexInv, LabelInv, CountInv, Held, Waking, CanPush, CanPop, Can, Committed, Moves, Kept
  <2> QED BY <2>4, <2>5, <2>6, <2>7, <2>8 DEF Control
<1> QED BY <1>2, <1>3

\* The producer's slow path takes the lock.
LEMMA SendLockControl ==
    ASSUME WakeInv, Control, SendLock
    PROVE  Control'
<1>0. th \in [Threads -> Positions] /\ asleep \subseteq Parkers /\ word \in [Parkers -> {0, 1}]
  BY DEF WakeInv, WakeTypes
<1>1. th[P].pc = "lock" /\ ~lock /\ sb[P] = << >>
  BY DEF SendLock, At
<1>2. \A u \in Threads : th[u].pc \notin Held
  BY <1>1 DEF Control, MutexInv
<1>3. CASE closed
  <2>1. Moves(P, "idle", "idle", P, 1)
    BY <1>3, Names, Placed DEF SendLock, WakeInv
  <2>2. UNCHANGED <<word, asleep, mem, sb, lock, closed, queued, cnt, result, form>>
    BY <1>3, Names DEF SendLock, park, ring, state, hist, Return
  <2>3. LabelInv'
    BY <1>0, <1>1, <1>2, <1>3, <2>1, <2>2, Names DEF Control, LabelInv, Labels, Moves, Kept
  <2>4. MutexInv'
    BY <1>0, <1>1, <1>2, <1>3, <2>1, <2>2, Names DEF Control, MutexInv, LabelInv, Labels, Held, Moves, Kept
  <2>5. QueueInv'
    BY <1>0, <1>1, <1>2, <1>3, <2>1, <2>2, Names DEF Control, QueueInv, LabelInv, MutexInv, Held, Waking, CanPush, CanPop, Moves, Kept
  <2>6. CountInv'
    BY <1>0, <1>1, <1>2, <1>3, <2>1, <2>2, Names DEF Control, CountInv, QueueInv, LabelInv, Moves, Kept
  <2>7. StrandInv'
    BY <1>0, <1>1, <1>2, <1>3, <2>1, <2>2, Names DEF Control, StrandInv, QueueInv, MutexInv, LabelInv, CountInv, Held, Waking, CanPush, CanPop, Can, Committed, Moves, Kept
  <2> QED BY <2>3, <2>4, <2>5, <2>6, <2>7 DEF Control
<1>4. CASE ~closed /\ CanPush
  <2>1. Moves(P, "help", "done", th[P].w, th[P].phase)
    BY <1>4, Names, Placed DEF SendLock, WakeInv
  <2>2. lock' \in BOOLEAN /\ lock'
    BY <1>4 DEF SendLock
  <2>3. UNCHANGED <<word, asleep, sb, closed, queued, cnt, result, form>>
    BY <1>4, Names DEF SendLock, park, ring, state, hist, RingOp
  <2>4. LabelInv'
    BY <1>0, <1>1, <1>2, <1>4, <2>1, <2>2, <2>3, Names DEF Control, LabelInv, Labels, Moves, Kept
  <2>5. MutexInv'
    BY <1>0, <1>1, <1>2, <1>4, <2>1, <2>2, <2>3, Names DEF Control, MutexInv, LabelInv, Labels, Held, Moves, Kept
  <2>6. QueueInv'
    BY <1>0, <1>1, <1>2, <1>4, <2>1, <2>2, <2>3, Names DEF Control, QueueInv, LabelInv, MutexInv, Held, Waking, CanPush, CanPop, Moves, Kept
  <2>7. CountInv'
    BY <1>0, <1>1, <1>2, <1>4, <2>1, <2>2, <2>3, Names DEF Control, CountInv, QueueInv, LabelInv, Moves, Kept
  <2>8. StrandInv'
    BY <1>0, <1>1, <1>2, <1>4, <2>1, <2>2, <2>3, Names DEF Control, StrandInv, QueueInv, MutexInv, LabelInv, CountInv, Held, Waking, CanPush, CanPop, Can, Committed, Moves, Kept
  <2> QED BY <2>4, <2>5, <2>6, <2>7, <2>8 DEF Control
<1>5. CASE ~closed /\ ~CanPush
  <2>1. Moves(P, "help", "park", th[P].w, th[P].phase)
    BY <1>5, Names, Placed DEF SendLock, WakeInv
  <2>2. lock' \in BOOLEAN /\ lock'
    BY <1>5 DEF SendLock
  <2>3. UNCHANGED <<word, asleep, mem, sb, closed, queued, cnt, result, form>>
    BY <1>5, Names DEF SendLock, park, ring, state, hist
  <2>4. LabelInv'
    BY <1>0, <1>1, <1>2, <1>5, <2>1, <2>2, <2>3, Names DEF Control, LabelInv, Labels, Moves, Kept
  <2>5. MutexInv'
    BY <1>0, <1>1, <1>2, <1>5, <2>1, <2>2, <2>3, Names DEF Control, MutexInv, LabelInv, Labels, Held, Moves, Kept
  <2>6. QueueInv'
    BY <1>0, <1>1, <1>2, <1>5, <2>1, <2>2, <2>3, Names DEF Control, QueueInv, LabelInv, MutexInv, Held, Waking, CanPush, CanPop, Moves, Kept
  <2>7. CountInv'
    BY <1>0, <1>1, <1>2, <1>5, <2>1, <2>2, <2>3, Names DEF Control, CountInv, QueueInv, LabelInv, Moves, Kept
  <2>8. StrandInv'
    BY <1>0, <1>1, <1>2, <1>5, <2>1, <2>2, <2>3, Names DEF Control, StrandInv, QueueInv, MutexInv, LabelInv, CountInv, Held, Waking, CanPush, CanPop, Can, Committed, Moves, Kept
  <2> QED BY <2>4, <2>5, <2>6, <2>7, <2>8 DEF Control
<1> QED BY <1>3, <1>4, <1>5

\* The consumer's slow path takes the lock.
LEMMA RecvLockControl ==
    ASSUME WakeInv, Control, RecvLock
    PROVE  Control'
<1>0. th \in [Threads -> Positions] /\ asleep \subseteq Parkers /\ word \in [Parkers -> {0, 1}]
  BY DEF WakeInv, WakeTypes
<1>1. th[C].pc = "lock" /\ ~lock /\ sb[C] = << >>
  BY DEF RecvLock, At
<1>2. \A u \in Threads : th[u].pc \notin Held
  BY <1>1 DEF Control, MutexInv
<1>3. CASE CanPop
  <2>1. Moves(C, "helpPush", th[C].next, th[C].w, th[C].phase)
    BY <1>3, Names, Placed DEF RecvLock, WakeInv
  <2>2. lock' \in BOOLEAN /\ lock'
    BY <1>3 DEF RecvLock
  <2>3. UNCHANGED <<word, asleep, sb, closed, queued, cnt, result, form>>
    BY <1>3, Names DEF RecvLock, park, ring, state, hist, RingOp
  <2>4. LabelInv'
    BY <1>0, <1>1, <1>2, <1>3, <2>1, <2>2, <2>3, Names DEF Control, LabelInv, Labels, Moves, Kept
  <2>5. MutexInv'
    BY <1>0, <1>1, <1>2, <1>3, <2>1, <2>2, <2>3, Names DEF Control, MutexInv, LabelInv, Labels, Held, Moves, Kept
  <2>6. QueueInv'
    BY <1>0, <1>1, <1>2, <1>3, <2>1, <2>2, <2>3, Names DEF Control, QueueInv, LabelInv, MutexInv, Held, Waking, CanPush, CanPop, Moves, Kept
  <2>7. CountInv'
    BY <1>0, <1>1, <1>2, <1>3, <2>1, <2>2, <2>3, Names DEF Control, CountInv, QueueInv, LabelInv, Moves, Kept
  <2>8. StrandInv'
    BY <1>0, <1>1, <1>2, <1>3, <2>1, <2>2, <2>3, Names DEF Control, StrandInv, QueueInv, MutexInv, LabelInv, CountInv, Held, Waking, CanPush, CanPop, Can, Committed, Moves, Kept
  <2> QED BY <2>4, <2>5, <2>6, <2>7, <2>8 DEF Control
<1>4. CASE ~CanPop /\ queued[P]
  <2>1. Moves(C, "lateWake", th[C].next, P, th[C].phase)
    BY <1>4, Names, Placed DEF RecvLock, WakeInv
  <2>2. queued' \in [Parkers -> BOOLEAN] /\ ~queued'[P] /\ \A u \in Parkers : u # P => queued'[u] = queued[u]
    BY <1>4, Names DEF RecvLock, Control, QueueInv
  <2>3. result' = result
    BY <1>4, Names DEF RecvLock, Control, QueueInv
  <2>4. UNCHANGED <<word, asleep, mem, sb, lock, closed, cnt, form>>
    BY <1>4, Names DEF RecvLock, park, ring, state, hist
  <2>5. LabelInv'
    BY <1>0, <1>1, <1>2, <1>4, <2>1, <2>2, <2>3, <2>4, Names DEF Control, LabelInv, Labels, Moves, Kept
  <2>6. MutexInv'
    BY <1>0, <1>1, <1>2, <1>4, <2>1, <2>2, <2>3, <2>4, Names DEF Control, MutexInv, LabelInv, Labels, Held, Moves, Kept
  <2>7. QueueInv'
    BY <1>0, <1>1, <1>2, <1>4, <2>1, <2>2, <2>3, <2>4, Names DEF Control, QueueInv, LabelInv, MutexInv, Held, Waking, CanPush, CanPop, Moves, Kept
  <2>8. CountInv'
    BY <1>0, <1>1, <1>2, <1>4, <2>1, <2>2, <2>3, <2>4, Names DEF Control, CountInv, QueueInv, LabelInv, Moves, Kept
  <2>9. StrandInv'
    BY <1>0, <1>1, <1>2, <1>4, <2>1, <2>2, <2>3, <2>4, Names DEF Control, StrandInv, QueueInv, MutexInv, LabelInv, CountInv, Held, Waking, CanPush, CanPop, Can, Committed, Moves, Kept
  <2> QED BY <2>5, <2>6, <2>7, <2>8, <2>9 DEF Control
<1>5. CASE ~CanPop /\ ~queued[P] /\ closed
  <2>1. Moves(C, "idle", "idle", P, 1)
    BY <1>5, Names, Placed DEF RecvLock, WakeInv
  <2>2. UNCHANGED <<word, asleep, mem, sb, lock, closed, queued, cnt, result, form>>
    BY <1>5, Names DEF RecvLock, park, ring, state, hist, Return
  <2>3. LabelInv'
    BY <1>0, <1>1, <1>2, <1>5, <2>1, <2>2, Names DEF Control, LabelInv, Labels, Moves, Kept
  <2>4. MutexInv'
    BY <1>0, <1>1, <1>2, <1>5, <2>1, <2>2, Names DEF Control, MutexInv, LabelInv, Labels, Held, Moves, Kept
  <2>5. QueueInv'
    BY <1>0, <1>1, <1>2, <1>5, <2>1, <2>2, Names DEF Control, QueueInv, LabelInv, MutexInv, Held, Waking, CanPush, CanPop, Moves, Kept
  <2>6. CountInv'
    BY <1>0, <1>1, <1>2, <1>5, <2>1, <2>2, Names DEF Control, CountInv, QueueInv, LabelInv, Moves, Kept
  <2>7. StrandInv'
    BY <1>0, <1>1, <1>2, <1>5, <2>1, <2>2, Names DEF Control, StrandInv, QueueInv, MutexInv, LabelInv, CountInv, Held, Waking, CanPush, CanPop, Can, Committed, Moves, Kept
  <2> QED BY <2>3, <2>4, <2>5, <2>6, <2>7 DEF Control
<1>6. CASE ~CanPop /\ ~queued[P] /\ ~closed
  <2>1. Moves(C, "park", th[C].next, th[C].w, th[C].phase)
    BY <1>6, Names, Placed DEF RecvLock, WakeInv
  <2>2. lock' \in BOOLEAN /\ lock'
    BY <1>6 DEF RecvLock
  <2>3. UNCHANGED <<word, asleep, mem, sb, closed, queued, cnt, result, form>>
    BY <1>6, Names DEF RecvLock, park, ring, state, hist
  <2>4. LabelInv'
    BY <1>0, <1>1, <1>2, <1>6, <2>1, <2>2, <2>3, Names DEF Control, LabelInv, Labels, Moves, Kept
  <2>5. MutexInv'
    BY <1>0, <1>1, <1>2, <1>6, <2>1, <2>2, <2>3, Names DEF Control, MutexInv, LabelInv, Labels, Held, Moves, Kept
  <2>6. QueueInv'
    BY <1>0, <1>1, <1>2, <1>6, <2>1, <2>2, <2>3, Names DEF Control, QueueInv, LabelInv, MutexInv, Held, Waking, CanPush, CanPop, Moves, Kept
  <2>7. CountInv'
    BY <1>0, <1>1, <1>2, <1>6, <2>1, <2>2, <2>3, Names DEF Control, CountInv, QueueInv, LabelInv, Moves, Kept
  <2>8. StrandInv'
    BY <1>0, <1>1, <1>2, <1>6, <2>1, <2>2, <2>3, Names DEF Control, StrandInv, QueueInv, MutexInv, LabelInv, CountInv, Held, Waking, CanPush, CanPop, Can, Committed, Moves, Kept
  <2> QED BY <2>4, <2>5, <2>6, <2>7, <2>8 DEF Control
<1> QED BY <1>3, <1>4, <1>5, <1>6

\* The consumer pushes for a parked producer, or returns.
LEMMA HelpPushControl ==
    ASSUME WakeInv, Control, RecvHelpPush
    PROVE  Control'
<1>0. th \in [Threads -> Positions] /\ asleep \subseteq Parkers /\ word \in [Parkers -> {0, 1}]
  BY DEF WakeInv, WakeTypes
<1>1. th[C].pc = "helpPush" /\ lock' = FALSE /\ lock' \in BOOLEAN
  BY DEF RecvHelpPush, At
<1>2. \A u \in Threads : u # C => th[u].pc \notin Held
  BY <1>1, Names DEF Control, MutexInv, Held
<1>3. CASE queued[P] /\ CanPush
  <2>1. Moves(C, "lateWake", th[C].next, P, th[C].phase)
    BY <1>3, Names, Placed DEF RecvHelpPush, WakeInv
  <2>2. queued' \in [Parkers -> BOOLEAN] /\ ~queued'[P] /\ \A u \in Parkers : u # P => queued'[u] = queued[u]
    BY <1>3, Names DEF RecvHelpPush, Control, QueueInv
  <2>3. result' = result
    BY <1>3, Names DEF RecvHelpPush, Control, QueueInv
  <2>4. UNCHANGED <<word, asleep, sb, closed, cnt, form>>
    BY <1>3, Names DEF RecvHelpPush, park, ring, state, hist, RingOp
  <2>5. LabelInv'
    BY <1>0, <1>1, <1>2, <1>3, <2>1, <2>2, <2>3, <2>4, Names DEF Control, LabelInv, Labels, Moves, Kept
  <2>6. MutexInv'
    BY <1>0, <1>1, <1>2, <1>3, <2>1, <2>2, <2>3, <2>4, Names DEF Control, MutexInv, LabelInv, Labels, Held, Moves, Kept
  <2>7. QueueInv'
    BY <1>0, <1>1, <1>2, <1>3, <2>1, <2>2, <2>3, <2>4, Names DEF Control, QueueInv, LabelInv, MutexInv, Held, Waking, CanPush, CanPop, Moves, Kept
  <2>8. CountInv'
    BY <1>0, <1>1, <1>2, <1>3, <2>1, <2>2, <2>3, <2>4, Names DEF Control, CountInv, QueueInv, LabelInv, Moves, Kept
  <2>9. StrandInv'
    BY <1>0, <1>1, <1>2, <1>3, <2>1, <2>2, <2>3, <2>4, Names DEF Control, StrandInv, QueueInv, MutexInv, LabelInv, CountInv, Held, Waking, CanPush, CanPop, Can, Committed, Moves, Kept
  <2> QED BY <2>5, <2>6, <2>7, <2>8, <2>9 DEF Control
<1>4. CASE ~(queued[P] /\ CanPush)
  <2>1. Moves(C, "idle", "idle", P, 1)
    BY <1>4, Names, Placed DEF RecvHelpPush, WakeInv
  <2>2. UNCHANGED <<word, asleep, mem, sb, closed, queued, cnt, result, form>>
    BY <1>4, Names DEF RecvHelpPush, park, ring, state, hist, Return
  <2>3. LabelInv'
    BY <1>0, <1>1, <1>2, <1>4, <2>1, <2>2, Names DEF Control, LabelInv, Labels, Moves, Kept
  <2>4. MutexInv'
    BY <1>0, <1>1, <1>2, <1>4, <2>1, <2>2, Names DEF Control, MutexInv, LabelInv, Labels, Held, Moves, Kept
  <2>5. QueueInv'
    BY <1>0, <1>1, <1>2, <1>4, <2>1, <2>2, Names DEF Control, QueueInv, LabelInv, MutexInv, Held, Waking, CanPush, CanPop, Moves, Kept
  <2>6. CountInv'
    BY <1>0, <1>1, <1>2, <1>4, <2>1, <2>2, Names DEF Control, CountInv, QueueInv, LabelInv, Moves, Kept
  <2>7. StrandInv'
    BY <1>0, <1>1, <1>2, <1>4, <2>1, <2>2, Names DEF Control, StrandInv, QueueInv, MutexInv, LabelInv, CountInv, Held, Waking, CanPush, CanPop, Can, Committed, Moves, Kept
  <2> QED BY <2>3, <2>4, <2>5, <2>6, <2>7 DEF Control
<1> QED BY <1>3, <1>4

\* The wake after the unlock, while its waiter is still in the call.
LEMMA LateWakeControl ==
    ASSUME WakeInv, Control, LateWake, ~stale'
    PROVE  Control'
<1>0. th \in [Threads -> Positions] /\ asleep \subseteq Parkers /\ word \in [Parkers -> {0, 1}]
  BY DEF WakeInv, WakeTypes
<1>1. th[C].pc = "lateWake" /\ th[C].phase = 1 /\ th[C].w = P
  BY <1>0, Names DEF LateWake, At, Positions, Control, LabelInv
<1>2. Moves(C, "lateNotify", th[C].next, th[C].w, th[C].phase)
  BY Names, Placed DEF LateWake, WakeInv
<1>3. ParkSet(P)
  BY <1>1 DEF LateWake
<1>4. asleep' \subseteq asleep /\ word'[P] = 1 /\ \A u \in Parkers : u # P => word'[u] = word[u]
  BY <1>0, <1>3, Names DEF ParkSet
<1>5. ~queued[P]
  BY <1>1 DEF Control, QueueInv
<1>6. UNCHANGED <<mem, sb, lock, closed, queued, cnt, result, form>>
  BY Names DEF LateWake, park, ring, state, hist
<1>7. LabelInv'
  BY <1>0, <1>1, <1>2, <1>3, <1>4, <1>5, <1>6, Names DEF Control, LabelInv, Labels, Moves, Kept
<1>8. MutexInv'
  BY <1>0, <1>1, <1>2, <1>3, <1>4, <1>5, <1>6, Names DEF Control, MutexInv, LabelInv, Labels, Held, Moves, Kept
<1>9. QueueInv'
  BY <1>0, <1>1, <1>2, <1>3, <1>4, <1>5, <1>6, Names DEF Control, QueueInv, LabelInv, MutexInv, Held, Waking, CanPush, CanPop, Moves, Kept
<1>10. CountInv'
  BY <1>0, <1>1, <1>2, <1>3, <1>4, <1>5, <1>6, Names DEF Control, CountInv, QueueInv, LabelInv, Moves, Kept
<1>11. StrandInv'
  BY <1>0, <1>1, <1>2, <1>3, <1>4, <1>5, <1>6, Names DEF Control, StrandInv, QueueInv, MutexInv, LabelInv, CountInv, Held, Waking, CanPush, CanPop, Can, Committed, Moves, Kept
<1> QED BY <1>7, <1>8, <1>9, <1>10, <1>11 DEF Control

\* FUTEX_WAKE after the unlock, and the return.
LEMMA LateNotifyControl ==
    ASSUME WakeInv, Control, LateNotify
    PROVE  Control'
<1>0. th \in [Threads -> Positions] /\ asleep \subseteq Parkers /\ word \in [Parkers -> {0, 1}]
  BY DEF WakeInv, WakeTypes
<1>1. th[C].pc = "lateNotify"
  BY DEF LateNotify, At
<1>2. Moves(C, "idle", "idle", P, 1)
  BY Names, Placed DEF LateNotify, WakeInv
<1>3. asleep' \subseteq asleep /\ word' = word
  BY DEF LateNotify, ParkNotify
<1>4. UNCHANGED <<mem, sb, lock, closed, queued, cnt, result, form>>
  BY Names DEF LateNotify, park, ring, state, hist, Return
<1>5. LabelInv'
  BY <1>0, <1>1, <1>2, <1>3, <1>4, Names DEF Control, LabelInv, Labels, Moves, Kept
<1>6. MutexInv'
  BY <1>0, <1>1, <1>2, <1>3, <1>4, Names DEF Control, MutexInv, LabelInv, Labels, Held, Moves, Kept
<1>7. QueueInv'
  BY <1>0, <1>1, <1>2, <1>3, <1>4, Names DEF Control, QueueInv, LabelInv, MutexInv, Held, Waking, CanPush, CanPop, Moves, Kept
<1>8. CountInv'
  BY <1>0, <1>1, <1>2, <1>3, <1>4, Names DEF Control, CountInv, QueueInv, LabelInv, Moves, Kept
<1>9. StrandInv'
  BY <1>0, <1>1, <1>2, <1>3, <1>4, Names DEF Control, StrandInv, QueueInv, MutexInv, LabelInv, CountInv, Held, Waking, CanPush, CanPop, Can, Committed, Moves, Kept
<1> QED BY <1>5, <1>6, <1>7, <1>8, <1>9 DEF Control

\* A thread gives up, or registers and queues itself.
LEMMA RegisterControl ==
    ASSUME WakeInv, Control, NEW t \in {P, C}, Register(t)
    PROVE  Control'
<1>0. th \in [Threads -> Positions] /\ asleep \subseteq Parkers /\ word \in [Parkers -> {0, 1}]
  BY DEF WakeInv, WakeTypes
<1>1. th[t].pc = "park" /\ lock
  BY Names DEF Register, At, Control, MutexInv, Held
<1>2. \A u \in Threads : u # t => th[u].pc \notin Held
  BY <1>1, Names DEF Control, MutexInv, Held
<1>3. CASE form[t] = "try"
  <2>1. Moves(t, "idle", "idle", P, 1)
    BY <1>3, Names, Placed DEF Register, WakeInv
  <2>2. lock' = FALSE /\ lock' \in BOOLEAN
    BY <1>3 DEF Register
  <2>3. UNCHANGED <<word, asleep, mem, sb, closed, queued, cnt, result, form>>
    BY <1>3, Names DEF Register, park, ring, state, hist, Return
  <2>4. LabelInv'
    BY <1>0, <1>1, <1>2, <1>3, <2>1, <2>2, <2>3, Names DEF Control, LabelInv, Labels, Moves, Kept
  <2>5. MutexInv'
    BY <1>0, <1>1, <1>2, <1>3, <2>1, <2>2, <2>3, Names DEF Control, MutexInv, LabelInv, Labels, Held, Moves, Kept
  <2>6. QueueInv'
    BY <1>0, <1>1, <1>2, <1>3, <2>1, <2>2, <2>3, Names DEF Control, QueueInv, LabelInv, MutexInv, Held, Waking, CanPush, CanPop, Moves, Kept
  <2>7. CountInv'
    BY <1>0, <1>1, <1>2, <1>3, <2>1, <2>2, <2>3, Names DEF Control, CountInv, QueueInv, LabelInv, Moves, Kept
  <2>8. StrandInv'
    BY <1>0, <1>1, <1>2, <1>3, <2>1, <2>2, <2>3, Names DEF Control, StrandInv, QueueInv, MutexInv, LabelInv, CountInv, Held, Waking, CanPush, CanPop, Can, Committed, Moves, Kept
  <2> QED BY <2>4, <2>5, <2>6, <2>7, <2>8 DEF Control
<1>4. CASE form[t] # "try"
  <2>1. Moves(t, "again", th[t].next, th[t].w, th[t].phase)
    BY <1>4, Names, Placed DEF Register, WakeInv
  <2>2. word'[t] = 0 /\ asleep' = asleep /\ \A u \in Parkers : u # t => word'[u] = word[u]
    BY <1>0, <1>4, Names DEF Register, ParkFresh
  <2>3. queued' \in [Parkers -> BOOLEAN] /\ queued'[t] /\ \A u \in Parkers : u # t => queued'[u] = queued[u]
    BY <1>4, Names DEF Register, Control, QueueInv
  <2>4. result' \in [Parkers -> {"OK", "CLOSED", "TIMEOUT"}] /\ result'[t] = "OK" /\ \A u \in Parkers : u # t => result'[u] = result[u]
    BY <1>4, Names DEF Register, Control, QueueInv
  <2>5. DOMAIN cnt' = Parkers /\ cnt'[t] = cnt[t] + 1 /\ \A u \in Parkers : u # t => cnt'[u] = cnt[u]
    BY <1>4, Names DEF Register, Control, CountInv
  <2>6. UNCHANGED <<mem, sb, lock, closed, form>>
    BY <1>4, Names DEF Register, park, ring, state, hist
  <2>7. LabelInv'
    BY <1>0, <1>1, <1>2, <1>4, <2>1, <2>2, <2>3, <2>4, <2>5, <2>6, Names DEF Control, LabelInv, Labels, Moves, Kept
  <2>8. MutexInv'
    BY <1>0, <1>1, <1>2, <1>4, <2>1, <2>2, <2>3, <2>4, <2>5, <2>6, Names DEF Control, MutexInv, LabelInv, Labels, Held, Moves, Kept
  <2>9. QueueInv'
    BY <1>0, <1>1, <1>2, <1>4, <2>1, <2>2, <2>3, <2>4, <2>5, <2>6, Names DEF Control, QueueInv, LabelInv, MutexInv, Held, Waking, CanPush, CanPop, Moves, Kept
  <2>10. CountInv'
    BY <1>0, <1>1, <1>2, <1>4, <2>1, <2>2, <2>3, <2>4, <2>5, <2>6, Names DEF Control, CountInv, QueueInv, LabelInv, Moves, Kept
  <2>11. StrandInv'
    BY <1>0, <1>1, <1>2, <1>4, <2>1, <2>2, <2>3, <2>4, <2>5, <2>6, Names DEF Control, StrandInv, QueueInv, MutexInv, LabelInv, CountInv, Held, Waking, CanPush, CanPop, Can, Committed, Moves, Kept
  <2> QED BY <2>7, <2>8, <2>9, <2>10, <2>11 DEF Control
<1> QED BY <1>3, <1>4

\* The second look at the ring, still under the lock.
LEMMA AgainControl ==
    ASSUME WakeInv, Control, NEW t \in {P, C}, Again(t)
    PROVE  Control'
<1>0. th \in [Threads -> Positions] /\ asleep \subseteq Parkers /\ word \in [Parkers -> {0, 1}]
  BY DEF WakeInv, WakeTypes
<1>1. th[t].pc = "again" /\ lock
  BY Names DEF Again, At, Control, MutexInv, Held
<1>2. \A u \in Threads : u # t => th[u].pc \notin Held
  BY <1>1, Names DEF Control, MutexInv, Held
<1>3. CASE Can(t)
  <2>1. Moves(t, IF t = P THEN "help" ELSE "done", "done", th[t].w, th[t].phase)
    BY <1>3, Names, Placed DEF Again, WakeInv
  <2>2. queued' \in [Parkers -> BOOLEAN] /\ ~queued'[t] /\ \A u \in Parkers : u # t => queued'[u] = queued[u]
    BY <1>3, Names DEF Again, Control, QueueInv
  <2>3. DOMAIN cnt' = Parkers /\ cnt'[t] = cnt[t] - 1 /\ \A u \in Parkers : u # t => cnt'[u] = cnt[u]
    BY <1>3, Names DEF Again, Control, CountInv
  <2>4. UNCHANGED <<word, asleep, sb, lock, closed, result, form>>
    BY <1>3, Names DEF Again, park, ring, state, hist, RingOp
  <2>5. LabelInv'
    BY <1>0, <1>1, <1>2, <1>3, <2>1, <2>2, <2>3, <2>4, Names DEF Control, LabelInv, Labels, Moves, Kept
  <2>6. MutexInv'
    BY <1>0, <1>1, <1>2, <1>3, <2>1, <2>2, <2>3, <2>4, Names DEF Control, MutexInv, LabelInv, Labels, Held, Moves, Kept
  <2>7. QueueInv'
    BY <1>0, <1>1, <1>2, <1>3, <2>1, <2>2, <2>3, <2>4, Names DEF Control, QueueInv, LabelInv, MutexInv, Held, Waking, CanPush, CanPop, Moves, Kept
  <2>8. CountInv'
    BY <1>0, <1>1, <1>2, <1>3, <2>1, <2>2, <2>3, <2>4, Names DEF Control, CountInv, QueueInv, LabelInv, Moves, Kept
  <2>9. StrandInv'
    BY <1>0, <1>1, <1>2, <1>3, <2>1, <2>2, <2>3, <2>4, Names DEF Control, StrandInv, QueueInv, MutexInv, LabelInv, CountInv, Held, Waking, CanPush, CanPop, Can, Committed, Moves, Kept
  <2> QED BY <2>5, <2>6, <2>7, <2>8, <2>9 DEF Control
<1>4. CASE ~Can(t)
  <2>1. Moves(t, "parked", th[t].next, th[t].w, th[t].phase)
    BY <1>4, Names, Placed DEF Again, WakeInv
  <2>2. lock' = FALSE /\ lock' \in BOOLEAN
    BY <1>4 DEF Again
  <2>3. th[t].phase = 1
    BY <1>0, <1>1, Names DEF Positions, Control, CountInv
  <2>4. UNCHANGED <<word, asleep, mem, sb, closed, queued, cnt, result, form>>
    BY <1>4, Names DEF Again, park, ring, state, hist
  <2>5. LabelInv'
    BY <1>0, <1>1, <1>2, <1>4, <2>1, <2>2, <2>3, <2>4, Names DEF Control, LabelInv, Labels, Moves, Kept
  <2>6. MutexInv'
    BY <1>0, <1>1, <1>2, <1>4, <2>1, <2>2, <2>3, <2>4, Names DEF Control, MutexInv, LabelInv, Labels, Held, Moves, Kept
  <2>7. QueueInv'
    BY <1>0, <1>1, <1>2, <1>4, <2>1, <2>2, <2>3, <2>4, Names DEF Control, QueueInv, LabelInv, MutexInv, Held, Waking, CanPush, CanPop, Moves, Kept
  <2>8. CountInv'
    BY <1>0, <1>1, <1>2, <1>4, <2>1, <2>2, <2>3, <2>4, Names DEF Control, CountInv, QueueInv, LabelInv, Moves, Kept
  <2>9. StrandInv'
    BY <1>0, <1>1, <1>2, <1>4, <2>1, <2>2, <2>3, <2>4, Names DEF Control, StrandInv, QueueInv, MutexInv, LabelInv, CountInv, Held, Waking, CanPush, CanPop, Can, Committed, Moves, Kept
  <2> QED BY <2>5, <2>6, <2>7, <2>8, <2>9 DEF Control
<1> QED BY <1>3, <1>4

\* A thread goes to sleep, or is woken for no reason.
LEMMA SleepControl ==
    ASSUME WakeInv, Control, NEW t \in {P, C}, Sleep(t) \/ Spurious(t)
    PROVE  Control'
<1>0. th \in [Threads -> Positions] /\ asleep \subseteq Parkers /\ word \in [Parkers -> {0, 1}]
  BY DEF WakeInv, WakeTypes
<1>1. th[t].pc = "parked" /\ th' = th /\ word' = word /\ asleep' \subseteq asleep \cup {t}
  BY DEF Sleep, Spurious, At, ParkSleep, ParkSpurious
<1>2. UNCHANGED <<mem, sb, lock, closed, queued, cnt, result, form>>
  BY DEF Sleep, Spurious, park, ring, state, hist
<1>3. LabelInv'
  BY <1>0, <1>1, <1>2, Names DEF Control, LabelInv, Labels, Moves, Kept
<1>4. MutexInv'
  BY <1>0, <1>1, <1>2, Names DEF Control, MutexInv, LabelInv, Labels, Held, Moves, Kept
<1>5. QueueInv'
  BY <1>0, <1>1, <1>2, Names DEF Control, QueueInv, LabelInv, MutexInv, Held, Waking, CanPush, CanPop, Moves, Kept
<1>6. CountInv'
  BY <1>0, <1>1, <1>2, Names DEF Control, CountInv, QueueInv, LabelInv, Moves, Kept
<1>7. StrandInv'
  BY <1>0, <1>1, <1>2, Names DEF Control, StrandInv, QueueInv, MutexInv, LabelInv, CountInv, Held, Waking, CanPush, CanPop, Can, Committed, Moves, Kept
<1> QED BY <1>3, <1>4, <1>5, <1>6, <1>7 DEF Control

\* The word is set: the call returns.
LEMMA WokenControl ==
    ASSUME WakeInv, Control, NEW t \in {P, C}, Woken(t)
    PROVE  Control'
<1>0. th \in [Threads -> Positions] /\ asleep \subseteq Parkers /\ word \in [Parkers -> {0, 1}]
  BY DEF WakeInv, WakeTypes
<1>1. th[t].pc = "parked"
  BY DEF Woken, At
<1>2. Return(t, result[t]) /\ word' = word /\ asleep' = asleep
  BY DEF Woken, Deregister, ParkTrue, park
<1>3. ~queued[t] /\ t \notin asleep
  BY <1>0, <1>1, Names DEF Woken, ParkTrue, Control, QueueInv, CountInv
<1>4. Moves(t, "idle", "idle", P, 1)
  BY <1>2, Names, Placed DEF WakeInv
<1>5. \A x \in Threads : x # t /\ th[x].pc = "lateWake" /\ th[x].w = t => th'[x].phase = 2
  BY <1>2, Names, LeftBehind DEF WakeInv
<1>6. DOMAIN cnt' = Parkers /\ cnt'[t] = cnt[t] - 1 /\ \A u \in Parkers : u # t => cnt'[u] = cnt[u]
  BY Names DEF Woken, Control, CountInv, Deregister
<1>7. UNCHANGED <<mem, sb, lock, closed, queued, result, form>>
  BY Names DEF Woken, park, ring, state, hist, Deregister, Return
<1>8. LabelInv'
  BY <1>0, <1>1, <1>2, <1>3, <1>4, <1>5, <1>6, <1>7, Names DEF Control, LabelInv, Labels, Moves, Kept
<1>9. MutexInv'
  BY <1>0, <1>1, <1>2, <1>3, <1>4, <1>5, <1>6, <1>7, Names DEF Control, MutexInv, LabelInv, Labels, Held, Moves, Kept
<1>10. QueueInv'
  BY <1>0, <1>1, <1>2, <1>3, <1>4, <1>5, <1>6, <1>7, Names DEF Control, QueueInv, LabelInv, MutexInv, Held, Waking, CanPush, CanPop, Moves, Kept
<1>11. CountInv'
  BY <1>0, <1>1, <1>2, <1>3, <1>4, <1>5, <1>6, <1>7, Names DEF Control, CountInv, QueueInv, LabelInv, Moves, Kept
<1>12. StrandInv'
  BY <1>0, <1>1, <1>2, <1>3, <1>4, <1>5, <1>6, <1>7, Names DEF Control, StrandInv, QueueInv, MutexInv, LabelInv, CountInv, Held, Waking, CanPush, CanPop, Can, Committed, Moves, Kept
<1> QED BY <1>8, <1>9, <1>10, <1>11, <1>12 DEF Control

\* The call returns after the backstop or the timeout.
LEMMA ServedControl ==
    ASSUME WakeInv, Control, NEW t \in {P, C}, Served(t)
    PROVE  Control'
<1>0. th \in [Threads -> Positions] /\ asleep \subseteq Parkers /\ word \in [Parkers -> {0, 1}]
  BY DEF WakeInv, WakeTypes
<1>1. th[t].pc = "served"
  BY DEF Served, At
<1>2. Return(t, result[t]) /\ word' = word /\ asleep' = asleep
  BY DEF Served, Deregister, ParkTrue, park
<1>3. ~queued[t] /\ t \notin asleep
  BY <1>0, <1>1, Names DEF Served, ParkTrue, Control, QueueInv, CountInv
<1>4. Moves(t, "idle", "idle", P, 1)
  BY <1>2, Names, Placed DEF WakeInv
<1>5. \A x \in Threads : x # t /\ th[x].pc = "lateWake" /\ th[x].w = t => th'[x].phase = 2
  BY <1>2, Names, LeftBehind DEF WakeInv
<1>6. DOMAIN cnt' = Parkers /\ cnt'[t] = cnt[t] - 1 /\ \A u \in Parkers : u # t => cnt'[u] = cnt[u]
  BY Names DEF Served, Control, CountInv, Deregister
<1>7. UNCHANGED <<mem, sb, lock, closed, queued, result, form>>
  BY Names DEF Served, park, ring, state, hist, Deregister, Return
<1>8. LabelInv'
  BY <1>0, <1>1, <1>2, <1>3, <1>4, <1>5, <1>6, <1>7, Names DEF Control, LabelInv, Labels, Moves, Kept
<1>9. MutexInv'
  BY <1>0, <1>1, <1>2, <1>3, <1>4, <1>5, <1>6, <1>7, Names DEF Control, MutexInv, LabelInv, Labels, Held, Moves, Kept
<1>10. QueueInv'
  BY <1>0, <1>1, <1>2, <1>3, <1>4, <1>5, <1>6, <1>7, Names DEF Control, QueueInv, LabelInv, MutexInv, Held, Waking, CanPush, CanPop, Moves, Kept
<1>11. CountInv'
  BY <1>0, <1>1, <1>2, <1>3, <1>4, <1>5, <1>6, <1>7, Names DEF Control, CountInv, QueueInv, LabelInv, Moves, Kept
<1>12. StrandInv'
  BY <1>0, <1>1, <1>2, <1>3, <1>4, <1>5, <1>6, <1>7, Names DEF Control, StrandInv, QueueInv, MutexInv, LabelInv, CountInv, Held, Waking, CanPush, CanPop, Can, Committed, Moves, Kept
<1> QED BY <1>8, <1>9, <1>10, <1>11, <1>12 DEF Control

\* The time is up.
LEMMA TimeoutControl ==
    ASSUME WakeInv, Control, NEW t \in {P, C}, Timeout(t)
    PROVE  Control'
<1>0. th \in [Threads -> Positions] /\ asleep \subseteq Parkers /\ word \in [Parkers -> {0, 1}]
  BY DEF WakeInv, WakeTypes
<1>1. th[t].pc = "parked" /\ (form[t] = "block" => sb[Peer(t)] = << >>)
  BY DEF Timeout, At
<1>2. word' = word /\ asleep' = asleep \ {t}
  BY DEF Timeout, ParkTimeout
<1>3. Moves(t, "timedOut", th[t].next, th[t].w, th[t].phase)
  BY Names, Placed DEF Timeout, WakeInv
<1>4. UNCHANGED <<mem, sb, lock, closed, queued, cnt, result, form>>
  BY Names DEF Timeout, park, ring, state, hist
<1>5. LabelInv'
  BY <1>0, <1>1, <1>2, <1>3, <1>4, Names DEF Control, LabelInv, Labels, Moves, Kept
<1>6. MutexInv'
  BY <1>0, <1>1, <1>2, <1>3, <1>4, Names DEF Control, MutexInv, LabelInv, Labels, Held, Moves, Kept
<1>7. QueueInv'
  BY <1>0, <1>1, <1>2, <1>3, <1>4, Names DEF Control, QueueInv, LabelInv, MutexInv, Held, Waking, CanPush, CanPop, Moves, Kept
<1>8. CountInv'
  BY <1>0, <1>1, <1>2, <1>3, <1>4, Names DEF Control, CountInv, QueueInv, LabelInv, Moves, Kept
<1>9. StrandInv'
  BY <1>0, <1>1, <1>2, <1>3, <1>4, Names DEF Control, StrandInv, QueueInv, MutexInv, LabelInv, CountInv, Held, Waking, CanPush, CanPop, Can, Committed, Moves, Kept
<1> QED BY <1>5, <1>6, <1>7, <1>8, <1>9 DEF Control

\* The backstop: served already, or the ring once more, or parked for good.
LEMMA BackstopControl ==
    ASSUME WakeInv, Control, NEW t \in {P, C}, Backstop(t)
    PROVE  Control'
<1>0. th \in [Threads -> Positions] /\ asleep \subseteq Parkers /\ word \in [Parkers -> {0, 1}]
  BY DEF WakeInv, WakeTypes
<1>1. th[t].pc = "timedOut" /\ ~lock /\ form[t] = "block"
  BY DEF Backstop, At
<1>2. \A u \in Threads : th[u].pc \notin Held
  BY <1>1 DEF Control, MutexInv
<1>3. ~(queued[t] /\ closed)
  BY <1>2, Names DEF Control, StrandInv, Held
<1>4. CASE ~queued[t]
  <2>1. queued' = queued /\ result' = result
    BY <1>4, Names DEF Backstop, Control, QueueInv
  <2>2. Moves(t, "served", th[t].next, th[t].w, th[t].phase)
    BY <1>1, <1>4, <2>1, Names, Placed DEF Backstop, WakeInv
  <2>3. UNCHANGED <<word, asleep, mem, sb, lock, closed, cnt, form>>
    BY <1>4, Names DEF Backstop, park, ring, state, hist
  <2>4. LabelInv'
    BY <1>0, <1>1, <1>2, <1>3, <1>4, <2>1, <2>2, <2>3, Names DEF Control, LabelInv, Labels, Moves, Kept
  <2>5. MutexInv'
    BY <1>0, <1>1, <1>2, <1>3, <1>4, <2>1, <2>2, <2>3, Names DEF Control, MutexInv, LabelInv, Labels, Held, Moves, Kept
  <2>6. QueueInv'
    BY <1>0, <1>1, <1>2, <1>3, <1>4, <2>1, <2>2, <2>3, Names DEF Control, QueueInv, LabelInv, MutexInv, Held, Waking, CanPush, CanPop, Moves, Kept
  <2>7. CountInv'
    BY <1>0, <1>1, <1>2, <1>3, <1>4, <2>1, <2>2, <2>3, Names DEF Control, CountInv, QueueInv, LabelInv, Moves, Kept
  <2>8. StrandInv'
    BY <1>0, <1>1, <1>2, <1>3, <1>4, <2>1, <2>2, <2>3, Names DEF Control, StrandInv, QueueInv, MutexInv, LabelInv, CountInv, Held, Waking, CanPush, CanPop, Can, Committed, Moves, Kept
  <2> QED BY <2>4, <2>5, <2>6, <2>7, <2>8 DEF Control
<1>5. CASE queued[t] /\ ~closed /\ Can(t)
  <2>1. queued' \in [Parkers -> BOOLEAN] /\ ~queued'[t] /\ \A u \in Parkers : u # t => queued'[u] = queued[u]
    BY <1>5, Names DEF Backstop, Control, QueueInv
  <2>2. Moves(t, "served", th[t].next, th[t].w, th[t].phase)
    BY <1>1, <1>5, <2>1, Names, Placed DEF Backstop, WakeInv
  <2>3. result' = result
    BY <1>5, Names DEF Backstop, Control, QueueInv
  <2>4. UNCHANGED <<word, asleep, sb, lock, closed, cnt, form>>
    BY <1>5, Names DEF Backstop, park, ring, state, hist, RingOp
  <2>5. LabelInv'
    BY <1>0, <1>1, <1>2, <1>3, <1>5, <2>1, <2>2, <2>3, <2>4, Names DEF Control, LabelInv, Labels, Moves, Kept
  <2>6. MutexInv'
    BY <1>0, <1>1, <1>2, <1>3, <1>5, <2>1, <2>2, <2>3, <2>4, Names DEF Control, MutexInv, LabelInv, Labels, Held, Moves, Kept
  <2>7. QueueInv'
    BY <1>0, <1>1, <1>2, <1>3, <1>5, <2>1, <2>2, <2>3, <2>4, Names DEF Control, QueueInv, LabelInv, MutexInv, Held, Waking, CanPush, CanPop, Moves, Kept
  <2>8. CountInv'
    BY <1>0, <1>1, <1>2, <1>3, <1>5, <2>1, <2>2, <2>3, <2>4, Names DEF Control, CountInv, QueueInv, LabelInv, Moves, Kept
  <2>9. StrandInv'
    BY <1>0, <1>1, <1>2, <1>3, <1>5, <2>1, <2>2, <2>3, <2>4, Names DEF Control, StrandInv, QueueInv, MutexInv, LabelInv, CountInv, Held, Waking, CanPush, CanPop, Can, Committed, Moves, Kept
  <2> QED BY <2>5, <2>6, <2>7, <2>8, <2>9 DEF Control
<1>6. CASE queued[t] /\ ~closed /\ ~Can(t)
  <2>1. queued' = queued /\ result' = result
    BY <1>6, Names DEF Backstop, Control, QueueInv
  <2>2. Moves(t, "parked", th[t].next, th[t].w, 2)
    BY <1>1, <1>6, <2>1, Names, Placed DEF Backstop, WakeInv
  <2>3. UNCHANGED <<word, asleep, mem, sb, lock, closed, cnt, form>>
    BY <1>6, Names DEF Backstop, park, ring, state, hist
  <2>4. LabelInv'
    BY <1>0, <1>1, <1>2, <1>3, <1>6, <2>1, <2>2, <2>3, Names DEF Control, LabelInv, Labels, Moves, Kept
  <2>5. MutexInv'
    BY <1>0, <1>1, <1>2, <1>3, <1>6, <2>1, <2>2, <2>3, Names DEF Control, MutexInv, LabelInv, Labels, Held, Moves, Kept
  <2>6. QueueInv'
    BY <1>0, <1>1, <1>2, <1>3, <1>6, <2>1, <2>2, <2>3, Names DEF Control, QueueInv, LabelInv, MutexInv, Held, Waking, CanPush, CanPop, Moves, Kept
  <2>7. CountInv'
    BY <1>0, <1>1, <1>2, <1>3, <1>6, <2>1, <2>2, <2>3, Names DEF Control, CountInv, QueueInv, LabelInv, Moves, Kept
  <2>8. StrandInv'
    BY <1>0, <1>1, <1>2, <1>3, <1>6, <2>1, <2>2, <2>3, Names DEF Control, StrandInv, QueueInv, MutexInv, LabelInv, CountInv, Held, Waking, CanPush, CanPop, Can, Committed, Moves, Kept
  <2> QED BY <2>4, <2>5, <2>6, <2>7, <2>8 DEF Control
<1> QED BY <1>3, <1>4, <1>5, <1>6

\* A timed call leaves its queue.
LEMMA TimedOutControl ==
    ASSUME WakeInv, Control, NEW t \in {P, C}, TimedOut(t)
    PROVE  Control'
<1>0. th \in [Threads -> Positions] /\ asleep \subseteq Parkers /\ word \in [Parkers -> {0, 1}]
  BY DEF WakeInv, WakeTypes
<1>1. th[t].pc = "timedOut" /\ ~lock
  BY DEF TimedOut, At
<1>2. \A u \in Threads : th[u].pc \notin Held
  BY <1>1 DEF Control, MutexInv
<1>3. CASE TRUE
  <2>1. queued' \in [Parkers -> BOOLEAN] /\ ~queued'[t] /\ \A u \in Parkers : u # t => queued'[u] = queued[u]
    BY <1>3, Names DEF TimedOut, Control, QueueInv
  <2>2. Moves(t, "served", th[t].next, th[t].w, th[t].phase)
    BY Names, Placed DEF TimedOut, WakeInv
  <2>3. result' \in [Parkers -> {"OK", "CLOSED", "TIMEOUT"}] /\ \A u \in Parkers : u # t => result'[u] = result[u]
    BY Names DEF TimedOut, Control, QueueInv
  <2>4. UNCHANGED <<word, asleep, mem, sb, lock, closed, cnt, form>>
    BY <1>3, Names DEF TimedOut, park, ring, state, hist
  <2>5. LabelInv'
    BY <1>0, <1>1, <1>2, <1>3, <2>1, <2>2, <2>3, <2>4, Names DEF Control, LabelInv, Labels, Moves, Kept
  <2>6. MutexInv'
    BY <1>0, <1>1, <1>2, <1>3, <2>1, <2>2, <2>3, <2>4, Names DEF Control, MutexInv, LabelInv, Labels, Held, Moves, Kept
  <2>7. QueueInv'
    BY <1>0, <1>1, <1>2, <1>3, <2>1, <2>2, <2>3, <2>4, Names DEF Control, QueueInv, LabelInv, MutexInv, Held, Waking, CanPush, CanPop, Moves, Kept
  <2>8. CountInv'
    BY <1>0, <1>1, <1>2, <1>3, <2>1, <2>2, <2>3, <2>4, Names DEF Control, CountInv, QueueInv, LabelInv, Moves, Kept
  <2>9. StrandInv'
    BY <1>0, <1>1, <1>2, <1>3, <2>1, <2>2, <2>3, <2>4, Names DEF Control, StrandInv, QueueInv, MutexInv, LabelInv, CountInv, Held, Waking, CanPush, CanPop, Can, Committed, Moves, Kept
  <2> QED BY <2>5, <2>6, <2>7, <2>8, <2>9 DEF Control
<1> QED BY <1>3

\* chan_close takes the lock, sets the flag and takes a parked producer.
LEMMA CloseControl ==
    ASSUME WakeInv, Control, Close
    PROVE  Control'
<1>0. th \in [Threads -> Positions] /\ asleep \subseteq Parkers /\ word \in [Parkers -> {0, 1}]
  BY DEF WakeInv, WakeTypes
<1>1. th[K].pc = "close" /\ ~lock /\ closed' /\ lock' /\ lock' \in BOOLEAN /\ closed' \in BOOLEAN
  BY DEF Close, At, Acquire
<1>2. \A u \in Threads : th[u].pc \notin Held
  BY <1>1 DEF Control, MutexInv
<1>3. CASE queued[P]
  <2>1. Moves(K, "wake", "closeRecv", P, th[K].phase)
    BY <1>3, Names, Placed DEF Close, WakeInv
  <2>2. queued' \in [Parkers -> BOOLEAN] /\ ~queued'[P] /\ \A u \in Parkers : u # P => queued'[u] = queued[u]
    BY <1>3, Names DEF Close, Control, QueueInv
  <2>3. result' \in [Parkers -> {"OK", "CLOSED", "TIMEOUT"}] /\ result'[P] = "CLOSED" /\ \A u \in Parkers : u # P => result'[u] = result[u]
    BY <1>3, Names DEF Close, Control, QueueInv
  <2>4. UNCHANGED <<word, asleep, mem, sb, cnt, form>>
    BY <1>3, Names DEF Close, park, ring, state, hist
  <2>5. LabelInv'
    BY <1>0, <1>1, <1>2, <1>3, <2>1, <2>2, <2>3, <2>4, Names DEF Control, LabelInv, Labels, Moves, Kept
  <2>6. MutexInv'
    BY <1>0, <1>1, <1>2, <1>3, <2>1, <2>2, <2>3, <2>4, Names DEF Control, MutexInv, LabelInv, Labels, Held, Moves, Kept
  <2>7. QueueInv'
    BY <1>0, <1>1, <1>2, <1>3, <2>1, <2>2, <2>3, <2>4, Names DEF Control, QueueInv, LabelInv, MutexInv, Held, Waking, CanPush, CanPop, Moves, Kept
  <2>8. CountInv'
    BY <1>0, <1>1, <1>2, <1>3, <2>1, <2>2, <2>3, <2>4, Names DEF Control, CountInv, QueueInv, LabelInv, Moves, Kept
  <2>9. StrandInv'
    BY <1>0, <1>1, <1>2, <1>3, <2>1, <2>2, <2>3, <2>4, Names DEF Control, StrandInv, QueueInv, MutexInv, LabelInv, CountInv, Held, Waking, CanPush, CanPop, Can, Committed, Moves, Kept
  <2> QED BY <2>5, <2>6, <2>7, <2>8, <2>9 DEF Control
<1>4. CASE ~queued[P]
  <2>1. Moves(K, "closeRecv", th[K].next, th[K].w, th[K].phase)
    BY <1>4, Names, Placed DEF Close, WakeInv
  <2>2. UNCHANGED <<word, asleep, mem, sb, queued, cnt, result, form>>
    BY <1>4, Names DEF Close, park, ring, state, hist
  <2>3. LabelInv'
    BY <1>0, <1>1, <1>2, <1>4, <2>1, <2>2, Names DEF Control, LabelInv, Labels, Moves, Kept
  <2>4. MutexInv'
    BY <1>0, <1>1, <1>2, <1>4, <2>1, <2>2, Names DEF Control, MutexInv, LabelInv, Labels, Held, Moves, Kept
  <2>5. QueueInv'
    BY <1>0, <1>1, <1>2, <1>4, <2>1, <2>2, Names DEF Control, QueueInv, LabelInv, MutexInv, Held, Waking, CanPush, CanPop, Moves, Kept
  <2>6. CountInv'
    BY <1>0, <1>1, <1>2, <1>4, <2>1, <2>2, Names DEF Control, CountInv, QueueInv, LabelInv, Moves, Kept
  <2>7. StrandInv'
    BY <1>0, <1>1, <1>2, <1>4, <2>1, <2>2, Names DEF Control, StrandInv, QueueInv, MutexInv, LabelInv, CountInv, Held, Waking, CanPush, CanPop, Can, Committed, Moves, Kept
  <2> QED BY <2>3, <2>4, <2>5, <2>6, <2>7 DEF Control
<1> QED BY <1>3, <1>4

\* chan_close takes a parked consumer.
LEMMA CloseRecvControl ==
    ASSUME WakeInv, Control, CloseRecv
    PROVE  Control'
<1>0. th \in [Threads -> Positions] /\ asleep \subseteq Parkers /\ word \in [Parkers -> {0, 1}]
  BY DEF WakeInv, WakeTypes
<1>1. th[K].pc = "closeRecv" /\ lock /\ closed
  BY Names DEF CloseRecv, At, Control, MutexInv, Held
<1>2. CASE queued[C]
  <2>1. Moves(K, "wake", "done", C, th[K].phase)
    BY <1>2, Names, Placed DEF CloseRecv, WakeInv
  <2>2. queued' \in [Parkers -> BOOLEAN] /\ ~queued'[C] /\ \A u \in Parkers : u # C => queued'[u] = queued[u]
    BY <1>2, Names DEF CloseRecv, Control, QueueInv
  <2>3. result' \in [Parkers -> {"OK", "CLOSED", "TIMEOUT"}] /\ \A u \in Parkers : u # C => result'[u] = result[u]
    BY <1>2, Names DEF CloseRecv, Control, QueueInv
  <2>4. UNCHANGED <<word, asleep, sb, lock, closed, cnt, form>>
    BY <1>2, Names DEF CloseRecv, park, ring, state, hist, RingOp
  <2>5. LabelInv'
    BY <1>0, <1>1, <1>2, <2>1, <2>2, <2>3, <2>4, Names DEF Control, LabelInv, Labels, Moves, Kept
  <2>6. MutexInv'
    BY <1>0, <1>1, <1>2, <2>1, <2>2, <2>3, <2>4, Names DEF Control, MutexInv, LabelInv, Labels, Held, Moves, Kept
  <2>7. QueueInv'
    BY <1>0, <1>1, <1>2, <2>1, <2>2, <2>3, <2>4, Names DEF Control, QueueInv, LabelInv, MutexInv, Held, Waking, CanPush, CanPop, Moves, Kept
  <2>8. CountInv'
    BY <1>0, <1>1, <1>2, <2>1, <2>2, <2>3, <2>4, Names DEF Control, CountInv, QueueInv, LabelInv, Moves, Kept
  <2>9. StrandInv'
    BY <1>0, <1>1, <1>2, <2>1, <2>2, <2>3, <2>4, Names DEF Control, StrandInv, QueueInv, MutexInv, LabelInv, CountInv, Held, Waking, CanPush, CanPop, Can, Committed, Moves, Kept
  <2> QED BY <2>5, <2>6, <2>7, <2>8, <2>9 DEF Control
<1>3. CASE ~queued[C]
  <2>1. Moves(K, "done", th[K].next, th[K].w, th[K].phase)
    BY <1>3, Names, Placed DEF CloseRecv, WakeInv
  <2>2. UNCHANGED <<word, asleep, mem, sb, lock, closed, queued, cnt, result, form>>
    BY <1>3, Names DEF CloseRecv, park, ring, state, hist
  <2>3. LabelInv'
    BY <1>0, <1>1, <1>3, <2>1, <2>2, Names DEF Control, LabelInv, Labels, Moves, Kept
  <2>4. MutexInv'
    BY <1>0, <1>1, <1>3, <2>1, <2>2, Names DEF Control, MutexInv, LabelInv, Labels, Held, Moves, Kept
  <2>5. QueueInv'
    BY <1>0, <1>1, <1>3, <2>1, <2>2, Names DEF Control, QueueInv, LabelInv, MutexInv, Held, Waking, CanPush, CanPop, Moves, Kept
  <2>6. CountInv'
    BY <1>0, <1>1, <1>3, <2>1, <2>2, Names DEF Control, CountInv, QueueInv, LabelInv, Moves, Kept
  <2>7. StrandInv'
    BY <1>0, <1>1, <1>3, <2>1, <2>2, Names DEF Control, StrandInv, QueueInv, MutexInv, LabelInv, CountInv, Held, Waking, CanPush, CanPop, Can, Committed, Moves, Kept
  <2> QED BY <2>3, <2>4, <2>5, <2>6, <2>7 DEF Control
<1> QED BY <1>2, <1>3

------------------------------------------------------------------------------
(* The cursors and the data of a step.                                     *)

Data == CursorInv /\ OrderInv /\ ItemInv

\* How the cursors in memory stand to those their owners see.
LEMMA CursorFacts ==
    ASSUME CursorInv
    PROVE  /\ Taken \in Nat /\ Put \in Nat /\ Taken <= Put
           /\ mem.ph \in Nat /\ mem.pt \in Nat /\ mem.chd \in Nat /\ mem.ct \in Nat
           /\ mem.ct <= Taken /\ mem.chd <= Taken /\ mem.ph <= Put /\ mem.pt <= Put
           /\ sb[P] = << >> => mem.ph = Put /\ mem.pt = Put
           /\ sb[C] = << >> => mem.chd = Taken /\ mem.ct = Taken
<1>1. /\ Put \in Nat /\ mem["ph"] <= Put /\ mem["pt"] <= Put
      /\ sb[P] = << >> => Put = mem["ph"] /\ Put = mem["pt"]
  BY ChainFacts DEF CursorInv, Put, Own
<1>2. /\ Taken \in Nat /\ mem["chd"] <= Taken /\ mem["ct"] <= Taken
      /\ sb[C] = << >> => Taken = mem["chd"] /\ Taken = mem["ct"]
  BY ChainFacts DEF CursorInv, Taken, Own
<1>3. mem.ph \in Nat /\ mem.pt \in Nat /\ mem.chd \in Nat /\ mem.ct \in Nat /\ Taken <= mem.pt
  BY DEF CursorInv, Cursors
<1> QED BY <1>1, <1>2, <1>3

\* The cursors are as they were.
LEMMA CursorSame ==
    ASSUME CursorInv, UNCHANGED <<mem, sb, cache>>
    PROVE  CursorInv' /\ Taken' = Taken /\ Put' = Put
BY DEF CursorInv, Taken, Put, Own

\* A cursor of the other side is read again.
LEMMA CursorReload ==
    ASSUME CursorInv, UNCHANGED <<mem, sb>>, NEW t \in {P, C}, cache' = [cache EXCEPT ![t] = Reloaded(t)]
    PROVE  CursorInv' /\ Taken' = Taken /\ Put' = Put
<1>1. Taken' = Taken /\ Put' = Put
  BY DEF Taken, Put, Own
<1>2. cache' \in [Parkers -> Nat] /\ cache'[P] <= mem.ct /\ cache'[C] <= mem.pt
  <2>1. /\ cache \in [Parkers -> Nat] /\ cache[P] <= mem.ct /\ cache[C] <= mem.pt
        /\ mem.ct \in Nat /\ mem.pt \in Nat
    BY CursorFacts DEF CursorInv
  <2>2. Reloaded(t) \in {cache[t], IF t = P THEN mem.ct ELSE mem.pt}
    BY DEF Reloaded
  <2>3. PICK c : c = Reloaded(t)
    OBVIOUS
  <2> QED BY <2>1, <2>2, <2>3, Names
<1> QED BY <1>1, <1>2 DEF CursorInv

\* A store of one side becomes visible.
LEMMA CursorFlush ==
    ASSUME CursorInv, DOMAIN sb = Parkers, NEW t \in {P, C}, Flush(t)
    PROVE  CursorInv' /\ Taken' = Taken /\ Put' = Put
<1>0. /\ cache' = cache /\ sb[t] # << >> /\ mem' = [mem EXCEPT ![sb[t][1][1]] = sb[t][1][2]]
      /\ sb'[t] = Tail(sb[t]) /\ \A u \in Parkers : u # t => sb'[u] = sb[u]
  <2>1. PICK h, r : h = Head(sb[t]) /\ r = Tail(sb[t])
    OBVIOUS
  <2>2. sb[t] # << >> /\ mem' = [mem EXCEPT ![h[1]] = h[2]] /\ sb' = [sb EXCEPT ![t] = r] /\ cache' = cache
    BY <2>1 DEF Flush
  <2>3. h = sb[t][1]
    BY <2>1
  <2> QED BY <2>1, <2>2, <2>3, Names
<1>1. CASE t = P
  <2>1. /\ sb'[P] \in Stores("pt", "ph") /\ Chain(mem', sb'[P], "pt", "ph")
        /\ LastStored(mem', sb'[P], "ph") = LastStored(mem, sb[P], "ph")
        /\ mem' \in [Cursors -> Nat] /\ mem["pt"] <= mem'["pt"]
        /\ mem'["ct"] = mem["ct"] /\ mem'["chd"] = mem["chd"]
    <3>0. PICK a \in {"pt", "ct"}, b \in {"ph", "chd"} : a = "pt" /\ b = "ph"
      OBVIOUS
    <3>1. sb[P] \in Stores(a, b) /\ Chain(mem, sb[P], a, b) /\ mem \in [Cursors -> Nat]
      BY <3>0 DEF CursorInv
    <3>2. Flushed(mem, sb[P], mem', sb'[P])
      BY <1>0, <1>1 DEF Flushed
    <3>3. /\ sb'[P] \in Stores(a, b) /\ Chain(mem', sb'[P], a, b)
          /\ LastStored(mem', sb'[P], b) = LastStored(mem, sb[P], b)
          /\ mem' \in [Cursors -> Nat] /\ mem[a] <= mem'[a]
          /\ \A f \in Cursors \ {a, b} : mem'[f] = mem[f]
      BY <3>1, <3>2, ChainFlush
    <3> QED BY <3>0, <3>3 DEF Cursors
  <2>2. sb'[C] = sb[C]
    BY <1>0, <1>1, Names
  <2>3. Chain(mem', sb'[C], "ct", "chd") /\ LastStored(mem', sb'[C], "chd") = LastStored(mem, sb[C], "chd")
    BY <2>1, <2>2, ChainSame DEF CursorInv
  <2>4. Taken' = Taken /\ Put' = Put
    BY <2>1, <2>3 DEF Taken, Put, Own
  <2>5. cache[P] <= mem'.ct /\ cache[C] <= mem'.pt /\ Taken <= mem'.pt
    <3>1. cache[C] \in Nat /\ Taken \in Nat /\ mem["pt"] \in Nat /\ mem'["pt"] \in Nat
      BY <2>1, Names, CursorFacts DEF CursorInv, Cursors
    <3> QED BY <2>1, <3>1 DEF CursorInv
  <2> QED BY <1>0, <2>1, <2>2, <2>3, <2>4, <2>5 DEF CursorInv
<1>2. CASE t = C
  <2>1. /\ sb'[C] \in Stores("ct", "chd") /\ Chain(mem', sb'[C], "ct", "chd")
        /\ LastStored(mem', sb'[C], "chd") = LastStored(mem, sb[C], "chd")
        /\ mem' \in [Cursors -> Nat] /\ mem["ct"] <= mem'["ct"]
        /\ mem'["pt"] = mem["pt"] /\ mem'["ph"] = mem["ph"]
    <3>0. PICK a \in {"pt", "ct"}, b \in {"ph", "chd"} : a = "ct" /\ b = "chd"
      OBVIOUS
    <3>1. sb[C] \in Stores(a, b) /\ Chain(mem, sb[C], a, b) /\ mem \in [Cursors -> Nat]
      BY <3>0 DEF CursorInv
    <3>2. Flushed(mem, sb[C], mem', sb'[C])
      BY <1>0, <1>2 DEF Flushed
    <3>3. /\ sb'[C] \in Stores(a, b) /\ Chain(mem', sb'[C], a, b)
          /\ LastStored(mem', sb'[C], b) = LastStored(mem, sb[C], b)
          /\ mem' \in [Cursors -> Nat] /\ mem[a] <= mem'[a]
          /\ \A f \in Cursors \ {a, b} : mem'[f] = mem[f]
      BY <3>1, <3>2, ChainFlush
    <3> QED BY <3>0, <3>3 DEF Cursors
  <2>2. sb'[P] = sb[P]
    BY <1>0, <1>2, Names
  <2>3. Chain(mem', sb'[P], "pt", "ph") /\ LastStored(mem', sb'[P], "ph") = LastStored(mem, sb[P], "ph")
    BY <2>1, <2>2, ChainSame DEF CursorInv
  <2>4. Taken' = Taken /\ Put' = Put
    BY <2>1, <2>3 DEF Taken, Put, Own
  <2>5. cache[P] <= mem'.ct /\ cache[C] <= mem'.pt /\ Taken <= mem'.pt
    <3>1. cache[P] \in Nat /\ mem["ct"] \in Nat /\ mem'["ct"] \in Nat
      BY <2>1, Names, CursorFacts DEF CursorInv, Cursors
    <3> QED BY <2>1, <3>1 DEF CursorInv
  <2> QED BY <1>0, <2>1, <2>2, <2>3, <2>4, <2>5 DEF CursorInv
<1> QED BY <1>1, <1>2

\* A fast push: there was room even by the reloaded cursor.
LEMMA CursorStore ==
    ASSUME CursorInv, DOMAIN sb = Parkers, mem' = mem, cache' = [cache EXCEPT ![P] = Reloaded(P)], ~Lacks(P, Reloaded(P)),
           sb' = [sb EXCEPT ![P] = @ \o <<<<"pt", Put + 1>>, <<"ph", Put + 1>>>>]
    PROVE  CursorInv' /\ Taken' = Taken /\ Put' = Put + 1 /\ Put < Taken + Capacity
<1> DEFINE c == Reloaded(P)
<1>1. c \in Nat /\ c <= mem.ct
  <2>1. cache[P] \in Nat /\ mem.ct \in Nat /\ cache[P] <= mem.ct
    BY Names, CursorFacts DEF CursorInv
  <2>2. c \in {cache[P], mem.ct}
    BY DEF Reloaded
  <2> QED BY <2>1, <2>2
<1>2. Put < Taken + Capacity
  <2>1. ~(Put - c >= Capacity)
    BY DEF Lacks, Put
  <2> HIDE DEF c
  <2> QED BY <1>1, <2>1, CursorFacts, SpscAssumption
<1>3. PICK p : p = Put
  OBVIOUS
<1>4. PICK r : r = sb[P] \o <<<<"pt", p + 1>>, <<"ph", p + 1>>>>
  OBVIOUS
<1>5. sb' = [sb EXCEPT ![P] = r]
  BY <1>3, <1>4
<1>6. sb'[P] = r /\ sb'[C] = sb[C]
  BY <1>5, Names
<1>7. r \in Stores("pt", "ph") /\ Chain(mem, r, "pt", "ph") /\ LastStored(mem, r, "ph") = p + 1
  <2>1. PICK v : v = p + 1
    OBVIOUS
  <2>2. v = LastStored(mem, sb[P], "ph") + 1
    BY <1>3, <2>1 DEF Put, Own
  <2>3. r = sb[P] \o <<<<"pt", v>>, <<"ph", v>>>>
    BY <1>4, <2>1
  <2>4. sb[P] \in Stores("pt", "ph") /\ Chain(mem, sb[P], "pt", "ph") /\ mem \in [Cursors -> Nat]
    BY DEF CursorInv
  <2>5. r \in Stores("pt", "ph") /\ Chain(mem, r, "pt", "ph") /\ LastStored(mem, r, "ph") = v
    <3>0. PICK a \in {"pt", "ct"}, b \in {"ph", "chd"} : a = "pt" /\ b = "ph"
      OBVIOUS
    <3>1. /\ v = LastStored(mem, sb[P], b) + 1
          /\ sb[P] \in Stores(a, b) /\ Chain(mem, sb[P], a, b) /\ mem \in [Cursors -> Nat]
      BY <2>2, <2>4, <3>0
    <3>2. Extended(sb[P], r, a, b, v)
      BY <2>3, <3>0 DEF Extended
    <3>3. r \in Stores(a, b) /\ Chain(mem, r, a, b) /\ LastStored(mem, r, b) = v
      BY <3>1, <3>2, ChainStore
    <3> QED BY <3>0, <3>3
  <2> QED BY <2>1, <2>5
<1>8. Taken' = Taken /\ Put' = p + 1
  BY <1>6, <1>7 DEF Taken, Put, Own
<1>9. cache' \in [Parkers -> Nat] /\ cache'[P] <= mem.ct /\ cache'[C] <= mem.pt
  <2>1. PICK k : k = c
    OBVIOUS
  <2>2. cache' = [cache EXCEPT ![P] = k]
    BY <2>1
  <2> QED BY <1>1, <2>1, <2>2, Names DEF CursorInv
<1>10. p + 1 <= Taken + Capacity
  BY <1>2, <1>3, CursorFacts, SpscAssumption
<1> QED BY <1>2, <1>3, <1>6, <1>7, <1>8, <1>9, <1>10 DEF CursorInv

\* A fast pop: there was an item even by the reloaded cursor.
LEMMA CursorFetch ==
    ASSUME CursorInv, DOMAIN sb = Parkers, mem' = mem, cache' = [cache EXCEPT ![C] = Reloaded(C)], ~Lacks(C, Reloaded(C)),
           sb' = [sb EXCEPT ![C] = @ \o <<<<"ct", Taken + 1>>, <<"chd", Taken + 1>>>>]
    PROVE  CursorInv' /\ Put' = Put /\ Taken' = Taken + 1 /\ Taken < Put
<1> DEFINE c == Reloaded(C)
<1>1. c \in Nat /\ c <= mem.pt
  <2>1. cache[C] \in Nat /\ mem.pt \in Nat /\ cache[C] <= mem.pt
    BY Names, CursorFacts DEF CursorInv
  <2>2. c \in {cache[C], mem.pt}
    BY Names DEF Reloaded
  <2> QED BY <2>1, <2>2
<1>2. Taken < mem.pt
  <2>1. ~(Taken - c >= 0)
    BY Names DEF Lacks, Taken
  <2> HIDE DEF c
  <2> QED BY <1>1, <2>1, CursorFacts
<1>3. PICK p : p = Taken
  OBVIOUS
<1>4. PICK r : r = sb[C] \o <<<<"ct", p + 1>>, <<"chd", p + 1>>>>
  OBVIOUS
<1>5. sb' = [sb EXCEPT ![C] = r]
  BY <1>3, <1>4
<1>6. sb'[C] = r /\ sb'[P] = sb[P]
  BY <1>5, Names
<1>7. r \in Stores("ct", "chd") /\ Chain(mem, r, "ct", "chd") /\ LastStored(mem, r, "chd") = p + 1
  <2>1. PICK v : v = p + 1
    OBVIOUS
  <2>2. v = LastStored(mem, sb[C], "chd") + 1
    BY <1>3, <2>1 DEF Taken, Own
  <2>3. r = sb[C] \o <<<<"ct", v>>, <<"chd", v>>>>
    BY <1>4, <2>1
  <2>4. sb[C] \in Stores("ct", "chd") /\ Chain(mem, sb[C], "ct", "chd") /\ mem \in [Cursors -> Nat]
    BY DEF CursorInv
  <2>5. r \in Stores("ct", "chd") /\ Chain(mem, r, "ct", "chd") /\ LastStored(mem, r, "chd") = v
    <3>0. PICK a \in {"pt", "ct"}, b \in {"ph", "chd"} : a = "ct" /\ b = "chd"
      OBVIOUS
    <3>1. /\ v = LastStored(mem, sb[C], b) + 1
          /\ sb[C] \in Stores(a, b) /\ Chain(mem, sb[C], a, b) /\ mem \in [Cursors -> Nat]
      BY <2>2, <2>4, <3>0
    <3>2. Extended(sb[C], r, a, b, v)
      BY <2>3, <3>0 DEF Extended
    <3>3. r \in Stores(a, b) /\ Chain(mem, r, a, b) /\ LastStored(mem, r, b) = v
      BY <3>1, <3>2, ChainStore
    <3> QED BY <3>0, <3>3
  <2> QED BY <2>1, <2>5
<1>8. Put' = Put /\ Taken' = p + 1
  BY <1>6, <1>7 DEF Taken, Put, Own
<1>9. cache' \in [Parkers -> Nat] /\ cache'[P] <= mem.ct /\ cache'[C] <= mem.pt
  <2>1. PICK k : k = c
    OBVIOUS
  <2>2. cache' = [cache EXCEPT ![C] = k]
    BY <2>1
  <2> QED BY <1>1, <2>1, <2>2, Names DEF CursorInv
<1>10. p + 1 <= mem.pt /\ Put <= (p + 1) + Capacity
  <2>1. Put <= Taken + Capacity
    BY DEF CursorInv
  <2> QED BY <1>2, <1>3, <2>1, CursorFacts, SpscAssumption
<1>11. Taken < Put
  BY <1>2, CursorFacts
<1>12. CursorInv'
  BY <1>6, <1>7, <1>8, <1>9, <1>10 DEF CursorInv
<1> QED BY <1>3, <1>8, <1>11, <1>12

\* ring_push under the lock, for a producer with no store on the way.
LEMMA CursorPush ==
    ASSUME CursorInv, sb[P] = << >>, CanPush, RingOp(P)
    PROVE  /\ CursorInv' /\ Taken' = Taken /\ Put' = Put + 1 /\ Put < Taken + Capacity
           /\ slots' = [slots EXCEPT ![Put % Capacity] = calls[P]] /\ out' = out
<1>1. /\ mem' = [mem EXCEPT !.ph = @ + 1, !.pt = @ + 1] /\ sb' = sb /\ cache' = cache /\ out' = out
      /\ slots' = [slots EXCEPT ![mem.ph % Capacity] = calls[P]]
  BY DEF RingOp
<1>2. /\ mem' \in [Cursors -> Nat] /\ mem'["ph"] = mem["ph"] + 1 /\ mem'["pt"] = mem["pt"] + 1
      /\ mem'["ct"] = mem["ct"] /\ mem'["chd"] = mem["chd"]
  <2>1. mem \in [Cursors -> Nat] /\ Cursors = {"ph", "pt", "chd", "ct"}
    BY DEF CursorInv, Cursors
  <2>2. PICK a, b : a = mem.ph + 1 /\ b = mem.pt + 1
    OBVIOUS
  <2>3. mem' = [mem EXCEPT !["ph"] = a, !["pt"] = b]
    BY <1>1, <2>2
  <2>4. a \in Nat /\ b \in Nat
    BY <2>2, CursorFacts
  <2> QED BY <2>1, <2>2, <2>3, <2>4
<1>3. Put = mem.ph /\ Put = mem.pt /\ Put \in Nat /\ Taken \in Nat /\ mem.ct <= Taken /\ mem.ct \in Nat
  BY CursorFacts
<1>4. Chain(mem', << >>, "pt", "ph") /\ LastStored(mem', << >>, "ph") = mem["ph"] + 1
  <2>1. Chain(mem, << >>, "pt", "ph") /\ mem \in [Cursors -> Nat]
    BY DEF CursorInv
  <2> QED BY <1>2, <2>1, ChainBoth
<1>5. Chain(mem', sb[C], "ct", "chd") /\ LastStored(mem', sb[C], "chd") = LastStored(mem, sb[C], "chd")
  <2>1. PICK a, b : a = "ct" /\ b = "chd"
    OBVIOUS
  <2>2. mem'[a] = mem[a] /\ mem'[b] = mem[b] /\ Chain(mem, sb[C], a, b)
    BY <1>2, <2>1 DEF CursorInv
  <2>3. Chain(mem', sb[C], a, b) /\ LastStored(mem', sb[C], b) = LastStored(mem, sb[C], b)
    BY <2>2, ChainSame
  <2> QED BY <2>1, <2>3
<1>6. Taken' = Taken /\ Put' = Put + 1
  BY <1>1, <1>3, <1>4, <1>5 DEF Taken, Put, Own
<1>7. Put < Taken + Capacity
  BY <1>3, SpscAssumption DEF CanPush
<1>8. cache[P] <= mem'.ct /\ cache[C] <= mem'.pt /\ Taken <= mem'.pt
  <2>1. cache[C] \in Nat
    BY Names DEF CursorInv
  <2> QED BY <1>2, <1>3, <2>1 DEF CursorInv
<1>9. Put + 1 <= Taken + Capacity
  BY <1>3, <1>7, SpscAssumption
<1> QED BY <1>1, <1>2, <1>3, <1>4, <1>5, <1>6, <1>7, <1>8, <1>9 DEF CursorInv

\* ring_pop under the lock, for a consumer with no store on the way.
LEMMA CursorPop ==
    ASSUME CursorInv, sb[C] = << >>, CanPop, RingOp(C)
    PROVE  /\ CursorInv' /\ Put' = Put /\ Taken' = Taken + 1 /\ Taken < Put
           /\ out' = Item(Taken) /\ slots' = slots
<1>1. /\ mem' = [mem EXCEPT !.chd = @ + 1, !.ct = @ + 1] /\ sb' = sb /\ cache' = cache /\ slots' = slots
      /\ out' = slots[mem.chd % Capacity]
  BY Names DEF RingOp
<1>2. /\ mem' \in [Cursors -> Nat] /\ mem'["chd"] = mem["chd"] + 1 /\ mem'["ct"] = mem["ct"] + 1
      /\ mem'["pt"] = mem["pt"] /\ mem'["ph"] = mem["ph"]
  <2>1. mem \in [Cursors -> Nat] /\ Cursors = {"ph", "pt", "chd", "ct"}
    BY DEF CursorInv, Cursors
  <2>2. PICK a, b : a = mem.chd + 1 /\ b = mem.ct + 1
    OBVIOUS
  <2>3. mem' = [mem EXCEPT !["chd"] = a, !["ct"] = b]
    BY <1>1, <2>2
  <2>4. a \in Nat /\ b \in Nat
    BY <2>2, CursorFacts
  <2> QED BY <2>1, <2>2, <2>3, <2>4
<1>3. /\ Taken = mem.chd /\ Taken = mem.ct /\ Put \in Nat /\ Taken \in Nat
      /\ mem.pt <= Put /\ mem.pt \in Nat /\ Taken <= mem.pt /\ Put <= Taken + Capacity
  BY CursorFacts DEF CursorInv
<1>4. Chain(mem', << >>, "ct", "chd") /\ LastStored(mem', << >>, "chd") = mem["chd"] + 1
  <2>1. Chain(mem, << >>, "ct", "chd") /\ mem \in [Cursors -> Nat]
    BY DEF CursorInv
  <2> QED BY <1>2, <2>1, ChainBoth
<1>5. Chain(mem', sb[P], "pt", "ph") /\ LastStored(mem', sb[P], "ph") = LastStored(mem, sb[P], "ph")
  <2>1. PICK a, b : a = "pt" /\ b = "ph"
    OBVIOUS
  <2>2. mem'[a] = mem[a] /\ mem'[b] = mem[b] /\ Chain(mem, sb[P], a, b)
    BY <1>2, <2>1 DEF CursorInv
  <2>3. Chain(mem', sb[P], a, b) /\ LastStored(mem', sb[P], b) = LastStored(mem, sb[P], b)
    BY <2>2, ChainSame
  <2> QED BY <2>1, <2>3
<1>6. Put' = Put /\ Taken' = Taken + 1
  BY <1>1, <1>3, <1>4, <1>5 DEF Taken, Put, Own
<1>7. Taken < mem.pt
  BY <1>3 DEF CanPop
<1>8. cache[P] <= mem'.ct /\ cache[C] <= mem'.pt /\ Taken + 1 <= mem'.pt
  <2>1. cache[P] \in Nat
    BY Names DEF CursorInv
  <2> QED BY <1>2, <1>3, <1>7, <2>1 DEF CursorInv
<1>9. Put <= (Taken + 1) + Capacity
  BY <1>3, SpscAssumption
<1> QED BY <1>1, <1>2, <1>3, <1>4, <1>5, <1>6, <1>7, <1>8, <1>9 DEF CursorInv, Item

------------------------------------------------------------------------------
(* The items of a step.                                                    *)

\* A thread whose position and verdict stay has moved its item or not, as before.
LEMMA MovedKept ==
    ASSUME NEW t \in {P, C}, Kept(t), queued'[t] = queued[t], result'[t] = result[t]
    PROVE  Moved(t)' <=> Moved(t)
BY DEF Moved, Kept

\* Nothing is put into the channel, and the producer's call goes on or is over.
LEMMA ItemKeep ==
    ASSUME ItemInv, \A m \in Nat : Present(m)' <=> Present(m), UNCHANGED <<accepted, refused>>,
           calls[P] \in Nat, calls'[P] = calls[P],
           th'[P].pc # "idle" => th[P].pc # "idle" /\ (Moved(P)' <=> Moved(P)),
           out' # NoMsg <=> Moved(C)'
    PROVE  ItemInv'
<1>1. \A m \in accepted \cup refused : m \in Nat
  BY DEF ItemInv
<1>2. /\ \A m \in Nat : Present(m)' => m <= calls'[P]
      /\ \A m \in accepted : Present(m)'
      /\ \A m \in refused : ~Present(m)'
  BY <1>1 DEF ItemInv
<1>3. th'[P].pc # "idle" =>
         /\ calls'[P] > 0 /\ calls'[P] \notin accepted \cup refused
         /\ Moved(P)' <=> Present(calls[P])'
  BY DEF ItemInv
<1> QED BY <1>1, <1>2, <1>3 DEF ItemInv

\* The item of the producer's call is put into the channel.
LEMMA ItemPut ==
    ASSUME ItemInv, \A m \in Nat : Present(m)' <=> Present(m) \/ m = calls[P], UNCHANGED <<accepted, refused>>,
           calls[P] \in Nat, calls'[P] = calls[P], th[P].pc # "idle", Moved(P)',
           out' # NoMsg <=> Moved(C)'
    PROVE  ItemInv'
<1>1. \A m \in accepted \cup refused : m \in Nat
  BY DEF ItemInv
<1>2. /\ \A m \in Nat : Present(m)' => m <= calls'[P]
      /\ \A m \in accepted : Present(m)'
      /\ \A m \in refused : ~Present(m)'
  BY <1>1 DEF ItemInv
<1>3. /\ calls'[P] > 0 /\ calls'[P] \notin accepted \cup refused
      /\ Moved(P)' <=> Present(calls[P])'
  <2>1. Present(calls[P])'
    <3>1. PICK c \in Nat : c = calls[P]
      OBVIOUS
    <3>2. Present(c)'
      BY <3>1
    <3> QED BY <3>1, <3>2
  <2> QED BY <2>1 DEF ItemInv
<1> QED BY <1>1, <1>2, <1>3 DEF ItemInv

\* The producer's call returns OK if and only if its item was moved.
LEMMA ItemReturn ==
    ASSUME ItemInv, \A m \in Nat : Present(m)' <=> Present(m), NEW res, Moved(P) <=> res = "OK",
           accepted' = IF res = "OK" THEN accepted \cup {calls[P]} ELSE accepted,
           refused' = IF res # "OK" THEN refused \cup {calls[P]} ELSE refused,
           calls[P] \in Nat, calls' = calls, th[P].pc # "idle", th'[P].pc = "idle",
           out' # NoMsg <=> Moved(C)'
    PROVE  ItemInv'
<1>1. \A m \in accepted \cup refused : m \in Nat /\ m <= calls[P]
  BY DEF ItemInv
<1>2. Present(calls[P]) <=> res = "OK"
  BY DEF ItemInv
<1>3. /\ \A m \in Nat : Present(m)' => m <= calls'[P]
      /\ \A m \in accepted' : Present(m)'
      /\ \A m \in refused' : ~Present(m)'
  <2>1. \A m \in accepted' : m \in Nat /\ Present(m)
    BY <1>1, <1>2 DEF ItemInv
  <2>2. \A m \in refused' : m \in Nat /\ ~Present(m)
    BY <1>1, <1>2 DEF ItemInv
  <2> QED BY <2>1, <2>2 DEF ItemInv
<1>4. \A m \in accepted' \cup refused' : m \in Nat /\ m <= calls'[P]
  BY <1>1
<1> QED BY <1>3, <1>4 DEF ItemInv

\* The data of a step that touches neither the ring nor a hand.
LEMMA QuietData ==
    ASSUME Data, UNCHANGED <<mem, sb, cache, slots, out, rcvd, calls, accepted, refused>>,
           th'[P].pc # "idle" => th[P].pc # "idle" /\ (Moved(P)' <=> Moved(P)), Moved(C)' <=> Moved(C)
    PROVE  Data'
<1>1. CursorInv' /\ Taken' = Taken /\ Put' = Put
  BY CursorSame DEF Data
<1>2. calls \in [Threads -> Nat] /\ calls[P] \in Nat
  BY Names DEF Data, OrderInv
<1>3. OrderInv' /\ \A m : Present(m)' <=> Present(m)
  BY <1>1, <1>2, DataSame DEF Data
<1>4. out' # NoMsg <=> Moved(C)'
  BY DEF Data, ItemInv
<1>5. ItemInv'
  BY <1>2, <1>3, <1>4, ItemKeep DEF Data
<1> QED BY <1>1, <1>3, <1>5 DEF Data

\* ring_push of the producer's item under the lock.
LEMMA PushData ==
    ASSUME Data, sb[P] = << >>, CanPush, RingOp(P), UNCHANGED <<rcvd, calls, accepted, refused>>,
           th[P].pc # "idle", ~Moved(P), Moved(P)', Moved(C)' <=> Moved(C)
    PROVE  Data'
<1>1. /\ CursorInv' /\ Taken' = Taken /\ Put' = Put + 1 /\ Put < Taken + Capacity
      /\ slots' = [slots EXCEPT ![Put % Capacity] = calls[P]] /\ out' = out
  BY CursorPush DEF Data
<1>2. /\ calls[P] \in Nat /\ calls[P] > 0
      /\ \A m \in Nat : Present(m) => m < calls[P]
  <2>1. calls[P] \in Nat
    BY Names DEF Data, OrderInv
  <2> QED BY <2>1 DEF Data, ItemInv
<1>3. PICK v \in Nat : v = calls[P]
  BY <1>2
<1>4. OrderInv' /\ \A m \in Nat : Present(m)' <=> Present(m) \/ m = v
  BY <1>1, <1>2, <1>3, CursorFacts, DataPush DEF Data
<1>5. ItemInv'
  BY <1>1, <1>2, <1>3, <1>4, ItemPut DEF Data, ItemInv
<1> QED BY <1>1, <1>4, <1>5 DEF Data

\* ring_pop into the consumer's hand under the lock.
LEMMA PopData ==
    ASSUME Data, sb[C] = << >>, CanPop, RingOp(C), UNCHANGED <<rcvd, calls, accepted, refused>>,
           ~Moved(C), Moved(C)', th'[P].pc # "idle" => th[P].pc # "idle" /\ (Moved(P)' <=> Moved(P))
    PROVE  Data'
<1>1. /\ CursorInv' /\ Put' = Put /\ Taken' = Taken + 1 /\ Taken < Put
      /\ out' = Item(Taken) /\ slots' = slots
  BY CursorPop DEF Data
<1>2. out = NoMsg /\ calls[P] \in Nat
  BY Names DEF Data, ItemInv, OrderInv
<1>3. OrderInv' /\ out' # NoMsg /\ \A m \in Nat : Present(m)' <=> Present(m)
  BY <1>1, <1>2, CursorFacts, DataPop DEF Data
<1>4. ItemInv'
  BY <1>1, <1>2, <1>3, ItemKeep DEF Data
<1> QED BY <1>1, <1>3, <1>4 DEF Data

\* The producer's call returns.
LEMMA SendReturns ==
    ASSUME Data, WakeTypes, NEW res, Return(P, res), UNCHANGED <<mem, sb, cache, slots, queued, result>>,
           th[P].pc # "idle", Moved(P) <=> res = "OK"
    PROVE  Data'
<1>1. Moves(P, "idle", "idle", P, 1)
  BY Names, Placed
<1>2. Moved(C)' <=> Moved(C)
  BY <1>1, Names, MovedKept DEF Moves
<1>3. CursorInv' /\ Taken' = Taken /\ Put' = Put
  BY CursorSame DEF Data
<1>4. calls \in [Threads -> Nat] /\ calls[P] \in Nat /\ calls' = calls /\ rcvd' = rcvd /\ out' = out
  BY Names DEF Data, OrderInv, Return
<1>5. OrderInv' /\ \A m : Present(m)' <=> Present(m)
  BY <1>3, <1>4, DataSame DEF Data
<1>6. out' # NoMsg <=> Moved(C)'
  BY <1>2, <1>4 DEF Data, ItemInv
<1>7. /\ accepted' = IF res = "OK" THEN accepted \cup {calls[P]} ELSE accepted
      /\ refused' = IF res # "OK" THEN refused \cup {calls[P]} ELSE refused
      /\ th'[P].pc = "idle"
  BY <1>1 DEF Return, Moves
<1>8. ItemInv'
  BY <1>4, <1>5, <1>6, <1>7, ItemReturn DEF Data
<1> QED BY <1>3, <1>5, <1>8 DEF Data

\* The consumer's call returns.
LEMMA RecvReturns ==
    ASSUME Data, WakeTypes, NEW res, Return(C, res), UNCHANGED <<mem, sb, cache, slots, queued, result>>,
           Moved(C) <=> res = "OK"
    PROVE  Data'
<1>1. Moves(C, "idle", "idle", P, 1)
  BY Names, Placed
<1>2. (Moved(P)' <=> Moved(P)) /\ th'[P].pc = th[P].pc /\ ~Moved(C)'
  <2>1. Moved(P)' <=> Moved(P)
    BY <1>1, Names, MovedKept DEF Moves
  <2> QED BY <1>1, <2>1, Names DEF Moves, Kept, Moved
<1>3. CursorInv' /\ Taken' = Taken /\ Put' = Put
  BY CursorSame DEF Data
<1>4. /\ calls \in [Threads -> Nat] /\ calls[P] \in Nat /\ calls' = calls /\ out' = NoMsg
      /\ accepted' = accepted /\ refused' = refused
      /\ rcvd' = IF res = "OK" THEN Append(rcvd, out) ELSE rcvd
  BY Names DEF Data, OrderInv, Return
<1>5. OrderInv' /\ \A m \in Nat : Present(m)' <=> Present(m)
  <2>1. CASE res = "OK"
    <3>1. out # NoMsg
      BY <2>1 DEF Data, ItemInv
    <3> QED BY <1>3, <1>4, <2>1, <3>1, CursorFacts, DataReceive DEF Data
  <2>2. CASE res # "OK"
    <3>1. out = NoMsg
      BY <2>2 DEF Data, ItemInv
    <3> QED BY <1>3, <1>4, <2>2, <3>1, DataSame DEF Data
  <2> QED BY <2>1, <2>2
<1>6. ItemInv'
  BY <1>2, <1>4, <1>5, ItemKeep DEF Data
<1> QED BY <1>3, <1>5, <1>6 DEF Data

\* The look at the closed flag.
LEMMA SendClosedData ==
    ASSUME WakeInv, Control, Data, SendClosed
    PROVE  Data'
<1>0. WakeTypes /\ th \in [Threads -> Positions]
  BY DEF WakeInv, WakeTypes
<1>1. th[P].pc = "closed"
  BY DEF SendClosed, At
<1>2. \E l \in {"lock", "ring"} : Moves(P, l, th[P].next, th[P].w, th[P].phase)
  BY <1>0, Names, Placed DEF SendClosed
<1>3. UNCHANGED <<mem, sb, cache, slots, out, rcvd, calls, accepted, refused>>
  BY Names DEF SendClosed, ring, hist
<1>4. /\ Moved(C)' <=> Moved(C)
      /\ Moved(P)' <=> Moved(P)
      /\ th'[P].pc # "idle" => th[P].pc # "idle"
  BY <1>0, <1>1, <1>2, Names DEF SendClosed, Moves, Kept, Moved, state, Control, LabelInv, Labels, QueueInv
<1> QED BY <1>3, <1>4, QuietData

\* A helper takes the lock.
LEMMA HelpLockData ==
    ASSUME WakeInv, Control, Data, NEW t \in {P, C}, HelpLock(t)
    PROVE  Data'
<1>0. WakeTypes /\ th \in [Threads -> Positions]
  BY DEF WakeInv, WakeTypes
<1>1. th[t].pc = "helpLock"
  BY DEF HelpLock, At
<1>2. Moves(t, "help", th[t].next, th[t].w, th[t].phase)
  BY <1>0, Names, Placed DEF HelpLock
<1>3. UNCHANGED <<mem, sb, cache, slots, out, rcvd, calls, accepted, refused>>
  BY Names DEF HelpLock, ring, hist
<1>4. /\ Moved(C)' <=> Moved(C)
      /\ Moved(P)' <=> Moved(P)
      /\ th'[P].pc # "idle" => th[P].pc # "idle"
  BY <1>0, <1>1, <1>2, Names DEF HelpLock, Moves, Kept, Moved, state, Control, LabelInv, Labels, QueueInv
<1> QED BY <1>3, <1>4, QuietData

\* A waker sets the word.
LEMMA WakeData ==
    ASSUME WakeInv, Control, Data, NEW t \in Threads, Wake(t)
    PROVE  Data'
<1>0. WakeTypes /\ th \in [Threads -> Positions]
  BY DEF WakeInv, WakeTypes
<1>1. th[t].pc = "wake"
  BY DEF Wake, At
<1>2. \E l \in {"notify", th[t].next} : Moves(t, l, th[t].next, th[t].w, th[t].phase)
  BY <1>0, Names, Placed DEF Wake
<1>3. UNCHANGED <<mem, sb, cache, slots, out, rcvd, calls, accepted, refused>>
  BY Names DEF Wake, ring, hist
<1>4. /\ Moved(C)' <=> Moved(C)
      /\ Moved(P)' <=> Moved(P)
      /\ th'[P].pc # "idle" => th[P].pc # "idle"
  BY <1>0, <1>1, <1>2, Names DEF Wake, Moves, Kept, Moved, state, Control, LabelInv, Labels, QueueInv
<1> QED BY <1>3, <1>4, QuietData

\* A waker calls FUTEX_WAKE.
LEMMA NotifyData ==
    ASSUME WakeInv, Control, Data, NEW t \in Threads, Notify(t)
    PROVE  Data'
<1>0. WakeTypes /\ th \in [Threads -> Positions]
  BY DEF WakeInv, WakeTypes
<1>1. th[t].pc = "notify"
  BY DEF Notify, At
<1>2. Moves(t, th[t].next, th[t].next, th[t].w, th[t].phase)
  BY <1>0, Names, Placed DEF Notify
<1>3. UNCHANGED <<mem, sb, cache, slots, out, rcvd, calls, accepted, refused>>
  BY Names DEF Notify, ring, hist
<1>4. /\ Moved(C)' <=> Moved(C)
      /\ Moved(P)' <=> Moved(P)
      /\ th'[P].pc # "idle" => th[P].pc # "idle"
  BY <1>0, <1>1, <1>2, Names DEF Notify, Moves, Kept, Moved, state, Control, LabelInv, Labels, QueueInv
<1> QED BY <1>3, <1>4, QuietData

\* A waker sets the word after the unlock.
LEMMA LateWakeData ==
    ASSUME WakeInv, Control, Data, LateWake
    PROVE  Data'
<1>0. WakeTypes /\ th \in [Threads -> Positions]
  BY DEF WakeInv, WakeTypes
<1>1. th[C].pc = "lateWake"
  BY DEF LateWake, At
<1>2. Moves(C, "lateNotify", th[C].next, th[C].w, th[C].phase)
  BY <1>0, Names, Placed DEF LateWake
<1>3. UNCHANGED <<mem, sb, cache, slots, out, rcvd, calls, accepted, refused>>
  BY Names DEF LateWake, ring, hist
<1>4. /\ Moved(C)' <=> Moved(C)
      /\ Moved(P)' <=> Moved(P)
      /\ th'[P].pc # "idle" => th[P].pc # "idle"
  BY <1>0, <1>1, <1>2, Names DEF LateWake, Moves, Kept, Moved, state, Control, LabelInv, Labels, QueueInv
<1> QED BY <1>3, <1>4, QuietData

\* The time is up.
LEMMA TimeoutData ==
    ASSUME WakeInv, Control, Data, NEW t \in {P, C}, Timeout(t)
    PROVE  Data'
<1>0. WakeTypes /\ th \in [Threads -> Positions]
  BY DEF WakeInv, WakeTypes
<1>1. th[t].pc = "parked"
  BY DEF Timeout, At
<1>2. Moves(t, "timedOut", th[t].next, th[t].w, th[t].phase)
  BY <1>0, Names, Placed DEF Timeout
<1>3. UNCHANGED <<mem, sb, cache, slots, out, rcvd, calls, accepted, refused>>
  BY Names DEF Timeout, ring, hist
<1>4. /\ Moved(C)' <=> Moved(C)
      /\ Moved(P)' <=> Moved(P)
      /\ th'[P].pc # "idle" => th[P].pc # "idle"
  BY <1>0, <1>1, <1>2, Names DEF Timeout, Moves, Kept, Moved, state, Control, LabelInv, Labels, QueueInv
<1> QED BY <1>3, <1>4, QuietData

\* A timed call leaves its queue: a verdict of OK stands only if it was served.
LEMMA TimedOutData ==
    ASSUME WakeInv, Control, Data, NEW t \in {P, C}, TimedOut(t)
    PROVE  Data'
<1>0. WakeTypes /\ th \in [Threads -> Positions]
  BY DEF WakeInv, WakeTypes
<1>1. th[t].pc = "timedOut"
  BY DEF TimedOut, At
<1>2. Moves(t, "served", th[t].next, th[t].w, th[t].phase)
  BY <1>0, Names, Placed DEF TimedOut
<1>3. UNCHANGED <<mem, sb, cache, slots, out, rcvd, calls, accepted, refused>>
  BY Names DEF TimedOut, ring, hist
<1>4. /\ Moved(C)' <=> Moved(C)
      /\ Moved(P)' <=> Moved(P)
      /\ th'[P].pc # "idle" => th[P].pc # "idle"
  BY <1>0, <1>1, <1>2, Names DEF TimedOut, Moves, Kept, Moved, state, Control, LabelInv, Labels, QueueInv
<1> QED BY <1>3, <1>4, QuietData

\* chan_close takes a parked producer, whose item stays where it is.
LEMMA CloseData ==
    ASSUME WakeInv, Control, Data, Close
    PROVE  Data'
<1>0. WakeTypes /\ th \in [Threads -> Positions]
  BY DEF WakeInv, WakeTypes
<1>1. th[K].pc = "close"
  BY DEF Close, At
<1>2. Moves(K, "wake", "closeRecv", P, th[K].phase) \/ Moves(K, "closeRecv", th[K].next, th[K].w, th[K].phase)
  BY <1>0, Names, Placed DEF Close
<1>3. UNCHANGED <<mem, sb, cache, slots, out, rcvd, calls, accepted, refused>>
  BY Names DEF Close, ring, hist
<1>4. /\ Moved(C)' <=> Moved(C)
      /\ Moved(P)' <=> Moved(P)
      /\ th'[P].pc # "idle" => th[P].pc # "idle"
  BY <1>0, <1>1, <1>2, Names DEF Close, Moves, Kept, Moved, state, Control, LabelInv, Labels, QueueInv
<1> QED BY <1>3, <1>4, QuietData

\* chan_close returns.
LEMMA CloserDoneData ==
    ASSUME WakeInv, Control, Data, Done(K)
    PROVE  Data'
<1>0. WakeTypes /\ th \in [Threads -> Positions]
  BY DEF WakeInv, WakeTypes
<1>1. th[K].pc = "done"
  BY DEF Done, At
<1>2. Moves(K, "idle", "idle", P, 1)
  BY <1>0, Names, Placed DEF Done
<1>3. UNCHANGED <<mem, sb, cache, slots, out, rcvd, calls, accepted, refused>>
  BY Names DEF Done, ring, hist, Return
<1>4. /\ Moved(C)' <=> Moved(C)
      /\ Moved(P)' <=> Moved(P)
      /\ th'[P].pc # "idle" => th[P].pc # "idle"
  BY <1>0, <1>1, <1>2, Names DEF Done, Moves, Kept, Moved, state, Control, LabelInv, Labels, QueueInv
<1> QED BY <1>3, <1>4, QuietData

\* A thread goes to sleep, or is woken for no reason.
LEMMA SleepData ==
    ASSUME WakeInv, Control, Data, NEW t \in {P, C}, Sleep(t) \/ Spurious(t)
    PROVE  Data'
<1>0. WakeTypes /\ th \in [Threads -> Positions]
  BY DEF WakeInv, WakeTypes
<1>1. UNCHANGED <<mem, sb, cache, slots, out, rcvd, calls, accepted, refused, th, queued, result>>
  BY DEF Sleep, Spurious, ring, hist, state
<1>2. (Moved(C)' <=> Moved(C)) /\ (Moved(P)' <=> Moved(P))
  BY <1>1 DEF Moved
<1> QED BY <1>1, <1>2, QuietData

\* A store becomes visible: the owner's view of the ring is the same.
LEMMA FlushData ==
    ASSUME WakeInv, Control, Data, NEW t \in {P, C}, Flush(t)
    PROVE  Data'
<1>0. WakeTypes /\ th \in [Threads -> Positions]
  BY DEF WakeInv, WakeTypes
<1>1. CursorInv' /\ Taken' = Taken /\ Put' = Put
  BY CursorFlush DEF Data, Control, QueueInv
<1>2. UNCHANGED <<slots, out, rcvd, calls, accepted, refused, th, queued, result>>
  BY DEF Flush, hist, state
<1>3. calls \in [Threads -> Nat] /\ calls[P] \in Nat
  BY Names DEF Data, OrderInv
<1>4. OrderInv' /\ \A m : Present(m)' <=> Present(m)
  BY <1>1, <1>2, <1>3, DataSame DEF Data
<1>5. (Moved(C)' <=> Moved(C)) /\ (Moved(P)' <=> Moved(P))
  BY <1>2 DEF Moved
<1>6. out' # NoMsg <=> Moved(C)'
  BY <1>2, <1>5 DEF Data, ItemInv
<1>7. ItemInv'
  BY <1>2, <1>3, <1>4, <1>5, <1>6, ItemKeep DEF Data
<1> QED BY <1>1, <1>4, <1>7 DEF Data

\* A call begins: its item is a new one.
LEMMA EnterData ==
    ASSUME WakeInv, Control, Data, NEW t \in Threads, Enter(t)
    PROVE  Data'
<1>0. WakeTypes /\ th \in [Threads -> Positions]
  BY DEF WakeInv, WakeTypes
<1>1. PICK l \in {"closed", "ring", "close"} : Moves(t, l, "idle", P, 1)
  BY <1>0, Placed DEF Enter
<1>2. /\ th[t].pc = "idle" /\ UNCHANGED <<mem, sb, cache, slots, out, rcvd, accepted, refused, queued, result>>
      /\ calls' = [calls EXCEPT ![t] = @ + 1]
  BY DEF Enter, At, ring, state
<1>3. CursorInv' /\ Taken' = Taken /\ Put' = Put
  BY <1>2, CursorSame DEF Data
<1>4. calls \in [Threads -> Nat] /\ calls[P] \in Nat /\ calls' \in [Threads -> Nat]
  BY <1>2, Names DEF Data, OrderInv
<1>5. OrderInv' /\ \A m : Present(m)' <=> Present(m)
  BY <1>2, <1>3, <1>4, DataSame DEF Data
<1>6. (Moved(C)' <=> Moved(C)) /\ (t # P => th'[P].pc = th[P].pc /\ (Moved(P)' <=> Moved(P))) /\ (t = P => ~Moved(P)')
  BY <1>0, <1>1, <1>2, Names DEF Moves, Kept, Moved
<1>7. out' # NoMsg <=> Moved(C)'
  BY <1>2, <1>6 DEF Data, ItemInv
<1>8. CASE t # P
  <2>1. calls'[P] = calls[P]
    BY <1>2, <1>4, <1>8, Names
  <2>2. ItemInv'
    BY <1>2, <1>4, <1>5, <1>6, <1>7, <1>8, <2>1, ItemKeep DEF Data
  <2> QED BY <1>3, <1>5, <2>2 DEF Data
<1>9. CASE t = P
  <2>1. calls'[P] = calls[P] + 1
    BY <1>2, <1>4, <1>9, Names
  <2>2. PICK c \in Nat : c = calls[P] + 1
    BY <1>4
  <2>3. /\ \A m \in Nat : Present(m) => m <= calls[P]
        /\ \A m \in accepted \cup refused : m \in Nat /\ m <= calls[P]
        /\ \A m \in accepted : Present(m)
        /\ \A m \in refused : ~Present(m)
    BY DEF Data, ItemInv
  <2>4. ~Present(c) /\ c \notin accepted \cup refused
    BY <1>4, <2>2, <2>3
  <2>5. calls'[P] > 0 /\ calls'[P] \notin accepted' \cup refused' /\ (Moved(P)' <=> Present(calls[P])')
    <3>1. ~Present(c)' /\ calls'[P] = c
      BY <1>5, <2>1, <2>2, <2>4
    <3>2. ~Present(calls[P])'
      BY <3>1
    <3> QED BY <1>2, <1>4, <1>6, <1>9, <2>2, <2>4, <3>1, <3>2
  <2>6. /\ \A m \in Nat : Present(m)' => m <= calls'[P]
        /\ \A m \in accepted' \cup refused' : m \in Nat /\ m <= calls'[P]
        /\ \A m \in accepted' : Present(m)'
        /\ \A m \in refused' : ~Present(m)'
    BY <1>2, <1>4, <1>5, <2>1, <2>3
  <2>7. ItemInv'
    BY <1>7, <2>5, <2>6 DEF ItemInv
  <2> QED BY <1>3, <1>5, <2>7 DEF Data
<1> QED BY <1>8, <1>9

\* The fast push.
LEMMA SpscPushData ==
    ASSUME WakeInv, Control, Data, SpscPush
    PROVE  Data'
<1>0. /\ WakeTypes /\ th[P].pc = "ring" /\ cache' = [cache EXCEPT ![P] = Reloaded(P)]
      /\ UNCHANGED <<mem, out, rcvd, calls, accepted, refused, queued, result>>
  BY DEF WakeInv, SpscPush, At, state, hist
<1>1. calls \in [Threads -> Nat] /\ calls[P] \in Nat
  BY Names DEF Data, OrderInv
<1>2. CASE Lacks(P, Reloaded(P))
  <2>1. sb' = sb /\ slots' = slots /\ Moves(P, "lock", th[P].next, th[P].w, th[P].phase)
    BY <1>0, <1>2, Names, Placed DEF SpscPush
  <2>2. CursorInv' /\ Taken' = Taken /\ Put' = Put
    BY <1>0, <2>1, CursorReload DEF Data
  <2>3. OrderInv' /\ \A m : Present(m)' <=> Present(m)
    BY <1>0, <1>1, <2>1, <2>2, DataSame DEF Data
  <2>4. (Moved(C)' <=> Moved(C)) /\ (Moved(P)' <=> Moved(P)) /\ th[P].pc # "idle"
    BY <1>0, <2>1, Names DEF Moves, Kept, Moved
  <2>5. out' # NoMsg <=> Moved(C)'
    BY <1>0, <2>4 DEF Data, ItemInv
  <2>6. ItemInv'
    BY <1>0, <1>1, <2>3, <2>4, <2>5, ItemKeep DEF Data
  <2> QED BY <2>2, <2>3, <2>6 DEF Data
<1>3. CASE ~Lacks(P, Reloaded(P))
  <2>1. /\ slots' = [slots EXCEPT ![Put % Capacity] = calls[P]]
        /\ sb' = [sb EXCEPT ![P] = @ \o <<<<"pt", Put + 1>>, <<"ph", Put + 1>>>>]
        /\ Moves(P, "count", th[P].next, th[P].w, th[P].phase)
    BY <1>0, <1>3, Names, Placed DEF SpscPush, Put
  <2>2. CursorInv' /\ Taken' = Taken /\ Put' = Put + 1 /\ Put < Taken + Capacity
    BY <1>0, <1>3, <2>1, CursorStore DEF Data, Control, QueueInv
  <2>3. (Moved(C)' <=> Moved(C)) /\ ~Moved(P) /\ Moved(P)' /\ th[P].pc # "idle"
    BY <1>0, <2>1, Names DEF Moves, Kept, Moved
  <2>4. calls[P] > 0 /\ \A m \in Nat : Present(m) => m < calls[P]
    BY <1>1, <2>3 DEF Data, ItemInv
  <2>5. PICK v \in Nat : v = calls[P]
    BY <1>1
  <2>6. OrderInv' /\ \A m \in Nat : Present(m)' <=> Present(m) \/ m = v
    BY <1>0, <2>1, <2>2, <2>4, <2>5, CursorFacts, DataPush DEF Data
  <2>7. out' # NoMsg <=> Moved(C)'
    BY <1>0, <2>3 DEF Data, ItemInv
  <2>8. ItemInv'
    BY <1>0, <1>1, <2>3, <2>5, <2>6, <2>7, ItemPut DEF Data
  <2> QED BY <2>2, <2>6, <2>8 DEF Data
<1> QED BY <1>2, <1>3

\* The fast pop.
LEMMA SpscPopData ==
    ASSUME WakeInv, Control, Data, SpscPop
    PROVE  Data'
<1>0. /\ WakeTypes /\ th[C].pc = "ring" /\ cache' = [cache EXCEPT ![C] = Reloaded(C)]
      /\ UNCHANGED <<mem, slots, rcvd, calls, accepted, refused, queued, result>>
  BY DEF WakeInv, SpscPop, At, state, hist
<1>1. calls \in [Threads -> Nat] /\ calls[P] \in Nat
  BY Names DEF Data, OrderInv
<1>2. CASE Lacks(C, Reloaded(C))
  <2>1. sb' = sb /\ out' = out /\ Moves(C, "lock", th[C].next, th[C].w, th[C].phase)
    BY <1>0, <1>2, Names, Placed DEF SpscPop
  <2>2. CursorInv' /\ Taken' = Taken /\ Put' = Put
    BY <1>0, <2>1, CursorReload DEF Data
  <2>3. OrderInv' /\ \A m : Present(m)' <=> Present(m)
    BY <1>0, <1>1, <2>1, <2>2, DataSame DEF Data
  <2>4. (Moved(C)' <=> Moved(C)) /\ (Moved(P)' <=> Moved(P)) /\ th'[P].pc = th[P].pc
    BY <1>0, <2>1, Names DEF Moves, Kept, Moved
  <2>5. out' # NoMsg <=> Moved(C)'
    BY <2>1, <2>4 DEF Data, ItemInv
  <2>6. ItemInv'
    BY <1>0, <1>1, <2>3, <2>4, <2>5, ItemKeep DEF Data
  <2> QED BY <2>2, <2>3, <2>6 DEF Data
<1>3. CASE ~Lacks(C, Reloaded(C))
  <2>1. /\ out' = Item(Taken)
        /\ sb' = [sb EXCEPT ![C] = @ \o <<<<"ct", Taken + 1>>, <<"chd", Taken + 1>>>>]
        /\ Moves(C, "count", th[C].next, th[C].w, th[C].phase)
    BY <1>0, <1>3, Names, Placed DEF SpscPop, Taken, Item
  <2>2. CursorInv' /\ Put' = Put /\ Taken' = Taken + 1 /\ Taken < Put
    BY <1>0, <1>3, <2>1, CursorFetch DEF Data, Control, QueueInv
  <2>3. (Moved(P)' <=> Moved(P)) /\ ~Moved(C) /\ Moved(C)' /\ th'[P].pc = th[P].pc
    BY <1>0, <2>1, Names DEF Moves, Kept, Moved
  <2>4. out = NoMsg
    BY <2>3 DEF Data, ItemInv
  <2>5. OrderInv' /\ out' # NoMsg /\ \A m \in Nat : Present(m)' <=> Present(m)
    BY <1>0, <2>1, <2>2, <2>4, CursorFacts, DataPop DEF Data
  <2>6. ItemInv'
    BY <1>0, <1>1, <2>3, <2>5, ItemKeep DEF Data
  <2> QED BY <2>2, <2>5, <2>6 DEF Data
<1> QED BY <1>2, <1>3

\* A call of either side returns with its item moved, or not.
LEMMA ReturnData ==
    ASSUME Data, WakeTypes, NEW t \in {P, C}, NEW res, Return(t, res),
           UNCHANGED <<mem, sb, cache, slots, queued, result>>,
           th[t].pc # "idle", Moved(t) <=> res = "OK"
    PROVE  Data'
BY SendReturns, RecvReturns

\* The look at the count.
LEMMA LookData ==
    ASSUME WakeInv, Control, Data, NEW t \in {P, C}, LookForWaiter(t)
    PROVE  Data'
<1>0. WakeTypes /\ th[t].pc = "count" /\ UNCHANGED <<mem, sb, cache, slots, queued, result>>
  BY DEF WakeInv, LookForWaiter, At, ring, state
<1>1. CASE cnt[Peer(t)] # 0
  <2>1. Moves(t, "helpLock", "done", th[t].w, th[t].phase) /\ UNCHANGED <<out, rcvd, calls, accepted, refused>>
    BY <1>0, <1>1, Names, Placed DEF LookForWaiter, hist
  <2>2. (Moved(C)' <=> Moved(C)) /\ (Moved(P)' <=> Moved(P)) /\ (th'[P].pc # "idle" => th[P].pc # "idle")
    BY <1>0, <2>1, Names DEF Moves, Kept, Moved
  <2> QED BY <1>0, <2>1, <2>2, QuietData
<1>2. CASE cnt[Peer(t)] = 0
  <2>1. Return(t, "OK")
    BY <1>2 DEF LookForWaiter
  <2>2. Moved(t)
    BY <1>0 DEF Moved
  <2> QED BY <1>0, <2>1, <2>2, ReturnData
<1> QED BY <1>1, <1>2

\* The unlock and the return.
LEMMA DoneData ==
    ASSUME WakeInv, Control, Data, NEW t \in {P, C}, Done(t)
    PROVE  Data'
<1>0. WakeTypes /\ th[t].pc = "done" /\ Return(t, "OK") /\ UNCHANGED <<mem, sb, cache, slots, queued, result>>
  BY DEF WakeInv, Done, At, ring
<1>1. Moved(t)
  BY <1>0 DEF Moved
<1> QED BY <1>0, <1>1, ReturnData

\* The return after the late FUTEX_WAKE.
LEMMA LateNotifyData ==
    ASSUME WakeInv, Control, Data, LateNotify
    PROVE  Data'
<1>0. WakeTypes /\ th[C].pc = "lateNotify" /\ Return(C, "OK") /\ UNCHANGED <<mem, sb, cache, slots, queued, result>>
  BY DEF WakeInv, LateNotify, At, ring, state
<1>1. Moved(C)
  BY <1>0 DEF Moved
<1> QED BY <1>0, <1>1, ReturnData

\* A parked call returns what it was told.
LEMMA WokenData ==
    ASSUME WakeInv, Control, Data, NEW t \in {P, C}, Woken(t) \/ Served(t)
    PROVE  Data'
<1>0. /\ WakeTypes /\ th[t].pc \in {"parked", "served"} /\ Return(t, result[t])
      /\ UNCHANGED <<mem, sb, cache, slots, queued, result>>
  BY DEF WakeInv, Woken, Served, Deregister, At, ring
<1>1. ~queued[t]
  BY <1>0, Names DEF Woken, Served, At, ParkTrue, Control, QueueInv
<1>2. Moved(t) <=> result[t] = "OK"
  BY <1>0, <1>1 DEF Moved
<1>3. PICK r : r = result[t]
  OBVIOUS
<1> QED BY <1>0, <1>2, <1>3, ReturnData

\* A waiter of the other side is served, or there is nothing to do for it.
LEMMA HelpData ==
    ASSUME WakeInv, Control, Data, NEW t \in {P, C}, Help(t)
    PROVE  Data'
<1>0. WakeTypes /\ th[t].pc = "help" /\ UNCHANGED <<rcvd, calls, accepted, refused>>
  BY DEF WakeInv, Help, At, hist
<1>1. CASE queued[Peer(t)] /\ Can(Peer(t))
  <2>1. /\ Moves(t, "wake", th[t].next, Peer(t), th[t].phase) /\ RingOp(Peer(t))
        /\ queued' = [queued EXCEPT ![Peer(t)] = FALSE] /\ result' = [result EXCEPT ![Peer(t)] = "OK"]
    BY <1>0, <1>1, Names, Placed DEF Help
  <2>2. /\ sb[Peer(t)] = << >> /\ th[Peer(t)].pc \in {"parked", "timedOut"}
        /\ queued \in [Parkers -> BOOLEAN] /\ result \in [Parkers -> {"OK", "CLOSED", "TIMEOUT"}]
    BY <1>0, <1>1, Names DEF Control, QueueInv, MutexInv, Held
  <2>3. ~Moved(Peer(t)) /\ (Moved(t)' <=> Moved(t)) /\ th[P].pc # "idle" /\ th'[P].pc # "idle"
    BY <1>0, <1>1, <2>1, <2>2, Names DEF Moves, Kept, Moved
  <2>4. Moved(Peer(t))'
    BY <1>0, <2>1, <2>2, Names DEF Moves, Kept, Moved
  <2>5. CASE t = P
    BY <1>0, <1>1, <2>1, <2>2, <2>3, <2>4, <2>5, Names, PopData DEF Can
  <2>6. CASE t = C
    BY <1>0, <1>1, <2>1, <2>2, <2>3, <2>4, <2>6, Names, PushData DEF Can
  <2> QED BY <2>5, <2>6
<1>2. CASE ~(queued[Peer(t)] /\ Can(Peer(t)))
  <2>1. /\ Moves(t, th[t].next, th[t].next, th[t].w, th[t].phase)
        /\ UNCHANGED <<mem, sb, cache, slots, queued, result, out>>
    BY <1>0, <1>2, Names, Placed DEF Help, ring
  <2>2. (Moved(C)' <=> Moved(C)) /\ (Moved(P)' <=> Moved(P)) /\ (th'[P].pc # "idle" => th[P].pc # "idle")
    BY <1>0, <2>1, Names DEF Moves, Kept, Moved, Control, LabelInv
  <2> QED BY <1>0, <2>1, <2>2, QuietData
<1> QED BY <1>1, <1>2

\* The producer's slow path.
LEMMA SendLockData ==
    ASSUME WakeInv, Control, Data, SendLock
    PROVE  Data'
<1>0. WakeTypes /\ th[P].pc = "lock" /\ sb[P] = << >> /\ UNCHANGED <<queued, result>> /\ ~Moved(P)
  BY DEF WakeInv, SendLock, At, Moved
<1>1. CASE closed
  <2>1. Return(P, "CLOSED") /\ UNCHANGED <<mem, sb, cache, slots>>
    BY <1>1 DEF SendLock, ring
  <2> QED BY <1>0, <2>1, ReturnData
<1>2. CASE ~closed /\ CanPush
  <2>1. /\ Moves(P, "help", "done", th[P].w, th[P].phase) /\ RingOp(P)
        /\ UNCHANGED <<rcvd, calls, accepted, refused>>
    BY <1>0, <1>2, Names, Placed DEF SendLock, hist
  <2>2. Moved(P)' /\ (Moved(C)' <=> Moved(C))
    BY <1>0, <2>1, Names DEF Moves, Kept, Moved
  <2> QED BY <1>0, <1>2, <2>1, <2>2, PushData
<1>3. CASE ~closed /\ ~CanPush
  <2>1. /\ Moves(P, "help", "park", th[P].w, th[P].phase)
        /\ UNCHANGED <<mem, sb, cache, slots, out, rcvd, calls, accepted, refused>>
    BY <1>0, <1>3, Names, Placed DEF SendLock, hist, ring
  <2>2. (Moved(P)' <=> Moved(P)) /\ (Moved(C)' <=> Moved(C))
    BY <1>0, <2>1, Names DEF Moves, Kept, Moved
  <2> QED BY <1>0, <2>1, <2>2, QuietData
<1> QED BY <1>1, <1>2, <1>3

\* The consumer's slow path.
LEMMA RecvLockData ==
    ASSUME WakeInv, Control, Data, RecvLock
    PROVE  Data'
<1>0. /\ WakeTypes /\ th[C].pc = "lock" /\ sb[C] = << >> /\ ~Moved(C) /\ ~lock
      /\ queued \in [Parkers -> BOOLEAN] /\ result \in [Parkers -> {"OK", "CLOSED", "TIMEOUT"}]
  BY DEF WakeInv, RecvLock, At, Moved, Control, QueueInv
<1>1. CASE CanPop
  <2>1. /\ Moves(C, "helpPush", th[C].next, th[C].w, th[C].phase) /\ RingOp(C)
        /\ UNCHANGED <<rcvd, calls, accepted, refused, queued, result>>
    BY <1>0, <1>1, Names, Placed DEF RecvLock, hist
  <2>2. Moved(C)' /\ (Moved(P)' <=> Moved(P)) /\ th'[P].pc = th[P].pc
    BY <1>0, <2>1, Names DEF Moves, Kept, Moved
  <2> QED BY <1>0, <1>1, <2>1, <2>2, PopData
<1>2. CASE ~CanPop /\ queued[P]
  <2>1. /\ Moves(C, "lateWake", th[C].next, P, th[C].phase)
        /\ UNCHANGED <<mem, sb, cache, slots, rcvd, calls, accepted, refused>> /\ out' = calls[P]
        /\ queued' = [queued EXCEPT ![P] = FALSE] /\ result' = [result EXCEPT ![P] = "OK"]
    BY <1>0, <1>2, Names, Placed DEF RecvLock, hist, ring
  <2>2. sb[P] = << >> /\ th[P].pc \in {"parked", "timedOut"}
    BY <1>0, <1>2, Names DEF Control, QueueInv, MutexInv, Held
  <2>3. ~Moved(P) /\ Moved(P)' /\ Moved(C)' /\ th[P].pc # "idle"
    BY <1>0, <1>2, <2>1, <2>2, Names DEF Moves, Kept, Moved
  <2>4. CursorInv' /\ Taken' = Taken /\ Put' = Put /\ Put = Taken /\ Taken \in Nat
    BY <1>0, <1>2, <2>1, <2>2, CursorSame, CursorFacts DEF Data, CanPop
  <2>5. /\ calls[P] \in Nat /\ calls[P] > 0 /\ out = NoMsg
        /\ \A m \in Nat : Present(m) => m < calls[P]
    <3>1. calls[P] \in Nat
      BY Names DEF Data, OrderInv
    <3> QED BY <1>0, <2>3, <3>1 DEF Data, ItemInv
  <2>6. PICK v \in Nat : v = calls[P]
    BY <2>5
  <2>7. OrderInv' /\ out' # NoMsg /\ \A m \in Nat : Present(m)' <=> Present(m) \/ m = v
    BY <2>1, <2>4, <2>5, <2>6, DataHand DEF Data
  <2>8. ItemInv'
    BY <2>1, <2>3, <2>5, <2>6, <2>7, ItemPut DEF Data
  <2> QED BY <2>4, <2>7, <2>8 DEF Data
<1>3. CASE ~CanPop /\ ~queued[P] /\ closed
  <2>1. Return(C, "CLOSED") /\ UNCHANGED <<mem, sb, cache, slots, queued, result>>
    BY <1>3 DEF RecvLock, ring
  <2> QED BY <1>0, <2>1, ReturnData
<1>4. CASE ~CanPop /\ ~queued[P] /\ ~closed
  <2>1. /\ Moves(C, "park", th[C].next, th[C].w, th[C].phase)
        /\ UNCHANGED <<mem, sb, cache, slots, out, rcvd, calls, accepted, refused, queued, result>>
    BY <1>0, <1>4, Names, Placed DEF RecvLock, hist, ring
  <2>2. (Moved(P)' <=> Moved(P)) /\ (Moved(C)' <=> Moved(C)) /\ th'[P].pc = th[P].pc
    BY <1>0, <2>1, Names DEF Moves, Kept, Moved
  <2> QED BY <1>0, <2>1, <2>2, QuietData
<1> QED BY <1>1, <1>2, <1>3, <1>4

\* The consumer pushes for a parked producer, or returns.
LEMMA HelpPushData ==
    ASSUME WakeInv, Control, Data, RecvHelpPush
    PROVE  Data'
<1>0. /\ WakeTypes /\ th[C].pc = "helpPush" /\ Moved(C)
      /\ queued \in [Parkers -> BOOLEAN] /\ result \in [Parkers -> {"OK", "CLOSED", "TIMEOUT"}]
  BY DEF WakeInv, RecvHelpPush, At, Moved, Control, QueueInv
<1>1. CASE queued[P] /\ CanPush
  <2>1. /\ Moves(C, "lateWake", th[C].next, P, th[C].phase) /\ RingOp(P)
        /\ UNCHANGED <<rcvd, calls, accepted, refused>>
        /\ queued' = [queued EXCEPT ![P] = FALSE] /\ result' = [result EXCEPT ![P] = "OK"]
    BY <1>0, <1>1, Names, Placed DEF RecvHelpPush, hist
  <2>2. sb[P] = << >> /\ th[P].pc \in {"parked", "timedOut"}
    BY <1>0, <1>1, Names DEF Control, QueueInv, MutexInv, Held
  <2>3. ~Moved(P) /\ Moved(P)' /\ Moved(C)' /\ th[P].pc # "idle"
    BY <1>0, <1>1, <2>1, <2>2, Names DEF Moves, Kept, Moved
  <2> QED BY <1>0, <1>1, <2>1, <2>2, <2>3, PushData
<1>2. CASE ~(queued[P] /\ CanPush)
  <2>1. Return(C, "OK") /\ UNCHANGED <<mem, sb, cache, slots, queued, result>>
    BY <1>2 DEF RecvHelpPush, ring
  <2> QED BY <1>0, <2>1, ReturnData
<1> QED BY <1>1, <1>2

\* A thread gives up, or registers.
LEMMA RegisterData ==
    ASSUME WakeInv, Control, Data, NEW t \in {P, C}, Register(t)
    PROVE  Data'
<1>0. WakeTypes /\ th[t].pc = "park" /\ ~Moved(t) /\ UNCHANGED <<mem, sb, cache, slots>>
  BY DEF WakeInv, Register, At, Moved, ring
<1>1. CASE form[t] = "try"
  <2>1. Return(t, "WOULDBLOCK") /\ UNCHANGED <<queued, result>>
    BY <1>1 DEF Register
  <2> QED BY <1>0, <2>1, ReturnData
<1>2. CASE form[t] # "try"
  <2>1. /\ Moves(t, "again", th[t].next, th[t].w, th[t].phase) /\ UNCHANGED <<out, rcvd, calls, accepted, refused>>
        /\ queued' = [queued EXCEPT ![t] = TRUE] /\ result' = [result EXCEPT ![t] = "OK"]
    BY <1>0, <1>2, Names, Placed DEF Register, hist
  <2>2. queued \in [Parkers -> BOOLEAN] /\ result \in [Parkers -> {"OK", "CLOSED", "TIMEOUT"}]
    BY DEF Control, QueueInv
  <2>3. (Moved(P)' <=> Moved(P)) /\ (Moved(C)' <=> Moved(C)) /\ (th'[P].pc # "idle" => th[P].pc # "idle")
    BY <1>0, <2>1, <2>2, Names DEF Moves, Kept, Moved
  <2> QED BY <1>0, <2>1, <2>3, QuietData
<1> QED BY <1>1, <1>2

\* The second look at the ring.
LEMMA AgainData ==
    ASSUME WakeInv, Control, Data, NEW t \in {P, C}, Again(t)
    PROVE  Data'
<1>0. /\ WakeTypes /\ th[t].pc = "again" /\ ~Moved(t) /\ UNCHANGED <<rcvd, calls, accepted, refused, result>>
      /\ queued \in [Parkers -> BOOLEAN] /\ queued[t] /\ sb[t] = << >>
  BY Names DEF WakeInv, Again, At, Moved, hist, Control, QueueInv
<1>1. CASE Can(t)
  <2>1. /\ Moves(t, IF t = P THEN "help" ELSE "done", "done", th[t].w, th[t].phase) /\ RingOp(t)
        /\ queued' = [queued EXCEPT ![t] = FALSE]
    BY <1>0, <1>1, Names, Placed DEF Again
  <2>2. Moved(t)' /\ (Moved(Peer(t))' <=> Moved(Peer(t))) /\ (th'[P].pc # "idle" => th[P].pc # "idle")
    BY <1>0, <2>1, Names DEF Moves, Kept, Moved
  <2>3. CASE t = P
    BY <1>0, <1>1, <2>1, <2>2, <2>3, Names, PushData DEF Can
  <2>4. CASE t = C
    BY <1>0, <1>1, <2>1, <2>2, <2>4, Names, PopData DEF Can
  <2> QED BY <2>3, <2>4
<1>2. CASE ~Can(t)
  <2>1. Moves(t, "parked", th[t].next, th[t].w, th[t].phase) /\ UNCHANGED <<mem, sb, cache, slots, out, queued>>
    BY <1>0, <1>2, Names, Placed DEF Again, ring
  <2>2. (Moved(P)' <=> Moved(P)) /\ (Moved(C)' <=> Moved(C)) /\ (th'[P].pc # "idle" => th[P].pc # "idle")
    BY <1>0, <2>1, Names DEF Moves, Kept, Moved
  <2> QED BY <1>0, <2>1, <2>2, QuietData
<1> QED BY <1>1, <1>2

\* The backstop.
LEMMA BackstopData ==
    ASSUME WakeInv, Control, Data, NEW t \in {P, C}, Backstop(t)
    PROVE  Data'
<1>0. /\ WakeTypes /\ th[t].pc = "timedOut" /\ ~lock /\ UNCHANGED <<rcvd, calls, accepted, refused>>
      /\ queued \in [Parkers -> BOOLEAN] /\ result \in [Parkers -> {"OK", "CLOSED", "TIMEOUT"}]
  BY DEF WakeInv, Backstop, At, hist, Control, QueueInv
<1>1. ~(queued[t] /\ closed)
  <2>1. \A u \in Threads : th[u].pc \notin Held
    BY <1>0 DEF Control, MutexInv
  <2> QED BY <2>1, Names DEF Control, StrandInv, Held
<1>2. CASE ~queued[t]
  <2>1. queued' = queued /\ result' = result /\ UNCHANGED <<mem, sb, cache, slots, out>>
    BY <1>0, <1>2, Names DEF Backstop, ring
  <2>2. Moves(t, "served", th[t].next, th[t].w, th[t].phase)
    BY <1>0, <1>2, <2>1, Names, Placed DEF Backstop
  <2>3. (Moved(P)' <=> Moved(P)) /\ (Moved(C)' <=> Moved(C)) /\ (th'[P].pc # "idle" => th[P].pc # "idle")
    BY <1>0, <1>2, <2>1, <2>2, Names DEF Moves, Kept, Moved
  <2> QED BY <1>0, <2>1, <2>3, QuietData
<1>3. CASE queued[t] /\ ~closed /\ Can(t)
  <2>1. /\ queued' \in [Parkers -> BOOLEAN] /\ ~queued'[t] /\ \A u \in Parkers : u # t => queued'[u] = queued[u]
        /\ result'[t] = "OK" /\ \A u \in Parkers : u # t => result'[u] = result[u]
        /\ RingOp(t)
    BY <1>0, <1>3, Names DEF Backstop
  <2>2. Moves(t, "served", th[t].next, th[t].w, th[t].phase)
    BY <1>0, <1>3, <2>1, Names, Placed DEF Backstop
  <2>3. ~Moved(t) /\ Moved(t)' /\ (Moved(Peer(t))' <=> Moved(Peer(t))) /\ (th'[P].pc # "idle" => th[P].pc # "idle")
    BY <1>0, <1>3, <2>1, <2>2, Names DEF Moves, Kept, Moved
  <2>4. sb[t] = << >>
    BY <1>3, Names DEF Control, QueueInv
  <2>5. CASE t = P
    BY <1>0, <1>3, <2>1, <2>3, <2>4, <2>5, Names, PushData DEF Can
  <2>6. CASE t = C
    BY <1>0, <1>3, <2>1, <2>3, <2>4, <2>6, Names, PopData DEF Can
  <2> QED BY <2>5, <2>6
<1>4. CASE queued[t] /\ ~closed /\ ~Can(t)
  <2>1. queued' = queued /\ UNCHANGED <<mem, sb, cache, slots, out>>
    BY <1>0, <1>4, Names DEF Backstop, ring
  <2>2. \A u \in Parkers : u # t => result'[u] = result[u]
    BY <1>0, <1>4, Names DEF Backstop
  <2>3. Moves(t, "parked", th[t].next, th[t].w, 2)
    BY <1>0, <1>4, <2>1, Names, Placed DEF Backstop
  <2>4. (Moved(P)' <=> Moved(P)) /\ (Moved(C)' <=> Moved(C)) /\ (th'[P].pc # "idle" => th[P].pc # "idle")
    BY <1>0, <1>4, <2>1, <2>2, <2>3, Names DEF Moves, Kept, Moved
  <2> QED BY <1>0, <2>1, <2>4, QuietData
<1> QED BY <1>1, <1>2, <1>3, <1>4

\* chan_close takes a parked consumer, with an item if there is one.
LEMMA CloseRecvData ==
    ASSUME WakeInv, Control, Data, CloseRecv
    PROVE  Data'
<1>0. /\ WakeTypes /\ th[K].pc = "closeRecv" /\ UNCHANGED <<rcvd, calls, accepted, refused>>
      /\ queued \in [Parkers -> BOOLEAN] /\ result \in [Parkers -> {"OK", "CLOSED", "TIMEOUT"}]
  BY DEF WakeInv, CloseRecv, At, hist, Control, QueueInv
<1>1. CASE queued[C]
  <2>1. /\ Moves(K, "wake", "done", C, th[K].phase)
        /\ queued' = [queued EXCEPT ![C] = FALSE] /\ result' = [result EXCEPT ![C] = IF CanPop THEN "OK" ELSE "CLOSED"]
        /\ IF CanPop THEN RingOp(C) ELSE UNCHANGED <<mem, sb, cache, slots, out>>
    BY <1>0, <1>1, Names, Placed DEF CloseRecv, ring
  <2>2. sb[C] = << >> /\ th[C].pc \in {"parked", "timedOut"}
    BY <1>0, <1>1, Names DEF Control, QueueInv, MutexInv, Held
  <2>3. ~Moved(C) /\ (Moved(P)' <=> Moved(P)) /\ th'[P].pc = th[P].pc
    BY <1>0, <1>1, <2>1, <2>2, Names DEF Moves, Kept, Moved
  <2>4. CASE CanPop
    <3>1. Moved(C)'
      BY <1>0, <2>1, <2>2, <2>4, Names DEF Moves, Kept, Moved
    <3> QED BY <1>0, <2>1, <2>2, <2>3, <2>4, <3>1, PopData
  <2>5. CASE ~CanPop
    <3>1. ~Moved(C)'
      BY <1>0, <2>1, <2>2, <2>5, Names DEF Moves, Kept, Moved
    <3> QED BY <1>0, <2>1, <2>3, <2>5, <3>1, QuietData
  <2> QED BY <2>4, <2>5
<1>2. CASE ~queued[C]
  <2>1. Moves(K, "done", th[K].next, th[K].w, th[K].phase) /\ UNCHANGED <<mem, sb, cache, slots, out, queued, result>>
    BY <1>0, <1>2, Names, Placed DEF CloseRecv, ring
  <2>2. (Moved(P)' <=> Moved(P)) /\ (Moved(C)' <=> Moved(C)) /\ th'[P].pc = th[P].pc
    BY <1>0, <2>1, Names DEF Moves, Kept, Moved
  <2> QED BY <1>0, <2>1, <2>2, QuietData
<1> QED BY <1>1, <1>2

------------------------------------------------------------------------------
(* The invariant and the theorems.                                         *)

\* Every initial state has the invariant: all is empty and nobody has called.
LEMMA SpscInit == Init => SpscInv
<1> SUFFICES ASSUME Init PROVE SpscInv
  OBVIOUS
<1>0. /\ mem = [ph |-> 0, pt |-> 0, chd |-> 0, ct |-> 0] /\ sb = [t \in {P, C} |-> << >>]
      /\ slots = [i \in 0..(Capacity - 1) |-> NoMsg] /\ cache = [t \in {P, C} |-> 0]
      /\ lock = FALSE /\ closed = FALSE
      /\ queued = [t \in {P, C} |-> FALSE] /\ cnt = [t \in {P, C} |-> 0]
      /\ th = [t \in Threads |-> Idle] /\ result = [t \in {P, C} |-> "OK"] /\ out = NoMsg
      /\ calls = [t \in Threads |-> 0] /\ accepted = {} /\ refused = {} /\ rcvd = << >>
      /\ asleep = {}
  BY DEF Init, ParkInit
<1>1. \A t \in Threads : th[t].pc = "idle" /\ th[t].phase = 1
  BY <1>0 DEF Idle
<1>2. \A t \in Parkers : ~queued[t] /\ sb[t] = << >> /\ cnt[t] = 0 /\ cache[t] = 0
  BY <1>0, Names
<1>3. LabelInv /\ MutexInv
  BY <1>0, <1>1, Names DEF LabelInv, MutexInv, Held, Labels
<1>4. QueueInv
  <2>1. /\ DOMAIN sb = Parkers /\ queued \in [Parkers -> BOOLEAN] /\ closed \in BOOLEAN /\ lock \in BOOLEAN
        /\ result \in [Parkers -> {"OK", "CLOSED", "TIMEOUT"}]
    BY <1>0, Names
  <2>2. P \in Parkers /\ C \in Parkers /\ Parkers \subseteq Threads
    BY Names
  <2> QED BY <1>1, <1>2, <2>1, <2>2, Names DEF QueueInv, Waking
<1>5. CountInv
  BY <1>0, <1>1, <1>2, Names DEF CountInv
<1>6. StrandInv
  <2>1. closed = FALSE
    BY <1>0
  <2> QED BY <1>1, <1>2, <2>1, Names DEF StrandInv, Committed
<1>7. CursorInv /\ Taken = 0 /\ Put = 0
  <2>1. mem \in [Cursors -> Nat] /\ mem["ph"] = 0 /\ mem["pt"] = 0 /\ mem["chd"] = 0 /\ mem["ct"] = 0
    BY <1>0 DEF Cursors
  <2>2. /\ sb[P] = << >> /\ sb[C] = << >> /\ cache[P] = 0 /\ cache[C] = 0 /\ cache \in [Parkers -> Nat]
    BY <1>0, Names
  <2>3. sb[P] \in Stores("pt", "ph") /\ sb[C] \in Stores("ct", "chd") /\ Len(sb[P]) = 0 /\ Len(sb[C]) = 0
    BY <2>2 DEF Stores
  <2>4. Chain(mem, sb[P], "pt", "ph") /\ Chain(mem, sb[C], "ct", "chd")
    BY <2>1, <2>3 DEF Chain
  <2>5. Taken = 0 /\ Put = 0
    BY <2>1, <2>2, <2>3, <2>4, LastStoredFacts DEF Taken, Put, Own
  <2>6. mem.ct = 0 /\ mem.pt = 0
    BY <1>0
  <2> QED BY <2>1, <2>2, <2>3, <2>4, <2>5, <2>6, SpscAssumption DEF CursorInv
<1>8. OrderInv
  BY <1>0, <1>7 DEF OrderInv, NoMsg
<1>9. ItemInv
  <2>1. \A m : ~Present(m)
    BY <1>0, <1>7 DEF Present, NoMsg
  <2>2. th[P].pc = "idle" /\ th[C].pc = "idle" /\ ~queued[C]
    BY <1>1, <1>2, Names
  <2>3. ~Moved(C)
    BY <2>2 DEF Moved
  <2> QED BY <1>0, <2>1, <2>2, <2>3 DEF ItemInv
<1> QED BY <1>3, <1>4, <1>5, <1>6, <1>7, <1>8, <1>9 DEF SpscInv, Control

\* A stale wake is never forgotten.
LEMMA StaleStays == stale /\ [Next]_vars => stale'
<1> SUFFICES ASSUME stale, [Next]_vars PROVE stale'
  OBVIOUS
<1>1. CASE UNCHANGED vars
  BY <1>1 DEF vars
<1>2. ASSUME NEW t \in Threads, Step(t) PROVE stale'
  BY <1>2 DEF Step, LookForWaiter, HelpLock, Help, Wake, Notify, Done, Register, Again, Sleep, Woken, Timeout,
              Backstop, TimedOut, Served, Deregister, Return
<1>3. CASE SendClosed \/ SpscPush \/ SendLock \/ SpscPop \/ RecvLock \/ RecvHelpPush \/ LateWake \/ LateNotify
  BY <1>3 DEF SendClosed, SpscPush, SendLock, SpscPop, RecvLock, RecvHelpPush, LateWake, LateNotify, Return
<1>4. CASE CloseStep
  BY <1>4 DEF CloseStep, Close, CloseRecv, Wake, Notify, Done, Return
<1>5. ASSUME NEW t \in Threads, Enter(t) \/ Flush(t) \/ Spurious(t) PROVE stale'
  BY <1>5 DEF Enter, Flush, Spurious
<1> QED BY <1>1, <1>2, <1>3, <1>4, <1>5, Names DEF Next, SendStep, RecvStep, CallSend, CallRecv, CallClose

\* A step of a thread of either side keeps the invariant.
LEMMA SpscSideStep ==
    ASSUME WakeInv, Control, Data, NEW t \in {P, C}, Step(t)
    PROVE  Control' /\ Data'
<1>0. t \in Threads /\ CursorInv
  BY Names DEF Data
<1>1. CASE LookForWaiter(t)
  BY <1>1, LookControl, LookData
<1>2. CASE HelpLock(t)
  BY <1>2, HelpLockControl, HelpLockData
<1>3. CASE Help(t)
  BY <1>0, <1>3, HelpControl, HelpData
<1>4. CASE Wake(t)
  BY <1>0, <1>4, WakeControl, WakeData
<1>5. CASE Notify(t)
  BY <1>0, <1>5, NotifyControl, NotifyData
<1>6. CASE Done(t)
  BY <1>0, <1>6, DoneControl, DoneData
<1>7. CASE Register(t)
  BY <1>7, RegisterControl, RegisterData
<1>8. CASE Again(t)
  BY <1>8, AgainControl, AgainData
<1>9. CASE Sleep(t)
  BY <1>9, SleepControl, SleepData
<1>10. CASE Woken(t)
  BY <1>10, WokenControl, WokenData
<1>11. CASE Timeout(t)
  BY <1>11, TimeoutControl, TimeoutData
<1>12. CASE Backstop(t)
  BY <1>12, BackstopControl, BackstopData
<1>13. CASE TimedOut(t)
  BY <1>13, TimedOutControl, TimedOutData
<1>14. CASE Served(t)
  BY <1>14, ServedControl, WokenData
<1> QED BY <1>1, <1>2, <1>3, <1>4, <1>5, <1>6, <1>7, <1>8, <1>9, <1>10, <1>11, <1>12, <1>13, <1>14
        DEF Step

\* Every step that is not a stale wake keeps the invariant.
LEMMA SpscInvStep ==
    ASSUME WakeInv, SpscInv, [Next]_vars, ~stale'
    PROVE  SpscInv'
<1> SUFFICES Control' /\ Data'
  BY DEF SpscInv, Data
<1>0. Control /\ Data /\ CursorInv /\ P \in Threads /\ C \in Threads /\ K \in Threads
  BY Names DEF SpscInv, Data
<1>1. CASE UNCHANGED vars
  <2>1. UNCHANGED <<backend, word, asleep, mem, slots, cache, sb, lock, closed, queued, cnt, form, th, result,
                    out, calls, accepted, refused, rcvd>>
    BY <1>1 DEF vars, park, ring, state, hist
  <2>2. Control'
    BY <1>0, <2>1 DEF Control, LabelInv, MutexInv, QueueInv, CountInv, StrandInv, Waking, Committed, Can,
                      CanPush, CanPop
  <2>3. (Moved(P)' <=> Moved(P)) /\ (Moved(C)' <=> Moved(C))
    BY <2>1 DEF Moved
  <2> QED BY <1>0, <2>1, <2>2, <2>3, QuietData
<1>2. ASSUME NEW t \in Threads, Enter(t) PROVE Control' /\ Data'
  BY <1>0, <1>2, EnterControl, EnterData
<1>3. ASSUME NEW t \in {P, C}, Flush(t) PROVE Control' /\ Data'
  BY <1>0, <1>3, FlushControl, FlushData
<1>4. ASSUME NEW t \in {P, C}, Spurious(t) PROVE Control' /\ Data'
  BY <1>0, <1>4, SleepControl, SleepData
<1>5. CASE SendStep
  <2>1. CASE SendClosed
    BY <1>0, <2>1, SendClosedControl, SendClosedData
  <2>2. CASE SpscPush
    BY <1>0, <2>2, SpscPushControl, SpscPushData
  <2>3. CASE SendLock
    BY <1>0, <2>3, SendLockControl, SendLockData
  <2>4. CASE Step(P)
    BY <1>0, <2>4, SpscSideStep
  <2> QED BY <1>5, <2>1, <2>2, <2>3, <2>4 DEF SendStep
<1>6. CASE RecvStep
  <2>1. CASE SpscPop
    BY <1>0, <2>1, SpscPopControl, SpscPopData
  <2>2. CASE RecvLock
    BY <1>0, <2>2, RecvLockControl, RecvLockData
  <2>3. CASE RecvHelpPush
    BY <1>0, <2>3, HelpPushControl, HelpPushData
  <2>4. CASE LateWake
    BY <1>0, <2>4, LateWakeControl, LateWakeData
  <2>5. CASE LateNotify
    BY <1>0, <2>5, LateNotifyControl, LateNotifyData
  <2>6. CASE Step(C)
    BY <1>0, <2>6, SpscSideStep
  <2> QED BY <1>6, <2>1, <2>2, <2>3, <2>4, <2>5, <2>6 DEF RecvStep
<1>7. CASE CloseStep
  <2>1. CASE Close
    BY <1>0, <2>1, CloseControl, CloseData
  <2>2. CASE CloseRecv
    BY <1>0, <2>2, CloseRecvControl, CloseRecvData
  <2>3. CASE Wake(K)
    BY <1>0, <2>3, WakeControl, WakeData
  <2>4. CASE Notify(K)
    BY <1>0, <2>4, NotifyControl, NotifyData
  <2>5. CASE Done(K)
    BY <1>0, <2>5, DoneControl, CloserDoneData
  <2> QED BY <1>7, <2>1, <2>2, <2>3, <2>4, <2>5 DEF CloseStep
<1> QED BY <1>0, <1>1, <1>2, <1>3, <1>4, <1>5, <1>6, <1>7 DEF Next, CallSend, CallRecv, CallClose

\* What holds until the first stale wake: the store buffers, the mutex, the
\* queues and the items are as the code means them to be.
UntilStale == WakeInv /\ (~stale => SpscInv)

\* The invariant of every execution.
THEOREM SpscInvariant == Spec => []UntilStale
<1>1. Init => UntilStale
  BY WakeInit, SpscInit DEF UntilStale
<1>2. UntilStale /\ [Next]_vars => UntilStale'
  BY WakeInvStep, SpscInvStep, StaleStays DEF UntilStale
<1> QED BY <1>1, <1>2, PTL DEF Spec

\* Every item reported sent is received, in the consumer's hand or in the ring,
\* once and in the order sent, and one reported not sent is nowhere: for every
\* capacity, forms of call and number of calls, over the unfenced fast paths.
THEOREM InOrderDelivered == Spec => []InOrderExactlyOnce
<1>1. UntilStale => InOrderExactlyOnce
  <2> SUFFICES ASSUME SpscInv PROVE InOrderExactlyOnce
    BY DEF UntilStale, InOrderExactlyOnce
  <2> DEFINE all == {rcvd[i] : i \in DOMAIN rcvd} \cup InRing \cup ({out} \ {NoMsg})
  <2>0. OrderInv /\ ItemInv
    BY DEF SpscInv
  <2>1. \A m : Present(m) <=> m \in all
    BY DEF Present, InRing, Item, Taken, Put
  <2> HIDE DEF all
  <2>2. accepted \subseteq all /\ refused \cap all = {}
    BY <2>0, <2>1 DEF ItemInv
  <2>3. \A i, j \in DOMAIN rcvd : i < j => rcvd[i] < rcvd[j]
    BY <2>0 DEF OrderInv
  <2>4. NoMsg \notin {rcvd[i] : i \in DOMAIN rcvd}
    BY <2>0 DEF OrderInv
  <2> QED BY <2>2, <2>3, <2>4 DEF InOrderExactlyOnce, all
<1> QED BY <1>1, SpscInvariant, PTL

\* When nothing but new calls can happen any more, no side sleeps on a ring
\* that has what it waits for, or on a closed channel: the backstop makes up
\* for the missing fence.
THEOREM NoneStranded == Spec => []NobodyStranded
<1>1. UntilStale => NobodyStranded
  <2> SUFFICES ASSUME SpscInv, WakeInv, AtRest, NEW t \in asleep
               PROVE  ~Can(t) /\ ~closed
    BY DEF UntilStale, NobodyStranded
  <2>0. /\ t \in {P, C} /\ Peer(t) \in {P, C} /\ Peer(t) # t
        /\ QueueInv /\ CountInv /\ StrandInv /\ LabelInv
    BY Names DEF WakeInv, WakeTypes, SpscInv, Control
  <2>1. th[t].pc = "parked" /\ th[t].phase = 2 /\ form[t] = "block" /\ word[t] = 0
    BY <2>0 DEF CountInv, AtRest, At
  <2>2. \A x \in {P, C} : th[x].pc \in {"idle", "parked"}
    BY <2>0 DEF CountInv, AtRest, At
  <2>3. th[K].pc = "idle" /\ Threads = {P, C, K}
    BY Names DEF AtRest, At
  <2>4. queued[t]
    BY <2>0, <2>1, <2>2, <2>3, Names DEF StrandInv
  <2>5. Committed(t)
    BY <2>1, <2>4 DEF Committed
  <2>6. ~Can(t)
    BY <2>0, <2>1, <2>2, <2>5, Names DEF StrandInv
  <2>7. ~closed
    BY <2>0, <2>3, <2>4 DEF StrandInv
  <2> QED BY <2>6, <2>7
<1> QED BY <1>1, SpscInvariant, PTL

==============================================================================
