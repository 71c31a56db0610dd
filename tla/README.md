# libchan: TLA+ models and proofs

libchan is a C library of Go-style channels: bounded and unbuffered queues that
any number of threads send to, receive from, close and `select` over. This
directory holds TLA+ models of the library and of the programs that come with
it, the TLC configurations that check them on small instances, and TLAPS proofs
about the lock-free ring, the two kinds of channel, the parks and the locks of
`select`.

## The system

| Part | Source | State | Operations |
|---|---|---|---|
| MPMC ring | `ring_lf.c/.h` | four wrapping `uint32_t` cursors, slots | push, pop, two bursts, count |
| Buffered channel | `chan_send.c`, `chan_recv.c`, `libchan_internal.h` | ring, mutex, two wait queues, two waiter counts, `closed` | send / recv, each blocking, try or timed |
| Unbuffered channel | same files, `capacity == 0` branches | mutex, queues, counts, `closed` | the same, as a rendezvous |
| Close | `chan_core.c` | `closed` | `chan_close` |
| Waiters and queues | `libchan_internal.h` | stack-allocated nodes in FIFO lists | push, push_front, pop, remove, claim |
| Park | `park.c` | one word (futex) or a flag with a condition variable | wait with timeout, wake |
| SPSC channel | `ring_spsc_*`, the `spsc` branches | cached cursors | send / recv without fences, park backstop |
| Select | `select.c` | stubs sharing a claim word and a park | select, try, timeout |
| Channel bursts | ends of `chan_send.c`, `chan_recv.c` | as buffered channel | try_send_burst, try_recv_burst |
| Lifetime | `chan_core.c`, `ring_lf_init` | reference count | create, retain, destroy |
| Data-plane pipelines | `examples/dplane_pipeline*.c` | channels between five node threads and main, per-path statistics | inject, poll and forward, drain, close, verdict |
| Example programs | the other `examples/*.c` | channels, threads' locals | worker pool, sieve, request/reply, fan-in, ping-pong, bursts, snake |

How they interact. A send or receive on a buffered channel first tries the ring
without the lock, provided nobody is counted as waiting. Otherwise it takes the
lock, tries the ring again, serves parked waiters of the other side, or registers
itself: it bumps its waiter count, queues its waiter, looks at the ring once
more, releases the lock and parks. A fast-path operation that succeeded looks at
the other side's count afterwards and, if it is not zero, takes the lock and
serves the waiters (`chan_deliver_ring_to_receivers`,
`chan_admit_senders_to_ring`). `chan_close` sets `closed` under the lock, wakes
every sender with CLOSED and every receiver with a ring message or CLOSED.

What is hard: the reservations and ordered commits of the ring; the handshake
between lock-free operations and registration; helpers that find a ring
operation failing after a waiter was dequeued; timeouts that race a delivery;
wakes issued after the unlock on a waiter that lives on another thread's stack;
sends in flight during a close; wrapping cursors; selects whose stubs sit in
several queues at once and share one claim word; the SPSC fast path without
fences; cycles of bounded channels in the programs; the destruction of a channel
another thread has not quite left. `PROJECT.json` lists these
hazards with their lines and the properties aimed at them.

What makes each part correct: the ring is a linearizable bounded FIFO queue and
its threads never share a slot; a channel delivers a message exactly once if its
send returned OK and never otherwise, in the order of each sender; nobody sleeps
when the thing it waits for is there; a close wakes everybody; a select carries
out one case; a program over channels ends, with the values its threads sent.

## Modules

| Module | Models |
|---|---|
| `RingQueue` | abstract specification: a bounded FIFO queue with runs |
| `RingLF` | `ring_lf.c`, one action per atomic access; refines `RingQueue` |
| `RingLF_proofs` | TLAPS proofs about `RingLF`: its invariants and its reports of empty and full |
| `RingLF_refines` | TLAPS proof that `RingLF` implements `RingQueue` |
| `WaitQ` | the wait queues of `libchan_internal.h`, used by the two channel modules |
| `ChanBuf` | buffered MPMC channel: send, recv, try, timeout, bursts, close |
| `ChanUnbuf` | unbuffered channel: the same operations without bursts |
| `Select` | `select.c` with the senders, receivers, closers and selects it meets; the two select examples |
| `Park` | `park.c`: futex and condition variable |
| `Spsc` | SPSC channel with store buffers, over `Park` |
| `GoChan` | what a channel promises its users, one step per call; retain and destroy |
| `Programs` | ten example programs and the retain test, over `GoChan` |
| `Dplane` | the two data-plane pipelines |
| `WaitQ_proofs`, `ChanBuf_proofs`, `ChanUnbuf_proofs`, `Select_proofs`, `Spsc_proofs`, `Dplane_proofs` | TLAPS proofs about those modules |
| `MC...` | model values, instances and symmetry for TLC |

### RingLF

`prodHead`, `prodTail`, `consHead`, `consTail` count all reservations and commits
ever made; the value the code holds is `U32` of them, and every comparison and
subtraction is done on `U32`, with `Modulus` for 2^32. A thread's call record holds
its program counter and locals: the head loaded (`old`), the run length `k`, how
much is copied (`done`). Actions follow the three phases: `LoadProdHead`,
`CheckFree` / `ReturnFull` (load of the opposite tail and test), `CasProdHead` /
`CasFails` (the weak CAS, with spurious failure), `CopyIn` element by element,
`CommitProd` (end of the wait loop and the release store); the consumer side is
the mirror image. `op` tells push/pop from the bursts, whose tests differ in the
code. `SlotOf` is the split memcpy.

`NotLapped` is a bound: while a thread sleeps between the load of a head and its
CAS, the cursors do not travel all 2^32 values. Without it the CAS has an ABA
problem that no realistic schedule reaches.

Atomics are sequentially consistent. For the ring this is justified by the
acquire wait-load before each release store (`ring_lf.c:54-71`), which orders
slot accesses along each tail; for the MPMC channel by the `seq_cst` fences and
increments around the waiter counts (`chan_send.c:54,135,142`,
`chan_recv.c:42,142,149`). The SPSC paths drop those fences: see `Spsc`.

### ChanBuf

A thread's position is a stack of labels, so that helpers (ring push, ring pop,
deliver, admit) are written once and return to their caller. The ring is kept at
the grain of its phases: load, test with CAS, commit. `log` is the sequence of
all messages ever reserved, so `Len(log)` is prod.head. Test and CAS are one step
because the opposite cursor only grows; spurious CAS failures are left out here
(they only repeat a loop iteration; `RingLF` has them). Each unprotected load of
`closed` or of a count is a step. Code under the lock that touches only protected
state is merged into its neighbour. `out[r]` is a receiver's buffer, `accepted`,
`refused` and `rcvd` are histories of what calls returned.

`word` is the park word. It is a field of a waiter on the owner's stack; the wakes
of `chan_recv.c:112,130` come after the unlock, when the owner may have timed out
and entered its next call. The store then hits either the new waiter's word (same
function, same frame) or dead memory: `WakeOutcomes` allows both.

A burst call (`SendBurst`, `RecvBurst`) goes straight to the ring and then does the
same look at the other side's count as a single call. In `ChanBuf` it moves one
message; runs of several messages are in `RingLF`, and partial ones in `GoChan`.

### ChanUnbuf

All of an unbuffered operation but parking, waking and the counts happens under
the lock, so a critical section is one step. `peer` remembers which waiter, of
which call, is still to be woken.

### Select

A run starts one of several programs: a sequence of calls for each thread. A
ring is an atomic FIFO here. That abstracts further than what is shown of `RingLF`,
which implements a queue whose runs are reserved first and committed later: in the
code a reserved, uncommitted slot can make `ring_full` and `ring_empty`
(`libchan_internal.h:164-173`) true at once, and `ring_lf_push` can report a spurious
full. A test of the ring and the operation that relies on it are separate
steps even under the locks, because the fast paths do not take them. The steps of a select are those of
`chan_select_impl`: `SelectClosed` and `SelectGate` / `SelectRing` (lock-free
part, with its round-robin start), `SelectLock` (one lock at a time, in
`LockOrder`), `SelectPick` and the `Exec` actions (`execute_case_locked`),
`SelectPark` (stubs, not counted), `SelectWoken` / `SelectTimeout`,
`SelectCleanup`. `wt` holds what the stubs of a thread share, the claim word and
the park, and each one's data and result. `Claim`, `Tell` and `Serve` are the
claim protocol that direct calls, other selects and `chan_close` follow. The
arrays on the stack hold up to 16 cases (`SEL_INLINE`); the model has three, and leaves
out the `malloc` for more. `dropped` and `concealed` are histories of the two ways in
which the code loses track of a message, described below.

### Park and Spsc

`Park` has one word per thread. `ParkSleep` is FUTEX_WAIT, which compares and
sleeps at once, or the wait under the park's mutex; the waker stores (`ParkSet`)
and then notifies (`ParkNotify`), with every other thread able to run in between;
`ParkSpurious` is a wakeup without a notify, which the loop has to survive.

`Spsc` gives each side a store buffer (x86-TSO). The stores of `ring_spsc_push`
and `ring_spsc_pop` go through it and drain one by one (`Flush`), while the look at
the other side's count (`LookForWaiter`) reads memory: the reordering the missing
fence permits. Locked instructions and mutex operations drain the buffer first.
`Backstop` is the bounded first park of `chan_send.c:153-182` and
`chan_recv.c:159-190`: it expires, the ring is looked at again, and only then does
the thread park for good. The model assumes, as the code does, that a store has
become visible by the time that first park has expired. `stale` records a wake that
arrives after its waiter returned, the deviation described below; the SPSC
properties are about the behaviours without it.

### GoChan, Programs and Dplane

`GoChan` is the channel as its users see it: each call takes effect in one step
or joins a queue, and a thread that parked touches the channel once more after it
has been served (`Leave`, the waiter count of `chan_recv.c:88`). A call on a freed channel
is possible and leaves its mark (`late`). It is the abstraction
that the properties of the channel modules justify, not one shown by refinement,
and ideal in one respect: its receivers never sleep beside a filled buffer, which
with two receivers they may do for a while (`chanbuf_stranded_recv`). In these
programs the next operation or the close releases such a receiver.
`Programs` has one operator per thread function of the source; its disjuncts are
that function's calls and decisions. Drawing, timing and the rules of the snake
game are left out: a tick may end the game at any time.

`Dplane` describes each node by its ports, in polling order, and the channel each
packet goes to; `forward_route` is the routing table. `cfg` is the command line.
Between two polls of one node the others run, so a node takes from any port that
holds a packet, which covers each polling order. `slow` lets the drain deadline
expire at any time. The injection loops test before each round (`run_traffic`), so
that a timed run whose deadline is over at once injects nothing. Statistics of latency and the idle policies (spin, yield,
back-off, block) are left out: they change when a node looks again and nothing
else.

## Runs

| Run | Instance | Result |
|---|---|---|
| `ring_safety` | 2 producers, 2 consumers, 2 slots, modulus 8, start 7, bursts of 2, 2 messages each | all properties hold, refinement of `RingQueue` included |
| `ring_live` | 2 producers, 1 consumer, 1 observer, with fairness | reservations are committed; counts err upwards only by wrapping |
| `chanbuf_mpmc` | 2 senders, 2 receivers, 1 closer, 1 call; timed, try, burst | exactly-once under timeouts, counted waiters, close wakes all |
| `chanbuf_mpsc` | 2 senders (block, burst), 1 receiver (block, try), 1 closer, 2 calls | receiver never stranded, order per sender |
| `chanbuf_live` | 1 sender, 1 receiver, 3 blocking calls, one spin retry, with fairness | both finish; sender never stranded |
| `chanbuf_stranded_recv` | 1 sender, 2 receivers | violation: a receiver sleeps while a message is in the ring |
| `chanunbuf_mpmc` | 2 senders, 2 receivers, 1 closer, 2 calls; block, try | OK exactly when delivered |
| `chanunbuf_timed` | 2 senders, 1 receiver, 1 closer, 2 calls; block, timed, with fairness | one side waits, nobody stranded, a close releases every call |
| `select_all` | 8 programs of 3 threads over 4 channels (two unbuffered, two with 1 slot), with fairness | one case served, no lock cycle, no dangling stub, exactly-once but for what an ignored push drops, order, drain gets all, examples end |
| `spsc_safety` | 1 slot, 3 calls a side, 5 pairs of call forms, 1 close, both parks, with fairness | in order exactly once without fences, no wake slept through, nobody stranded, blocking calls complete |
| `dplane_all` | both programs, 6 command lines each, 1-slot channels, with fairness | no loss or duplicate, right route, right exit code, termination |
| `programs_all` | 10 example programs (one of them in two phases) and the retain test, with fairness | right outcome, no call on a freed channel and (but for one client of `request_reply`) nobody inside one, all end |

A timed call may time out at any moment or never, so timed runs contain the
behaviours of blocking calls. `chanbuf_stranded_recv` documents a disagreement
between the code and its documentation; `findings` in `PROJECT.json` quotes both.
The stranded receiver is served by the next operation on the channel: what fails
is the promise of a prompt wake-up. The mirror image exists too: with two senders
and one receiver `NoStrandedSender` fails, because
`chan_deliver_ring_to_receivers` frees a slot without looking at the parked
senders; `chanbuf_live` therefore checks it for a single sender.

## Where the code does less than one might expect

The models show these behaviours as well. The properties above are stated so as
to hold beside them, and say so in their comments.

- `ring_lf_push` (`ring_lf.c:44`) can report full of a ring with free slots: when
  `cons.tail` has passed the `prod.head` it loaded, `ph - ct` wraps. The burst form
  cannot (`BurstFullIsReal`). `ring_lf.h:76` says "false if full".
- `ring_lf_count` can return 2^32 - 1 when a message is pushed and popped between
  its two loads (`CountOverstatesOnlyByWrap` is what remains true of it).
- A send that read `closed = false` can put its message into the ring after every
  receiver has been told CLOSED; `ExactlyOnce` counts it as still in the ring.
- Timed unbuffered calls ignore that they were served before they could leave the
  queue (`chan_recv.c:82`, `chan_send.c:94`): a message whose send returned OK is
  lost, or a send returns TIMEOUT for a message that was received. `ExactlyOnce` of
  `ChanUnbuf` fails with `Modes = {"timed"}`, one thread a side and two calls.
- A wake issued after the unlock (`chan_recv.c:112,130`) can reach the waiter of its
  owner's next call, which then returns OK although nobody took its message.
  `ExactlyOnce` of `ChanBuf` fails with timed calls, one thread a side and three calls.
- A select stub claimed by a delivery whose pop then fails goes back to the queue
  claimed (`libchan_internal.h:306`). Later deliveries, and `chan_close`, skip it, so
  that a select can sleep on a closed channel (program `Rivals` of `MCSelect`), where
  `design.md:371` says that close always wakes all parked selects.
- `execute_case_locked` ignores the results of its ring operations. With a second
  sender on the channel its `ring_push` (`select.c:85`, and `:107` for a sender it
  helps) can fail and the message is lost although its send reports OK (programs
  `Outbid` and `Contended` of `MCSelect`); with a second receiver its `ring_pop` (`:104`)
  can fail and an OK comes without a message (`Rivals`), as it does for a parked receiver
  that a sending select wakes (`:87`). `design.md:377` knows of such a skew.
  `RingResultsSafe` names the programs in which none of this happens: one sender and
  one receiver on each buffered channel, and no sending select where a receiver parks.
  `ExactlyOnce` says that of the programs of `MCSelect`, and of the others that only
  a failed push loses a message (`dropped`), and that none is ever there twice.
- A select that was served while it timed out reports TIMEOUT (`select.c:345-348`);
  the messages concerned are the set `concealed`.
- The comment at `select.c:146` says that stubs are counted as waiters;
  `select.c:310-315` queues them uncounted, as `design.md` section 6 explains.
- A select SEND case on a closed channel is never ready
  (`select.c:48-61`); the select parks.
- `request_reply.c` destroys a mailbox when its send returns, while the client it
  woke may still be about to touch the waiter count (`chan_recv.c:88`); draining the
  lock in `chan_destroy` does not help. `NoUseAfterFree` allows this one case, by name.
  That no client starts a call on a freed mailbox it does show, and it is the missing
  buffer of the mailbox that makes it so.
- `multi_recv_spin.c` sets the slot of a closed channel to NULL and never destroys
  that channel. `snake_chan.c:237` asks for any key after the game, and the join then
  waits until `q` is typed.
- `dplane_pipeline.c -P` with opposite paths and more packets than the channels hold
  can block two nodes on each other's full channels; parallel configurations of
  `dplane_all` stay below the capacities, so that `Terminates` holds.

Bounds. The ring starts at 7 with modulus 8, so that the cursors wrap and runs
straddle the end of the buffer; two threads per side are the least with
competing CASes and commits out of order. The channel models use one slot: a ring
that is always full or empty is where registration, helpers and fast paths meet,
and two threads on a side with one or two calls reach every action. `MaxCalls`
bounds the calls per thread, `MaxItems` the messages per producer, `MaxSends` the
messages per thread of `Select`, whose programs cross each kind of case with each
other party once; `Rivals`, `Contended` and `Outbid` are there so that each ring operation
whose result is ignored does fail. `chanbuf_mpmc` makes one call a thread: with more,
timed calls meet the late wake described above, and `ExactlyOnce` fails. Bursts move
one message there, so that no burst is taken in part; `burst_burst` of `Programs` has such
bursts, on a channel nobody waits on. `Spsc` has one slot so that each side meets a full and an empty
ring, and three calls, so that a cursor laps its cached copy. The pipelines have
one slot a channel and up to ten packets on one path, more than all its channels
hold, so that backpressure reaches main; timed runs may stop after any number of
packets, none included. The programs run with the smallest counts
at which each channel fills and each loop repeats (`NJOBS` 3, `LIMIT` 6, `TOTAL` 5 with
bursts of 2, sources of different length).
A channel run ends when every call is made, so deadlock checking is off there;
`ExchangeCompletes`, `CloseReleases` and the `NoStranded` properties say what must
not be blocked.
The ring runs check for deadlock as well.

Fairness. `RingLF`: weak fairness of the copies and commits of a thread that has
reserved slots, which is all that phase 3 of another thread waits for; nothing is
assumed of the CAS loop. Channels: weak fairness of each thread inside a call, which a
preemptive scheduler gives (the mutex is contended only finitely often in these
runs). `chanbuf_live` also assumes that the clients make all their calls, since a
receiver can only finish if the sender sends; `chanunbuf_timed` does not.
`Select`: strong fairness of each thread, since several mutexes are taken and
released repeatedly by others and a mutex does not starve a waiter for ever.
`Spsc`: weak fairness of each side, of its calls and of its store buffer (hardware
drains it), and strong fairness of the timeouts, which spurious wakeups interrupt
without stopping the clock. `Programs` and `Dplane`: weak fairness of every thread.

## Proofs

All theorems hold for every value of the constants that satisfies the named
`ASSUME` of the module concerned: any number of threads, finite or infinite, any
capacity, any number of calls. What they add to the runs is just that.

| Module | Theorem | What it establishes |
|---|---|---|
| `RingLF_proofs` | `TypeCorrect`, `CursorsOrdered`, `NoSlotRace`, `CommitNeverOrphaned` | the state invariants of `ring_safety` |
| | `EmptyReportsAreReal`, `BurstFullReportsAreReal` | its action properties |
| `RingLF_refines` | `RingImplementsQueue` | the ring implements the bounded FIFO queue |
| | `CountsAreBounded` | `ring_lf_count` overstates only by wrapping |
| `ChanUnbuf_proofs` | `TypeCorrect`, `OneSide`, `NobodyStranded` | types, one side waits, nobody is stranded; timed calls included |
| | `DeliveredOnce` | exactly-once, without timed calls |
| `ChanBuf_proofs` | `TypeCorrect` | types; a pop finds a message, counts stay natural; timed calls included |
| | `CloseReachesAll` | a close leaves nobody asleep; timed calls included |
| | `WaitersCounted` | queued waiters are counted and inside their call, without timed sends |
| | `MessagesOnce` | exactly-once, without timed sends; timed receives, bursts and closes included |
| | `MessagesInOrder` | each receiver gets a sender's messages in order, without timed sends |
| `Spsc_proofs` | `NoWakeSleptThrough` | no sleeper misses the wake of its word |
| | `InOrderDelivered` | in order and exactly once over the store buffers; closes and timeouts included |
| | `NoneStranded` | the backstop leaves no side asleep on what it waits for |
| `Select_proofs` | `LocksFree` | no circle of threads waiting for locks |
| `Dplane_proofs` | `RouteFollowsNameHolds` | a completion has been through the nodes of its path, in order |
| | `NoLossNoDupHolds` | in flight is exactly what was sent and not received; no duplicate, no loss |
| | `VerdictIsRightHolds` | exit code 0 only after everything sent has been received, which in a count run is all that was asked for; 1 only after a drain timed out |

The two hypotheses on timeouts are not there for the prover's sake. The code
does deliver twice or not at all with timed unbuffered calls, and a wake issued
after the unlock does reach the wrong wait of a sender with timed calls (both
above, under "Where the code does less"); TLC shows the counterexamples.
`SendModes` and `Modes` without `"timed"` are ordinary instances of the models.

**The ring.** The order of the cursors alone does not say who holds which
position. `Inv` adds, for each side, what a thread may rely on at
each step of its call (`Local`: a head it loaded is not ahead of the current one;
if it is still the current one, the run fits under the limit), that reserved runs
are pairwise disjoint (`Disjoint`) and that together they cover the gap between
tail and head (`Tiled`). Both sides are instances of one predicate `Side`, so that
the lemmas `SideQuiet`, `SideReserve`, `SideCopy` and `SideCommit` are proved once.
The arithmetic lemmas (`ModEq`, `ModMod`, `U32Facts`, `SlotFacts`) show that values
less than the modulus apart are compared exactly by their remainders and that the
slot index survives the wrap because the capacity divides the modulus.
Refinement needs one fact more, `Copied`: what a producer has copied of its run is
in the slots of that run until it commits. The commits are then the steps of the
abstract queue, every other step a stutter; a consumer's copies are what the
queue holds because `NoSlotRace` keeps producers out of the slots it reads.
`NotLapped` is part of the actions and with it an assumption of these theorems.

**Wait queues.** `WaitQ_proofs` has the facts the channel proofs share: what
pushing, popping, unlinking and putting back do to the members of a queue and to
their being distinct, and that a queue without duplicates is no longer than a set
that holds its members.

**The unbuffered channel.** `WaitInv`: a thread asleep is queued or about
to be woken, the counts are the numbers of registered threads, queues of a closed
channel are empty, one of the two queues is always empty, and a closer never waits. `OneSide` and `NobodyStranded` follow. `DeliveredOnce`
needs `PairInv` (a queued thread is queued once and asleep, a waker owns the
waiter it is to wake, no two wakers the same) and `CopyInv` (where the copy of each
message is, and what its sender has been or will be told).

**The buffered channel.** The inductive invariant of `BufferedInvariant` has one
part per question:
`FrameInv`, which positions a thread may be in and that the lock is held exactly
by the one where the code holds it, through the stacks of helpers and the two exits of a
ring operation; `KindInv`, that senders are queued, carried and woken as senders;
`SleepInv`, that a sleeper is queued, in the hands of the holder of the lock, or
about to be woken by the receiver that served it; `CloseInv`, what remains of the
queues after a close; `CountInv`, that the counts are the numbers of registered
threads; `RecvOnce`, `SendOnce`, that nobody is in a queue twice, or in a queue and in a hand,
or in two hands. The last is what makes a queue no longer than its count, and it is
the part that timed sends break. `CloseReachesAll` needs the first four: at
rest no hand is left, so a sleeper is queued, and a closed channel has empty
queues as soon as the closing thread is done. The proof has one lemma per part
(`FrameStep` ... `OncesStep`), saying what a step must satisfy, and one per shape of
step (`Leave`, `Taken`, `Grab`, `Serve`, `PutBack`, `Join`, `Unlink`, ...); each action is then
an instance of a shape. `TypeCorrect` adds `RingTypes` (a cursor loaded is not ahead of the
head, a reserved slot is below it, and the cursors are in order, so that a pop that
commits finds what a push has reserved) and `StateTypes`.

`MessagesOnce` rests on all of these and on `DataInv`. Each message has one place
at most: a slot of the ring, the hand of a pop between its reservation and its commit,
a receiver's buffer, or what a receive has returned (`PlaceInv`, `RecvInv`). The harder half is
that the two ends agree with the places. Several threads may move a message: the
caller itself, a helper under the lock, a receiver that meets a queued sender, the
closing thread; and the caller learns of it later, or never looks. `Has` says when a
call's message has moved: by the caller's position (`Own`), by what its waiter has been told
(`Told`), or because the thread that serves it has moved the data and not yet stored the
result (`Served`). `GotInv` and `MovedInv` say that a receiver's buffer is full, and that a
sender's message is in the channel or beyond it, exactly when `Has` holds; `ResultInv`, that
a waiter nobody has woken still has the result it was queued with. The place where this could break
is a timeout under the lock: a caller that unlinks itself and returns TIMEOUT must not have been
served, which needs `SleepInv` for a thread that has timed out and has not yet taken the lock.
`RingData`, `TellKeeps`, `CalmKeeps` and `ReturnKeeps` are the shapes of step here: a ring
operation moves a message, a server tells a waiter, nothing of a message changes, a call returns.

`MessagesInOrder` adds `OrderInv`. The slots of the ring are in order (`SlotOrder`), whatever a
receiver has comes before what is still in the ring (`AheadOrder`), and what a receiver has got
comes before what a pop is about to give it (`PopOrder`, `OutOrder`). The rendezvous is where a
message goes past the ring, and where the order could be lost: the receiver saw the ring empty
and then takes a queued sender's message. "Empty" means that the consumers' head has met
the producers' tail, not that no slot is reserved; `CommitInv` says that each slot in between belongs
to a push in progress, and who pushes for a queued sender holds the lock. So none of
those slots is that sender's (`MeetInv`), and none can become so before the receiver is done.

**Park.** `WakeInv` is the property with the types it needs: the store of the
word and the notify are apart, and between them the waker remembers its target.

**The SPSC channel.** Its two properties are said of executions without a stale
wake, and so is the invariant (`UntilStale`: `SpscInv` until `stale` is set). `LabelInv`,
`MutexInv`, `QueueInv` and `CountInv` are the control: where each thread may be, who holds
the mutex, that a queued thread has been told nothing yet and has no store
pending. `CursorInv` is what the missing fences leave of the cursors: the pending
stores of a side form a `Chain` (a tail, its head, the next tail, each one
further), so memory is behind what the owner sees and a cached cursor
behind memory; both err to the safe side. `OrderInv` and `ItemInv` follow each item
from its call (`Moved`) through ring and hand to the consumer (`Present`), and give
`InOrderDelivered`. `StrandInv` is why the backstop is enough: once a side is
`Committed` to park for good, a pending store of its peer belongs to an operation that
has not yet looked at the waiter count, and will find it. Each action has two lemmas,
one for the control (`...Control`) and one for the data (`...Data`). The cursors are
natural numbers here; that the differences survive the wrap at 2^32 is shown for
the ring (`U32Facts`).

**Select.** `LockInv` says which prefix of `LockOrder` each select holds. A circle of
waiting threads would have a greatest channel among those waited for; its holder
waits for a greater one, or for none.

**The pipelines.** The property about losses says which packets are in flight; it
is not inductive, since the sink counts a packet it did not expect next as lost. `Inv`
therefore follows the packets on their way. `RouteInv`: the nodes a packet has been
through are the first ones of its path, and it is in the channel where the path goes
on (`Routes`, `PathTable` and `RouteGoesOn` are what the wiring tables of the two
programs say). `OrderInv`: the packets of a path are under way in the order they
were sent in, those further on first, those of one channel by their place in it, and
those of a channel before the one a node is about to put into it. That needs the
fact that no two nodes forward into one channel on the same path, which is
in `RouteInv`: the last hop of a packet in a node's hand is that node. With
`DueInv` and `PresentInv` (under way is exactly what is due) the packet that reaches the sink is
the next one expected. `MainInv` and `CloseInv` relate main's loop to the
counters: a drain that succeeded has received everything, and until main stops only
inject channels are closed and no node has left. `SentInv` is for the verdict of a
count run: a path has sent the full count once main has left it behind, and before
that as many packets as the passes of the loop say. Of a timed run nothing of the kind
is claimed; it may send nothing.

Model-checked only. All liveness, which is out of the prover's reach. `NoStrandedReceiver`
and `NoStrandedSender` of `ChanBuf`, which hold only of few threads (see
`chanbuf_stranded_recv`). `NoDanglingStub` and `OneCaseServed` of `Select`, which hold of
the programs of `MCSelect` and not of all: the late wake above reaches selects too.
The other properties of `Select` and those of `Programs`: see the plan.

## Not modelled, and the plan

Next, in this order:

1. Proofs: `ExactlyOnce` and `SenderOrder` of `Select`, whose selects park on several
   channels at once, along the lines of `DataInv` and `OrderInv` here.
2. `GoChan` as an abstract specification that `ChanUnbuf` implements.
3. `RingCap`: `next_pow2` and the truncation of the capacity to 32 bits.

Left out for good: `chan_strerror`, `chan_cap`, the spin hint, argument checks
(`CHAN_ERR_INVALID`), allocation failure, weaker memory models than x86-TSO, the
benchmarks (timing loops around the operations modelled here), the unit tests, and
`examples/select_fairness.c`, whose claim is about frequencies of a random choice.
