------------------------------ MODULE Programs -------------------------------
(***************************************************************************)
(* The smaller example programs, each over the channels of GoChan: which   *)
(* calls its threads make, in which order, and what they do with the       *)
(* results.  A thread function of the source is an operator here; its      *)
(* disjuncts are its calls and decisions.  Threads that main creates       *)
(* before its first call run from the start.                               *)
(***************************************************************************)
EXTENDS GoChan, SequencesExt

CONSTANTS
    Chosen,              \* the programs to run
    NJOBS, LIMIT, NREQ, N_ITEMS, ROUNDS, WINDOW, TOTAL, BURST,
    N_PER_SOURCE,        \* the values each of the two sources sends; the sources may differ
    Keys                 \* bound: keys typed at the snake game, the last of them q

ASSUME ProgramsAssumption ==
    /\ {NJOBS, NREQ, N_ITEMS, ROUNDS, WINDOW, TOTAL, BURST, Keys} \subseteq Nat \ {0}
    /\ LIMIT \in 2..6 /\ NREQ <= 2 /\ N_PER_SOURCE \in [{1, 2} -> 1..9]

VARIABLES
    prog,                \* the program; chosen in Init
    out                  \* what its main, or the consumer of burst_pipeline, has received, in order

vars == <<ch, th, prog, out>>

Main == 0
Helpers == 1..4          \* the other threads; LIMIT <= 6 needs generate and three filters
me == th[Main]

------------------------------------------------------------------------------
(* worker_pool.c, with two workers.                                        *)

worker(t) ==
    \/ At(t, "worker") /\ Recv(t, "jobs", "job")
    \/ At(t, "job") /\ Ok(t) /\ Send(t, "results", th[t].v, "worker")
    \/ At(t, "job") /\ ~Ok(t) /\ Goto(t, "exit")

worker_pool_main ==
    \/ At(Main, "submit") /\ me.k < NJOBS /\ Send(Main, "jobs", me.k + 1, "submit")
    \/ At(Main, "submit") /\ me.k = NJOBS /\ Close(Main, "jobs", "collect")
    \/ At(Main, "collect") /\ me.k < NJOBS /\ Recv(Main, "results", "collected")
    \/ At(Main, "collect") /\ me.k = NJOBS /\ Goto(Main, "join")

------------------------------------------------------------------------------
(* sieve_primes.c: thread 1 generates into c1; filter t reads channel t-1  *)
(* and writes channel t.                                                   *)

Stage == <<"c1", "c2", "c3", "c4">>

generate(t) ==
    \/ At(t, "generate") /\ Ok(t) /\ th[t].k + 2 <= LIMIT /\ Send(t, "c1", th[t].k + 2, "generate")
    \/ At(t, "generate") /\ (~Ok(t) \/ th[t].k + 2 > LIMIT) /\ Close(t, "c1", "exit")

\* x is the prime of the filter.  A failed recv or send ends its loop.
filter(t) ==
    \/ At(t, "filter") /\ Ok(t) /\ Recv(t, Stage[t - 1], "sift")
    \/ At(t, "sift") /\ Ok(t) /\ th[t].v % th[t].x # 0 /\ Send(t, Stage[t], th[t].v, "filter")
    \/ At(t, "sift") /\ Ok(t) /\ th[t].v % th[t].x = 0 /\ Goto(t, "filter")
    \/ th[t].st = "run" /\ th[t].pc \in {"sift", "filter"} /\ ~Ok(t) /\ Close(t, Stage[t], "exit")

\* The first number out of the last stage is prime; a channel and a filter
\* thread are put behind that stage.
sieve_main ==
    LET n == Len(out) IN
    \/ At(Main, "sieve") /\ Recv(Main, Stage[n + 1], "prime")
    \/ /\ At(Main, "spawn")
       /\ ch' = [ch EXCEPT ![Stage[n + 1]] = NewChan(1)]
       /\ th' = [th EXCEPT ![Main].pc = "sieve", ![n + 1] = NewThread("filter", out[n])]
    \/ At(Main, "prime") /\ ~Ok(Main) /\ Goto(Main, "join")

------------------------------------------------------------------------------
(* request_reply.c: thread 1 serves clients 2 and 3.  A request is its     *)
(* client and number; its mailbox is created by the client and destroyed   *)
(* by the server; the answer is the request's.                             *)

\* Mutant of reply_chan: a buffered mailbox.
reply_chan_buffered == NewChan(1)
reply_chan == NewChan(0)

Mailbox == (20 :> "r20") @@ (21 :> "r21") @@ (30 :> "r30") @@ (31 :> "r31")
Request(t) == t * 10 + th[t].k \div 2

server(t) ==
    \/ At(t, "server") /\ Recv(t, "requests", "request")
    \/ At(t, "request") /\ Ok(t) /\ Send(t, Mailbox[th[t].v], th[t].v, "replied")
    \/ At(t, "replied") /\ Destroy(t, Mailbox[th[t].v], "server")
    \/ At(t, "request") /\ ~Ok(t) /\ Goto(t, "exit")

client(t) ==
    \/ /\ At(t, "client") /\ th[t].k < 2 * NREQ
       /\ ch' = [ch EXCEPT ![Mailbox[Request(t)]] = reply_chan]
       /\ th' = [th EXCEPT ![t].pc = "ask"]
    \/ At(t, "ask") /\ Send(t, "requests", Request(t), "asked")
    \/ At(t, "asked") /\ Recv(t, Mailbox[Request(t)], "client")
    \/ At(t, "client") /\ th[t].k = 2 * NREQ /\ Goto(t, "exit")

request_reply_main ==
    At(Main, "clients") /\ Exited(2) /\ Exited(3) /\ Close(Main, "requests", "join")

------------------------------------------------------------------------------
(* producer_consumer.c                                                     *)

producer(t) ==
    \/ At(t, "produce") /\ th[t].k < N_ITEMS /\ Send(t, "c", th[t].k, "produce")
    \/ At(t, "produce") /\ th[t].k = N_ITEMS /\ Close(t, "c", "exit")

producer_consumer_main ==
    \/ At(Main, "consume") /\ Recv(Main, "c", "consumed")
    \/ At(Main, "consumed") /\ ~Ok(Main) /\ Goto(Main, "join")

------------------------------------------------------------------------------
(* multi_recv_fanin.c, with sources 1 and 2 and feeders 3 and 4.           *)

Source == <<"s1", "s2">>
Sentinel == 0

source_sender(t) ==
    \/ At(t, "source") /\ th[t].k < N_PER_SOURCE[t] /\ Send(t, Source[t], t * 10 + th[t].k, "source")
    \/ At(t, "source") /\ th[t].k = N_PER_SOURCE[t] /\ Close(t, Source[t], "exit")

feeder(t) ==
    \/ At(t, "feed") /\ Recv(t, Source[t - 2], "fed")
    \/ At(t, "fed") /\ Ok(t) /\ Send(t, "agg", th[t].v, "feed")
    \/ At(t, "fed") /\ ~Ok(t) /\ Send(t, "agg", Sentinel, "exit")

fanin_main ==
    LET ended == Len(SelectSeq(out, LAMBDA m : m = Sentinel)) IN
    \/ At(Main, "fanin") /\ ended < 2 /\ Recv(Main, "agg", "merged")
    \/ At(Main, "fanin") /\ ended = 2 /\ Close(Main, "agg", "join")

------------------------------------------------------------------------------
(* multi_recv_spin.c: main scans the channels of two senders; x holds the  *)
(* position and the slots set to NULL.                                     *)

spin_sender(t) ==
    \/ At(t, "spin sender") /\ th[t].k < N_PER_SOURCE[t] /\ Send(t, Source[t], t * 10 + th[t].k, "spin sender")
    \/ At(t, "spin sender") /\ th[t].k = N_PER_SOURCE[t] /\ Close(t, Source[t], "exit")

spin_main ==
    LET c == Source[me.x.i]
        on(gone) == [me EXCEPT !.pc = "scan", !.x = [i |-> 3 - me.x.i, gone |-> gone]]
    IN  \/ At(Main, "scan") /\ c \notin me.x.gone /\ TryRecv(Main, c, "scanned")
        \/ At(Main, "scan") /\ c \in me.x.gone /\ Cardinality(me.x.gone) < 2 /\ Local(Main, on(me.x.gone))
        \/ At(Main, "scan") /\ Cardinality(me.x.gone) = 2 /\ Goto(Main, "join")
        \/ At(Main, "scanned") /\ me.res = "CLOSED" /\ Local(Main, on(me.x.gone \cup {c}))
        \/ At(Main, "scanned") /\ me.res = "WOULDBLOCK" /\ Local(Main, on(me.x.gone))
        \/ At(Main, "scan next") /\ Local(Main, on(me.x.gone))

------------------------------------------------------------------------------
(* ping_pong.c (window 0, unbuffered) and ping_pong_buffered.c; x is the   *)
(* window.                                                                 *)

ponger(t) ==
    \/ At(t, "ponger") /\ th[t].k < 2 * (ROUNDS + th[t].x) /\ Recv(t, "ping", "echo")
    \/ At(t, "echo") /\ Ok(t) /\ Send(t, "pong", th[t].v, "ponger")
    \/ /\ th[t].st = "run" /\ th[t].pc \in {"ponger", "echo"}
       /\ IF At(t, "echo") THEN ~Ok(t) ELSE th[t].k = 2 * (ROUNDS + th[t].x)
       /\ Goto(t, "exit")

ping_pong_main ==
    \/ At(Main, "serve") /\ Len(out) < ROUNDS /\ Send(Main, "ping", Len(out), "await")
    \/ At(Main, "serve") /\ Len(out) = ROUNDS /\ Goto(Main, "join")
    \/ At(Main, "await") /\ Recv(Main, "pong", "returned")

\* Fill the window; then receive one and refill one; then drain.
ping_pong_buffered_main ==
    \/ At(Main, "fill") /\ me.k < WINDOW /\ Send(Main, "ping", me.k, "fill")
    \/ At(Main, "fill") /\ me.k = WINDOW /\ Goto(Main, "bounce")
    \/ At(Main, "bounce") /\ Len(out) < ROUNDS + WINDOW /\ Recv(Main, "pong", "bounced")
    \/ At(Main, "refill") /\ Len(out) <= ROUNDS /\ Send(Main, "ping", WINDOW + Len(out) - 1, "bounce")
    \/ At(Main, "refill") /\ Len(out) > ROUNDS /\ Goto(Main, "bounce")
    \/ At(Main, "bounce") /\ Len(out) = ROUNDS + WINDOW /\ Goto(Main, "join")

------------------------------------------------------------------------------
(* burst_pipeline.c: the phase of single calls, and the phase of bursts,   *)
(* where what did not fit is offered again.                                *)

producer_single(t) ==
    \/ At(t, "put") /\ th[t].k < TOTAL /\ TrySend(t, "c", th[t].k, "put")
    \/ At(t, "put") /\ th[t].k = TOTAL /\ Goto(t, "exit")

consumer_single(t) ==
    \/ At(t, "get") /\ th[t].k < TOTAL /\ TryRecv(t, "c", "got")
    \/ At(t, "got") /\ ~Ok(t) /\ Local(t, [th[t] EXCEPT !.pc = "get"])
    \/ At(t, "get") /\ th[t].k = TOTAL /\ Goto(t, "exit")

producer_burst(t) ==
    LET n == LesserOf(TOTAL - th[t].x, BURST) IN
    \/ At(t, "put burst") /\ n > 0 /\ SendBurst(t, "c", [i \in 1..n |-> th[t].x + i - 1], "put more")
    \/ At(t, "put more") /\ Local(t, [th[t] EXCEPT !.pc = "put burst", !.x = @ + th[t].v])
    \/ At(t, "put burst") /\ n = 0 /\ Goto(t, "exit")

consumer_burst(t) ==
    \/ At(t, "get burst") /\ th[t].k < TOTAL /\ RecvBurst(t, "c", LesserOf(TOTAL - th[t].k, BURST), "got burst")
    \/ At(t, "get burst") /\ th[t].k = TOTAL /\ Goto(t, "exit")

------------------------------------------------------------------------------
(* snake_chan.c: the input thread turns keys into directions; x counts the *)
(* keys still to come on stdin, which main also reads once the game is     *)
(* over.  A tick of the game may end it.                                   *)

stdin == th[1].x

input_thread(t) ==
    \/ /\ At(t, "read") /\ stdin > 1
       /\ Local(t, [th[t] EXCEPT !.x = @ - 1, !.pc = "send dir"])
    \/ At(t, "send dir") /\ Send(t, "dir", stdin, "sent dir")
    \/ At(t, "sent dir") /\ (Ok(t) \/ ch["dir"].closed) /\ Goto(t, "read")
    \/ /\ At(t, "read") /\ stdin = 1
       /\ Local(t, [th[t] EXCEPT !.x = 0, !.pc = "quit"])
    \/ At(t, "quit") /\ Close(t, "dir", "exit")

\* apply_dirs until the channel is empty; closed means quit.
snake_main ==
    \/ At(Main, "apply") /\ TryRecv(Main, "dir", "applied")
    \/ At(Main, "applied") /\ me.res = "WOULDBLOCK" /\ Goto(Main, "tick")
    \/ At(Main, "applied") /\ me.res = "CLOSED" /\ Goto(Main, "over")
    \/ At(Main, "tick") /\ Goto(Main, IF ch["dir"].closed THEN "over" ELSE "apply")
    \/ At(Main, "tick") /\ ~ch["dir"].closed /\ Local(Main, [me EXCEPT !.pc = "any key", !.x = "game over"])
    \/ /\ At(Main, "any key") /\ stdin > 0
       /\ th' = [th EXCEPT ![1].x = @ - 1, ![Main].pc = "over"]
       /\ UNCHANGED ch
    \/ At(Main, "over") /\ Close(Main, "dir", "join")

------------------------------------------------------------------------------
(* test_retain of test_timeout.c                                           *)

retain_main ==
    \/ /\ At(Main, "retain")
       /\ ch' = [ch EXCEPT !["c"].refs = @ + 1]
       /\ th' = [th EXCEPT ![Main].pc = "use"]
    \/ At(Main, "use") /\ Send(Main, "c", 5, "used")
    \/ At(Main, "used") /\ Destroy(Main, "c", "use ref")
    \/ At(Main, "use ref") /\ Recv(Main, "c", "ref used")

------------------------------------------------------------------------------
(* All programs.                                                           *)

\* Where a thread goes on after it has printed or counted what it received.
After == [collected |-> "collect", prime |-> "spawn", consumed |-> "consume", merged |-> "fanin",
          scanned |-> "scan next", returned |-> "serve", bounced |-> "refill", applied |-> "apply", got |-> "get"]
         @@ ("ref used" :> "join") @@ ("got burst" :> "get burst")

Take(t) ==
    /\ th[t].st = "run" /\ th[t].pc \in DOMAIN After /\ Ok(t)
    /\ out' = IF th[t].pc = "got burst" THEN out \o th[t].x ELSE Append(out, th[t].v)
    /\ th' = [th EXCEPT ![t].pc = After[@]]
    /\ UNCHANGED ch

\* The channels main has yet to destroy.  multi_recv_spin has set its slots to
\* NULL, and the mailboxes of request_reply are the server's to destroy.
ToDestroy ==
    {c \in DOMAIN ch : ch[c].live} \
        (CASE prog = "multi_recv_spin" -> {"s1", "s2"}
           [] prog = "request_reply" -> {"r20", "r21", "r30", "r31"}
           [] OTHER -> {})

\* pthread_join of every thread, then chan_destroy of every channel.  Only
\* multi_recv_fanin destroys the channel of its first source when the threads
\* of that source have been joined, while the others may still run.
join_destroy ==
    \/ /\ At(Main, "join") /\ prog = "multi_recv_fanin" /\ ch["s1"].live
       /\ Exited(1) /\ Exited(3)
       /\ Destroy(Main, "s1", "join")
    \/ /\ At(Main, "join") /\ \A t \in Helpers : Exited(t)
       /\ prog = "multi_recv_fanin" => ~ch["s1"].live
       /\ Goto(Main, "destroy")
    \/ /\ At(Main, "destroy")
       /\ \E c \in ToDestroy : Destroy(Main, c, "destroy")
    \/ /\ At(Main, "destroy") /\ ToDestroy = {}
       /\ Goto(Main, "exit")

\* Channels that are not created yet have no capacity and are not live.
Absent == [NewChan(0) EXCEPT !.live = FALSE]

Channels ==
    [worker_pool        |-> [jobs |-> NewChan(1), results |-> NewChan(NJOBS)],
     sieve_primes       |-> [c1 |-> NewChan(1), c2 |-> Absent, c3 |-> Absent, c4 |-> Absent],
     request_reply      |-> [requests |-> NewChan(1), r20 |-> Absent, r21 |-> Absent, r30 |-> Absent, r31 |-> Absent],
     producer_consumer  |-> [c |-> NewChan(2)],
     multi_recv_fanin   |-> [s1 |-> NewChan(1), s2 |-> NewChan(1), agg |-> NewChan(2)],
     multi_recv_spin    |-> [s1 |-> NewChan(1), s2 |-> NewChan(1)],
     ping_pong          |-> [ping |-> NewChan(0), pong |-> NewChan(0)],
     ping_pong_buffered |-> [ping |-> NewChan(WINDOW), pong |-> NewChan(WINDOW)],
     burst_single       |-> [c |-> NewChan(BURST + 1)],
     burst_burst        |-> [c |-> NewChan(BURST + 1)],
     snake_chan         |-> [dir |-> NewChan(1)],
     test_retain        |-> [c |-> NewChan(1)]]

Start ==
    [worker_pool        |-> <<"submit", "worker", "worker">>,
     sieve_primes       |-> <<"sieve", "generate">>,
     request_reply      |-> <<"clients", "server", "client", "client">>,
     producer_consumer  |-> <<"consume", "produce">>,
     multi_recv_fanin   |-> <<"fanin", "source", "source", "feed", "feed">>,
     multi_recv_spin    |-> <<"scan", "spin sender", "spin sender">>,
     ping_pong          |-> <<"serve", "ponger">>,
     ping_pong_buffered |-> <<"fill", "ponger">>,
     burst_single       |-> <<"join", "put", "get">>,
     burst_burst        |-> <<"join", "put burst", "get burst">>,
     snake_chan         |-> <<"apply", "read">>,
     test_retain        |-> <<"retain">>]

\* The other local of a thread, where it has one.
Local0(p, t) ==
    CASE p = "multi_recv_spin" /\ t = Main -> [i |-> 1, gone |-> {}]
      [] p = "ping_pong_buffered" -> WINDOW
      [] p = "burst_burst" /\ t = 2 -> << >>
      [] p = "snake_chan" -> IF t = Main THEN "" ELSE Keys
      [] OTHER -> 0

Init ==
    /\ prog \in Chosen
    /\ ch = Channels[prog]
    /\ th = [t \in {Main} \cup Helpers |->
               LET i == IF t = Main THEN 1 ELSE t + 1 IN
               NewThread(IF i <= Len(Start[prog]) THEN Start[prog][i] ELSE "exit", Local0(prog, t))]
    /\ out = << >>

ThreadStep(t) ==
    \/ Take(t) /\ UNCHANGED prog
    \/ /\ \/ Leave(t) \/ worker(t) \/ generate(t) \/ filter(t) \/ server(t) \/ client(t) \/ producer(t)
          \/ source_sender(t) \/ feeder(t) \/ spin_sender(t) \/ ponger(t) \/ producer_single(t) \/ consumer_single(t)
          \/ producer_burst(t) \/ consumer_burst(t) \/ input_thread(t)
       /\ UNCHANGED <<prog, out>>

MainStep ==
    \/ /\ \/ Leave(Main) \/ worker_pool_main \/ sieve_main \/ request_reply_main \/ producer_consumer_main
          \/ fanin_main \/ spin_main \/ ping_pong_main \/ ping_pong_buffered_main \/ snake_main \/ retain_main
          \/ join_destroy
       /\ UNCHANGED <<prog, out>>
    \/ Take(Main) /\ UNCHANGED prog

Next == MainStep \/ \E t \in Helpers : ThreadStep(t)

Spec == Init /\ [][Next]_vars

\* The scheduler runs every thread.
FairSpec == Spec /\ WF_vars(MainStep) /\ \A t \in Helpers : WF_vars(ThreadStep(t))

------------------------------------------------------------------------------
(* Properties.                                                             *)

\* No thread starts a call on a freed channel, whoever frees it and whatever the
\* others have yet to do: the mailbox of request_reply, destroyed by the server
\* as soon as its send returns, has by then met the client's chan_recv.  And none
\* is still inside a call when its channel is freed (what chan_destroy wants to
\* confirm by draining the lock), but for that client, which has its answer and
\* may not have left chan_recv yet: chan_recv.c:88 then writes freed memory.
NoUseAfterFree ==
    /\ \A c \in DOMAIN ch : ~ch[c].late
    /\ \A t \in DOMAIN th : th[t].st # "run" =>
          \/ ch[th[t].ch].live
          \/ prog = "request_reply" /\ t \in {2, 3} /\ th[t].st = "leave" /\ Ok(t)

IsPrime(n) == n > 1 /\ \A d \in 2..(n - 1) : n % d # 0
From(s) == SelectSeq(out, LAMBDA m : m \div 10 = s)
All(s) == [i \in 1..N_PER_SOURCE[s] |-> s * 10 + i - 1]

\* What main is to receive: every job once; exactly the primes; every value of
\* every source, in order; every ball, in order.  The consumers of burst_pipeline
\* are to receive all items in order, whatever parts the bursts went in.
Expected ==
    CASE prog = "worker_pool" -> IsInjective(out) /\ ToSet(out) = 1..NJOBS
      [] prog = "sieve_primes" -> out = SetToSortSeq({n \in 2..LIMIT : IsPrime(n)}, <)
      [] prog = "producer_consumer" -> out = [i \in 1..N_ITEMS |-> i - 1]
      [] prog \in {"multi_recv_fanin", "multi_recv_spin"} -> \A s \in {1, 2} : From(s) = All(s)
      [] prog = "ping_pong" -> out = [i \in 1..ROUNDS |-> i - 1]
      [] prog = "ping_pong_buffered" -> out = [i \in 1..(ROUNDS + WINDOW) |-> i - 1]
      [] prog \in {"burst_single", "burst_burst"} -> out = [i \in 1..TOTAL |-> i - 1]
      [] prog = "test_retain" -> out = <<5>>
      [] OTHER -> TRUE

\* A program that ends has received exactly what its threads sent, has left
\* nothing in a buffer (only the game drops keys) and has freed every channel
\* (only multi_recv_spin forgets to).  Each reply of request_reply goes to the
\* client that asked.
RightOutcome ==
    /\ At(Main, "exit") => /\ Expected
                           /\ \A c \in DOMAIN ch : prog # "multi_recv_spin" => ~ch[c].live
                           /\ \A c \in DOMAIN ch : prog # "snake_chan" => ch[c].buf = << >>
    /\ prog = "request_reply" => \A t \in {2, 3} : At(t, "client") /\ th[t].k > 0 => th[t].v = Request(t) - 1

\* The program ends; the game does when q is typed at the input thread.
Ends == <>(At(Main, "exit") \/ (prog = "snake_chan" /\ me.x = "game over"))
==============================================================================
