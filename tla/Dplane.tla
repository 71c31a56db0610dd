------------------------------- MODULE Dplane --------------------------------
(***************************************************************************)
(* The data-plane programs: five node threads and a main thread connected  *)
(* by buffered channels, either one SPSC channel per link                  *)
(* (dplane_pipeline.c) or one inbox per node (dplane_pipeline_mpsc.c).     *)
(* Main injects packets on six paths, collects completions, and reports    *)
(* loss, duplication and reordering by its exit code.                      *)
(*                                                                         *)
(* A channel is what the channel modules show it to be for one consumer:   *)
(* a bounded queue whose send blocks while it is full.                     *)
(***************************************************************************)
EXTENDS Integers, Sequences, FiniteSets, SequencesExt

CONSTANTS
    CHAN_CAP,
    Configs              \* records: the program (wiring), its command line (on, parallel,
                         \* timed, count), and whether DRAIN_SEC can run out (slow)

ASSUME DplaneAssumption ==
    /\ CHAN_CAP \in Nat \ {0}
    /\ \A c \in Configs :
          /\ c.wiring \in {"links", "inboxes"} /\ c.on \in (SUBSET (1..6)) \ {{}}
          /\ c.parallel \in BOOLEAN /\ c.timed \in BOOLEAN /\ c.slow \in BOOLEAN /\ c.count \in Nat \ {0}

VARIABLES
    cfg,                 \* one of Configs; chosen in Init
    buf, closed, stop,
    node,                \* position of each node thread
    main,                \* position of main
    stats                \* path_stat_t of each path

vars == <<cfg, buf, closed, stop, node, main, stats>>

Paths == 1..6
Nodes == {"tun", "forward", "enc", "tunnel", "oam"}

\* path_name: the nodes a packet of each path is to visit.
PathName == <<
    <<"tun", "forward", "enc", "tunnel">>,
    <<"tunnel", "enc", "forward", "tun">>,
    <<"tunnel", "forward", "tun">>,
    <<"tun", "forward", "tunnel">>,
    <<"tunnel", "forward", "oam">>,
    <<"oam", "forward", "tunnel">> >>

------------------------------------------------------------------------------
(* One channel per link.  A node is the sequence of its ports in the order *)
(* it polls them, each with the handler of what comes in: the channel the  *)
(* handler sends a packet of each path to.                                 *)

Links == <<
    "tun_to_forward", "forward_to_enc", "enc_to_tunnel", "tunnel_to_enc", "enc_to_forward",
    "forward_to_tun", "tunnel_to_forward", "forward_to_oam", "oam_to_forward", "forward_to_tunnel" >>
Injects == <<"inj_tun", "inj_tunnel", "inj_oam">>
Dones == <<"done_tun", "done_tunnel", "done_oam">>

Always(c) == [p \in Paths |-> c]
Port(c, handler) == [from |-> c, to |-> handler]

handle_tun_inj    == Always("tun_to_forward")
handle_tun_return == Always("done_tun")
tun_node == <<Port("inj_tun", handle_tun_inj), Port("forward_to_tun", handle_tun_return)>>

\* Mutant of forward_route: the two paths towards tun and oam are swapped.
forward_route_swapped ==
    <<"forward_to_enc", "forward_to_tun", "forward_to_oam", "forward_to_tunnel", "forward_to_tun", "forward_to_tunnel">>
forward_route ==
    <<"forward_to_enc", "forward_to_tun", "forward_to_tun", "forward_to_tunnel", "forward_to_oam", "forward_to_tunnel">>
forward_try_recv ==
    <<"tun_to_forward", "tunnel_to_forward", "oam_to_forward", "enc_to_forward">>
forward_node == [i \in 1..4 |-> Port(forward_try_recv[i], forward_route)]

handle_enc_pkt == [p \in {1, 2} |-> IF p = 1 THEN "enc_to_tunnel" ELSE "enc_to_forward"]
enc_node == <<Port("forward_to_enc", handle_enc_pkt), Port("tunnel_to_enc", handle_enc_pkt)>>

tunnel_outbound == [p \in Paths |-> IF p = 2 THEN "tunnel_to_enc" ELSE "tunnel_to_forward"]
handle_tunnel_sink == Always("done_tunnel")
tunnel_node == <<Port("inj_tunnel", tunnel_outbound),
                 Port("enc_to_tunnel", handle_tunnel_sink), Port("forward_to_tunnel", handle_tunnel_sink)>>

handle_oam_inj    == Always("oam_to_forward")
handle_oam_return == Always("done_oam")
oam_node == <<Port("inj_oam", handle_oam_inj), Port("forward_to_oam", handle_oam_return)>>

inject_ch == <<"inj_tun", "inj_tunnel", "inj_tunnel", "inj_tun", "inj_tunnel", "inj_oam">>

------------------------------------------------------------------------------
(* One inbox per node.                                                     *)

Inboxes == <<"in_tun", "in_forward", "in_enc", "in_tunnel", "in_oam", "in_done">>

send_done == "in_done"

tun_pkt_forward == {1, 4}
mpsc_tun_node == [p \in 1..4 |-> IF p \in tun_pkt_forward THEN "in_forward" ELSE send_done]

mpsc_forward_route == <<"in_enc", "in_tun", "in_tun", "in_tunnel", "in_oam", "in_tunnel">>
mpsc_forward_node == mpsc_forward_route

mpsc_handle_enc_pkt == [p \in {1, 2} |-> IF p = 1 THEN "in_tunnel" ELSE "in_forward"]
mpsc_enc_node == mpsc_handle_enc_pkt

tunnel_pkt_outbound == {2, 3, 5}
mpsc_tunnel_outbound == [p \in tunnel_pkt_outbound |-> IF p = 2 THEN "in_enc" ELSE "in_forward"]
mpsc_tunnel_node == [p \in Paths |-> IF p \in tunnel_pkt_outbound THEN mpsc_tunnel_outbound[p] ELSE send_done]

mpsc_oam_node == [p \in {5, 6} |-> IF p = 6 THEN "in_forward" ELSE send_done]

inject_inbox == <<"in_tun", "in_tunnel", "in_tunnel", "in_tun", "in_tunnel", "in_oam">>

------------------------------------------------------------------------------
(* The wiring in use.                                                      *)

Linked == cfg.wiring = "links"

Channels == IF Linked THEN Links \o Injects \o Dones ELSE Inboxes

\* CHAN_CAP_HOT for the three busiest inboxes.
Cap(c) == IF c \in {"in_forward", "in_tunnel", "in_done"} THEN 2 * CHAN_CAP ELSE CHAN_CAP

Ports(n) ==
    IF Linked
    THEN CASE n = "tun" -> tun_node [] n = "forward" -> forward_node [] n = "enc" -> enc_node
           [] n = "tunnel" -> tunnel_node [] n = "oam" -> oam_node
    ELSE CASE n = "tun" -> <<Port("in_tun", mpsc_tun_node)>>
           [] n = "forward" -> <<Port("in_forward", mpsc_forward_node)>>
           [] n = "enc" -> <<Port("in_enc", mpsc_enc_node)>>
           [] n = "tunnel" -> <<Port("in_tunnel", mpsc_tunnel_node)>>
           [] n = "oam" -> <<Port("in_oam", mpsc_oam_node)>>

InjectTo(p) == IF Linked THEN inject_ch[p] ELSE inject_inbox[p]
DonePorts == IF Linked THEN Dones ELSE <<"in_done">>

NoPkt == [path |-> 0, seq |-> 0, hops |-> << >>]
Idle == [pc |-> "poll", pkt |-> NoPkt, to |-> ""]

FirstPath == CHOOSE p \in cfg.on : \A q \in cfg.on : p <= q

\* links_init, test_io_init, inboxes_init, and the threads created.
Init ==
    /\ cfg \in Configs
    /\ buf = [c \in ToSet(Channels) |-> << >>]
    /\ closed = [c \in ToSet(Channels) |-> FALSE]
    /\ stop = FALSE
    /\ node = [n \in Nodes |-> Idle]
    /\ main = [pc |-> "more?", path |-> FirstPath, n |-> 0, i |-> 1, back |-> "inject", rc |-> 0]
    /\ stats = [p \in Paths |-> [sent |-> 0, recv |-> 0, dup |-> 0, lost |-> 0, next_expected |-> 0]]

Put(c, m) == buf' = [buf EXCEPT ![c] = Append(@, m)]
HasRoom(c) == Len(buf[c]) < Cap(c)

------------------------------------------------------------------------------
(* A node thread: while (!stop) poll the ports in order, hand what comes   *)
(* on, and leave once every port is closed.  Between two polls of a node   *)
(* the others run, so a packet may be taken from a port although one       *)
(* polled before it has got a packet in the meantime: the model lets a     *)
(* node take from any port that holds one, which covers every such order.  *)

NodePoll(n) ==
    /\ node[n].pc = "poll"
    /\ \E k \in DOMAIN Ports(n) :
          LET port == Ports(n)[k]
              m == Head(buf[port.from])
          IN  /\ buf[port.from] # << >>
              /\ node' = [node EXCEPT ![n] = [pc |-> "send", to |-> port.to[m.path],
                                              pkt |-> [m EXCEPT !.hops = Append(@, n)]]]
              /\ buf' = [buf EXCEPT ![port.from] = Tail(@)]
    /\ UNCHANGED <<cfg, closed, stop, main, stats>>

\* stop, or nothing came in and every port is closed.
NodeExit(n) ==
    /\ node[n].pc = "poll"
    /\ stop \/ \A k \in DOMAIN Ports(n) : closed[Ports(n)[k].from]
    /\ node' = [node EXCEPT ![n].pc = "exit"]
    /\ UNCHANGED <<cfg, buf, closed, stop, main, stats>>

\* Mutant of NodeSend: a send that does not block.
NodeSendTry(n) ==
    /\ node[n].pc = "send"
    /\ IF closed[node[n].to] \/ ~HasRoom(node[n].to) THEN UNCHANGED buf ELSE Put(node[n].to, node[n].pkt)
    /\ node' = [node EXCEPT ![n] = Idle]
    /\ UNCHANGED <<cfg, closed, stop, main, stats>>

\* spsc_send, mpsc_send: blocks while the channel is full; its failure is ignored.
NodeSend(n) ==
    /\ node[n].pc = "send"
    /\ \/ closed[node[n].to] /\ UNCHANGED buf
       \/ ~closed[node[n].to] /\ HasRoom(node[n].to) /\ Put(node[n].to, node[n].pkt)
    /\ node' = [node EXCEPT ![n] = Idle]
    /\ UNCHANGED <<cfg, closed, stop, main, stats>>

------------------------------------------------------------------------------
(* Main.                                                                   *)

stat_on_recv(s, seq) ==
    IF seq < s.next_expected THEN [s EXCEPT !.dup = @ + 1]
    ELSE [s EXCEPT !.lost = @ + (seq - s.next_expected), !.next_expected = seq + 1, !.recv = @ + 1]

\* Mutant of path_drained: one packet short.
path_drained_early(p) == stats[p].recv + stats[p].dup + 1 >= stats[p].sent
path_drained(p) == stats[p].recv + stats[p].dup >= stats[p].sent
all_drained == \A p \in cfg.on : path_drained(p)

Sequential == Cardinality(cfg.on) > 1 /\ ~cfg.parallel

Later(p) == {q \in cfg.on : q > p}
NextPath(p) == CHOOSE q \in Later(p) : \A r \in Later(p) : q <= r

\* The injection of every path is over: the links program closes its inject
\* channels; then everything is drained.
InjectDone == [main EXCEPT !.pc = IF Linked THEN "close_inject" ELSE "drain", !.path = 0, !.i = 1]

\* Another packet (sequential) or another round (parallel)?  A timed run asks
\* the clock, whose deadline may be over at the first test already; the bound
\* on the count stands in for its duration.
More == IF main.n = cfg.count THEN {FALSE} ELSE IF cfg.timed THEN BOOLEAN ELSE {TRUE}

\* The test at the head of the loops of run_traffic_sequential, which drains
\* each path on its own, and run_traffic_parallel.
run_traffic ==
    /\ main.pc = "more?"
    /\ \/ TRUE \in More /\ main' = [main EXCEPT !.pc = "inject", !.n = @ + 1]
       \/ FALSE \in More /\ main' = IF Sequential THEN [main EXCEPT !.pc = "drain"] ELSE InjectDone
    /\ UNCHANGED <<cfg, buf, closed, stop, node, stats>>

\* Where main goes after one injection and the poll behind it: to the next path
\* of the round, or back to the head of the loop.
inject_round ==
    IF ~Sequential /\ Later(main.path) # {} THEN [main EXCEPT !.pc = "inject", !.path = NextPath(@), !.i = 1]
    ELSE [main EXCEPT !.pc = "more?", !.path = IF Sequential THEN @ ELSE FirstPath, !.i = 1]

\* Mutant of inject_packet: no completion is taken before the next injection.
inject_packet_no_poll ==
    LET p == main.path IN
    /\ main.pc = "inject" /\ HasRoom(InjectTo(p))
    /\ Put(InjectTo(p), [path |-> p, seq |-> stats[p].sent, hops |-> << >>])
    /\ stats' = [stats EXCEPT ![p].sent = @ + 1]
    /\ main' = inject_round
    /\ UNCHANGED <<cfg, closed, stop, node>>

\* The send blocks while the channel is full.  It cannot fail: only main closes
\* the inject channels, later.
inject_packet ==
    LET p == main.path IN
    /\ main.pc = "inject" /\ HasRoom(InjectTo(p))
    /\ Put(InjectTo(p), [path |-> p, seq |-> stats[p].sent, hops |-> << >>])
    /\ stats' = [stats EXCEPT ![p].sent = @ + 1]
    /\ main' = [main EXCEPT !.pc = "done?", !.back = "inject"]
    /\ UNCHANGED <<cfg, closed, stop, node>>

\* poll_done_try: one completion from each done channel.
poll_done_try ==
    LET c == DonePorts[main.i] IN
    /\ main.pc = "done?"
    /\ \/ /\ buf[c] # << >>
          /\ stats' = [stats EXCEPT ![Head(buf[c]).path] = stat_on_recv(@, Head(buf[c]).seq)]
          /\ buf' = [buf EXCEPT ![c] = Tail(@)]
       \/ buf[c] = << >> /\ UNCHANGED <<buf, stats>>
    /\ \/ main.i < Len(DonePorts) /\ main' = [main EXCEPT !.i = @ + 1]
       \/ main.i = Len(DonePorts) /\ main.back = "drain" /\ main' = [main EXCEPT !.pc = "drain", !.i = 1]
       \/ main.i = Len(DonePorts) /\ main.back = "inject" /\ main' = inject_round
    /\ UNCHANGED <<cfg, closed, stop, node>>

\* drain_path, drain_remaining (path 0): until the deadline.
drain ==
    LET drained == IF main.path = 0 THEN all_drained ELSE path_drained(main.path) IN
    /\ main.pc = "drain"
    /\ \/ cfg.slow /\ main' = [main EXCEPT !.pc = "stop", !.rc = -1]
       \/ ~drained /\ main' = [main EXCEPT !.pc = "done?", !.back = "drain"]
       \/ /\ drained
          /\ main' = IF main.path = 0 THEN [main EXCEPT !.pc = "stop"]
                     ELSE IF Later(main.path) # {} THEN [main EXCEPT !.pc = "more?", !.path = NextPath(@), !.n = 0]
                     ELSE InjectDone
    /\ UNCHANGED <<cfg, buf, closed, stop, node, stats>>

\* close_inject: the nodes behind these channels have open ones too.
close_inject ==
    /\ main.pc = "close_inject"
    /\ closed' = [c \in DOMAIN closed |-> closed[c] \/ c \in ToSet(Injects)]
    /\ main' = [main EXCEPT !.pc = "drain"]
    /\ UNCHANGED <<cfg, buf, stop, node, stats>>

\* stop is set, then close_all.  Nothing is observed between the closes: a node
\* that sends in the meantime adds to a channel nobody reads any more.
close_all ==
    /\ main.pc = "stop"
    /\ \/ ~stop /\ stop' = TRUE /\ UNCHANGED <<closed, main>>
       \/ /\ stop
          /\ closed' = [c \in DOMAIN closed |-> TRUE]
          /\ main' = [main EXCEPT !.pc = "join"]
          /\ UNCHANGED stop
    /\ UNCHANGED <<cfg, buf, node, stats>>

path_ok(p) == stats[p].lost = 0 /\ stats[p].dup = 0 /\ stats[p].recv = stats[p].sent

\* The threads are joined and main returns 0 or 1.
join ==
    /\ main.pc = "join" /\ \A n \in Nodes : node[n].pc = "exit"
    /\ main' = [main EXCEPT !.pc = IF main.rc = 0 /\ \A p \in cfg.on : path_ok(p) THEN "exit 0" ELSE "exit 1"]
    /\ UNCHANGED <<cfg, buf, closed, stop, node, stats>>

------------------------------------------------------------------------------
NodeStep(n) == NodePoll(n) \/ NodeSend(n) \/ NodeExit(n)
MainStep == run_traffic \/ inject_packet \/ poll_done_try \/ drain \/ close_inject \/ close_all \/ join

Next == MainStep \/ \E n \in Nodes : NodeStep(n)

Spec == Init /\ [][Next]_vars

\* The scheduler runs every thread.
FairSpec == Spec /\ WF_vars(MainStep) /\ \A n \in Nodes : WF_vars(NodeStep(n))

------------------------------------------------------------------------------
(* Properties.                                                             *)

InFlight == (UNION {ToSet(buf[c]) : c \in DOMAIN buf}) \cup {node[n].pkt : n \in {m \in Nodes : node[m].pc = "send"}}

\* Every packet sent and not yet received is in flight once, none has been
\* received twice or out of order, whatever the nodes interleave.
NoLossNoDup ==
    \A p \in cfg.on :
        /\ stats[p].dup = 0 /\ stats[p].lost = 0
        /\ ~stop => {m.seq : m \in {x \in InFlight : x.path = p}} = stats[p].next_expected..(stats[p].sent - 1)

\* A completion has been through the nodes of its path, in their order.
RouteFollowsName ==
    \A i \in DOMAIN DonePorts : \A m \in ToSet(buf[DonePorts[i]]) : m.hops = PathName[m.path]

\* Main exits with 0 only after every packet it sent has been received and, in
\* a count run, as many were sent on each path as the command line asked for;
\* it exits with 1 only after a drain that timed out: the verdict never blames
\* the channels for what they delivered.
VerdictIsRight ==
    /\ main.pc = "exit 0" => \A p \in cfg.on : /\ stats[p].recv = stats[p].sent
                                               /\ ~cfg.timed => stats[p].sent = cfg.count
    /\ main.pc = "exit 1" => main.rc = -1

\* The program ends: main is never stuck in an injection, no node in a send.
Terminates == <>(main.pc \in {"exit 0", "exit 1"})
==============================================================================
