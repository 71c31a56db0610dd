---------------------------- MODULE Dplane_proofs ----------------------------
(***************************************************************************)
(* Proofs about the data-plane programs, for every set of command lines    *)
(* and every capacity: a completion has been through the nodes of its path *)
(* in their order, no packet is lost, duplicated or reordered on the way,  *)
(* and the exit code of main says so.                                      *)
(***************************************************************************)
EXTENDS Dplane, TLAPS

------------------------------------------------------------------------------
(* The inductive invariant.                                                *)

\* The channels of each path, with one channel per link.
RouteLinks == <<
    <<"inj_tun", "tun_to_forward", "forward_to_enc", "enc_to_tunnel", "done_tunnel">>,
    <<"inj_tunnel", "tunnel_to_enc", "enc_to_forward", "forward_to_tun", "done_tun">>,
    <<"inj_tunnel", "tunnel_to_forward", "forward_to_tun", "done_tun">>,
    <<"inj_tun", "tun_to_forward", "forward_to_tunnel", "done_tunnel">>,
    <<"inj_tunnel", "tunnel_to_forward", "forward_to_oam", "done_oam">>,
    <<"inj_oam", "oam_to_forward", "forward_to_tunnel", "done_tunnel">> >>

\* The channels of each path, with one inbox per node.
RouteInboxes == <<
    <<"in_tun", "in_forward", "in_enc", "in_tunnel", "in_done">>,
    <<"in_tunnel", "in_enc", "in_forward", "in_tun", "in_done">>,
    <<"in_tunnel", "in_forward", "in_tun", "in_done">>,
    <<"in_tun", "in_forward", "in_tunnel", "in_done">>,
    <<"in_tunnel", "in_forward", "in_oam", "in_done">>,
    <<"in_oam", "in_forward", "in_tunnel", "in_done">> >>

\* The channels a packet of path p goes through, the done channel last.
Route(p) == IF Linked THEN RouteLinks[p] ELSE RouteInboxes[p]

\* A packet; path 0 is that of NoPkt.
Packet == [path : 0..6, seq : Nat, hops : Seq(Nodes)]

\* Where a node sends to; "" before its first packet.
Target == ToSet(Channels) \cup {""}

\* The positions of main.
MainPc == {"more?", "inject", "done?", "drain", "close_inject", "stop", "join", "exit 0", "exit 1"}

\* The values the variables take.
TypeInv ==
    /\ cfg \in Configs
    /\ buf \in [ToSet(Channels) -> Seq(Packet)]
    /\ closed \in [ToSet(Channels) -> BOOLEAN]
    /\ stop \in BOOLEAN
    /\ node \in [Nodes -> [pc : {"poll", "send", "exit"}, pkt : Packet, to : Target]]
    /\ main \in [pc : MainPc, path : 0..6, n : Nat, i : 1..Len(DonePorts), back : {"inject", "drain"}, rc : {0, -1}]
    /\ stats \in [Paths -> [sent : Nat, recv : Nat, dup : Nat, lost : Nat, next_expected : Nat]]

\* The hops of m are the first nodes of its path, and c is where the path goes on.
OnRoute(m, c) ==
    /\ m.path \in cfg.on
    /\ Len(m.hops) <= Len(PathName[m.path])
    /\ \A i \in 1..Len(m.hops) : m.hops[i] = PathName[m.path][i]
    /\ c = Route(m.path)[Len(m.hops) + 1]

\* Every packet in a channel or in the hands of a node is on its route; a node
\* sends on what it has just stamped.
RouteInv ==
    /\ \A c \in DOMAIN buf : \A i \in 1..Len(buf[c]) : OnRoute(buf[c][i], c)
    /\ \A n \in Nodes : node[n].pc = "send" =>
          /\ OnRoute(node[n].pkt, node[n].to)
          /\ Len(node[n].pkt.hops) > 0 /\ node[n].pkt.hops[Len(node[n].pkt.hops)] = n

\* m has been sent and not yet received.
Due(m) == stats[m.path].next_expected <= m.seq /\ m.seq < stats[m.path].sent

\* Whatever is under way is due.
DueInv ==
    /\ \A c \in DOMAIN buf : \A i \in 1..Len(buf[c]) : Due(buf[c][i])
    /\ \A n \in Nodes : node[n].pc = "send" => Due(node[n].pkt)

\* Of two packets of one path, x was sent first.
Before(x, y) == x.path = y.path => x.seq < y.seq

\* x has been through more nodes than y.
Ahead(x, y) == Len(x.hops) > Len(y.hops)

\* The packets of a path are under way in the order they were sent in: those
\* further on first, those of one channel by their place in it, and those of a
\* channel before the one a node is about to put into it.
OrderInv ==
    /\ \A c, d \in DOMAIN buf : \A i \in 1..Len(buf[c]), j \in 1..Len(buf[d]) :
          Ahead(buf[c][i], buf[d][j]) \/ (c = d /\ i < j) => Before(buf[c][i], buf[d][j])
    /\ \A c \in DOMAIN buf : \A i \in 1..Len(buf[c]) : \A n \in Nodes : node[n].pc = "send" =>
          IF Ahead(node[n].pkt, buf[c][i]) THEN Before(node[n].pkt, buf[c][i]) ELSE Before(buf[c][i], node[n].pkt)
    /\ \A n, m \in Nodes : node[n].pc = "send" /\ node[m].pc = "send" /\ Ahead(node[n].pkt, node[m].pkt) =>
          Before(node[n].pkt, node[m].pkt)

\* Whatever is due is under way.
PresentInv ==
    \A p \in cfg.on : \A s \in stats[p].next_expected..(stats[p].sent - 1) :
        \/ \E c \in DOMAIN buf : \E i \in 1..Len(buf[c]) : buf[c][i].path = p /\ buf[c][i].seq = s
        \/ \E n \in Nodes : node[n].pc = "send" /\ node[n].pkt.path = p /\ node[n].pkt.seq = s

\* Once main has told the nodes to stop, packets may be dropped.
FlowInv == ~stop => DueInv /\ OrderInv /\ PresentInv

\* The counters of a path: nothing lost, nothing twice.
StatInv ==
    \A p \in Paths : /\ stats[p].dup = 0 /\ stats[p].lost = 0
                     /\ stats[p].recv = stats[p].next_expected /\ stats[p].recv <= stats[p].sent

\* Main has left its last drain.
Over == {"stop", "join", "exit 0", "exit 1"}

\* Main drains: one path, or in the end (path 0) all of them.
Draining == main.pc = "drain" \/ (main.pc = "done?" /\ main.back = "drain")

\* What a count run has sent: the count on every path it has left behind; on the
\* others as much as the passes of the loop behind it say, where main counts the
\* pass it is in.
SentInv ==
    ~cfg.timed =>
        /\ \A p \in cfg.on :
              /\ main.path = 0 => stats[p].sent = cfg.count
              /\ main.path # 0 /\ Sequential =>
                    /\ p < main.path => stats[p].sent = cfg.count
                    /\ p = main.path => stats[p].sent = IF main.pc = "inject" THEN main.n - 1 ELSE main.n
                    /\ p > main.path => stats[p].sent = 0
              /\ main.path # 0 /\ ~Sequential =>
                    stats[p].sent = IF p < main.path \/ (p = main.path /\ main.pc # "inject") \/ main.pc = "more?"
                                    THEN main.n ELSE main.n - 1
        /\ main.path # 0 /\ Draining => Sequential /\ main.n = cfg.count
        /\ main.pc = "more?" /\ ~Sequential => \A p \in cfg.on : main.path <= p

\* Main leaves the last drain without an error only when everything sent has been
\* received.
MainInv ==
    /\ main.path \in cfg.on \cup {0}
    /\ main.pc \in {"more?", "inject"} \/ (main.pc = "done?" /\ main.back = "inject") => main.path # 0
    /\ main.pc \notin Over => main.rc = 0
    /\ stop => main.pc \in Over
    /\ main.pc \in {"close_inject"} => main.path = 0
    /\ main.pc \in Over /\ main.rc = 0 => main.path = 0 /\ \A p \in cfg.on : stats[p].recv = stats[p].sent
    /\ main.pc = "exit 1" => main.rc = -1
    /\ main.pc = "exit 0" => main.rc = 0

\* Until main stops, only the inject channels are closed and every node runs.
CloseInv ==
    /\ ~stop => \A c \in DOMAIN closed : closed[c] => c \in ToSet(Injects)
    /\ ~stop => \A n \in Nodes : node[n].pc # "exit"

\* The inductive invariant.
Inv == TypeInv /\ RouteInv /\ FlowInv /\ StatInv /\ MainInv /\ SentInv /\ CloseInv

------------------------------------------------------------------------------
(* What the wiring tables say.                                             *)

\* The elements of a concatenation are those of its parts.
LEMMA ToSetConcat ==
    ASSUME NEW S, NEW s \in Seq(S), NEW t \in Seq(S)
    PROVE  ToSet(s \o t) = ToSet(s) \cup ToSet(t)
<1>1. Len(s \o t) = Len(s) + Len(t) /\ s \o t \in Seq(S)
  OBVIOUS
<1>2. \A i \in 1..Len(s) + Len(t) : (s \o t)[i] = IF i <= Len(s) THEN s[i] ELSE t[i - Len(s)]
  OBVIOUS
<1>3. ASSUME NEW x \in ToSet(s) PROVE x \in ToSet(s \o t)
  <2>1. PICK i \in DOMAIN s : x = s[i]
    BY <1>3 DEF ToSet
  <2>2. i \in 1..Len(s) + Len(t) /\ x = (s \o t)[i]
    BY <2>1, <1>2
  <2> QED
    BY <2>2, <1>1 DEF ToSet
<1>4. ASSUME NEW x \in ToSet(t) PROVE x \in ToSet(s \o t)
  <2>1. PICK i \in DOMAIN t : x = t[i]
    BY <1>4 DEF ToSet
  <2>2. i + Len(s) \in 1..Len(s) + Len(t) /\ x = (s \o t)[i + Len(s)]
    BY <2>1, <1>2
  <2> QED
    BY <2>2, <1>1 DEF ToSet
<1>5. ASSUME NEW x \in ToSet(s \o t) PROVE x \in ToSet(s) \cup ToSet(t)
  <2>1. PICK i \in DOMAIN (s \o t) : x = (s \o t)[i]
    BY <1>5 DEF ToSet
  <2>2. i \in 1..Len(s) + Len(t)
    BY <2>1, <1>1
  <2>3. CASE i <= Len(s)
    BY <2>1, <2>2, <2>3, <1>2 DEF ToSet
  <2>4. CASE ~(i <= Len(s))
    <3>1. i - Len(s) \in DOMAIN t /\ x = t[i - Len(s)]
      BY <2>1, <2>2, <2>4, <1>2
    <3> QED
      BY <3>1 DEF ToSet
  <2> QED
    BY <2>3, <2>4
<1> QED
  BY <1>3, <1>4, <1>5

\* The channels of each program, by name.
LEMMA ChannelNames ==
    ToSet(Channels) =
        IF Linked
        THEN {"tun_to_forward", "forward_to_enc", "enc_to_tunnel", "tunnel_to_enc", "enc_to_forward",
              "forward_to_tun", "tunnel_to_forward", "forward_to_oam", "oam_to_forward", "forward_to_tunnel",
              "inj_tun", "inj_tunnel", "inj_oam", "done_tun", "done_tunnel", "done_oam"}
        ELSE {"in_tun", "in_forward", "in_enc", "in_tunnel", "in_oam", "in_done"}
<1>1. ToSet(Links) = {"tun_to_forward", "forward_to_enc", "enc_to_tunnel", "tunnel_to_enc", "enc_to_forward",
              "forward_to_tun", "tunnel_to_forward", "forward_to_oam", "oam_to_forward", "forward_to_tunnel"}
  BY DEF ToSet, Links
<1>2. ToSet(Injects) = {"inj_tun", "inj_tunnel", "inj_oam"}
  BY DEF ToSet, Injects
<1>3. ToSet(Dones) = {"done_tun", "done_tunnel", "done_oam"}
  BY DEF ToSet, Dones
<1>4. ToSet(Inboxes) = {"in_tun", "in_forward", "in_enc", "in_tunnel", "in_oam", "in_done"}
  BY DEF ToSet, Inboxes
<1> DEFINE S == ToSet(Links) \cup ToSet(Injects) \cup ToSet(Dones)
<1>5. Links \in Seq(S) /\ Injects \in Seq(S) /\ Dones \in Seq(S)
  <2>1. Links \in Seq(S)
    BY <1>1 DEF Links
  <2>2. Injects \in Seq(S)
    BY <1>2 DEF Injects
  <2>3. Dones \in Seq(S)
    BY <1>3 DEF Dones
  <2> QED
    BY <2>1, <2>2, <2>3
<1>6. ToSet(Links \o Injects \o Dones) = ToSet(Links) \cup ToSet(Injects) \cup ToSet(Dones)
  <2> HIDE DEF S
  <2>1. ToSet(Links \o Injects) = ToSet(Links) \cup ToSet(Injects) /\ Links \o Injects \in Seq(S)
    BY <1>5, ToSetConcat
  <2>2. \A s, t \in Seq(S) : ToSet(s \o t) = ToSet(s) \cup ToSet(t)
    BY ToSetConcat
  <2>3. ToSet((Links \o Injects) \o Dones) = ToSet(Links \o Injects) \cup ToSet(Dones)
    BY <1>5, <2>1, <2>2
  <2> QED
    BY <2>1, <2>3
<1> QED
  BY <1>1, <1>2, <1>3, <1>4, <1>6 DEF Channels

\* The nodes of each path, one by one.
LEMMA PathTable ==
    ASSUME NEW p \in Paths
    PROVE  /\ PathName[p] \in Seq(Nodes)
           /\ p \in {1, 2} => Len(PathName[p]) = 4
           /\ p \notin {1, 2} => Len(PathName[p]) = 3
           /\ p = 1 => PathName[p][1] = "tun" /\ PathName[p][2] = "forward" /\ PathName[p][3] = "enc" /\ PathName[p][4] = "tunnel"
           /\ p = 2 => PathName[p][1] = "tunnel" /\ PathName[p][2] = "enc" /\ PathName[p][3] = "forward" /\ PathName[p][4] = "tun"
           /\ p = 3 => PathName[p][1] = "tunnel" /\ PathName[p][2] = "forward" /\ PathName[p][3] = "tun"
           /\ p = 4 => PathName[p][1] = "tun" /\ PathName[p][2] = "forward" /\ PathName[p][3] = "tunnel"
           /\ p = 5 => PathName[p][1] = "tunnel" /\ PathName[p][2] = "forward" /\ PathName[p][3] = "oam"
           /\ p = 6 => PathName[p][1] = "oam" /\ PathName[p][2] = "forward" /\ PathName[p][3] = "tunnel"
<1>0. p \in {1, 2, 3, 4, 5, 6}
  BY DEF Paths
<1>1. CASE p = 1
  <2>1. PathName[p] = <<"tun", "forward", "enc", "tunnel">>
    BY <1>1 DEF PathName
  <2>2. <<"tun", "forward", "enc", "tunnel">> \in Seq(Nodes)
    BY DEF Nodes
  <2> QED
    BY <1>1, <2>1, <2>2
<1>2. CASE p = 2
  <2>1. PathName[p] = <<"tunnel", "enc", "forward", "tun">>
    BY <1>2 DEF PathName
  <2>2. <<"tunnel", "enc", "forward", "tun">> \in Seq(Nodes)
    BY DEF Nodes
  <2> QED
    BY <1>2, <2>1, <2>2
<1>3. CASE p = 3
  <2>1. PathName[p] = <<"tunnel", "forward", "tun">>
    BY <1>3 DEF PathName
  <2>2. <<"tunnel", "forward", "tun">> \in Seq(Nodes)
    BY DEF Nodes
  <2> QED
    BY <1>3, <2>1, <2>2
<1>4. CASE p = 4
  <2>1. PathName[p] = <<"tun", "forward", "tunnel">>
    BY <1>4 DEF PathName
  <2>2. <<"tun", "forward", "tunnel">> \in Seq(Nodes)
    BY DEF Nodes
  <2> QED
    BY <1>4, <2>1, <2>2
<1>5. CASE p = 5
  <2>1. PathName[p] = <<"tunnel", "forward", "oam">>
    BY <1>5 DEF PathName
  <2>2. <<"tunnel", "forward", "oam">> \in Seq(Nodes)
    BY DEF Nodes
  <2> QED
    BY <1>5, <2>1, <2>2
<1>6. CASE p = 6
  <2>1. PathName[p] = <<"oam", "forward", "tunnel">>
    BY <1>6 DEF PathName
  <2>2. <<"oam", "forward", "tunnel">> \in Seq(Nodes)
    BY DEF Nodes
  <2> QED
    BY <1>6, <2>1, <2>2
<1> QED
  BY <1>0, <1>1, <1>2, <1>3, <1>4, <1>5, <1>6

\* The channels of each route with one channel per link, one by one.
LEMMA LinksTable ==
    ASSUME NEW p \in Paths, Linked
    PROVE  /\ p = 1 => Route(p)[1] = "inj_tun" /\ Route(p)[2] = "tun_to_forward" /\ Route(p)[3] = "forward_to_enc" /\ Route(p)[4] = "enc_to_tunnel" /\ Route(p)[5] = "done_tunnel"
           /\ p = 2 => Route(p)[1] = "inj_tunnel" /\ Route(p)[2] = "tunnel_to_enc" /\ Route(p)[3] = "enc_to_forward" /\ Route(p)[4] = "forward_to_tun" /\ Route(p)[5] = "done_tun"
           /\ p = 3 => Route(p)[1] = "inj_tunnel" /\ Route(p)[2] = "tunnel_to_forward" /\ Route(p)[3] = "forward_to_tun" /\ Route(p)[4] = "done_tun"
           /\ p = 4 => Route(p)[1] = "inj_tun" /\ Route(p)[2] = "tun_to_forward" /\ Route(p)[3] = "forward_to_tunnel" /\ Route(p)[4] = "done_tunnel"
           /\ p = 5 => Route(p)[1] = "inj_tunnel" /\ Route(p)[2] = "tunnel_to_forward" /\ Route(p)[3] = "forward_to_oam" /\ Route(p)[4] = "done_oam"
           /\ p = 6 => Route(p)[1] = "inj_oam" /\ Route(p)[2] = "oam_to_forward" /\ Route(p)[3] = "forward_to_tunnel" /\ Route(p)[4] = "done_tunnel"
BY DEF Paths, Route, RouteLinks

\* The channels of each route with one inbox per node, one by one.
LEMMA InboxesTable ==
    ASSUME NEW p \in Paths, ~Linked
    PROVE  /\ p = 1 => Route(p)[1] = "in_tun" /\ Route(p)[2] = "in_forward" /\ Route(p)[3] = "in_enc" /\ Route(p)[4] = "in_tunnel" /\ Route(p)[5] = "in_done"
           /\ p = 2 => Route(p)[1] = "in_tunnel" /\ Route(p)[2] = "in_enc" /\ Route(p)[3] = "in_forward" /\ Route(p)[4] = "in_tun" /\ Route(p)[5] = "in_done"
           /\ p = 3 => Route(p)[1] = "in_tunnel" /\ Route(p)[2] = "in_forward" /\ Route(p)[3] = "in_tun" /\ Route(p)[4] = "in_done"
           /\ p = 4 => Route(p)[1] = "in_tun" /\ Route(p)[2] = "in_forward" /\ Route(p)[3] = "in_tunnel" /\ Route(p)[4] = "in_done"
           /\ p = 5 => Route(p)[1] = "in_tunnel" /\ Route(p)[2] = "in_forward" /\ Route(p)[3] = "in_oam" /\ Route(p)[4] = "in_done"
           /\ p = 6 => Route(p)[1] = "in_oam" /\ Route(p)[2] = "in_forward" /\ Route(p)[3] = "in_tunnel" /\ Route(p)[4] = "in_done"
BY DEF Paths, Route, RouteInboxes

\* The nodes of a path are different.
LEMMA PathNames ==
    ASSUME NEW p \in Paths, NEW i \in 1..Len(PathName[p]), NEW j \in 1..Len(PathName[p]),
           PathName[p][i] = PathName[p][j]
    PROVE  i = j
<1>1. p \in {1, 2, 3, 4, 5, 6}
  BY DEF Paths
<1>2. CASE p \in {1, 2}
  <2>1. i \in {1, 2, 3, 4} /\ j \in {1, 2, 3, 4}
    BY <1>2, PathTable
  <2> QED
    BY <1>2, <2>1, PathTable
<1>3. CASE p \notin {1, 2}
  <2>1. i \in {1, 2, 3} /\ j \in {1, 2, 3}
    BY <1>3, PathTable
  <2> QED
    BY <1>1, <1>3, <2>1, PathTable
<1> QED
  BY <1>2, <1>3

\* The channels of a route are channels of the program, all different; only the
\* first is an inject channel and only the last a done channel.
LEMMA Routes ==
    ASSUME NEW p \in Paths, NEW i \in 1..(Len(PathName[p]) + 1)
    PROVE  /\ Route(p)[i] \in ToSet(Channels)
           /\ i > 1 => Route(p)[i] \notin ToSet(Injects)
           /\ \A j \in 1..(Len(PathName[p]) + 1) : Route(p)[i] = Route(p)[j] => i = j
           /\ \A k \in DOMAIN DonePorts : Route(p)[i] = DonePorts[k] => i = Len(PathName[p]) + 1
<1>0. ToSet(Injects) = {"inj_tun", "inj_tunnel", "inj_oam"}
  BY DEF ToSet, Injects
<1>1. p \in {1, 2, 3, 4, 5, 6}
  BY DEF Paths
<1>3. Len(PathName[p]) = IF p \in {1, 2} THEN 4 ELSE 3
  BY PathTable
<1>2. 1..(Len(PathName[p]) + 1) = IF p \in {1, 2} THEN {1, 2, 3, 4, 5} ELSE {1, 2, 3, 4}
  <2>1. CASE p \in {1, 2}
    BY <1>3, <2>1
  <2>2. CASE p \notin {1, 2}
    BY <1>3, <2>2
  <2> QED
    BY <2>1, <2>2
<1>4. ASSUME NEW k \in DOMAIN DonePorts
      PROVE  DonePorts[k] \in IF Linked THEN {"done_tun", "done_tunnel", "done_oam"} ELSE {"in_done"}
  BY DEF DonePorts, Dones
<1>5. CASE Linked
  <2> USE <1>1, <1>2, <1>3, <1>5
  <2>1. Route(p)[i] \in ToSet(Channels)
    BY LinksTable, ChannelNames
  <2>2. i > 1 => Route(p)[i] \notin ToSet(Injects)
    BY LinksTable, <1>0
  <2>3. ASSUME NEW j \in 1..(Len(PathName[p]) + 1), Route(p)[i] = Route(p)[j] PROVE i = j
    <3>1. CASE p = 1
      BY <2>3, <3>1, LinksTable
    <3>2. CASE p = 2
      BY <2>3, <3>2, LinksTable
    <3>3. CASE p = 3
      BY <2>3, <3>3, LinksTable
    <3>4. CASE p = 4
      BY <2>3, <3>4, LinksTable
    <3>5. CASE p = 5
      BY <2>3, <3>5, LinksTable
    <3>6. CASE p = 6
      BY <2>3, <3>6, LinksTable
    <3> QED
      BY <3>1, <3>2, <3>3, <3>4, <3>5, <3>6
  <2>4. ASSUME NEW k \in DOMAIN DonePorts, Route(p)[i] = DonePorts[k] PROVE i = Len(PathName[p]) + 1
    <3>1. CASE p = 1
      BY <1>4, <2>4, <3>1, LinksTable
    <3>2. CASE p = 2
      BY <1>4, <2>4, <3>2, LinksTable
    <3>3. CASE p = 3
      BY <1>4, <2>4, <3>3, LinksTable
    <3>4. CASE p = 4
      BY <1>4, <2>4, <3>4, LinksTable
    <3>5. CASE p = 5
      BY <1>4, <2>4, <3>5, LinksTable
    <3>6. CASE p = 6
      BY <1>4, <2>4, <3>6, LinksTable
    <3> QED
      BY <3>1, <3>2, <3>3, <3>4, <3>5, <3>6
  <2> QED
    BY <2>1, <2>2, <2>3, <2>4
<1>6. CASE ~Linked
  <2> USE <1>1, <1>2, <1>3, <1>6
  <2>1. Route(p)[i] \in ToSet(Channels)
    BY InboxesTable, ChannelNames
  <2>2. i > 1 => Route(p)[i] \notin ToSet(Injects)
    BY InboxesTable, <1>0
  <2>3. ASSUME NEW j \in 1..(Len(PathName[p]) + 1), Route(p)[i] = Route(p)[j] PROVE i = j
    <3>1. CASE p = 1
      BY <2>3, <3>1, InboxesTable
    <3>2. CASE p = 2
      BY <2>3, <3>2, InboxesTable
    <3>3. CASE p = 3
      BY <2>3, <3>3, InboxesTable
    <3>4. CASE p = 4
      BY <2>3, <3>4, InboxesTable
    <3>5. CASE p = 5
      BY <2>3, <3>5, InboxesTable
    <3>6. CASE p = 6
      BY <2>3, <3>6, InboxesTable
    <3> QED
      BY <3>1, <3>2, <3>3, <3>4, <3>5, <3>6
  <2>4. ASSUME NEW k \in DOMAIN DonePorts, Route(p)[i] = DonePorts[k] PROVE i = Len(PathName[p]) + 1
    <3>1. CASE p = 1
      BY <1>4, <2>4, <3>1, InboxesTable
    <3>2. CASE p = 2
      BY <1>4, <2>4, <3>2, InboxesTable
    <3>3. CASE p = 3
      BY <1>4, <2>4, <3>3, InboxesTable
    <3>4. CASE p = 4
      BY <1>4, <2>4, <3>4, InboxesTable
    <3>5. CASE p = 5
      BY <1>4, <2>4, <3>5, InboxesTable
    <3>6. CASE p = 6
      BY <1>4, <2>4, <3>6, InboxesTable
    <3> QED
      BY <3>1, <3>2, <3>3, <3>4, <3>5, <3>6
  <2> QED
    BY <2>1, <2>2, <2>3, <2>4
<1> QED
  BY <1>5, <1>6

\* Main injects at the head of the route.
LEMMA RouteStarts ==
    ASSUME NEW p \in Paths
    PROVE  InjectTo(p) = Route(p)[1]
<1>1. p \in {1, 2, 3, 4, 5, 6}
  BY DEF Paths
<1> QED
  BY <1>1 DEF Route, RouteLinks, RouteInboxes, InjectTo, inject_ch, inject_inbox

\* A node that finds a packet in a port is the next one of the packet's path,
\* and its handler sends the packet where the route goes on.
LEMMA RouteGoesOn ==
    ASSUME NEW n \in Nodes, NEW k \in DOMAIN Ports(n), NEW p \in Paths,
           NEW j \in 1..(Len(PathName[p]) + 1), Route(p)[j] = Ports(n)[k].from
    PROVE  /\ j <= Len(PathName[p]) /\ PathName[p][j] = n
           /\ Ports(n)[k].to[p] = Route(p)[j + 1]
<1>1. p \in {1, 2, 3, 4, 5, 6}
  BY DEF Paths
<1>3. Len(PathName[p]) = IF p \in {1, 2} THEN 4 ELSE 3
  BY PathTable
<1>2. 1..(Len(PathName[p]) + 1) = IF p \in {1, 2} THEN {1, 2, 3, 4, 5} ELSE {1, 2, 3, 4}
  <2>1. CASE p \in {1, 2}
    BY <1>3, <2>1
  <2>2. CASE p \notin {1, 2}
    BY <1>3, <2>2
  <2> QED
    BY <2>1, <2>2
<1>4. CASE Linked
  <2> USE <1>1, <1>2, <1>3, <1>4
  <2>1. CASE n = "tun"
    <3>1. k \in {1, 2}
      BY <2>1 DEF Ports, tun_node
    <3>2. CASE p \in {1, 2}
      BY <2>1, <3>1, <3>2, PathTable, LinksTable DEF Ports, Port, Paths, tun_node, handle_tun_inj, handle_tun_return, Always
    <3>3. CASE p \in {3, 4}
      BY <2>1, <3>1, <3>3, PathTable, LinksTable DEF Ports, Port, Paths, tun_node, handle_tun_inj, handle_tun_return, Always
    <3>4. CASE p \in {5, 6}
      BY <2>1, <3>1, <3>4, PathTable, LinksTable DEF Ports, Port, Paths, tun_node, handle_tun_inj, handle_tun_return, Always
    <3> QED
      BY <3>2, <3>3, <3>4
  <2>2. CASE n = "forward"
    <3>1. k \in {1, 2, 3, 4}
      BY <2>2 DEF Ports, forward_node
    <3>2. CASE p \in {1, 2}
      <4>1. CASE p = 1
        BY <2>2, <3>1, <4>1, PathTable, LinksTable DEF Ports, Port, Paths, forward_node, forward_try_recv, forward_route
      <4>2. CASE p = 2
        BY <2>2, <3>1, <4>2, PathTable, LinksTable DEF Ports, Port, Paths, forward_node, forward_try_recv, forward_route
      <4> QED
        BY <3>2, <4>1, <4>2
    <3>3. CASE p \in {3, 4}
      BY <2>2, <3>1, <3>3, PathTable, LinksTable DEF Ports, Port, Paths, forward_node, forward_try_recv, forward_route
    <3>4. CASE p \in {5, 6}
      BY <2>2, <3>1, <3>4, PathTable, LinksTable DEF Ports, Port, Paths, forward_node, forward_try_recv, forward_route
    <3> QED
      BY <3>2, <3>3, <3>4
  <2>3. CASE n = "enc"
    <3>1. k \in {1, 2}
      BY <2>3 DEF Ports, enc_node
    <3>2. CASE p \in {1, 2}
      BY <2>3, <3>1, <3>2, PathTable, LinksTable DEF Ports, Port, Paths, enc_node, handle_enc_pkt
    <3>3. CASE p \in {3, 4}
      BY <2>3, <3>1, <3>3, PathTable, LinksTable DEF Ports, Port, Paths, enc_node, handle_enc_pkt
    <3>4. CASE p \in {5, 6}
      BY <2>3, <3>1, <3>4, PathTable, LinksTable DEF Ports, Port, Paths, enc_node, handle_enc_pkt
    <3> QED
      BY <3>2, <3>3, <3>4
  <2>4. CASE n = "tunnel"
    <3>1. k \in {1, 2, 3}
      BY <2>4 DEF Ports, tunnel_node
    <3>2. CASE p \in {1, 2}
      <4>1. CASE p = 1
        BY <2>4, <3>1, <4>1, PathTable, LinksTable DEF Ports, Port, Paths, tunnel_node, tunnel_outbound, handle_tunnel_sink, Always
      <4>2. CASE p = 2
        BY <2>4, <3>1, <4>2, PathTable, LinksTable DEF Ports, Port, Paths, tunnel_node, tunnel_outbound, handle_tunnel_sink, Always
      <4> QED
        BY <3>2, <4>1, <4>2
    <3>3. CASE p \in {3, 4}
      BY <2>4, <3>1, <3>3, PathTable, LinksTable DEF Ports, Port, Paths, tunnel_node, tunnel_outbound, handle_tunnel_sink, Always
    <3>4. CASE p \in {5, 6}
      BY <2>4, <3>1, <3>4, PathTable, LinksTable DEF Ports, Port, Paths, tunnel_node, tunnel_outbound, handle_tunnel_sink, Always
    <3> QED
      BY <3>2, <3>3, <3>4
  <2>5. CASE n = "oam"
    <3>1. k \in {1, 2}
      BY <2>5 DEF Ports, oam_node
    <3>2. CASE p \in {1, 2}
      BY <2>5, <3>1, <3>2, PathTable, LinksTable DEF Ports, Port, Paths, oam_node, handle_oam_inj, handle_oam_return, Always
    <3>3. CASE p \in {3, 4}
      BY <2>5, <3>1, <3>3, PathTable, LinksTable DEF Ports, Port, Paths, oam_node, handle_oam_inj, handle_oam_return, Always
    <3>4. CASE p \in {5, 6}
      BY <2>5, <3>1, <3>4, PathTable, LinksTable DEF Ports, Port, Paths, oam_node, handle_oam_inj, handle_oam_return, Always
    <3> QED
      BY <3>2, <3>3, <3>4
  <2> QED
    BY <2>1, <2>2, <2>3, <2>4, <2>5 DEF Nodes
<1>5. CASE ~Linked
  <2> USE <1>1, <1>2, <1>3, <1>5
  <2>1. CASE n = "tun"
    <3>1. k = 1
      BY <2>1 DEF Ports
    <3>2. CASE p \in {1, 2}
      BY <2>1, <3>1, <3>2, PathTable, InboxesTable DEF Ports, Port, Paths, mpsc_tun_node, tun_pkt_forward, send_done
    <3>3. CASE p \in {3, 4}
      BY <2>1, <3>1, <3>3, PathTable, InboxesTable DEF Ports, Port, Paths, mpsc_tun_node, tun_pkt_forward, send_done
    <3>4. CASE p \in {5, 6}
      BY <2>1, <3>1, <3>4, PathTable, InboxesTable DEF Ports, Port, Paths, mpsc_tun_node, tun_pkt_forward, send_done
    <3> QED
      BY <3>2, <3>3, <3>4
  <2>2. CASE n = "forward"
    <3>1. k = 1
      BY <2>2 DEF Ports
    <3>2. CASE p \in {1, 2}
      BY <2>2, <3>1, <3>2, PathTable, InboxesTable DEF Ports, Port, Paths, mpsc_forward_node, mpsc_forward_route
    <3>3. CASE p \in {3, 4}
      BY <2>2, <3>1, <3>3, PathTable, InboxesTable DEF Ports, Port, Paths, mpsc_forward_node, mpsc_forward_route
    <3>4. CASE p \in {5, 6}
      BY <2>2, <3>1, <3>4, PathTable, InboxesTable DEF Ports, Port, Paths, mpsc_forward_node, mpsc_forward_route
    <3> QED
      BY <3>2, <3>3, <3>4
  <2>3. CASE n = "enc"
    <3>1. k = 1
      BY <2>3 DEF Ports
    <3>2. CASE p \in {1, 2}
      <4>1. CASE p = 1
        BY <2>3, <3>1, <4>1, PathTable, InboxesTable DEF Ports, Port, Paths, mpsc_enc_node, mpsc_handle_enc_pkt
      <4>2. CASE p = 2
        BY <2>3, <3>1, <4>2, PathTable, InboxesTable DEF Ports, Port, Paths, mpsc_enc_node, mpsc_handle_enc_pkt
      <4> QED
        BY <3>2, <4>1, <4>2
    <3>3. CASE p \in {3, 4}
      BY <2>3, <3>1, <3>3, PathTable, InboxesTable DEF Ports, Port, Paths, mpsc_enc_node, mpsc_handle_enc_pkt
    <3>4. CASE p \in {5, 6}
      BY <2>3, <3>1, <3>4, PathTable, InboxesTable DEF Ports, Port, Paths, mpsc_enc_node, mpsc_handle_enc_pkt
    <3> QED
      BY <3>2, <3>3, <3>4
  <2>4. CASE n = "tunnel"
    <3>1. k = 1
      BY <2>4 DEF Ports
    <3>2. CASE p \in {1, 2}
      <4>1. CASE p = 1
        BY <2>4, <3>1, <4>1, PathTable, InboxesTable DEF Ports, Port, Paths, mpsc_tunnel_node, mpsc_tunnel_outbound, tunnel_pkt_outbound, send_done
      <4>2. CASE p = 2
        BY <2>4, <3>1, <4>2, PathTable, InboxesTable DEF Ports, Port, Paths, mpsc_tunnel_node, mpsc_tunnel_outbound, tunnel_pkt_outbound, send_done
      <4> QED
        BY <3>2, <4>1, <4>2
    <3>3. CASE p \in {3, 4}
      BY <2>4, <3>1, <3>3, PathTable, InboxesTable DEF Ports, Port, Paths, mpsc_tunnel_node, mpsc_tunnel_outbound, tunnel_pkt_outbound, send_done
    <3>4. CASE p \in {5, 6}
      BY <2>4, <3>1, <3>4, PathTable, InboxesTable DEF Ports, Port, Paths, mpsc_tunnel_node, mpsc_tunnel_outbound, tunnel_pkt_outbound, send_done
    <3> QED
      BY <3>2, <3>3, <3>4
  <2>5. CASE n = "oam"
    <3>1. k = 1
      BY <2>5 DEF Ports
    <3>2. CASE p \in {1, 2}
      BY <2>5, <3>1, <3>2, PathTable, InboxesTable DEF Ports, Port, Paths, mpsc_oam_node, send_done
    <3>3. CASE p \in {3, 4}
      BY <2>5, <3>1, <3>3, PathTable, InboxesTable DEF Ports, Port, Paths, mpsc_oam_node, send_done
    <3>4. CASE p \in {5, 6}
      BY <2>5, <3>1, <3>4, PathTable, InboxesTable DEF Ports, Port, Paths, mpsc_oam_node, send_done
    <3> QED
      BY <3>2, <3>3, <3>4
  <2> QED
    BY <2>1, <2>2, <2>3, <2>4, <2>5 DEF Nodes
<1> QED
  BY <1>4, <1>5

\* Every port is a channel of the program, and every node has a port that main
\* does not inject into.
LEMMA PortNames ==
    ASSUME NEW n \in Nodes
    PROVE  /\ \A k \in DOMAIN Ports(n) : Ports(n)[k].from \in ToSet(Channels)
           /\ \E k \in DOMAIN Ports(n) : Ports(n)[k].from \notin ToSet(Injects)
<1>0. ToSet(Injects) = {"inj_tun", "inj_tunnel", "inj_oam"}
  BY DEF ToSet, Injects
<1>1. CASE Linked
  <2> USE <1>0, <1>1, ChannelNames DEF Port, Ports
  <2>1. CASE n = "tun"
    BY <2>1 DEF tun_node
  <2>2. CASE n = "forward"
    BY <2>2 DEF forward_node, forward_try_recv
  <2>3. CASE n = "enc"
    BY <2>3 DEF enc_node
  <2>4. CASE n = "tunnel"
    BY <2>4 DEF tunnel_node
  <2>5. CASE n = "oam"
    BY <2>5 DEF oam_node
  <2> QED
    BY <2>1, <2>2, <2>3, <2>4, <2>5 DEF Nodes
<1>2. CASE ~Linked
  BY <1>0, <1>2, ChannelNames DEF Port, Ports, Nodes
<1> QED
  BY <1>1, <1>2

------------------------------------------------------------------------------
(* Facts the steps share.                                                  *)

\* What the assumption on the command lines says of the one in use.
LEMMA ConfigFacts ==
    ASSUME cfg \in Configs
    PROVE  cfg.on \in (SUBSET Paths) \ {{}} /\ cfg.count \in Nat \ {0} /\ cfg.timed \in BOOLEAN
BY DplaneAssumption DEF Paths

\* The wiring does not change while the program runs.
LEMMA WiringFixed ==
    ASSUME cfg' = cfg
    PROVE  /\ Channels' = Channels /\ DonePorts' = DonePorts /\ Linked' = Linked
           /\ \A p : Route(p)' = Route(p)
BY DEF Channels, DonePorts, Route, Linked

\* A set of paths has a least one.
LEMMA LeastPath ==
    ASSUME NEW S \in SUBSET Paths, S # {}
    PROVE  \E p \in S : \A q \in S : p <= q
<1>1. \A q \in S : q \in {1, 2, 3, 4, 5, 6}
  BY DEF Paths
<1>2. CASE 1 \in S
  BY <1>1, <1>2
<1>3. CASE 1 \notin S /\ 2 \in S
  BY <1>1, <1>3
<1>4. CASE 1 \notin S /\ 2 \notin S /\ 3 \in S
  BY <1>1, <1>4
<1>5. CASE 1 \notin S /\ 2 \notin S /\ 3 \notin S /\ 4 \in S
  BY <1>1, <1>5
<1>6. CASE 1 \notin S /\ 2 \notin S /\ 3 \notin S /\ 4 \notin S
  BY <1>1, <1>6
<1> QED
  BY <1>2, <1>3, <1>4, <1>5, <1>6

\* The first path is an enabled one.
LEMMA FirstPathFacts ==
    ASSUME cfg \in Configs
    PROVE  FirstPath \in cfg.on /\ \A q \in cfg.on : FirstPath <= q
<1>1. \E p \in cfg.on : \A q \in cfg.on : p <= q
  BY ConfigFacts, LeastPath
<1> QED
  BY <1>1 DEF FirstPath

\* The next path is an enabled one, and none is passed over.
LEMMA NextPathFacts ==
    ASSUME cfg \in Configs, NEW p \in Paths, Later(p) # {}
    PROVE  NextPath(p) \in cfg.on /\ NextPath(p) > p /\ \A q \in cfg.on : q < NextPath(p) => q <= p
<1>0. cfg.on \in SUBSET Paths
  BY ConfigFacts
<1>1. Later(p) \in SUBSET Paths
  BY <1>0 DEF Later
<1>2. \E q \in Later(p) : \A r \in Later(p) : q <= r
  BY <1>1, LeastPath
<1>3. NextPath(p) \in Later(p) /\ \A r \in Later(p) : NextPath(p) <= r
  BY <1>2 DEF NextPath
<1>4. ASSUME NEW q \in cfg.on, q < NextPath(p), ~(q <= p) PROVE FALSE
  <2>1. q \in Int /\ p \in Int /\ NextPath(p) \in Int
    BY <1>0, <1>1, <1>3 DEF Paths
  <2>2. q \in Later(p)
    BY <1>4, <2>1 DEF Later
  <2> QED
    BY <1>3, <1>4, <2>1, <2>2
<1>5. NextPath(p) \in cfg.on /\ NextPath(p) > p
  BY <1>3 DEF Later
<1> QED
  BY <1>4, <1>5

\* The channel c0 loses its first packet.
Taken(c0) == buf[c0] # << >> /\ buf' = [buf EXCEPT ![c0] = Tail(@)]

\* Where a packet was before c0 lost its first one.
Was(c0, c, i) == IF c = c0 THEN i + 1 ELSE i

\* A take shifts one channel by one.
LEMMA TakenFacts ==
    ASSUME TypeInv, NEW c0 \in DOMAIN buf, Taken(c0)
    PROVE  /\ buf' \in [ToSet(Channels) -> Seq(Packet)] /\ DOMAIN buf' = DOMAIN buf
           /\ Head(buf[c0]) = buf[c0][1] /\ buf[c0][1] \in Packet /\ 1 \in 1..Len(buf[c0])
           /\ \A c \in DOMAIN buf : \A i \in 1..Len(buf'[c]) :
                 /\ Was(c0, c, i) \in 1..Len(buf[c]) /\ buf'[c][i] = buf[c][Was(c0, c, i)]
                 /\ c = c0 => Was(c0, c, i) > 1
           /\ \A c \in DOMAIN buf : \A j \in 1..Len(buf[c]) :
                 (c = c0 => j > 1) => \E i \in 1..Len(buf'[c]) : j = Was(c0, c, i)
<1>0. buf \in [ToSet(Channels) -> Seq(Packet)]
  BY DEF TypeInv
<1>1. buf[c0] \in Seq(Packet) /\ buf[c0] # << >>
  BY <1>0 DEF Taken
<1>2. Tail(buf[c0]) \in Seq(Packet) /\ Len(Tail(buf[c0])) = Len(buf[c0]) - 1 /\ Len(buf[c0]) \in Nat /\ Len(buf[c0]) > 0
  BY <1>1
<1>3. \A i \in 1..(Len(buf[c0]) - 1) : Tail(buf[c0])[i] = buf[c0][i + 1]
  BY <1>1, <1>2
<1>4. \A c \in DOMAIN buf : buf'[c] = IF c = c0 THEN Tail(buf[c0]) ELSE buf[c]
  BY <1>0 DEF Taken
<1>9. /\ Len(buf'[c0]) = Len(buf[c0]) - 1 /\ \A i \in 1..(Len(buf[c0]) - 1) : buf'[c0][i] = buf[c0][i + 1]
      /\ \A c \in DOMAIN buf : c # c0 => buf'[c] = buf[c]
  BY <1>2, <1>3, <1>4
<1>10. Len(buf[c0]) \in Nat
  BY <1>2
<1>5. buf' \in [ToSet(Channels) -> Seq(Packet)] /\ DOMAIN buf' = DOMAIN buf
  BY <1>0, <1>2 DEF Taken
<1>6. Head(buf[c0]) = buf[c0][1] /\ buf[c0][1] \in Packet /\ 1 \in 1..Len(buf[c0])
  BY <1>1, <1>2
<1>7. ASSUME NEW c \in DOMAIN buf, NEW i \in 1..Len(buf'[c])
      PROVE  /\ Was(c0, c, i) \in 1..Len(buf[c]) /\ buf'[c][i] = buf[c][Was(c0, c, i)]
             /\ c = c0 => Was(c0, c, i) > 1
  <2>1. CASE c = c0
    BY <1>9, <1>10, <1>7, <2>1 DEF Was
  <2>2. CASE c # c0
    BY <1>9, <1>7, <2>2 DEF Was
  <2> QED
    BY <2>1, <2>2
<1>8. ASSUME NEW c \in DOMAIN buf, NEW j \in 1..Len(buf[c]), c = c0 => j > 1
      PROVE  \E i \in 1..Len(buf'[c]) : j = Was(c0, c, i)
  <2>1. CASE c = c0
    <3>1. j - 1 \in 1..Len(buf'[c]) /\ j = Was(c0, c, j - 1)
      BY <1>9, <1>10, <1>8, <2>1 DEF Was
    <3> QED
      BY <3>1
  <2>2. CASE c # c0
    BY <1>4, <2>2 DEF Was
  <2> QED
    BY <2>1, <2>2
<1> QED
  BY <1>5, <1>6, <1>7, <1>8

\* A put adds one packet behind those of its channel.
LEMMA PutFacts ==
    ASSUME TypeInv, NEW c0 \in DOMAIN buf, NEW x \in Packet, Put(c0, x)
    PROVE  /\ buf' \in [ToSet(Channels) -> Seq(Packet)] /\ DOMAIN buf' = DOMAIN buf
           /\ \A c \in DOMAIN buf : \A i \in 1..Len(buf'[c]) :
                 \/ i \in 1..Len(buf[c]) /\ buf'[c][i] = buf[c][i]
                 \/ c = c0 /\ buf'[c][i] = x /\ (\A j \in 1..Len(buf'[c]) : j <= i) /\ \A j \in 1..Len(buf[c]) : j < i
           /\ \A c \in DOMAIN buf : \A i \in 1..Len(buf[c]) : i \in 1..Len(buf'[c]) /\ buf'[c][i] = buf[c][i]
           /\ \E i \in 1..Len(buf'[c0]) : buf'[c0][i] = x
<1>0. buf \in [ToSet(Channels) -> Seq(Packet)]
  BY DEF TypeInv
<1>1. buf[c0] \in Seq(Packet)
  BY <1>0
<1>2. /\ Append(buf[c0], x) \in Seq(Packet) /\ Len(Append(buf[c0], x)) = Len(buf[c0]) + 1 /\ Len(buf[c0]) \in Nat
      /\ Append(buf[c0], x)[Len(buf[c0]) + 1] = x
  BY <1>1
<1>3. \A i \in 1..Len(buf[c0]) : Append(buf[c0], x)[i] = buf[c0][i]
  BY <1>1, <1>2
<1>4. \A c \in DOMAIN buf : buf'[c] = IF c = c0 THEN Append(buf[c0], x) ELSE buf[c]
  BY <1>0 DEF Put
<1>9. /\ Len(buf'[c0]) = Len(buf[c0]) + 1 /\ \A i \in 1..Len(buf[c0]) : buf'[c0][i] = buf[c0][i]
      /\ buf'[c0][Len(buf[c0]) + 1] = x
      /\ \A c \in DOMAIN buf : c # c0 => buf'[c] = buf[c]
  BY <1>2, <1>3, <1>4
<1>10. Len(buf[c0]) \in Nat
  BY <1>2
<1>5. buf' \in [ToSet(Channels) -> Seq(Packet)] /\ DOMAIN buf' = DOMAIN buf
  BY <1>0, <1>2 DEF Put
<1>6. ASSUME NEW c \in DOMAIN buf, NEW i \in 1..Len(buf'[c])
      PROVE  \/ i \in 1..Len(buf[c]) /\ buf'[c][i] = buf[c][i]
             \/ c = c0 /\ buf'[c][i] = x /\ (\A j \in 1..Len(buf'[c]) : j <= i) /\ \A j \in 1..Len(buf[c]) : j < i
  <2>1. CASE c # c0
    BY <1>4, <2>1
  <2>2. CASE c = c0 /\ i \in 1..Len(buf[c0])
    BY <1>3, <1>4, <2>2
  <2>3. CASE c = c0 /\ i \notin 1..Len(buf[c0])
    <3>1. i = Len(buf[c0]) + 1
      BY <1>9, <1>10, <1>6, <2>3
    <3> QED
      BY <1>9, <1>10, <2>3, <3>1
  <2> QED
    BY <2>1, <2>2, <2>3
<1>7. ASSUME NEW c \in DOMAIN buf, NEW i \in 1..Len(buf[c]) PROVE i \in 1..Len(buf'[c]) /\ buf'[c][i] = buf[c][i]
  <2>1. CASE c = c0
    BY <1>9, <1>10, <1>7, <2>1
  <2>2. CASE c # c0
    BY <1>9, <1>7, <2>2
  <2> QED
    BY <2>1, <2>2
<1>8. \E i \in 1..Len(buf'[c0]) : buf'[c0][i] = x
  <2>1. Len(buf[c0]) + 1 \in 1..Len(buf'[c0])
    BY <1>9, <1>10
  <2> QED
    BY <1>9, <2>1
<1> QED
  BY <1>5, <1>6, <1>7, <1>8

\* What the type invariant says of the places of packets.
LEMMA PlaceTypes ==
    ASSUME TypeInv
    PROVE  /\ DOMAIN buf = ToSet(Channels)
           /\ \A c \in DOMAIN buf : \A i \in 1..Len(buf[c]) :
                 /\ buf[c][i] \in Packet /\ buf[c][i].seq \in Nat
                 /\ buf[c][i].hops \in Seq(Nodes) /\ Len(buf[c][i].hops) \in Nat
           /\ \A n \in Nodes : /\ node[n].pkt \in Packet /\ node[n].pkt.seq \in Nat
                               /\ node[n].pkt.hops \in Seq(Nodes) /\ Len(node[n].pkt.hops) \in Nat
           /\ \A p \in Paths : stats[p].sent \in Nat /\ stats[p].next_expected \in Nat
<1>1. \A x \in Packet : x.seq \in Nat /\ x.hops \in Seq(Nodes) /\ Len(x.hops) \in Nat
  BY DEF Packet
<1>2. \A c \in DOMAIN buf : \A i \in 1..Len(buf[c]) : buf[c][i] \in Packet
  BY DEF TypeInv
<1>3. \A n \in Nodes : node[n].pkt \in Packet
  BY DEF TypeInv
<1>4. DOMAIN buf = ToSet(Channels) /\ \A p \in Paths : stats[p].sent \in Nat /\ stats[p].next_expected \in Nat
  BY DEF TypeInv
<1> QED
  BY <1>1, <1>2, <1>3, <1>4

\* The invariants other than the order of packets, after a step that changes the
\* channels' contents and one node only.
LEMMA NodeStepMain ==
    ASSUME MainInv, SentInv, StatInv, UNCHANGED <<cfg, stop, main, stats>>
    PROVE  MainInv' /\ SentInv' /\ StatInv'
<1>1. SentInv'
  BY DEF SentInv, Sequential, Draining
<1>2. MainInv' /\ StatInv'
  BY DEF MainInv, StatInv
<1> QED
  BY <1>1, <1>2

\* What a poll does: node n takes m from channel c and is about to send x to t.
Polled(n, c, m, x, t) ==
    /\ c \in DOMAIN buf /\ Taken(c) /\ m = buf[c][1]
    /\ x \in Packet /\ x.path = m.path /\ x.seq = m.seq /\ x.path \in Paths
    /\ Len(x.hops) = Len(m.hops) + 1 /\ x.hops = Append(m.hops, n)
    /\ Len(m.hops) + 1 \in 1..Len(PathName[x.path]) /\ PathName[x.path][Len(m.hops) + 1] = n
    /\ t = Route(x.path)[Len(x.hops) + 1] /\ t \in Target
    /\ node[n].pc = "poll" /\ node'[n] = [pc |-> "send", to |-> t, pkt |-> x]
    /\ node' \in [Nodes -> [pc : {"poll", "send", "exit"}, pkt : Packet, to : Target]]
    /\ \A o \in Nodes : o # n => node'[o] = node[o]

\* A poll has this shape.
LEMMA PollShape ==
    ASSUME TypeInv, RouteInv, NEW n \in Nodes, NodePoll(n)
    PROVE  \E c, m, x, t : Polled(n, c, m, x, t)
<1>1. PICK k \in DOMAIN Ports(n) :
          /\ buf[Ports(n)[k].from] # << >>
          /\ node' = [node EXCEPT ![n] = [pc |-> "send", to |-> Ports(n)[k].to[Head(buf[Ports(n)[k].from]).path],
                                          pkt |-> [Head(buf[Ports(n)[k].from]) EXCEPT !.hops = Append(@, n)]]]
          /\ buf' = [buf EXCEPT ![Ports(n)[k].from] = Tail(@)]
  BY DEF NodePoll
<1>2. PICK c : c = Ports(n)[k].from
  OBVIOUS
<1>3. c \in DOMAIN buf /\ Taken(c)
  BY <1>1, <1>2, PortNames, PlaceTypes DEF Taken
<1>4. PICK m : m = buf[c][1]
  OBVIOUS
<1>5. Head(buf[c]) = m /\ m \in Packet /\ 1 \in 1..Len(buf[c])
  BY <1>3, <1>4, TakenFacts
<1>6. OnRoute(m, c)
  BY <1>3, <1>4, <1>5 DEF RouteInv
<1>7. PICK x : x = [m EXCEPT !.hops = Append(@, n)]
  OBVIOUS
<1>8. m.hops \in Seq(Nodes) /\ m.path \in Paths /\ Len(m.hops) \in Nat
  <2>1. cfg.on \in SUBSET Paths
    BY ConfigFacts DEF TypeInv
  <2> QED
    BY <1>5, <1>6, <2>1 DEF Packet, OnRoute
<1>9. x \in Packet /\ x.path = m.path /\ x.seq = m.seq /\ Len(x.hops) = Len(m.hops) + 1 /\ x.hops = Append(m.hops, n)
  <2>1. PICK h : h = Append(m.hops, n)
    OBVIOUS
  <2>2. h \in Seq(Nodes) /\ Len(h) = Len(m.hops) + 1
    BY <1>8, <2>1
  <2>3. x = [m EXCEPT !.hops = h]
    BY <1>7, <2>1
  <2>4. x \in Packet /\ x.path = m.path /\ x.seq = m.seq /\ x.hops = h
    BY <1>5, <2>2, <2>3 DEF Packet
  <2> QED
    BY <2>1, <2>2, <2>4
<1>10. Len(PathName[m.path]) \in Nat
  BY <1>8, PathTable
<1>11. Len(m.hops) + 1 \in 1..(Len(PathName[m.path]) + 1) /\ Route(m.path)[Len(m.hops) + 1] = Ports(n)[k].from
  BY <1>2, <1>6, <1>8, <1>10 DEF OnRoute
<1>12. /\ Len(m.hops) + 1 <= Len(PathName[m.path]) /\ PathName[m.path][Len(m.hops) + 1] = n
       /\ Ports(n)[k].to[m.path] = Route(m.path)[Len(m.hops) + 1 + 1]
  BY <1>8, <1>11, RouteGoesOn
<1>13. PICK t : t = Ports(n)[k].to[m.path]
  OBVIOUS
<1>14. t = Route(x.path)[Len(x.hops) + 1]
  BY <1>9, <1>12, <1>13
<1>15. t \in Target
  <2>1. Len(m.hops) + 1 + 1 \in 1..(Len(PathName[m.path]) + 1)
    BY <1>8, <1>10, <1>12
  <2> QED
    BY <1>8, <1>12, <1>13, <2>1, Routes DEF Target
<1>16. node' = [node EXCEPT ![n] = [pc |-> "send", to |-> t, pkt |-> x]]
  BY <1>1, <1>2, <1>5, <1>7, <1>13
<1>17. node \in [Nodes -> [pc : {"poll", "send", "exit"}, pkt : Packet, to : Target]]
  BY DEF TypeInv
<1>18. /\ node'[n] = [pc |-> "send", to |-> t, pkt |-> x] /\ \A o \in Nodes : o # n => node'[o] = node[o]
       /\ node' \in [Nodes -> [pc : {"poll", "send", "exit"}, pkt : Packet, to : Target]]
  BY <1>9, <1>15, <1>16, <1>17
<1>19. Polled(n, c, m, x, t)
  BY <1>3, <1>4, <1>8, <1>9, <1>10, <1>12, <1>14, <1>15, <1>18 DEF Polled, NodePoll
<1> QED
  BY <1>19

\* A poll keeps every packet on its route.
LEMMA PollRoute ==
    ASSUME TypeInv, RouteInv, NEW n \in Nodes, NEW c0, NEW m, NEW x, NEW t, Polled(n, c0, m, x, t), cfg' = cfg
    PROVE  RouteInv'
<1>1. c0 \in DOMAIN buf /\ Taken(c0) /\ m = buf[c0][1]
  BY DEF Polled
<1>2. \A y, c : OnRoute(y, c)' = OnRoute(y, c)
  BY WiringFixed DEF OnRoute
<1>3. ASSUME NEW c \in DOMAIN buf, NEW i \in 1..Len(buf'[c]) PROVE OnRoute(buf'[c][i], c)
  <2>1. Was(c0, c, i) \in 1..Len(buf[c]) /\ buf'[c][i] = buf[c][Was(c0, c, i)]
    BY <1>1, <1>3, TakenFacts
  <2> QED
    BY <2>1 DEF RouteInv
<1>4. OnRoute(m, c0) /\ m.hops \in Seq(Nodes) /\ Len(m.hops) \in Nat
  <2>1. 1 \in 1..Len(buf[c0])
    BY <1>1, TakenFacts
  <2> QED
    BY <1>1, <2>1, PlaceTypes DEF RouteInv
<1>5. OnRoute(x, t) /\ Len(x.hops) > 0 /\ x.hops[Len(x.hops)] = n
  <2>1. /\ x.path = m.path /\ x.hops = Append(m.hops, n) /\ Len(x.hops) = Len(m.hops) + 1 /\ x.path \in Paths
        /\ Len(m.hops) + 1 \in 1..Len(PathName[x.path]) /\ PathName[x.path][Len(m.hops) + 1] = n
        /\ t = Route(x.path)[Len(x.hops) + 1]
    BY DEF Polled
  <2>2. x.hops[Len(m.hops) + 1] = n /\ \A i \in 1..Len(m.hops) : x.hops[i] = m.hops[i]
    BY <1>4, <2>1
  <2>3. \A i \in 1..Len(m.hops) : m.hops[i] = PathName[x.path][i]
    BY <1>4, <2>1 DEF OnRoute
  <2>4. \A i \in 1..(Len(m.hops) + 1) : x.hops[i] = PathName[x.path][i]
    BY <1>4, <2>1, <2>2, <2>3
  <2>5. m.path \in cfg.on /\ Len(PathName[x.path]) \in Nat
    BY <1>4, <2>1, PathTable DEF OnRoute
  <2>6. Len(x.hops) <= Len(PathName[x.path]) /\ Len(x.hops) > 0
    BY <1>4, <2>1, <2>5
  <2> QED
    BY <2>1, <2>2, <2>4, <2>5, <2>6 DEF OnRoute
<1>6. ASSUME NEW o \in Nodes, node'[o].pc = "send"
      PROVE  /\ OnRoute(node'[o].pkt, node'[o].to)
             /\ Len(node'[o].pkt.hops) > 0 /\ node'[o].pkt.hops[Len(node'[o].pkt.hops)] = o
  <2>1. CASE o = n
    <3>1. node'[n].pkt = x /\ node'[n].to = t
      BY DEF Polled
    <3> QED
      BY <1>5, <2>1, <3>1
  <2>2. CASE o # n
    <3>1. node'[o] = node[o]
      BY <2>2 DEF Polled
    <3> QED
      BY <1>6, <3>1 DEF RouteInv
  <2> QED
    BY <2>1, <2>2
<1>7. DOMAIN buf' = DOMAIN buf
  BY <1>1, TakenFacts
<1> QED
  BY <1>2, <1>3, <1>6, <1>7 DEF RouteInv

\* Two packets of a path that have made as many hops are on the same channel.
LEMMA SameHopsSameChannel ==
    ASSUME NEW x, NEW y, NEW c, NEW d, OnRoute(x, c), OnRoute(y, d), x.path = y.path, Len(x.hops) = Len(y.hops)
    PROVE  c = d
BY DEF OnRoute

\* Two packets of a path on the same channel have made as many hops.
LEMMA SameChannelSameHops ==
    ASSUME TypeInv, NEW x \in Packet, NEW y \in Packet, NEW c, OnRoute(x, c), OnRoute(y, c), x.path = y.path
    PROVE  Len(x.hops) = Len(y.hops)
<1>1. x.path \in Paths
  <2>1. cfg.on \in SUBSET Paths
    BY ConfigFacts DEF TypeInv
  <2> QED
    BY <2>1 DEF OnRoute
<1>2. Len(x.hops) \in Nat /\ Len(y.hops) \in Nat /\ Len(PathName[x.path]) \in Nat
  BY <1>1, PathTable DEF Packet
<1>3. /\ Len(x.hops) + 1 \in 1..(Len(PathName[x.path]) + 1) /\ Len(y.hops) + 1 \in 1..(Len(PathName[x.path]) + 1)
      /\ Route(x.path)[Len(x.hops) + 1] = Route(x.path)[Len(y.hops) + 1]
  BY <1>2 DEF OnRoute
<1>4. Len(x.hops) + 1 = Len(y.hops) + 1
  BY <1>1, <1>3, Routes
<1> QED
  BY <1>2, <1>4

\* A poll keeps the order of the packets of a path.
LEMMA PollOrder ==
    ASSUME TypeInv, RouteInv, OrderInv, NEW n \in Nodes, NEW c0, NEW m, NEW x, NEW t, Polled(n, c0, m, x, t)
    PROVE  OrderInv'
<1>1. c0 \in DOMAIN buf /\ Taken(c0) /\ m = buf[c0][1] /\ 1 \in 1..Len(buf[c0]) /\ DOMAIN buf' = DOMAIN buf
  BY TakenFacts DEF Polled
<1>2. x.path = m.path /\ x.seq = m.seq /\ Len(x.hops) = Len(m.hops) + 1 /\ Len(m.hops) \in Nat /\ m.seq \in Nat
  BY <1>1, PlaceTypes DEF Polled
<1>3. node'[n].pkt = x /\ \A o \in Nodes : o # n => node'[o] = node[o]
  BY DEF Polled
<1>4. ASSUME NEW c \in DOMAIN buf, NEW i \in 1..Len(buf'[c])
      PROVE  Was(c0, c, i) \in 1..Len(buf[c]) /\ buf'[c][i] = buf[c][Was(c0, c, i)] /\ (c = c0 => Was(c0, c, i) > 1)
  BY <1>1, <1>4, TakenFacts
<1>5. ASSUME NEW c \in DOMAIN buf, NEW d \in DOMAIN buf, NEW i \in 1..Len(buf'[c]), NEW j \in 1..Len(buf'[d]),
             Ahead(buf'[c][i], buf'[d][j]) \/ (c = d /\ i < j)
      PROVE  Before(buf'[c][i], buf'[d][j])
  <2>1. c = d /\ i < j => Was(c0, c, i) < Was(c0, d, j)
    BY <1>5 DEF Was
  <2>2. /\ Was(c0, c, i) \in 1..Len(buf[c]) /\ buf'[c][i] = buf[c][Was(c0, c, i)]
        /\ Was(c0, d, j) \in 1..Len(buf[d]) /\ buf'[d][j] = buf[d][Was(c0, d, j)]
    BY <1>4, <1>5
  <2> QED
    BY <1>5, <2>1, <2>2 DEF OrderInv
<1>6. ASSUME NEW c \in DOMAIN buf, NEW i \in 1..Len(buf'[c]), NEW o \in Nodes, node'[o].pc = "send"
      PROVE  IF Ahead(node'[o].pkt, buf'[c][i]) THEN Before(node'[o].pkt, buf'[c][i]) ELSE Before(buf'[c][i], node'[o].pkt)
  <2>1. PICK w : w = Was(c0, c, i)
    OBVIOUS
  <2>2. w \in 1..Len(buf[c]) /\ buf'[c][i] = buf[c][w] /\ (c = c0 => w > 1)
    BY <1>4, <1>6, <2>1
  <2>3. CASE o # n
    <3>1. node'[o] = node[o]
      BY <1>3, <2>3
    <3> QED
      BY <1>6, <2>2, <3>1 DEF OrderInv
  <2>4. CASE o = n
    <3>1. PICK y : y = buf[c][w]
      OBVIOUS
    <3>2. Len(y.hops) \in Nat /\ y \in Packet /\ OnRoute(y, c) /\ OnRoute(m, c0)
      BY <1>1, <2>2, <3>1, PlaceTypes DEF RouteInv
    <3>3. /\ Ahead(m, y) \/ (c = c0 /\ 1 < w) => Before(m, y)
          /\ Ahead(y, m) => Before(y, m)
      BY <1>1, <2>2, <3>1 DEF OrderInv
    <3>4. CASE Ahead(x, y)
      <4>4. Before(x, y)
        <5>1. CASE Ahead(m, y)
          BY <1>2, <3>3, <5>1 DEF Before
        <5>2. CASE ~Ahead(m, y) /\ m.path = y.path
          <6>1. Len(m.hops) = Len(y.hops)
            BY <1>2, <3>2, <3>4, <5>2 DEF Ahead
          <6>2. c = c0
            BY <3>2, <5>2, <6>1, SameHopsSameChannel
          <6> QED
            BY <1>2, <2>2, <3>3, <6>2 DEF Before
        <5>3. CASE m.path # y.path
          BY <1>2, <5>3 DEF Before
        <5> QED
          BY <5>1, <5>2, <5>3
      <4> QED
        BY <1>3, <2>2, <2>4, <3>1, <3>4, <4>4
    <3>5. CASE ~Ahead(x, y)
      <4>1. Ahead(y, m)
        BY <1>2, <3>2, <3>5 DEF Ahead
      <4>2. Before(y, x)
        BY <1>2, <3>3, <4>1 DEF Before
      <4> QED
        BY <1>3, <2>2, <2>4, <3>1, <3>5, <4>2
    <3> QED
      BY <3>4, <3>5
  <2> QED
    BY <2>3, <2>4
<1>7. ASSUME NEW o \in Nodes, NEW q \in Nodes, node'[o].pc = "send", node'[q].pc = "send", Ahead(node'[o].pkt, node'[q].pkt)
      PROVE  Before(node'[o].pkt, node'[q].pkt)
  <2>1. ASSUME NEW r \in Nodes, node[r].pc = "send"
        PROVE  /\ Len(node[r].pkt.hops) \in Nat
               /\ Ahead(node[r].pkt, m) => Before(node[r].pkt, m)
               /\ ~Ahead(node[r].pkt, m) => Before(m, node[r].pkt)
    BY <1>1, <2>1, PlaceTypes DEF OrderInv
  <2>2. CASE o = n /\ q = n
    BY <1>2, <1>3, <1>7, <2>2 DEF Ahead
  <2>3. CASE o = n /\ q # n
    <3>1. node'[q] = node[q] /\ node'[o].pkt = x
      BY <1>3, <2>3
    <3>2. ~Ahead(node[q].pkt, m)
      BY <1>2, <1>7, <2>1, <3>1 DEF Ahead
    <3> QED
      BY <1>2, <1>7, <2>1, <3>1, <3>2 DEF Before
  <2>4. CASE o # n /\ q = n
    <3>1. node'[o] = node[o] /\ node'[q].pkt = x
      BY <1>3, <2>4
    <3>2. Ahead(node[o].pkt, m)
      BY <1>2, <1>7, <2>1, <3>1 DEF Ahead
    <3> QED
      BY <1>2, <1>7, <2>1, <3>1, <3>2 DEF Before
  <2>5. CASE o # n /\ q # n
    BY <1>3, <1>7, <2>5 DEF OrderInv
  <2> QED
    BY <2>2, <2>3, <2>4, <2>5
<1>8. \A y, z : Ahead(y, z)' = Ahead(y, z) /\ Before(y, z)' = Before(y, z)
  BY DEF Ahead, Before
<1> QED
  BY <1>1, <1>5, <1>6, <1>7, <1>8 DEF OrderInv

\* A poll keeps every packet due, and every due packet present.
LEMMA PollDue ==
    ASSUME TypeInv, DueInv, PresentInv, NEW n \in Nodes, NEW c0, NEW m, NEW x, NEW t, Polled(n, c0, m, x, t),
           UNCHANGED <<cfg, stats>>
    PROVE  DueInv' /\ PresentInv'
<1>1. c0 \in DOMAIN buf /\ Taken(c0) /\ m = buf[c0][1] /\ 1 \in 1..Len(buf[c0]) /\ DOMAIN buf' = DOMAIN buf
  BY TakenFacts DEF Polled
<1>2. x.path = m.path /\ x.seq = m.seq /\ node[n].pc = "poll"
  BY DEF Polled
<1>3. node'[n].pkt = x /\ node'[n].pc = "send" /\ \A o \in Nodes : o # n => node'[o] = node[o]
  BY DEF Polled
<1>4. \A y : Due(y)' = Due(y)
  BY DEF Due
<1>5. ASSUME NEW c \in DOMAIN buf, NEW i \in 1..Len(buf'[c]) PROVE Due(buf'[c][i])
  <2>1. Was(c0, c, i) \in 1..Len(buf[c]) /\ buf'[c][i] = buf[c][Was(c0, c, i)]
    BY <1>1, <1>5, TakenFacts
  <2> QED
    BY <2>1 DEF DueInv
<1>6. Due(x)
  BY <1>1, <1>2 DEF DueInv, Due
<1>7. ASSUME NEW o \in Nodes, node'[o].pc = "send" PROVE Due(node'[o].pkt)
  BY <1>3, <1>6, <1>7 DEF DueInv
<1>8. DueInv'
  BY <1>1, <1>4, <1>5, <1>7 DEF DueInv
<1>9. ASSUME NEW p \in cfg.on, NEW s \in stats[p].next_expected..(stats[p].sent - 1)
      PROVE  \/ \E c \in DOMAIN buf : \E i \in 1..Len(buf'[c]) : buf'[c][i].path = p /\ buf'[c][i].seq = s
             \/ \E o \in Nodes : node'[o].pc = "send" /\ node'[o].pkt.path = p /\ node'[o].pkt.seq = s
  <2>1. CASE \E c \in DOMAIN buf : \E i \in 1..Len(buf[c]) : buf[c][i].path = p /\ buf[c][i].seq = s
    <3>0. PICK c \in DOMAIN buf : \E i \in 1..Len(buf[c]) : buf[c][i].path = p /\ buf[c][i].seq = s
      BY <2>1
    <3>1. PICK j \in 1..Len(buf[c]) : buf[c][j].path = p /\ buf[c][j].seq = s
      BY <3>0
    <3>2. CASE c = c0 /\ j = 1
      BY <1>1, <1>2, <1>3, <3>1, <3>2
    <3>3. CASE ~(c = c0 /\ j = 1)
      <4>1. PICK i \in 1..Len(buf'[c]) : j = Was(c0, c, i)
        BY <1>1, <3>3, TakenFacts
      <4>2. buf'[c][i] = buf[c][j]
        BY <1>1, <4>1, TakenFacts
      <4> QED
        BY <3>1, <4>2
    <3> QED
      BY <3>2, <3>3
  <2>2. CASE \E o \in Nodes : node[o].pc = "send" /\ node[o].pkt.path = p /\ node[o].pkt.seq = s
    BY <1>2, <1>3, <2>2
  <2> QED
    BY <1>9, <2>1, <2>2 DEF PresentInv
<1> QED
  BY <1>1, <1>8, <1>9 DEF PresentInv

\* A poll keeps the invariant.
LEMMA PollKeeps ==
    ASSUME Inv, NEW n \in Nodes, NodePoll(n)
    PROVE  Inv'
<1>0. TypeInv /\ RouteInv /\ FlowInv /\ StatInv /\ MainInv /\ SentInv /\ CloseInv /\ UNCHANGED <<cfg, closed, stop, main, stats>>
  BY DEF Inv, NodePoll
<1>1. PICK c, m, x, t : Polled(n, c, m, x, t)
  BY <1>0, PollShape
<1>2. RouteInv'
  BY <1>0, <1>1, PollRoute
<1>3. FlowInv'
  BY <1>0, <1>1, PollOrder, PollDue DEF FlowInv
<1>4. StatInv' /\ MainInv' /\ SentInv'
  BY <1>0, NodeStepMain
<1>5. CloseInv'
  <2>1. \A o \in Nodes : node[o].pc # "exit" => node'[o].pc # "exit"
    BY <1>1 DEF Polled
  <2> QED
    BY <1>0, <2>1 DEF CloseInv
<1>6. TypeInv'
  <2>1. Channels' = Channels /\ DonePorts' = DonePorts /\ Target' = Target
    BY <1>0, WiringFixed DEF Target
  <2>2. buf' \in [ToSet(Channels) -> Seq(Packet)]
    BY <1>0, <1>1, TakenFacts DEF Polled
  <2>3. node' \in [Nodes -> [pc : {"poll", "send", "exit"}, pkt : Packet, to : Target]]
    BY <1>1 DEF Polled
  <2> QED
    BY <1>0, <2>1, <2>2, <2>3 DEF TypeInv
<1> QED
  BY <1>2, <1>3, <1>4, <1>5, <1>6 DEF Inv

\* What a node does that has handed a packet on.
Rested(n) ==
    /\ node[n].pc = "send" /\ node'[n].pc = "poll" /\ \A o \in Nodes : o # n => node'[o] = node[o]
    /\ node' \in [Nodes -> [pc : {"poll", "send", "exit"}, pkt : Packet, to : Target]]

\* A send has this shape; the channel is one of the program's, and open unless
\* main has stopped.
LEMMA SendShape ==
    ASSUME TypeInv, RouteInv, CloseInv, NEW n \in Nodes, NodeSend(n)
    PROVE  /\ Rested(n) /\ node[n].pkt \in Packet /\ OnRoute(node[n].pkt, node[n].to)
           /\ node[n].pkt.path \in Paths /\ node[n].to \in DOMAIN buf /\ (~stop => ~closed[node[n].to])
<1>1. node \in [Nodes -> [pc : {"poll", "send", "exit"}, pkt : Packet, to : Target]] /\ cfg.on \in SUBSET Paths
  BY ConfigFacts DEF TypeInv
<1>2. Idle \in [pc : {"poll", "send", "exit"}, pkt : Packet, to : Target] /\ Idle.pc = "poll"
  <2>1. NoPkt \in Packet
    BY DEF NoPkt, Packet
  <2>2. "" \in Target
    BY DEF Target
  <2> QED
    BY <2>1, <2>2 DEF Idle
<1>3. node' = [node EXCEPT ![n] = Idle] /\ node[n].pc = "send"
  BY DEF NodeSend
<1>4. Rested(n) /\ node[n].pkt \in Packet
  <2>1. PICK i : i = Idle
    OBVIOUS
  <2>2. node' = [node EXCEPT ![n] = i] /\ i \in [pc : {"poll", "send", "exit"}, pkt : Packet, to : Target] /\ i.pc = "poll"
    BY <1>2, <1>3, <2>1
  <2> QED
    BY <1>1, <1>3, <2>2 DEF Rested
<1>5. PICK x : x = node[n].pkt
  OBVIOUS
<1>6. OnRoute(x, node[n].to) /\ Len(x.hops) > 0
  BY <1>3, <1>5 DEF RouteInv
<1>7. x.path \in Paths
  BY <1>1, <1>6 DEF OnRoute
<1>8. Len(PathName[x.path]) \in Nat /\ Len(x.hops) \in Nat
  BY <1>4, <1>5, <1>7, PathTable DEF Packet
<1>9. Len(x.hops) + 1 \in 1..(Len(PathName[x.path]) + 1) /\ Len(x.hops) + 1 > 1 /\ node[n].to = Route(x.path)[Len(x.hops) + 1]
  BY <1>6, <1>8 DEF OnRoute
<1>10. node[n].to \in ToSet(Channels) /\ node[n].to \notin ToSet(Injects)
  BY <1>7, <1>9, Routes
<1>11. DOMAIN buf = ToSet(Channels) /\ DOMAIN closed = ToSet(Channels)
  BY DEF TypeInv
<1>12. ~stop => ~closed[node[n].to]
  BY <1>10, <1>11 DEF CloseInv
<1> QED
  BY <1>4, <1>5, <1>6, <1>7, <1>10, <1>11, <1>12

\* A send keeps every packet on its route.
LEMMA SendRoute ==
    ASSUME TypeInv, RouteInv, NEW n \in Nodes, Rested(n), NEW x \in Packet, NEW c0 \in DOMAIN buf, OnRoute(x, c0), cfg' = cfg,
           Put(c0, x) \/ buf' = buf
    PROVE  RouteInv'
<1>1. \A y, c : OnRoute(y, c)' = OnRoute(y, c)
  BY WiringFixed DEF OnRoute
<1>2. DOMAIN buf' = DOMAIN buf
  BY PutFacts
<1>3. ASSUME NEW c \in DOMAIN buf, NEW i \in 1..Len(buf'[c]) PROVE OnRoute(buf'[c][i], c)
  <2>1. CASE Put(c0, x)
    <3>1. (i \in 1..Len(buf[c]) /\ buf'[c][i] = buf[c][i]) \/ (c = c0 /\ buf'[c][i] = x)
      BY <1>3, <2>1, PutFacts
    <3> QED
      BY <3>1 DEF RouteInv
  <2>2. CASE buf' = buf
    BY <1>3, <2>2 DEF RouteInv
  <2> QED
    BY <2>1, <2>2
<1>4. ASSUME NEW o \in Nodes, node'[o].pc = "send" PROVE o # n /\ node'[o] = node[o]
  BY <1>4 DEF Rested
<1> QED
  BY <1>1, <1>2, <1>3, <1>4 DEF RouteInv

\* A send keeps the order of the packets of a path.
LEMMA SendOrder ==
    ASSUME TypeInv, RouteInv, OrderInv, NEW n \in Nodes, Rested(n), NEW x \in Packet, x = node[n].pkt, x.path \in Paths,
           NEW c0 \in DOMAIN buf, OnRoute(x, c0), Put(c0, x)
    PROVE  OrderInv'
<1>1. DOMAIN buf' = DOMAIN buf /\ node[n].pc = "send" /\ Len(x.hops) \in Nat /\ x.seq \in Nat
  BY PutFacts DEF Rested, Packet
<1>2. ASSUME NEW c \in DOMAIN buf, NEW i \in 1..Len(buf'[c])
      PROVE  \/ i \in 1..Len(buf[c]) /\ buf'[c][i] = buf[c][i]
             \/ c = c0 /\ buf'[c][i] = x /\ (\A j \in 1..Len(buf'[c]) : j <= i) /\ \A j \in 1..Len(buf[c]) : j < i
  BY <1>2, PutFacts
<1>3. ASSUME NEW c \in DOMAIN buf, NEW i \in 1..Len(buf[c])
      PROVE  /\ buf[c][i] \in Packet /\ Len(buf[c][i].hops) \in Nat
             /\ Ahead(x, buf[c][i]) => Before(x, buf[c][i])
             /\ ~Ahead(x, buf[c][i]) => Before(buf[c][i], x)
  BY <1>1, <1>3, PlaceTypes DEF OrderInv
<1>4. ASSUME NEW o \in Nodes, node'[o].pc = "send" PROVE o # n /\ node'[o] = node[o]
  BY <1>4 DEF Rested
<1>5. ASSUME NEW c \in DOMAIN buf, NEW d \in DOMAIN buf, NEW i \in 1..Len(buf'[c]), NEW j \in 1..Len(buf'[d]),
             Ahead(buf'[c][i], buf'[d][j]) \/ (c = d /\ i < j)
      PROVE  Before(buf'[c][i], buf'[d][j])
  <2>1. CASE /\ i \in 1..Len(buf[c]) /\ buf'[c][i] = buf[c][i]
             /\ j \in 1..Len(buf[d]) /\ buf'[d][j] = buf[d][j]
    BY <1>5, <2>1 DEF OrderInv
  <2>2. CASE i \in 1..Len(buf[c]) /\ buf'[c][i] = buf[c][i] /\ d = c0 /\ buf'[d][j] = x
    <3>1. PICK y : y = buf[c][i]
      OBVIOUS
    <3>2. y \in Packet /\ Len(y.hops) \in Nat /\ OnRoute(y, c) /\ (~Ahead(x, y) => Before(y, x))
      BY <1>3, <2>2, <3>1 DEF RouteInv
    <3>3. CASE Ahead(y, x)
      BY <1>1, <2>2, <3>1, <3>2, <3>3 DEF Ahead
    <3>4. CASE c = c0 /\ y.path = x.path
      <4>1. Len(y.hops) = Len(x.hops)
        BY <3>2, <3>4, SameChannelSameHops
      <4> QED
        BY <1>1, <2>2, <3>1, <3>2, <4>1 DEF Ahead
    <3>5. CASE y.path # x.path
      BY <2>2, <3>1, <3>5 DEF Before
    <3> QED
      BY <1>5, <2>2, <3>1, <3>3, <3>4, <3>5
  <2>3. CASE c = c0 /\ buf'[c][i] = x /\ (\A k \in 1..Len(buf'[c]) : k <= i) /\ j \in 1..Len(buf[d]) /\ buf'[d][j] = buf[d][j]
    <3>1. ~(c = d /\ i < j)
      BY <1>5, <2>3
    <3> QED
      BY <1>3, <1>5, <2>3, <3>1
  <2>4. CASE c = c0 /\ buf'[c][i] = x /\ (\A k \in 1..Len(buf'[c]) : k <= i) /\ d = c0 /\ buf'[d][j] = x
    <3>1. ~(i < j)
      BY <1>5, <2>4
    <3> QED
      BY <1>1, <1>5, <2>4, <3>1 DEF Ahead
  <2> QED
    BY <1>2, <1>5, <2>1, <2>2, <2>3, <2>4
<1>6. ASSUME NEW c \in DOMAIN buf, NEW i \in 1..Len(buf'[c]), NEW o \in Nodes, node'[o].pc = "send"
      PROVE  IF Ahead(node'[o].pkt, buf'[c][i]) THEN Before(node'[o].pkt, buf'[c][i]) ELSE Before(buf'[c][i], node'[o].pkt)
  <2>0. o # n /\ node'[o] = node[o] /\ node[o].pc = "send"
    BY <1>4, <1>6
  <2>1. CASE i \in 1..Len(buf[c]) /\ buf'[c][i] = buf[c][i]
    BY <2>0, <2>1 DEF OrderInv
  <2>2. CASE buf'[c][i] = x
    <3>1. PICK y : y = node[o].pkt
      OBVIOUS
    <3>2. y \in Packet /\ Len(y.hops) \in Nat /\ OnRoute(y, node[o].to) /\ Len(y.hops) > 0 /\ y.hops[Len(y.hops)] = o
      BY <2>0, <3>1, PlaceTypes DEF RouteInv
    <3>3. (Ahead(y, x) => Before(y, x)) /\ (Ahead(x, y) => Before(x, y))
      BY <1>1, <2>0, <3>1 DEF OrderInv
    <3>4. CASE Ahead(y, x)
      BY <2>0, <2>2, <3>1, <3>3, <3>4
    <3>5. CASE ~Ahead(y, x)
      <4>1. Before(x, y)
        <5>1. CASE Ahead(x, y)
          BY <3>3, <5>1
        <5>2. CASE ~Ahead(x, y) /\ x.path = y.path
          <6>1. Len(x.hops) = Len(y.hops)
            BY <1>1, <3>2, <3>5, <5>2 DEF Ahead
          <6>2. x.hops[Len(x.hops)] = n /\ Len(x.hops) > 0
            BY <1>1 DEF RouteInv
          <6>3. PathName[x.path][Len(x.hops)] = n
            <7>1. Len(x.hops) \in 1..Len(x.hops)
              BY <1>1, <6>2
            <7>2. \A h \in 1..Len(x.hops) : x.hops[h] = PathName[x.path][h]
              BY DEF OnRoute
            <7> QED
              BY <6>2, <7>1, <7>2
          <6>4. PathName[x.path][Len(x.hops)] = o
            BY <3>2, <5>2, <6>1 DEF OnRoute
          <6> QED
            BY <2>0, <6>3, <6>4
        <5>3. CASE x.path # y.path
          BY <5>3 DEF Before
        <5> QED
          BY <5>1, <5>2, <5>3
      <4> QED
        BY <2>0, <2>2, <3>1, <3>5, <4>1
    <3> QED
      BY <3>4, <3>5
  <2> QED
    BY <1>2, <1>6, <2>1, <2>2
<1>7. ASSUME NEW o \in Nodes, NEW q \in Nodes, node'[o].pc = "send", node'[q].pc = "send", Ahead(node'[o].pkt, node'[q].pkt)
      PROVE  Before(node'[o].pkt, node'[q].pkt)
  BY <1>4, <1>7 DEF OrderInv
<1>8. \A y, z : Ahead(y, z)' = Ahead(y, z) /\ Before(y, z)' = Before(y, z)
  BY DEF Ahead, Before
<1> QED
  BY <1>1, <1>5, <1>6, <1>7, <1>8 DEF OrderInv

\* A send keeps every packet due, and every due packet present.
LEMMA SendDue ==
    ASSUME TypeInv, DueInv, PresentInv, NEW n \in Nodes, Rested(n), NEW x \in Packet, x = node[n].pkt,
           NEW c0 \in DOMAIN buf, Put(c0, x), UNCHANGED <<cfg, stats>>
    PROVE  DueInv' /\ PresentInv'
<1>1. DOMAIN buf' = DOMAIN buf /\ node[n].pc = "send" /\ \E i \in 1..Len(buf'[c0]) : buf'[c0][i] = x
  BY PutFacts DEF Rested
<1>2. \A y : Due(y)' = Due(y)
  BY DEF Due
<1>3. ASSUME NEW o \in Nodes, node'[o].pc = "send" PROVE o # n /\ node'[o] = node[o]
  BY <1>3 DEF Rested
<1>4. ASSUME NEW c \in DOMAIN buf, NEW i \in 1..Len(buf'[c]) PROVE Due(buf'[c][i])
  <2>1. (i \in 1..Len(buf[c]) /\ buf'[c][i] = buf[c][i]) \/ buf'[c][i] = x
    BY <1>4, PutFacts
  <2> QED
    BY <1>1, <2>1 DEF DueInv
<1>5. DueInv'
  BY <1>1, <1>2, <1>3, <1>4 DEF DueInv
<1>6. ASSUME NEW p \in cfg.on, NEW s \in stats[p].next_expected..(stats[p].sent - 1)
      PROVE  \/ \E c \in DOMAIN buf : \E i \in 1..Len(buf'[c]) : buf'[c][i].path = p /\ buf'[c][i].seq = s
             \/ \E o \in Nodes : node'[o].pc = "send" /\ node'[o].pkt.path = p /\ node'[o].pkt.seq = s
  <2>1. CASE \E c \in DOMAIN buf : \E i \in 1..Len(buf[c]) : buf[c][i].path = p /\ buf[c][i].seq = s
    <3>1. PICK c \in DOMAIN buf : \E i \in 1..Len(buf[c]) : buf[c][i].path = p /\ buf[c][i].seq = s
      BY <2>1
    <3>2. PICK i \in 1..Len(buf[c]) : buf[c][i].path = p /\ buf[c][i].seq = s
      BY <3>1
    <3>3. i \in 1..Len(buf'[c]) /\ buf'[c][i] = buf[c][i]
      BY PutFacts
    <3> QED
      BY <3>2, <3>3
  <2>2. CASE \E o \in Nodes : node[o].pc = "send" /\ node[o].pkt.path = p /\ node[o].pkt.seq = s
    <3>1. PICK o \in Nodes : node[o].pc = "send" /\ node[o].pkt.path = p /\ node[o].pkt.seq = s
      BY <2>2
    <3>2. CASE o = n
      BY <1>1, <3>1, <3>2
    <3>3. CASE o # n
      BY <3>1, <3>3 DEF Rested
    <3> QED
      BY <3>2, <3>3
  <2> QED
    BY <1>6, <2>1, <2>2 DEF PresentInv
<1> QED
  BY <1>1, <1>5, <1>6 DEF PresentInv

\* A send keeps the invariant.
LEMMA SendKeeps ==
    ASSUME Inv, NEW n \in Nodes, NodeSend(n)
    PROVE  Inv'
<1>0. TypeInv /\ RouteInv /\ FlowInv /\ StatInv /\ MainInv /\ SentInv /\ CloseInv /\ UNCHANGED <<cfg, closed, stop, main, stats>>
  BY DEF Inv, NodeSend
<1>1. PICK x, c : x = node[n].pkt /\ c = node[n].to
  OBVIOUS
<1>2. /\ Rested(n) /\ x \in Packet /\ OnRoute(x, c) /\ x.path \in Paths /\ c \in DOMAIN buf
      /\ ~stop => ~closed[c]
  BY <1>0, <1>1, SendShape
<1>3. (stop /\ buf' = buf) \/ Put(c, x)
  BY <1>1, <1>2 DEF NodeSend
<1>4. RouteInv'
  BY <1>0, <1>2, <1>3, SendRoute
<1>5. FlowInv'
  BY <1>0, <1>1, <1>2, <1>3, SendOrder, SendDue DEF FlowInv
<1>6. StatInv' /\ MainInv' /\ SentInv'
  BY <1>0, NodeStepMain
<1>7. CloseInv'
  <2>1. \A o \in Nodes : node[o].pc # "exit" => node'[o].pc # "exit"
    BY <1>2 DEF Rested
  <2> QED
    BY <1>0, <2>1 DEF CloseInv
<1>8. TypeInv'
  <2>1. Channels' = Channels /\ DonePorts' = DonePorts /\ Target' = Target
    BY <1>0, WiringFixed DEF Target
  <2>2. buf' \in [ToSet(Channels) -> Seq(Packet)]
    BY <1>0, <1>2, <1>3, PutFacts DEF TypeInv
  <2>3. node' \in [Nodes -> [pc : {"poll", "send", "exit"}, pkt : Packet, to : Target]]
    BY <1>2 DEF Rested
  <2> QED
    BY <1>0, <2>1, <2>2, <2>3 DEF TypeInv
<1> QED
  BY <1>4, <1>5, <1>6, <1>7, <1>8 DEF Inv

\* A node leaves once main has stopped: until then a port of it is open.
LEMMA ExitKeeps ==
    ASSUME Inv, NEW n \in Nodes, NodeExit(n)
    PROVE  Inv'
<1>0. /\ TypeInv /\ RouteInv /\ FlowInv /\ StatInv /\ MainInv /\ SentInv /\ CloseInv /\ UNCHANGED <<cfg, buf, closed, stop, main, stats>>
      /\ node[n].pc = "poll" /\ node' = [node EXCEPT ![n].pc = "exit"]
  BY DEF Inv, NodeExit
<1>1. stop
  <2>1. SUFFICES ASSUME ~stop PROVE FALSE
    OBVIOUS
  <2>2. PICK k \in DOMAIN Ports(n) : Ports(n)[k].from \notin ToSet(Injects)
    BY PortNames
  <2>3. closed[Ports(n)[k].from] /\ Ports(n)[k].from \in ToSet(Channels)
    BY <2>1, PortNames DEF NodeExit
  <2>4. DOMAIN closed = ToSet(Channels)
    BY <1>0 DEF TypeInv
  <2> QED
    BY <1>0, <2>1, <2>2, <2>3, <2>4 DEF CloseInv
<1>2. node \in [Nodes -> [pc : {"poll", "send", "exit"}, pkt : Packet, to : Target]]
  BY <1>0 DEF TypeInv
<1>3. /\ node' \in [Nodes -> [pc : {"poll", "send", "exit"}, pkt : Packet, to : Target]]
      /\ node'[n].pc = "exit" /\ \A o \in Nodes : o # n => node'[o] = node[o]
  BY <1>0, <1>2
<1>4. \A y, c : OnRoute(y, c)' = OnRoute(y, c)
  BY <1>0, WiringFixed DEF OnRoute
<1>5. RouteInv'
  BY <1>0, <1>3, <1>4 DEF RouteInv
<1>6. FlowInv' /\ CloseInv'
  BY <1>0, <1>1 DEF FlowInv, CloseInv
<1>7. StatInv' /\ MainInv' /\ SentInv'
  BY <1>0, NodeStepMain
<1>8. TypeInv'
  <2>1. Channels' = Channels /\ DonePorts' = DonePorts /\ Target' = Target
    BY <1>0, WiringFixed DEF Target
  <2> QED
    BY <1>0, <1>3, <2>1 DEF TypeInv
<1> QED
  BY <1>5, <1>6, <1>7, <1>8 DEF Inv

------------------------------------------------------------------------------
(* The steps of main.                                                      *)

\* The record of main, whatever its position.
MainState == [pc : MainPc, path : 0..6, n : Nat, i : 1..Len(DonePorts), back : {"inject", "drain"}, rc : {0, -1}]

\* Where main goes when the injection of every path is over.
Finish(m) ==
    /\ m \in MainState /\ m.pc \in {"drain", "close_inject"} /\ m.path = 0 /\ m.rc = main.rc

\* The injection of every path is over.
LEMMA InjectDoneMoves ==
    ASSUME TypeInv
    PROVE  Finish(InjectDone)
<1>1. main \in MainState /\ 1 \in 1..Len(DonePorts)
  BY DEF TypeInv, MainState, DonePorts, Dones
<1>2. PICK q \in {"drain", "close_inject"} : q = IF Linked THEN "close_inject" ELSE "drain"
  OBVIOUS
<1>3. PICK m : m = InjectDone
  OBVIOUS
<1>4. m = [main EXCEPT !.pc = q, !.path = 0, !.i = 1]
  BY <1>2, <1>3 DEF InjectDone
<1>5. m.pc = q /\ m.path = 0 /\ m.rc = main.rc
  BY <1>1, <1>4 DEF MainState
<1>6. q \in MainPc /\ 0 \in 0..6
  BY <1>2 DEF MainPc
<1>7. m \in MainState
  BY <1>1, <1>4, <1>6 DEF MainState
<1> QED
  BY <1>2, <1>3, <1>5, <1>7 DEF Finish

\* The order of the paths of a run does not change, and a path is a number.
LEMMA OrderFixed ==
    ASSUME TypeInv, MainInv, cfg' = cfg
    PROVE  /\ Sequential' = Sequential /\ cfg.on \in SUBSET Paths /\ main.path \in 0..6 /\ main.n \in Nat /\ cfg.count \in Nat
           /\ \A p \in Paths : p \in 1..6 /\ stats[p].sent \in Nat
BY ConfigFacts DEF Sequential, TypeInv, MainInv, Paths

\* Between injections and outside the loop's test, what has been sent stays.
LEMMA SentKept ==
    ASSUME TypeInv, MainInv, SentInv, cfg' = cfg, \A p \in Paths : stats'[p].sent = stats[p].sent,
           main'.path = main.path, main'.n = main.n, main.pc \notin {"inject", "more?"}, main'.pc \notin {"inject", "more?"},
           main.path # 0 /\ Draining' => Draining
    PROVE  SentInv'
<1>1. /\ Sequential' = Sequential /\ cfg.on \in SUBSET Paths /\ main.path \in 0..6 /\ main.n \in Nat /\ cfg.count \in Nat
      /\ \A p \in Paths : p \in 1..6 /\ stats[p].sent \in Nat
  BY OrderFixed
<1>2. \A p \in cfg.on : stats'[p].sent = stats[p].sent
  BY <1>1
<1> QED
  BY <1>1, <1>2 DEF SentInv

\* Once every path has been served, the count has been sent on each of them.
LEMMA SentFinished ==
    ASSUME TypeInv, MainInv, SentInv, UNCHANGED <<cfg, stats>>, ~stop', main.rc = 0, Finish(main'),
           \/ main.pc = "more?" /\ ~Sequential /\ FALSE \in More
           \/ main.pc = "drain" /\ main.path # 0 /\ Later(main.path) = {}
    PROVE  MainInv' /\ SentInv'
<1>1. /\ Sequential' = Sequential /\ cfg.on \in SUBSET Paths /\ main.path \in 0..6 /\ main.n \in Nat /\ cfg.count \in Nat
      /\ \A p \in Paths : p \in 1..6 /\ stats[p].sent \in Nat
  BY OrderFixed
<1>2. main'.pc \in {"drain", "close_inject"} /\ main'.path = 0 /\ main'.rc = 0
  BY DEF Finish
<1>3. MainInv'
  BY <1>2 DEF MainInv, Over
<1>4. ~cfg.timed => \A p \in cfg.on : stats[p].sent = cfg.count
  <2>1. CASE main.pc = "more?" /\ ~Sequential /\ FALSE \in More
    <3>1. ~cfg.timed => main.n = cfg.count
      BY <2>1 DEF More
    <3>2. main.path # 0
      BY <2>1 DEF MainInv
    <3> QED
      BY <2>1, <3>1, <3>2 DEF SentInv
  <2>2. CASE main.pc = "drain" /\ main.path # 0 /\ Later(main.path) = {}
    <3>1. \A p \in cfg.on : p < main.path \/ p = main.path
      BY <1>1, <2>2 DEF Later
    <3>2. ~cfg.timed => Sequential /\ main.n = cfg.count
      BY <2>2 DEF SentInv, Draining
    <3> QED
      BY <2>2, <3>1, <3>2 DEF SentInv
  <2> QED
    BY <2>1, <2>2
<1> QED
  BY <1>2, <1>3, <1>4 DEF SentInv

\* An injection keeps every packet on its route, due and in order.
LEMMA InjectFlow ==
    ASSUME TypeInv, RouteInv, StatInv, NEW p \in Paths, p \in cfg.on,
           NEW x \in Packet, x.path = p, x.seq = stats[p].sent, x.hops = << >>,
           NEW c0 \in DOMAIN buf, c0 = Route(p)[1], Put(c0, x), UNCHANGED <<cfg, node>>,
           stats' = [stats EXCEPT ![p].sent = @ + 1]
    PROVE  RouteInv' /\ (DueInv /\ OrderInv /\ PresentInv => DueInv' /\ OrderInv' /\ PresentInv')
<1>1. DOMAIN buf' = DOMAIN buf /\ Len(x.hops) = 0 /\ x.seq \in Nat /\ \E i \in 1..Len(buf'[c0]) : buf'[c0][i] = x
  <2>1. Len(x.hops) = 0 /\ x.seq \in Nat
    BY DEF Packet
  <2>2. DOMAIN buf' = DOMAIN buf /\ \E i \in 1..Len(buf'[c0]) : buf'[c0][i] = x
    BY PutFacts
  <2> QED
    BY <2>1, <2>2
<1>2. ASSUME NEW c \in DOMAIN buf, NEW i \in 1..Len(buf'[c])
      PROVE  \/ i \in 1..Len(buf[c]) /\ buf'[c][i] = buf[c][i]
             \/ c = c0 /\ buf'[c][i] = x /\ (\A j \in 1..Len(buf'[c]) : j <= i)
  BY <1>2, PutFacts
<1>3. \A y, c : OnRoute(y, c)' = OnRoute(y, c)
  BY WiringFixed DEF OnRoute
<1>4. OnRoute(x, c0)
  <2>1. Len(PathName[p]) \in Nat
    BY PathTable
  <2> QED
    BY <1>1, <2>1 DEF OnRoute
<1>5. RouteInv'
  <2>1. ASSUME NEW c \in DOMAIN buf, NEW i \in 1..Len(buf'[c]) PROVE OnRoute(buf'[c][i], c)
    BY <1>2, <1>4, <2>1 DEF RouteInv
  <2> QED
    BY <1>1, <1>3, <2>1 DEF RouteInv
<1>6. /\ stats'[p].sent = stats[p].sent + 1 /\ stats'[p].next_expected = stats[p].next_expected
      /\ \A q \in Paths : q # p => stats'[q] = stats[q]
  BY DEF TypeInv
<1>7. stats[p].sent \in Nat /\ stats[p].next_expected \in Nat /\ stats[p].next_expected <= stats[p].sent
  BY PlaceTypes DEF StatInv
<1>8. SUFFICES ASSUME DueInv, OrderInv, PresentInv PROVE DueInv' /\ OrderInv' /\ PresentInv'
  BY <1>5
<1>9. ASSUME NEW c \in DOMAIN buf, NEW i \in 1..Len(buf[c])
      PROVE  buf[c][i].path \in Paths /\ buf[c][i].seq \in Nat /\ Due(buf[c][i]) /\ Len(buf[c][i].hops) \in Nat
  <2>1. cfg.on \in SUBSET Paths
    BY ConfigFacts DEF TypeInv
  <2> QED
    BY <1>8, <1>9, <2>1, PlaceTypes DEF DueInv, RouteInv, OnRoute
<1>10. ASSUME NEW o \in Nodes, node[o].pc = "send"
       PROVE  /\ node[o].pkt.path \in Paths /\ node[o].pkt.seq \in Nat /\ Due(node[o].pkt)
              /\ Len(node[o].pkt.hops) \in Nat /\ Len(node[o].pkt.hops) > 0
  <2>1. cfg.on \in SUBSET Paths
    BY ConfigFacts DEF TypeInv
  <2> QED
    BY <1>8, <1>10, <2>1, PlaceTypes DEF DueInv, RouteInv, OnRoute
<1>11. ASSUME NEW y, y.path \in Paths, y.seq \in Nat, Due(y) \/ y = x
       PROVE  stats'[y.path].next_expected <= y.seq /\ y.seq < stats'[y.path].sent
  BY <1>6, <1>7, <1>11 DEF Due
<1>12. DueInv'
  <2>1. ASSUME NEW c \in DOMAIN buf, NEW i \in 1..Len(buf'[c]), NEW y, y = buf'[c][i]
        PROVE  stats'[y.path].next_expected <= y.seq /\ y.seq < stats'[y.path].sent
    BY <1>1, <1>2, <1>9, <1>11, <2>1
  <2>2. ASSUME NEW o \in Nodes, node[o].pc = "send", NEW y, y = node[o].pkt
        PROVE  stats'[y.path].next_expected <= y.seq /\ y.seq < stats'[y.path].sent
    BY <1>10, <1>11, <2>2
  <2> QED
    BY <1>1, <2>1, <2>2 DEF DueInv, Due
<1>13. ASSUME NEW y, Due(y), y.seq \in Nat PROVE Before(y, x)
  BY <1>7, <1>13 DEF Due, Before
<1>14. ASSUME NEW c \in DOMAIN buf, NEW d \in DOMAIN buf, NEW i \in 1..Len(buf'[c]), NEW j \in 1..Len(buf'[d]),
              Ahead(buf'[c][i], buf'[d][j]) \/ (c = d /\ i < j)
       PROVE  Before(buf'[c][i], buf'[d][j])
  <2>1. CASE /\ i \in 1..Len(buf[c]) /\ buf'[c][i] = buf[c][i]
             /\ j \in 1..Len(buf[d]) /\ buf'[d][j] = buf[d][j]
    BY <1>8, <1>14, <2>1 DEF OrderInv
  <2>2. CASE i \in 1..Len(buf[c]) /\ buf'[c][i] = buf[c][i] /\ d = c0 /\ buf'[d][j] = x
    BY <1>9, <1>13, <2>2
  <2>3. CASE c = c0 /\ buf'[c][i] = x /\ (\A k \in 1..Len(buf'[c]) : k <= i)
    <3>1. ~(c = d /\ i < j)
      BY <1>14, <2>3
    <3>2. Len(buf'[d][j].hops) \in Nat
      BY <1>1, <1>2, <1>9, <1>14
    <3>3. ~Ahead(x, buf'[d][j])
      BY <1>1, <3>2 DEF Ahead
    <3> QED
      BY <1>14, <2>3, <3>1, <3>3
  <2> QED
    BY <1>2, <1>14, <2>1, <2>2, <2>3
<1>15. ASSUME NEW c \in DOMAIN buf, NEW i \in 1..Len(buf'[c]), NEW o \in Nodes, node[o].pc = "send"
       PROVE  IF Ahead(node[o].pkt, buf'[c][i]) THEN Before(node[o].pkt, buf'[c][i]) ELSE Before(buf'[c][i], node[o].pkt)
  <2>1. CASE i \in 1..Len(buf[c]) /\ buf'[c][i] = buf[c][i]
    BY <1>8, <1>15, <2>1 DEF OrderInv
  <2>2. CASE buf'[c][i] = x
    <3>1. Before(node[o].pkt, x) /\ Ahead(node[o].pkt, x)
      BY <1>1, <1>10, <1>13, <1>15 DEF Ahead
    <3> QED
      BY <2>2, <3>1
  <2> QED
    BY <1>2, <1>15, <2>1, <2>2
<1>16. OrderInv'
  <2>1. \A y, z : Ahead(y, z)' = Ahead(y, z) /\ Before(y, z)' = Before(y, z)
    BY DEF Ahead, Before
  <2> QED
    BY <1>1, <1>8, <1>14, <1>15, <2>1 DEF OrderInv
<1>17. ASSUME NEW q \in cfg'.on, NEW s \in stats'[q].next_expected..(stats'[q].sent - 1)
       PROVE  \/ \E c \in DOMAIN buf' : \E i \in 1..Len(buf'[c]) : buf'[c][i].path = q /\ buf'[c][i].seq = s
              \/ \E o \in Nodes : node'[o].pc = "send" /\ node'[o].pkt.path = q /\ node'[o].pkt.seq = s
  <2>1. CASE q = p /\ s = stats[p].sent
    BY <1>1, <2>1
  <2>2. CASE ~(q = p /\ s = stats[p].sent)
    <3>0. q \in Paths
      BY ConfigFacts DEF TypeInv
    <3>1. s \in stats[q].next_expected..(stats[q].sent - 1)
      BY <1>6, <1>7, <1>17, <2>2, <3>0
    <3>2. CASE \E c \in DOMAIN buf : \E i \in 1..Len(buf[c]) : buf[c][i].path = q /\ buf[c][i].seq = s
      <4>1. PICK c \in DOMAIN buf : \E i \in 1..Len(buf[c]) : buf[c][i].path = q /\ buf[c][i].seq = s
        BY <3>2
      <4>2. PICK i \in 1..Len(buf[c]) : buf[c][i].path = q /\ buf[c][i].seq = s
        BY <4>1
      <4>3. i \in 1..Len(buf'[c]) /\ buf'[c][i] = buf[c][i]
        BY PutFacts
      <4> QED
        BY <1>1, <4>2, <4>3
    <3>3. \/ \E c \in DOMAIN buf : \E i \in 1..Len(buf[c]) : buf[c][i].path = q /\ buf[c][i].seq = s
          \/ \E o \in Nodes : node[o].pc = "send" /\ node[o].pkt.path = q /\ node[o].pkt.seq = s
      BY <1>8, <3>1 DEF PresentInv
    <3> QED
      BY <3>2, <3>3
  <2> QED
    BY <2>1, <2>2
<1>18. PresentInv'
  BY <1>17 DEF PresentInv
<1> QED
  BY <1>12, <1>16, <1>18

\* An injection keeps the invariant.
LEMMA InjectKeeps ==
    ASSUME Inv, inject_packet
    PROVE  Inv'
<1>0. /\ TypeInv /\ RouteInv /\ FlowInv /\ StatInv /\ MainInv /\ SentInv /\ CloseInv
      /\ UNCHANGED <<cfg, closed, stop, node>> /\ main.pc = "inject" /\ main' = [main EXCEPT !.pc = "done?", !.back = "inject"]
  BY DEF Inv, inject_packet
<1>1. PICK p : p = main.path
  OBVIOUS
<1>2. p \in cfg.on /\ p \in Paths /\ cfg.on \in SUBSET Paths
  BY <1>0, <1>1, ConfigFacts DEF MainInv, TypeInv
<1>3. PICK x : x = [path |-> p, seq |-> stats[p].sent, hops |-> << >>]
  OBVIOUS
<1>4. stats[p].sent \in Nat /\ stats \in [Paths -> [sent : Nat, recv : Nat, dup : Nat, lost : Nat, next_expected : Nat]]
  BY <1>0, <1>2 DEF TypeInv
<1>5. x \in Packet /\ x.path = p /\ x.seq = stats[p].sent /\ x.hops = << >>
  BY <1>2, <1>3, <1>4 DEF Packet, Paths
<1>6. PICK c : c = InjectTo(p)
  OBVIOUS
<1>7. c = Route(p)[1] /\ c \in DOMAIN buf
  <2>1. 1 \in 1..(Len(PathName[p]) + 1)
    BY <1>2, PathTable
  <2> QED
    BY <1>0, <1>2, <1>6, <2>1, RouteStarts, Routes, PlaceTypes
<1>8. Put(c, x) /\ stats' = [stats EXCEPT ![p].sent = @ + 1]
  BY <1>1, <1>3, <1>6 DEF inject_packet
<1>9. RouteInv' /\ FlowInv'
  BY <1>0, <1>2, <1>5, <1>7, <1>8, InjectFlow DEF FlowInv
<1>10. /\ stats' \in [Paths -> [sent : Nat, recv : Nat, dup : Nat, lost : Nat, next_expected : Nat]]
       /\ stats'[p].sent = stats[p].sent + 1 /\ stats'[p].recv = stats[p].recv /\ stats'[p].dup = stats[p].dup
       /\ stats'[p].lost = stats[p].lost /\ stats'[p].next_expected = stats[p].next_expected
       /\ \A q \in Paths : q # p => stats'[q] = stats[q]
  <2>1. PICK r : r = [stats[p] EXCEPT !.sent = @ + 1]
    OBVIOUS
  <2>2. /\ r \in [sent : Nat, recv : Nat, dup : Nat, lost : Nat, next_expected : Nat]
        /\ r.sent = stats[p].sent + 1 /\ r.recv = stats[p].recv /\ r.dup = stats[p].dup
        /\ r.lost = stats[p].lost /\ r.next_expected = stats[p].next_expected
    BY <1>2, <1>4, <2>1
  <2>3. stats' = [stats EXCEPT ![p] = r]
    BY <1>8, <2>1
  <2> QED
    BY <1>2, <1>4, <2>2, <2>3
<1>11. StatInv'
  <2>1. stats[p].recv \in Nat /\ stats[p].sent \in Nat
    BY <1>2, <1>4
  <2> QED
    BY <1>0, <1>10, <2>1 DEF StatInv
<1>12. CloseInv'
  BY <1>0 DEF CloseInv
<1>13. main \in MainState
  BY <1>0 DEF TypeInv, MainState
<1>14. /\ main' \in MainState /\ main'.pc = "done?" /\ main'.back = "inject" /\ main'.path = p /\ main'.rc = main.rc
       /\ main'.n = main.n
  BY <1>0, <1>1, <1>13 DEF MainState, MainPc
<1>15. MainInv'
  <2>1. main.rc = 0 /\ ~stop /\ p # 0
    BY <1>0, <1>1 DEF MainInv, Over
  <2> QED
    BY <1>0, <1>2, <1>14, <2>1 DEF MainInv, Over
<1>17. SentInv'
  <2>1. /\ Sequential' = Sequential /\ main.n \in Nat /\ cfg.count \in Nat
        /\ \A q \in Paths : q \in 1..6 /\ stats[q].sent \in Nat
    BY <1>0, OrderFixed
  <2>2. ~Draining' /\ p # 0
    BY <1>2, <1>14 DEF Draining, Paths
  <2>3. \A q \in cfg.on : stats'[q].sent = IF q = p THEN stats[q].sent + 1 ELSE stats[q].sent
    BY <1>2, <1>10
  <2> QED
    BY <1>0, <1>1, <1>2, <1>14, <2>1, <2>2, <2>3 DEF SentInv
<1>16. TypeInv'
  <2>1. Channels' = Channels /\ DonePorts' = DonePorts /\ Target' = Target
    BY <1>0, WiringFixed DEF Target
  <2>2. buf' \in [ToSet(Channels) -> Seq(Packet)]
    BY <1>0, <1>5, <1>7, <1>8, PutFacts
  <2> QED
    BY <1>0, <1>10, <1>14, <2>1, <2>2 DEF TypeInv, MainState
<1> QED
  BY <1>9, <1>11, <1>12, <1>15, <1>16, <1>17 DEF Inv

\* A completion main takes is the next one of its path, and taking it keeps every
\* packet on its route, due and in order.
LEMMA DoneFlow ==
    ASSUME TypeInv, RouteInv, DueInv, OrderInv, PresentInv, NEW k \in DOMAIN DonePorts,
           NEW c0 \in DOMAIN buf, c0 = DonePorts[k], Taken(c0), NEW m, m = buf[c0][1], UNCHANGED <<cfg, node>>,
           NEW p \in Paths, p = m.path,
           stats'[p].next_expected = m.seq + 1, stats'[p].sent = stats[p].sent, \A q \in Paths : q # p => stats'[q] = stats[q]
    PROVE  RouteInv' /\ DueInv' /\ OrderInv' /\ PresentInv' /\ m.seq = stats[p].next_expected /\ m.seq < stats[p].sent
<1>1. 1 \in 1..Len(buf[c0]) /\ DOMAIN buf' = DOMAIN buf
  BY TakenFacts
<1>2. OnRoute(m, c0) /\ Due(m) /\ m \in Packet /\ m.seq \in Nat /\ Len(m.hops) \in Nat
  BY <1>1, PlaceTypes DEF RouteInv, DueInv
<1>3. cfg.on \in SUBSET Paths /\ p \in cfg.on
  BY <1>2, ConfigFacts DEF TypeInv, OnRoute
<1>4. Len(m.hops) = Len(PathName[p])
  <2>1. Len(PathName[p]) \in Nat
    BY PathTable
  <2>2. Len(m.hops) + 1 \in 1..(Len(PathName[p]) + 1) /\ Route(p)[Len(m.hops) + 1] = DonePorts[k]
    <3>1. Len(m.hops) <= Len(PathName[p]) /\ Route(p)[Len(m.hops) + 1] = c0
      BY <1>2 DEF OnRoute
    <3> QED
      BY <1>2, <2>1, <3>1
  <2>3. Len(m.hops) + 1 = Len(PathName[p]) + 1
    BY <2>2, Routes
  <2> QED
    BY <1>2, <2>1, <2>3
<1>5. ASSUME NEW c \in DOMAIN buf, NEW i \in 1..Len(buf[c]), c = c0 => i > 1
      PROVE  Before(m, buf[c][i])
  <2>1. PICK y : y = buf[c][i]
    OBVIOUS
  <2>2. OnRoute(y, c) /\ y \in Packet /\ Len(y.hops) \in Nat
    BY <1>5, <2>1, PlaceTypes DEF RouteInv
  <2>3. Ahead(m, y) \/ c = c0 => Before(m, y)
    BY <1>1, <1>5, <2>1 DEF OrderInv
  <2>4. CASE y.path = p
    <3>1. Len(y.hops) <= Len(m.hops)
      BY <1>4, <2>2, <2>4 DEF OnRoute
    <3>2. CASE Len(y.hops) = Len(m.hops)
      <4>1. c = c0
        BY <1>2, <2>2, <2>4, <3>2, SameHopsSameChannel
      <4> QED
        BY <2>1, <2>3, <4>1
    <3>3. CASE Len(y.hops) # Len(m.hops)
      BY <1>2, <2>1, <2>2, <2>3, <3>1, <3>3 DEF Ahead
    <3> QED
      BY <3>2, <3>3
  <2>5. CASE y.path # p
    BY <2>1, <2>5 DEF Before
  <2> QED
    BY <2>4, <2>5
<1>6. ASSUME NEW o \in Nodes, node[o].pc = "send" PROVE Before(m, node[o].pkt)
  <2>1. PICK y : y = node[o].pkt
    OBVIOUS
  <2>2. OnRoute(y, node[o].to) /\ Len(y.hops) \in Nat
    BY <1>6, <2>1, PlaceTypes DEF RouteInv
  <2>3. ~Ahead(y, m) => Before(m, y)
    BY <1>1, <1>6, <2>1 DEF OrderInv
  <2>4. CASE y.path = p
    <3>1. Len(y.hops) <= Len(m.hops)
      BY <1>4, <2>2, <2>4 DEF OnRoute
    <3> QED
      BY <1>2, <2>1, <2>2, <2>3, <3>1 DEF Ahead
  <2>5. CASE y.path # p
    BY <2>1, <2>5 DEF Before
  <2> QED
    BY <2>4, <2>5
<1>7. ASSUME NEW c \in DOMAIN buf, NEW i \in 1..Len(buf'[c])
      PROVE  Was(c0, c, i) \in 1..Len(buf[c]) /\ buf'[c][i] = buf[c][Was(c0, c, i)] /\ (c = c0 => Was(c0, c, i) > 1)
  BY <1>7, TakenFacts
<1>8. stats[p].sent \in Nat /\ stats[p].next_expected \in Nat
  BY PlaceTypes
<1>9. m.seq = stats[p].next_expected /\ m.seq < stats[p].sent
  <2>1. stats[p].next_expected <= m.seq /\ m.seq < stats[p].sent
    BY <1>2 DEF Due
  <2>2. stats[p].next_expected \in stats[p].next_expected..(stats[p].sent - 1)
    BY <1>2, <1>8, <2>1
  <2>3. PICK s : s = stats[p].next_expected
    OBVIOUS
  <2>4. \/ \E c \in DOMAIN buf : \E i \in 1..Len(buf[c]) : buf[c][i].path = p /\ buf[c][i].seq = s
        \/ \E o \in Nodes : node[o].pc = "send" /\ node[o].pkt.path = p /\ node[o].pkt.seq = s
    BY <1>3, <2>2, <2>3 DEF PresentInv
  <2>5. CASE \E c \in DOMAIN buf : \E i \in 1..Len(buf[c]) : buf[c][i].path = p /\ buf[c][i].seq = s
    <3>1. PICK c \in DOMAIN buf : \E i \in 1..Len(buf[c]) : buf[c][i].path = p /\ buf[c][i].seq = s
      BY <2>5
    <3>2. PICK i \in 1..Len(buf[c]) : buf[c][i].path = p /\ buf[c][i].seq = s
      BY <3>1
    <3>3. CASE c = c0 /\ i = 1
      BY <2>1, <2>3, <3>2, <3>3
    <3>4. CASE ~(c = c0 /\ i = 1)
      <4>1. m.seq < s
        BY <1>5, <3>2, <3>4 DEF Before
      <4> QED
        BY <1>2, <1>8, <2>1, <2>3, <4>1
    <3> QED
      BY <3>3, <3>4
  <2>6. CASE \E o \in Nodes : node[o].pc = "send" /\ node[o].pkt.path = p /\ node[o].pkt.seq = s
    <3>1. m.seq < s
      BY <1>6, <2>6 DEF Before
    <3> QED
      BY <1>2, <1>8, <2>1, <2>3, <3>1
  <2> QED
    BY <2>4, <2>5, <2>6
<1>10. RouteInv'
  <2>1. \A y, c : OnRoute(y, c)' = OnRoute(y, c)
    BY WiringFixed DEF OnRoute
  <2>2. ASSUME NEW c \in DOMAIN buf, NEW i \in 1..Len(buf'[c]) PROVE OnRoute(buf'[c][i], c)
    BY <1>7, <2>2 DEF RouteInv
  <2> QED
    BY <1>1, <2>1, <2>2 DEF RouteInv
<1>11. ASSUME NEW y, y.path \in Paths, y.seq \in Nat, Due(y), Before(m, y)
       PROVE  stats'[y.path].next_expected <= y.seq /\ y.seq < stats'[y.path].sent
  <2>1. CASE y.path = p
    BY <1>2, <1>8, <1>11, <2>1 DEF Due, Before
  <2>2. CASE y.path # p
    BY <1>11, <2>2 DEF Due
  <2> QED
    BY <2>1, <2>2
<1>12. DueInv'
  <2>1. ASSUME NEW c \in DOMAIN buf, NEW i \in 1..Len(buf'[c]), NEW y, y = buf'[c][i]
        PROVE  stats'[y.path].next_expected <= y.seq /\ y.seq < stats'[y.path].sent
    <3>1. PICK w : w = Was(c0, c, i)
      OBVIOUS
    <3>2. w \in 1..Len(buf[c]) /\ y = buf[c][w] /\ (c = c0 => w > 1)
      BY <1>7, <2>1, <3>1
    <3>3. y.path \in Paths /\ y.seq \in Nat /\ Due(y) /\ Before(m, y)
      BY <1>3, <1>5, <3>2, PlaceTypes DEF DueInv, RouteInv, OnRoute
    <3> QED
      BY <1>11, <3>3
  <2>2. ASSUME NEW o \in Nodes, node[o].pc = "send", NEW y, y = node[o].pkt
        PROVE  stats'[y.path].next_expected <= y.seq /\ y.seq < stats'[y.path].sent
    <3>1. y.path \in Paths /\ y.seq \in Nat /\ Due(y) /\ Before(m, y)
      BY <1>3, <1>6, <2>2, PlaceTypes DEF DueInv, RouteInv, OnRoute
    <3> QED
      BY <1>11, <3>1
  <2> QED
    BY <1>1, <2>1, <2>2 DEF DueInv, Due
<1>13. OrderInv'
  <2>1. ASSUME NEW c \in DOMAIN buf, NEW d \in DOMAIN buf, NEW i \in 1..Len(buf'[c]), NEW j \in 1..Len(buf'[d]),
               Ahead(buf'[c][i], buf'[d][j]) \/ (c = d /\ i < j)
        PROVE  Before(buf'[c][i], buf'[d][j])
    <3>1. c = d /\ i < j => Was(c0, c, i) < Was(c0, d, j)
      BY <2>1 DEF Was
    <3>2. /\ Was(c0, c, i) \in 1..Len(buf[c]) /\ buf'[c][i] = buf[c][Was(c0, c, i)]
          /\ Was(c0, d, j) \in 1..Len(buf[d]) /\ buf'[d][j] = buf[d][Was(c0, d, j)]
      BY <1>7, <2>1
    <3> QED
      BY <2>1, <3>1, <3>2 DEF OrderInv
  <2>2. ASSUME NEW c \in DOMAIN buf, NEW i \in 1..Len(buf'[c]), NEW o \in Nodes, node[o].pc = "send"
        PROVE  IF Ahead(node[o].pkt, buf'[c][i]) THEN Before(node[o].pkt, buf'[c][i]) ELSE Before(buf'[c][i], node[o].pkt)
    BY <1>7, <2>2 DEF OrderInv
  <2>3. \A y, z : Ahead(y, z)' = Ahead(y, z) /\ Before(y, z)' = Before(y, z)
    BY DEF Ahead, Before
  <2> QED
    BY <1>1, <2>1, <2>2, <2>3 DEF OrderInv
<1>14. ASSUME NEW q \in cfg'.on, NEW s \in stats'[q].next_expected..(stats'[q].sent - 1)
       PROVE  \/ \E c \in DOMAIN buf' : \E i \in 1..Len(buf'[c]) : buf'[c][i].path = q /\ buf'[c][i].seq = s
              \/ \E o \in Nodes : node'[o].pc = "send" /\ node'[o].pkt.path = q /\ node'[o].pkt.seq = s
  <2>1. s \in stats[q].next_expected..(stats[q].sent - 1) /\ ~(q = p /\ s = m.seq)
    <3>1. CASE q = p
      BY <1>2, <1>8, <1>9, <1>14, <3>1
    <3>2. CASE q # p
      BY <1>3, <1>14, <3>2
    <3> QED
      BY <3>1, <3>2
  <2>2. \/ \E c \in DOMAIN buf : \E i \in 1..Len(buf[c]) : buf[c][i].path = q /\ buf[c][i].seq = s
        \/ \E o \in Nodes : node[o].pc = "send" /\ node[o].pkt.path = q /\ node[o].pkt.seq = s
    BY <1>14, <2>1 DEF PresentInv
  <2>3. CASE \E c \in DOMAIN buf : \E i \in 1..Len(buf[c]) : buf[c][i].path = q /\ buf[c][i].seq = s
    <3>1. PICK c \in DOMAIN buf : \E i \in 1..Len(buf[c]) : buf[c][i].path = q /\ buf[c][i].seq = s
      BY <2>3
    <3>2. PICK j \in 1..Len(buf[c]) : buf[c][j].path = q /\ buf[c][j].seq = s
      BY <3>1
    <3>3. c = c0 => j > 1
      BY <2>1, <3>2
    <3>4. PICK i \in 1..Len(buf'[c]) : j = Was(c0, c, i)
      BY <3>3, TakenFacts
    <3>5. buf'[c][i] = buf[c][j]
      BY <1>7, <3>4
    <3> QED
      BY <1>1, <3>2, <3>5
  <2>4. CASE \E o \in Nodes : node[o].pc = "send" /\ node[o].pkt.path = q /\ node[o].pkt.seq = s
    BY <2>4
  <2> QED
    BY <2>2, <2>3, <2>4
<1>15. PresentInv'
  BY <1>14 DEF PresentInv
<1> QED
  BY <1>9, <1>10, <1>12, <1>13, <1>15

\* What is left of the invariant when neither the channels nor the nodes change.
LEMMA FlowFixed ==
    ASSUME RouteInv, FlowInv, CloseInv, UNCHANGED <<cfg, buf, closed, node, stats, stop>>
    PROVE  RouteInv' /\ FlowInv' /\ CloseInv'
<1>1. RouteInv'
  <2>1. \A y, c : OnRoute(y, c)' = OnRoute(y, c)
    BY WiringFixed DEF OnRoute
  <2> QED
    BY <2>1 DEF RouteInv
<1>2. DueInv' = DueInv /\ OrderInv' = OrderInv /\ PresentInv' = PresentInv
  BY DEF DueInv, Due, OrderInv, Ahead, Before, PresentInv
<1> QED
  BY <1>1, <1>2 DEF FlowInv, CloseInv

\* Where main goes after an injection and the poll behind it: to the next path of
\* the round, or to the head of the loop.
LEMMA RoundMain ==
    ASSUME TypeInv, MainInv, SentInv, UNCHANGED <<cfg, stop>>, ~stop, main.rc = 0, main.pc = "done?", main.back = "inject",
           main' = inject_round, \A p \in Paths : stats'[p].sent = stats[p].sent
    PROVE  MainInv' /\ SentInv' /\ main' \in MainState
<1>1. /\ Sequential' = Sequential /\ cfg.on \in SUBSET Paths /\ main.path \in 0..6 /\ main.n \in Nat /\ cfg.count \in Nat
      /\ \A p \in Paths : p \in 1..6 /\ stats[p].sent \in Nat
  BY OrderFixed
<1>2. main \in MainState /\ 1 \in 1..Len(DonePorts) /\ main.path \in cfg.on /\ main.path \in Paths /\ main.path # 0 /\ cfg \in Configs
  BY <1>1 DEF TypeInv, MainInv, MainState, DonePorts, Dones
<1>3. \A p \in cfg.on : stats'[p].sent = stats[p].sent
  BY <1>1
<1>4. CASE ~Sequential /\ Later(main.path) # {}
  <2>1. PICK q : q = NextPath(main.path)
    OBVIOUS
  <2>2. q \in cfg.on /\ q \in Paths /\ q > main.path /\ \A p \in cfg.on : p < q => p <= main.path
    BY <1>1, <1>2, <1>4, <2>1, NextPathFacts
  <2>3. main' = [main EXCEPT !.pc = "inject", !.path = q, !.i = 1] /\ q \in 0..6 /\ q # 0
    BY <1>1, <1>4, <2>1, <2>2 DEF inject_round
  <2>4. /\ main' \in MainState /\ main'.pc = "inject" /\ main'.path = q /\ main'.rc = main.rc /\ main'.n = main.n
        /\ main'.pc # "drain" /\ main'.pc # "done?" /\ main'.pc # "more?"
    BY <1>2, <2>3 DEF MainState, MainPc
  <2>5. MainInv'
    BY <2>2, <2>3, <2>4 DEF MainInv, Over
  <2>6. \A p \in cfg.on : (p < q <=> p < main.path \/ p = main.path) /\ p \in 1..6
    BY <1>1, <2>2
  <2>7. SentInv'
    <3>1. ~Draining'
      BY <2>4 DEF Draining
    <3>2. ~cfg.timed => \A p \in cfg.on : stats[p].sent = IF p < main.path \/ p = main.path THEN main.n ELSE main.n - 1
      BY <1>2, <1>4 DEF SentInv
    <3> QED
      BY <1>1, <1>3, <1>4, <2>3, <2>4, <2>6, <3>1, <3>2 DEF SentInv
  <2> QED
    BY <2>4, <2>5, <2>7
<1>5. CASE ~(~Sequential /\ Later(main.path) # {})
  <2>1. PICK q : q = IF Sequential THEN main.path ELSE FirstPath
    OBVIOUS
  <2>2. q \in cfg.on /\ q \in 0..6 /\ q # 0 /\ (Sequential => q = main.path) /\ (~Sequential => \A p \in cfg.on : q <= p)
    BY <1>1, <1>2, <2>1, FirstPathFacts
  <2>3. main' = [main EXCEPT !.pc = "more?", !.path = q, !.i = 1]
    BY <1>5, <2>1 DEF inject_round
  <2>4. /\ main' \in MainState /\ main'.pc = "more?" /\ main'.path = q /\ main'.rc = main.rc /\ main'.n = main.n
        /\ main'.pc # "drain" /\ main'.pc # "done?" /\ main'.pc # "inject"
    BY <1>2, <2>2, <2>3 DEF MainState, MainPc
  <2>5. MainInv'
    BY <2>2, <2>4 DEF MainInv, Over
  <2>6. SentInv'
    <3>1. ~Draining'
      BY <2>4 DEF Draining
    <3>2. CASE Sequential
      BY <1>1, <1>2, <1>3, <2>2, <2>4, <3>1, <3>2 DEF SentInv
    <3>3. CASE ~Sequential
      <4>1. \A p \in cfg.on : p < main.path \/ p = main.path
        BY <1>1, <1>5, <3>3 DEF Later
      <4>2. ~cfg.timed => \A p \in cfg.on : stats[p].sent = main.n
        BY <1>2, <3>3, <4>1 DEF SentInv
      <4> QED
        BY <1>1, <1>3, <2>2, <2>4, <3>1, <3>3, <4>2 DEF SentInv
    <3> QED
      BY <3>2, <3>3
  <2> QED
    BY <2>4, <2>5, <2>6
<1> QED
  BY <1>4, <1>5

\* Where main goes after it has looked at a done channel.
LEMMA DoneMain ==
    ASSUME TypeInv, MainInv, SentInv, poll_done_try, \A p \in Paths : stats'[p].sent = stats[p].sent
    PROVE  MainInv' /\ SentInv' /\ main' \in MainState /\ ~stop
<1>1. main \in MainState /\ main.pc = "done?" /\ UNCHANGED <<cfg, stop>> /\ ~stop
  BY DEF TypeInv, MainState, poll_done_try, MainInv, Over
<1>2. cfg.on \in SUBSET Paths /\ main.rc = 0 /\ main.i \in 1..Len(DonePorts) /\ Len(DonePorts) \in Nat
  BY <1>1, ConfigFacts DEF TypeInv, MainInv, Over, MainState, DonePorts, Dones
<1>3. CASE main.i < Len(DonePorts) /\ main' = [main EXCEPT !.i = @ + 1]
  <2>1. PICK j : j = main.i + 1
    OBVIOUS
  <2>2. j \in 1..Len(DonePorts) /\ main' = [main EXCEPT !.i = j]
    BY <1>2, <1>3, <2>1
  <2>3. /\ main' \in MainState /\ main'.pc = "done?" /\ main'.back = main.back /\ main'.path = main.path /\ main'.rc = main.rc
        /\ main'.n = main.n
    BY <1>1, <2>2 DEF MainState
  <2>4. MainInv'
    BY <1>1, <1>2, <2>3 DEF MainInv, Over
  <2>5. Draining' => Draining
    BY <1>1, <2>3 DEF Draining
  <2>6. SentInv'
    BY <1>1, <2>3, <2>5, SentKept
  <2> QED
    BY <1>1, <2>3, <2>4, <2>6
<1>4. CASE main.back = "drain" /\ main' = [main EXCEPT !.pc = "drain", !.i = 1]
  <2>1. 1 \in 1..Len(DonePorts)
    BY <1>2
  <2>2. main' \in MainState /\ main'.pc = "drain" /\ main'.path = main.path /\ main'.rc = main.rc /\ main'.n = main.n
    BY <1>1, <1>4, <2>1 DEF MainState, MainPc
  <2>3. MainInv'
    BY <1>1, <1>2, <2>2 DEF MainInv, Over
  <2>4. SentInv'
    BY <1>1, <1>4, <2>2, SentKept DEF Draining
  <2> QED
    BY <1>1, <2>2, <2>3, <2>4
<1>5. CASE main.back = "inject" /\ main' = inject_round
  BY <1>1, <1>2, <1>5, RoundMain
<1> QED
  BY <1>3, <1>4, <1>5 DEF poll_done_try

\* Taking a completion, or finding none, keeps the invariant.
LEMMA DoneKeeps ==
    ASSUME Inv, poll_done_try
    PROVE  Inv'
<1>0. TypeInv /\ RouteInv /\ FlowInv /\ StatInv /\ MainInv /\ SentInv /\ CloseInv /\ UNCHANGED <<cfg, closed, stop, node>> /\ main.pc = "done?"
  BY DEF Inv, poll_done_try
<1>1. PICK k, c : k = main.i /\ c = DonePorts[k]
  OBVIOUS
<1>2. k \in DOMAIN DonePorts /\ c \in DOMAIN buf
  <2>1. k \in 1..Len(DonePorts)
    BY <1>0, <1>1 DEF TypeInv
  <2>2. CASE Linked
    BY <1>0, <1>1, <2>1, <2>2, ChannelNames, PlaceTypes DEF DonePorts, Dones
  <2>3. CASE ~Linked
    BY <1>0, <1>1, <2>1, <2>3, ChannelNames, PlaceTypes DEF DonePorts
  <2> QED
    BY <2>2, <2>3
<1>3. ~stop
  BY <1>0 DEF MainInv, Over
<1>4. stats \in [Paths -> [sent : Nat, recv : Nat, dup : Nat, lost : Nat, next_expected : Nat]]
  BY <1>0 DEF TypeInv
<1>5. Channels' = Channels /\ DonePorts' = DonePorts /\ Target' = Target
  BY <1>0, WiringFixed DEF Target
<1>6. CASE buf[c] = << >> /\ UNCHANGED <<buf, stats>>
  <2>1. RouteInv' /\ FlowInv' /\ CloseInv'
    BY <1>0, <1>6, FlowFixed
  <2>2. MainInv' /\ SentInv' /\ main' \in MainState
    BY <1>0, <1>6, DoneMain
  <2>3. TypeInv'
    BY <1>0, <1>5, <1>6, <2>2 DEF TypeInv, MainState
  <2>4. StatInv'
    BY <1>0, <1>6 DEF StatInv
  <2> QED
    BY <2>1, <2>2, <2>3, <2>4 DEF Inv
<1>7. CASE /\ buf[c] # << >>
           /\ stats' = [stats EXCEPT ![Head(buf[c]).path] = stat_on_recv(@, Head(buf[c]).seq)]
           /\ buf' = [buf EXCEPT ![c] = Tail(@)]
  <2>1. Taken(c)
    BY <1>7 DEF Taken
  <2>2. PICK m : m = buf[c][1]
    OBVIOUS
  <2>3. Head(buf[c]) = m /\ m \in Packet /\ 1 \in 1..Len(buf[c]) /\ buf' \in [ToSet(Channels) -> Seq(Packet)]
    BY <1>0, <1>2, <2>1, <2>2, TakenFacts
  <2>4. PICK p : p = m.path
    OBVIOUS
  <2>5. p \in Paths /\ m.seq \in Nat /\ Due(m)
    <3>1. cfg.on \in SUBSET Paths /\ OnRoute(m, c) /\ Due(m)
      BY <1>0, <1>2, <1>3, <2>2, <2>3, ConfigFacts DEF TypeInv, RouteInv, FlowInv, DueInv
    <3> QED
      BY <2>3, <2>4, <3>1 DEF OnRoute, Packet
  <2>6. PICK r : r = [stats[p] EXCEPT !.lost = @ + (m.seq - stats[p].next_expected), !.next_expected = m.seq + 1, !.recv = @ + 1]
    OBVIOUS
  <2>7. stats' = [stats EXCEPT ![p] = r]
    <3>1. stats[p].next_expected \in Nat /\ stats[p].next_expected <= m.seq
      BY <1>4, <2>4, <2>5 DEF Due
    <3>2. stat_on_recv(stats[p], m.seq) = r
      BY <2>5, <2>6, <3>1 DEF stat_on_recv
    <3> QED
      BY <1>7, <2>3, <2>4, <3>2
  <2>8. /\ r.sent = stats[p].sent /\ r.dup = stats[p].dup /\ r.recv = stats[p].recv + 1
        /\ r.next_expected = m.seq + 1 /\ r.lost = stats[p].lost + (m.seq - stats[p].next_expected)
    BY <1>4, <2>5, <2>6
  <2>9. stats'[p] = r /\ \A q \in Paths : q # p => stats'[q] = stats[q]
    BY <1>4, <2>5, <2>7
  <2>10. RouteInv' /\ DueInv' /\ OrderInv' /\ PresentInv' /\ m.seq = stats[p].next_expected /\ m.seq < stats[p].sent
    BY <1>0, <1>1, <1>2, <1>3, <2>1, <2>2, <2>4, <2>5, <2>8, <2>9, DoneFlow DEF FlowInv
  <2>11. /\ stats[p].sent \in Nat /\ stats[p].next_expected \in Nat /\ stats[p].recv \in Nat /\ stats[p].lost = 0 /\ stats[p].dup = 0
         /\ stats[p].recv = stats[p].next_expected
    BY <1>0, <1>4, <2>5 DEF StatInv
  <2>12. /\ r.dup = 0 /\ r.lost = 0 /\ r.recv = r.next_expected /\ r.recv <= r.sent
         /\ r \in [sent : Nat, recv : Nat, dup : Nat, lost : Nat, next_expected : Nat]
    <3>1. r = [stats[p] EXCEPT !.lost = 0, !.next_expected = m.seq + 1, !.recv = m.seq + 1]
      <4>1. stats[p].lost + (m.seq - stats[p].next_expected) = 0 /\ stats[p].recv + 1 = m.seq + 1
        BY <2>5, <2>10, <2>11
      <4> QED
        BY <2>6, <4>1
    <3>2. m.seq + 1 \in Nat /\ stats[p] \in [sent : Nat, recv : Nat, dup : Nat, lost : Nat, next_expected : Nat]
      BY <1>4, <2>5
    <3>3. r \in [sent : Nat, recv : Nat, dup : Nat, lost : Nat, next_expected : Nat]
      BY <3>1, <3>2
    <3> QED
      BY <2>5, <2>8, <2>10, <2>11, <3>3
  <2>13. StatInv'
    BY <1>0, <2>9, <2>12 DEF StatInv
  <2>14. stats' \in [Paths -> [sent : Nat, recv : Nat, dup : Nat, lost : Nat, next_expected : Nat]]
    BY <1>4, <2>7, <2>12
  <2>15. \A q \in Paths : stats'[q].sent = stats[q].sent
    BY <2>8, <2>9
  <2>16. MainInv' /\ SentInv' /\ main' \in MainState
    BY <1>0, <2>15, DoneMain
  <2>17. TypeInv'
    BY <1>0, <1>5, <2>3, <2>14, <2>16 DEF TypeInv, MainState
  <2>18. FlowInv' /\ CloseInv'
    BY <1>0, <2>10 DEF FlowInv, CloseInv
  <2> QED
    BY <2>10, <2>13, <2>16, <2>17, <2>18 DEF Inv
<1> QED
  BY <1>1, <1>6, <1>7 DEF poll_done_try

\* What is left of the invariant when main alone moves, or gives an order to stop.
LEMMA MainMoves ==
    ASSUME Inv, UNCHANGED <<cfg, buf, node, stats>>, MainInv', SentInv', CloseInv', main' \in MainState, stop' \in BOOLEAN, stop => stop',
           closed' \in [ToSet(Channels) -> BOOLEAN]
    PROVE  Inv'
<1>1. Channels' = Channels /\ DonePorts' = DonePorts /\ Target' = Target
  BY WiringFixed DEF Target
<1>2. TypeInv'
  BY <1>1 DEF Inv, TypeInv, MainState
<1>3. RouteInv'
  <2>1. \A y, c : OnRoute(y, c)' = OnRoute(y, c)
    BY WiringFixed DEF OnRoute
  <2> QED
    BY <2>1 DEF Inv, RouteInv
<1>4. DueInv' = DueInv /\ OrderInv' = OrderInv /\ PresentInv' = PresentInv
  BY DEF DueInv, Due, OrderInv, Ahead, Before, PresentInv
<1>5. FlowInv'
  BY <1>4 DEF Inv, FlowInv
<1>6. StatInv'
  BY DEF Inv, StatInv
<1> QED
  BY <1>2, <1>3, <1>5, <1>6 DEF Inv

\* A drain ends when its deadline is over, when its path is drained or, at the
\* end, when all are: then everything sent has been received.
LEMMA DrainKeeps ==
    ASSUME Inv, drain
    PROVE  Inv'
<1>0. /\ TypeInv /\ StatInv /\ MainInv /\ SentInv /\ CloseInv /\ UNCHANGED <<cfg, buf, closed, stop, node, stats>> /\ main.pc = "drain"
      /\ ~stop
  BY DEF Inv, drain, MainInv, Over
<1>1. main \in MainState /\ cfg.on \in SUBSET Paths /\ main.rc = 0 /\ main.path \in cfg.on \cup {0} /\ main.path \in 0..6
  BY <1>0, ConfigFacts DEF TypeInv, MainState, MainInv, Over
<1>2. CloseInv'
  BY <1>0 DEF CloseInv
<1>3. stop' \in BOOLEAN /\ closed' \in [ToSet(Channels) -> BOOLEAN] /\ cfg \in Configs
  BY <1>0 DEF TypeInv
<1>4. SUFFICES MainInv' /\ SentInv' /\ main' \in MainState
  BY <1>0, <1>2, <1>3, MainMoves
<1>5. CASE main' = [main EXCEPT !.pc = "stop", !.rc = -1]
  <2>1. main' \in MainState /\ main'.pc = "stop" /\ main'.path = main.path /\ main'.rc = -1 /\ main'.n = main.n
    BY <1>1, <1>5 DEF MainState, MainPc
  <2>2. MainInv'
    BY <1>0, <2>1 DEF MainInv, Over
  <2>3. SentInv'
    BY <1>0, <2>1, SentKept DEF Draining
  <2> QED
    BY <2>1, <2>2, <2>3
<1>6. CASE main' = [main EXCEPT !.pc = "done?", !.back = "drain"]
  <2>1. main' \in MainState /\ main'.pc = "done?" /\ main'.back = "drain" /\ main'.path = main.path /\ main'.rc = 0 /\ main'.n = main.n
    BY <1>1, <1>6 DEF MainState, MainPc
  <2>2. MainInv'
    BY <1>0, <2>1 DEF MainInv, Over
  <2>3. SentInv'
    BY <1>0, <2>1, SentKept DEF Draining
  <2> QED
    BY <2>1, <2>2, <2>3
<1>7. CASE main.path = 0 /\ all_drained /\ main' = [main EXCEPT !.pc = "stop"]
  <2>1. main' \in MainState /\ main'.pc = "stop" /\ main'.path = main.path /\ main'.rc = 0 /\ main'.n = main.n
    BY <1>1, <1>7 DEF MainState, MainPc
  <2>2. \A p \in cfg.on : stats[p].recv = stats[p].sent
    <3>1. \A p \in cfg.on : stats[p].recv + stats[p].dup >= stats[p].sent
      BY <1>7 DEF all_drained, path_drained
    <3>2. \A p \in Paths : /\ stats[p].recv \in Nat /\ stats[p].sent \in Nat /\ stats[p].dup = 0
                           /\ stats[p].recv <= stats[p].sent
      BY <1>0 DEF TypeInv, StatInv
    <3> QED
      BY <1>1, <3>1, <3>2
  <2>3. MainInv'
    BY <1>0, <1>7, <2>1, <2>2 DEF MainInv, Over
  <2>4. SentInv'
    BY <1>0, <1>7, <2>1, SentKept DEF Draining
  <2> QED
    BY <2>1, <2>3, <2>4
<1>8. CASE main.path # 0 /\ Later(main.path) # {} /\ main' = [main EXCEPT !.pc = "more?", !.path = NextPath(@), !.n = 0]
  <2>0. /\ Sequential' = Sequential /\ main.n \in Nat /\ cfg.count \in Nat /\ main.path \in Paths
        /\ \A p \in Paths : p \in 1..6 /\ stats[p].sent \in Nat
    BY <1>0, <1>1, <1>8, OrderFixed
  <2>1. PICK q : q = NextPath(main.path)
    OBVIOUS
  <2>2. q \in cfg.on /\ q \in Paths /\ q > main.path /\ \A p \in cfg.on : p < q => p <= main.path
    BY <1>1, <1>3, <1>8, <2>0, <2>1, NextPathFacts
  <2>3. main' = [main EXCEPT !.pc = "more?", !.path = q, !.n = 0] /\ q \in 0..6 /\ q # 0
    BY <2>0, <1>8, <2>1, <2>2
  <2>4. /\ main' \in MainState /\ main'.pc = "more?" /\ main'.path = q /\ main'.rc = main.rc /\ main'.n = 0
        /\ main'.pc # "drain" /\ main'.pc # "done?" /\ main'.pc # "inject"
    BY <1>1, <2>3 DEF MainState, MainPc
  <2>5. MainInv'
    BY <1>0, <1>1, <2>2, <2>3, <2>4 DEF MainInv, Over
  <2>6. SentInv'
    <3>1. ~Draining' /\ Draining
      BY <1>0, <2>4 DEF Draining
    <3>2. ~cfg.timed => Sequential /\ main.n = cfg.count
      BY <1>0, <1>8, <3>1 DEF SentInv
    <3>3. \A p \in cfg.on : (p < q <=> p < main.path \/ p = main.path) /\ (p >= q => p > main.path) /\ p \in 1..6
      BY <1>1, <2>0, <2>2
    <3>4. ~cfg.timed => \A p \in cfg.on : stats[p].sent = IF p < main.path \/ p = main.path THEN cfg.count ELSE 0
      <4>1. ASSUME ~cfg.timed, NEW p \in cfg.on PROVE stats[p].sent = IF p < main.path \/ p = main.path THEN cfg.count ELSE 0
        <5>1. p \in 1..6 /\ main.path \in 0..6
          BY <1>1, <2>0
        <5> QED
          BY <1>0, <1>8, <3>2, <4>1, <5>1 DEF SentInv
      <4> QED
        BY <4>1
    <3> QED
      BY <1>0, <2>0, <2>2, <2>3, <2>4, <3>1, <3>2, <3>3, <3>4 DEF SentInv
  <2> QED
    BY <2>4, <2>5, <2>6
<1>9. CASE main.path # 0 /\ Later(main.path) = {} /\ main' = InjectDone
  <2>1. Finish(main')
    BY <1>0, <1>9, InjectDoneMoves
  <2>2. MainInv' /\ SentInv'
    BY <1>0, <1>1, <1>9, <2>1, SentFinished
  <2> QED
    BY <2>1, <2>2 DEF Finish
<1> QED
  BY <1>5, <1>6, <1>7, <1>8, <1>9 DEF drain

\* The test of the loop keeps the invariant.
LEMMA TrafficKeeps ==
    ASSUME Inv, run_traffic
    PROVE  Inv'
<1>0. /\ TypeInv /\ StatInv /\ MainInv /\ SentInv /\ CloseInv /\ UNCHANGED <<cfg, buf, closed, stop, node, stats>> /\ main.pc = "more?"
      /\ ~stop
  BY DEF Inv, run_traffic, MainInv, Over
<1>1. main \in MainState /\ cfg.on \in SUBSET Paths /\ main.rc = 0 /\ main.path \in cfg.on /\ main.path # 0
  BY <1>0, ConfigFacts DEF TypeInv, MainState, MainInv, Over
<1>2. CloseInv'
  BY <1>0 DEF CloseInv
<1>3. stop' \in BOOLEAN /\ closed' \in [ToSet(Channels) -> BOOLEAN] /\ cfg \in Configs
  BY <1>0 DEF TypeInv
<1>4. SUFFICES MainInv' /\ SentInv' /\ main' \in MainState
  BY <1>0, <1>2, <1>3, MainMoves
<1>5. /\ Sequential' = Sequential /\ main.path \in 0..6 /\ main.n \in Nat /\ cfg.count \in Nat
      /\ \A p \in Paths : p \in 1..6 /\ stats[p].sent \in Nat
  BY <1>0, OrderFixed
<1>6. CASE main' = [main EXCEPT !.pc = "inject", !.n = @ + 1]
  <2>1. PICK k : k = main.n + 1
    OBVIOUS
  <2>2. main' = [main EXCEPT !.pc = "inject", !.n = k] /\ k \in Nat /\ k - 1 = main.n
    BY <1>5, <1>6, <2>1
  <2>3. /\ main' \in MainState /\ main'.pc = "inject" /\ main'.path = main.path /\ main'.rc = main.rc /\ main'.n = k
        /\ main'.pc # "drain" /\ main'.pc # "done?" /\ main'.pc # "more?"
    BY <1>1, <2>2 DEF MainState, MainPc
  <2>4. MainInv'
    BY <1>0, <1>1, <2>3 DEF MainInv, Over
  <2>5. SentInv'
    <3>1. ~Draining'
      BY <2>3 DEF Draining
    <3>2. CASE Sequential
      BY <1>0, <1>1, <1>5, <2>2, <2>3, <3>1, <3>2 DEF SentInv
    <3>3. CASE ~Sequential
      <4>1. ~cfg.timed => \A p \in cfg.on : stats[p].sent = main.n
        BY <1>0, <1>1, <3>3 DEF SentInv
      <4>2. ~cfg.timed => \A p \in cfg.on : ~(p < main.path)
        BY <1>0, <1>1, <1>5, <3>3 DEF SentInv
      <4> QED
        BY <1>0, <1>1, <1>5, <2>2, <2>3, <3>1, <3>3, <4>1, <4>2 DEF SentInv
    <3> QED
      BY <3>2, <3>3
  <2> QED
    BY <2>3, <2>4, <2>5
<1>7. CASE FALSE \in More /\ Sequential /\ main' = [main EXCEPT !.pc = "drain"]
  <2>1. main' \in MainState /\ main'.pc = "drain" /\ main'.path = main.path /\ main'.rc = main.rc /\ main'.n = main.n
    BY <1>1, <1>7 DEF MainState, MainPc
  <2>2. MainInv'
    BY <1>0, <1>1, <2>1 DEF MainInv, Over
  <2>3. ~cfg.timed => main.n = cfg.count
    BY <1>7 DEF More
  <2>4. SentInv'
    BY <1>0, <1>1, <1>5, <1>7, <2>1, <2>3 DEF SentInv
  <2> QED
    BY <2>1, <2>2, <2>4
<1>8. CASE FALSE \in More /\ ~Sequential /\ main' = InjectDone
  <2>1. Finish(main')
    BY <1>0, <1>8, InjectDoneMoves
  <2>2. MainInv' /\ SentInv'
    BY <1>0, <1>1, <1>8, <2>1, SentFinished
  <2> QED
    BY <2>1, <2>2 DEF Finish
<1> QED
  BY <1>6, <1>7, <1>8 DEF run_traffic

\* Closing the inject channels keeps the invariant: nothing is sent to them any more.
LEMMA CloseInjectKeeps ==
    ASSUME Inv, close_inject
    PROVE  Inv'
<1>0. /\ TypeInv /\ MainInv /\ SentInv /\ CloseInv /\ UNCHANGED <<cfg, buf, stop, node, stats>> /\ main.pc = "close_inject"
      /\ closed' = [c \in DOMAIN closed |-> closed[c] \/ c \in ToSet(Injects)]
      /\ main' = [main EXCEPT !.pc = "drain"]
  BY DEF Inv, close_inject
<1>1. main \in MainState /\ closed \in [ToSet(Channels) -> BOOLEAN] /\ stop \in BOOLEAN
  BY <1>0 DEF TypeInv, MainState
<1>2. main' \in MainState /\ main'.pc = "drain" /\ main'.path = main.path /\ main'.rc = main.rc /\ main'.n = main.n
  BY <1>0, <1>1 DEF MainState, MainPc
<1>3. MainInv' /\ SentInv'
  <2>1. MainInv' /\ main.path = 0
    BY <1>0, <1>2 DEF MainInv, Over
  <2>2. SentInv'
    BY <1>0, <1>2, <2>1, SentKept
  <2> QED
    BY <2>1, <2>2
<1>4. closed' \in [ToSet(Channels) -> BOOLEAN]
  BY <1>0, <1>1
<1>5. CloseInv'
  BY <1>0, <1>1 DEF CloseInv
<1> QED
  BY <1>0, <1>1, <1>2, <1>3, <1>4, <1>5, MainMoves

\* The order to stop and the closes behind it keep the invariant.
LEMMA CloseAllKeeps ==
    ASSUME Inv, close_all
    PROVE  Inv'
<1>0. TypeInv /\ MainInv /\ SentInv /\ CloseInv /\ UNCHANGED <<cfg, buf, node, stats>> /\ main.pc = "stop"
  BY DEF Inv, close_all
<1>1. main \in MainState /\ closed \in [ToSet(Channels) -> BOOLEAN] /\ stop \in BOOLEAN
  BY <1>0 DEF TypeInv, MainState
<1>2. CASE stop' = TRUE /\ UNCHANGED <<closed, main>>
  <2>1. MainInv' /\ CloseInv'
    BY <1>0, <1>2 DEF MainInv, CloseInv, Over
  <2>2. SentInv'
    BY <1>0, <1>2 DEF SentInv, Sequential, Draining
  <2> QED
    BY <1>0, <1>1, <1>2, <2>1, <2>2, MainMoves
<1>3. CASE stop /\ closed' = [c \in DOMAIN closed |-> TRUE] /\ main' = [main EXCEPT !.pc = "join"] /\ UNCHANGED stop
  <2>1. main' \in MainState /\ main'.pc = "join" /\ main'.path = main.path /\ main'.rc = main.rc /\ main'.n = main.n
    BY <1>1, <1>3 DEF MainState, MainPc
  <2>2. MainInv' /\ SentInv'
    <3>1. MainInv'
      BY <1>0, <1>3, <2>1 DEF MainInv, Over
    <3>2. SentInv'
      BY <1>0, <2>1, SentKept DEF Draining
    <3> QED
      BY <3>1, <3>2
  <2>3. CloseInv' /\ closed' \in [ToSet(Channels) -> BOOLEAN]
    BY <1>1, <1>3 DEF CloseInv
  <2> QED
    BY <1>0, <1>1, <1>3, <2>1, <2>2, <2>3, MainMoves
<1> QED
  BY <1>2, <1>3 DEF close_all

\* The verdict keeps the invariant.
LEMMA JoinKeeps ==
    ASSUME Inv, join
    PROVE  Inv'
<1>0. /\ TypeInv /\ StatInv /\ MainInv /\ SentInv /\ CloseInv /\ UNCHANGED <<cfg, buf, closed, stop, node, stats>> /\ main.pc = "join"
      /\ main' = [main EXCEPT !.pc = IF main.rc = 0 /\ \A p \in cfg.on : path_ok(p) THEN "exit 0" ELSE "exit 1"]
  BY DEF Inv, join
<1>1. main \in MainState /\ closed \in [ToSet(Channels) -> BOOLEAN] /\ stop \in BOOLEAN /\ cfg.on \in SUBSET Paths
  BY <1>0, ConfigFacts DEF TypeInv, MainState
<1>2. CloseInv'
  BY <1>0 DEF CloseInv
<1>3. main.rc = 0 => \A p \in cfg.on : path_ok(p)
  BY <1>0, <1>1 DEF MainInv, Over, StatInv, path_ok
<1>4. CASE main.rc = 0
  <2>1. main' = [main EXCEPT !.pc = "exit 0"]
    BY <1>0, <1>3, <1>4
  <2>2. main' \in MainState /\ main'.pc = "exit 0" /\ main'.path = main.path /\ main'.rc = 0 /\ main'.n = main.n
    BY <1>1, <1>4, <2>1 DEF MainState, MainPc
  <2>3. MainInv'
    BY <1>0, <1>4, <2>2 DEF MainInv, Over
  <2>4. SentInv'
    BY <1>0, <2>2, SentKept DEF Draining
  <2> QED
    BY <1>0, <1>1, <1>2, <2>2, <2>3, <2>4, MainMoves
<1>5. CASE main.rc # 0
  <2>1. main' = [main EXCEPT !.pc = "exit 1"] /\ main.rc = -1
    BY <1>0, <1>1, <1>5 DEF MainState
  <2>2. main' \in MainState /\ main'.pc = "exit 1" /\ main'.path = main.path /\ main'.rc = -1 /\ main'.n = main.n
    BY <1>1, <2>1 DEF MainState, MainPc
  <2>3. main'.rc # 0
    <3>1. -1 # 0
      OBVIOUS
    <3>2. main'.rc = -1
      BY <2>2
    <3> QED
      BY <3>1, <3>2
  <2>4. MainInv'
    BY <1>0, <2>2, <2>3 DEF MainInv, Over
  <2>5. SentInv'
    BY <1>0, <2>2, SentKept DEF Draining
  <2> QED
    BY <1>0, <1>1, <1>2, <2>2, <2>4, <2>5, MainMoves
<1> QED
  BY <1>4, <1>5

------------------------------------------------------------------------------
(* Theorems.                                                               *)

\* The programs start in the invariant.
LEMMA InitInv == Init => Inv
<1> SUFFICES ASSUME Init PROVE Inv
  OBVIOUS
<1>1. cfg \in Configs /\ FirstPath \in cfg.on /\ (\A q \in cfg.on : FirstPath <= q) /\ cfg.on \in SUBSET Paths
  BY FirstPathFacts, ConfigFacts DEF Init
<1>2. buf = [c \in ToSet(Channels) |-> << >>] /\ closed = [c \in ToSet(Channels) |-> FALSE] /\ stop = FALSE
  BY DEF Init
<1>3. node = [o \in Nodes |-> Idle] /\ Idle.pc = "poll"
  BY DEF Init, Idle
<1>4. PICK f : f = FirstPath
  OBVIOUS
<1>5. main = [pc |-> "more?", path |-> f, n |-> 0, i |-> 1, back |-> "inject", rc |-> 0]
  BY <1>4 DEF Init
<1>6. stats = [p \in Paths |-> [sent |-> 0, recv |-> 0, dup |-> 0, lost |-> 0, next_expected |-> 0]]
  BY DEF Init
<1>7. TypeInv
  <2>1. main \in MainState
    <3>1. f \in 0..6 /\ 1 \in 1..Len(DonePorts)
      BY <1>1, <1>4 DEF DonePorts, Dones, Paths
    <3> QED
      BY <1>5, <3>1 DEF MainState, MainPc
  <2>2. Idle \in [pc : {"poll", "send", "exit"}, pkt : Packet, to : Target]
    <3>1. NoPkt \in Packet
      BY DEF NoPkt, Packet
    <3>2. "" \in Target
      BY DEF Target
    <3> QED
      BY <3>1, <3>2 DEF Idle
  <2>3. node \in [Nodes -> [pc : {"poll", "send", "exit"}, pkt : Packet, to : Target]]
    BY <1>3, <2>2
  <2>4. buf \in [ToSet(Channels) -> Seq(Packet)] /\ closed \in [ToSet(Channels) -> BOOLEAN] /\ stop \in BOOLEAN
    <3>1. << >> \in Seq(Packet) /\ FALSE \in BOOLEAN
      OBVIOUS
    <3>2. buf \in [ToSet(Channels) -> Seq(Packet)]
      BY <1>2, <3>1
    <3>3. closed \in [ToSet(Channels) -> BOOLEAN]
      BY <1>2, <3>1
    <3> QED
      BY <1>2, <3>2, <3>3
  <2>5. stats \in [Paths -> [sent : Nat, recv : Nat, dup : Nat, lost : Nat, next_expected : Nat]]
    BY <1>6
  <2> QED
    BY <1>1, <2>1, <2>3, <2>4, <2>5 DEF TypeInv, MainState
<1>8. \A c \in DOMAIN buf : 1..Len(buf[c]) = {}
  BY <1>2
<1>9. \A o \in Nodes : node[o].pc = "poll"
  BY <1>3
<1>10. RouteInv /\ DueInv /\ OrderInv
  BY <1>8, <1>9 DEF RouteInv, DueInv, OrderInv
<1>11. PresentInv /\ StatInv
  <2>1. \A p \in Paths : stats[p].sent = 0 /\ stats[p].next_expected = 0 /\ stats[p].recv = 0 /\ stats[p].lost = 0 /\ stats[p].dup = 0
    BY <1>6
  <2> QED
    BY <1>1, <2>1 DEF PresentInv, StatInv
<1>12. CloseInv
  BY <1>2, <1>9 DEF CloseInv
<1>13. MainInv /\ SentInv
  <2>1. f \in cfg.on /\ f # 0 /\ \A q \in cfg.on : f <= q /\ ~(q < f)
    BY <1>1, <1>4 DEF Paths
  <2>2. MainInv
    BY <1>2, <1>5, <2>1 DEF MainInv, Over
  <2>3. \A p \in cfg.on : stats[p].sent = 0
    BY <1>1, <1>6
  <2>4. SentInv
    BY <1>5, <2>1, <2>3 DEF SentInv, Draining
  <2> QED
    BY <2>2, <2>4
<1> QED
  BY <1>7, <1>10, <1>11, <1>12, <1>13 DEF Inv, FlowInv

\* Every step keeps the invariant.
LEMMA StepInv == Inv /\ [Next]_vars => Inv'
<1> SUFFICES ASSUME Inv, [Next]_vars PROVE Inv'
  OBVIOUS
<1>1. CASE MainStep
  BY <1>1, TrafficKeeps, InjectKeeps, DoneKeeps, DrainKeeps, CloseInjectKeeps, CloseAllKeeps, JoinKeeps DEF MainStep
<1>2. CASE \E n \in Nodes : NodeStep(n)
  BY <1>2, PollKeeps, SendKeeps, ExitKeeps DEF NodeStep
<1>3. CASE UNCHANGED vars
  <2>1. UNCHANGED <<cfg, buf, closed, stop, node, main, stats>>
    BY <1>3 DEF vars
  <2>2. MainInv' /\ CloseInv' /\ main \in MainState /\ stop \in BOOLEAN /\ closed \in [ToSet(Channels) -> BOOLEAN]
    BY <2>1 DEF Inv, MainInv, CloseInv, TypeInv, MainState
  <2>3. SentInv'
    BY <2>1 DEF Inv, SentInv, Sequential, Draining
  <2> QED
    BY <2>1, <2>2, <2>3, MainMoves
<1> QED
  BY <1>1, <1>2, <1>3 DEF Next

\* The inductive invariant holds throughout, for every capacity and every set of
\* command lines.
THEOREM Invariant == Spec => []Inv
BY InitInv, StepInv, PTL DEF Spec

\* Every completion on a done channel has been through the nodes path_name lists
\* for its path, in that order, in both programs.
THEOREM RouteFollowsNameHolds == Spec => []RouteFollowsName
<1>1. ASSUME Inv PROVE RouteFollowsName
  <2>0. TypeInv /\ RouteInv
    BY <1>1 DEF Inv
  <2>1. SUFFICES ASSUME NEW k \in DOMAIN DonePorts, NEW m \in ToSet(buf[DonePorts[k]]) PROVE m.hops = PathName[m.path]
    BY DEF RouteFollowsName
  <2>2. PICK c : c = DonePorts[k]
    OBVIOUS
  <2>3. c \in DOMAIN buf /\ buf[c] \in Seq(Packet)
    <3>1. CASE Linked
      <4>1. k \in {1, 2, 3}
        BY <3>1 DEF DonePorts, Dones
      <4>2. c \in {"done_tun", "done_tunnel", "done_oam"}
        BY <2>2, <3>1, <4>1 DEF DonePorts, Dones
      <4>3. c \in ToSet(Channels)
        BY <3>1, <4>2, ChannelNames
      <4> QED
        BY <2>0, <4>3 DEF TypeInv
    <3>2. CASE ~Linked
      <4>1. c = "in_done"
        BY <2>2, <3>2 DEF DonePorts
      <4>2. c \in ToSet(Channels)
        BY <3>2, <4>1, ChannelNames
      <4> QED
        BY <2>0, <4>2 DEF TypeInv
    <3> QED
      BY <3>1, <3>2
  <2>4. PICK i \in 1..Len(buf[c]) : m = buf[c][i]
    BY <2>1, <2>2, <2>3 DEF ToSet
  <2>5. OnRoute(m, c) /\ m.hops \in Seq(Nodes) /\ Len(m.hops) \in Nat
    BY <2>0, <2>3, <2>4, PlaceTypes DEF RouteInv
  <2>6. m.path \in Paths
    BY <2>0, <2>5, ConfigFacts DEF TypeInv, OnRoute
  <2>7. PathName[m.path] \in Seq(Nodes) /\ Len(PathName[m.path]) \in Nat
    BY <2>6, PathTable
  <2>8. Len(m.hops) + 1 \in 1..(Len(PathName[m.path]) + 1) /\ Route(m.path)[Len(m.hops) + 1] = DonePorts[k]
    <3>1. Len(m.hops) <= Len(PathName[m.path]) /\ Route(m.path)[Len(m.hops) + 1] = c
      BY <2>5 DEF OnRoute
    <3> QED
      BY <2>2, <2>5, <2>7, <3>1
  <2>9. Len(m.hops) + 1 = Len(PathName[m.path]) + 1
    BY <2>6, <2>8, Routes
  <2>10. Len(m.hops) = Len(PathName[m.path]) /\ \A h \in 1..Len(m.hops) : m.hops[h] = PathName[m.path][h]
    BY <2>5, <2>7, <2>9 DEF OnRoute
  <2> QED
    BY <2>5, <2>7, <2>10
<1> QED
  BY <1>1, Invariant, PTL

\* No packet is lost, duplicated or reordered between two channels, whatever the
\* nodes interleave: until main stops, the packets in flight on a path are exactly
\* those sent and not yet received.
THEOREM NoLossNoDupHolds == Spec => []NoLossNoDup
<1>1. ASSUME Inv PROVE NoLossNoDup
  <2>0. TypeInv /\ RouteInv /\ FlowInv /\ StatInv /\ cfg.on \in SUBSET Paths
    BY <1>1, ConfigFacts DEF Inv, TypeInv
  <2>1. SUFFICES ASSUME NEW p \in cfg.on
                 PROVE  /\ stats[p].dup = 0 /\ stats[p].lost = 0
                        /\ ~stop => {m.seq : m \in {x \in InFlight : x.path = p}} = stats[p].next_expected..(stats[p].sent - 1)
    BY DEF NoLossNoDup
  <2>2. stats[p].dup = 0 /\ stats[p].lost = 0
    BY <2>0 DEF StatInv
  <2>3. SUFFICES ASSUME ~stop PROVE {m.seq : m \in {x \in InFlight : x.path = p}} = stats[p].next_expected..(stats[p].sent - 1)
    BY <2>2
  <2>4. DueInv /\ PresentInv
    BY <2>0, <2>3 DEF FlowInv
  <2>5. \A c \in DOMAIN buf : ToSet(buf[c]) = {buf[c][i] : i \in 1..Len(buf[c])}
    <3>1. \A c \in DOMAIN buf : buf[c] \in Seq(Packet)
      BY <2>0 DEF TypeInv
    <3>2. \A s \in Seq(Packet) : ToSet(s) = {s[i] : i \in 1..Len(s)}
      BY DEF ToSet
    <3> QED
      BY <3>1, <3>2
  <2>9. \A m : m \in InFlight <=> \/ \E c \in DOMAIN buf : m \in ToSet(buf[c])
                                 \/ \E o \in Nodes : node[o].pc = "send" /\ m = node[o].pkt
    <3>1. \A m : m \in UNION {ToSet(buf[c]) : c \in DOMAIN buf} <=> \E c \in DOMAIN buf : m \in ToSet(buf[c])
      OBVIOUS
    <3>2. \A x : x \in {node[n].pkt : n \in {m \in Nodes : node[m].pc = "send"}}
                    <=> \E o \in Nodes : node[o].pc = "send" /\ x = node[o].pkt
      OBVIOUS
    <3> QED
      BY <3>1, <3>2 DEF InFlight
  <2>6. stats[p].sent \in Nat /\ stats[p].next_expected \in Nat
    BY <2>0, PlaceTypes
  <2>7. ASSUME NEW m \in InFlight, m.path = p PROVE m.seq \in stats[p].next_expected..(stats[p].sent - 1)
    <3>1. CASE \E c \in DOMAIN buf : m \in ToSet(buf[c])
      <4>1. PICK c \in DOMAIN buf : m \in ToSet(buf[c])
        BY <3>1
      <4>2. PICK i \in 1..Len(buf[c]) : m = buf[c][i]
        BY <2>5, <4>1
      <4>3. Due(m) /\ m.seq \in Nat
        BY <2>0, <2>4, <4>2, PlaceTypes DEF DueInv
      <4> QED
        BY <2>6, <2>7, <4>3 DEF Due
    <3>2. CASE \E o \in Nodes : node[o].pc = "send" /\ m = node[o].pkt
      <4>1. Due(m) /\ m.seq \in Nat
        BY <2>0, <2>4, <3>2, PlaceTypes DEF DueInv
      <4> QED
        BY <2>6, <2>7, <4>1 DEF Due
    <3> QED
      BY <2>7, <2>9, <3>1, <3>2
  <2>8. ASSUME NEW s \in stats[p].next_expected..(stats[p].sent - 1) PROVE \E m \in InFlight : m.path = p /\ m.seq = s
    <3>1. CASE \E c \in DOMAIN buf : \E i \in 1..Len(buf[c]) : buf[c][i].path = p /\ buf[c][i].seq = s
      <4>1. PICK c \in DOMAIN buf : \E i \in 1..Len(buf[c]) : buf[c][i].path = p /\ buf[c][i].seq = s
        BY <3>1
      <4>2. PICK i \in 1..Len(buf[c]) : buf[c][i].path = p /\ buf[c][i].seq = s
        BY <4>1
      <4>3. buf[c][i] \in ToSet(buf[c])
        BY <2>5
      <4>4. buf[c][i] \in InFlight
        BY <2>9, <4>3
      <4> QED
        BY <4>2, <4>4
    <3>2. CASE \E o \in Nodes : node[o].pc = "send" /\ node[o].pkt.path = p /\ node[o].pkt.seq = s
      <4>1. PICK o \in Nodes : node[o].pc = "send" /\ node[o].pkt.path = p /\ node[o].pkt.seq = s
        BY <3>2
      <4>2. node[o].pkt \in InFlight
        BY <2>9, <4>1
      <4> QED
        BY <4>1, <4>2
    <3> QED
      BY <2>1, <2>4, <2>8, <3>1, <3>2 DEF PresentInv
  <2> QED
    BY <2>7, <2>8
<1> QED
  BY <1>1, Invariant, PTL

\* Main returns 0 only after a run whose packets were all received, and in a count
\* run exactly the count on each path; 1 only after a drain that ran out of time.
THEOREM VerdictIsRightHolds == Spec => []VerdictIsRight
<1>1. ASSUME Inv PROVE VerdictIsRight
  <2>1. MainInv /\ SentInv
    BY <1>1 DEF Inv
  <2>2. ASSUME main.pc = "exit 0" PROVE main.path = 0 /\ \A p \in cfg.on : stats[p].recv = stats[p].sent
    BY <2>1, <2>2 DEF MainInv, Over
  <2>3. main.path = 0 /\ ~cfg.timed => \A p \in cfg.on : stats[p].sent = cfg.count
    BY <2>1 DEF SentInv
  <2> QED
    BY <2>1, <2>2, <2>3 DEF MainInv, VerdictIsRight
<1> QED
  BY <1>1, Invariant, PTL
==============================================================================
