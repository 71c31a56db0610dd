------------------------------ MODULE MCSelect -------------------------------
EXTENDS Select

U == 1                   \* unbuffered
V == 2
B == 3                   \* buffered
C == 4
MCCap == <<0, 0, 1, 1>>
MCThreads == 1..3

Sel(cases, mode) == Call("select", cases, mode, "once")
R(c) == <<"recv", c>>
S(c) == <<"send", c>>
Recv(c) == Call("recv", <<R(c)>>, "block", "once")

\* Two selects whose cases meet and list the channels in opposite orders, and
\* a thread that closes one of them.
Crossing == << <<Sel(<<R(U), S(V)>>, "block"), Sel(<<R(U), S(V)>>, "block")>>,
               <<Sel(<<R(V), S(U)>>, "block")>>, <<CloseOf(U), CloseOf(U), Recv(U), CloseOf(V)>> >>

\* A timed select between a direct sender and a direct receiver.
Between == << Sends(U, 1), <<Sel(<<R(U), S(V)>>, "timed"), Sel(<<S(V), R(U)>>, "try")>>, <<Recv(V)>> >>

\* A select that sends on a buffered channel, the buffer drained by tries.
Feeding == << <<Sel(<<S(B), R(U)>>, "block"), Sel(<<S(B), R(U)>>, "try")>>,
              <<Sel(<<R(B)>>, "try"), Sel(<<R(B)>>, "try")>>, <<CloseOf(B), Recv(U)>> >>

\* Two selects that receive from the channel of a direct sender.
Rivals == << Sends(B, 2) \o <<CloseOf(B)>>, <<Sel(<<R(B), R(U)>>, "block")>>, <<Sel(<<R(B), R(U)>>, "block")>> >>

\* Two direct senders of one slot and a receiving select, whose helping push can
\* come too late for the sender it has already dequeued.
Contended == << Sends(B, 2), Sends(B, 1), <<Sel(<<R(B), R(U)>>, "block"), Sel(<<R(B), R(U)>>, "block")>> >>

\* A sending select and a direct sender compete for the slot the tries free.
Outbid == << <<Sel(<<S(B), R(U)>>, "try")>>, Sends(B, 2), <<Sel(<<R(B)>>, "try"), Sel(<<R(B)>>, "try")>> >>

\* Rivals, Contended and Outbid are outside RingResultsSafe.
MCPrograms == {MultiRecvSelect(B, C, 3), SelectCancel(B, U), Crossing, Between, Feeding, Rivals, Contended, Outbid}
==============================================================================
