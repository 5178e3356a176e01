---------------------------- MODULE MCConnection ----------------------------
(***************************************************************************)
(* Connection for TLC: the clients and what they send in each run.         *)
(***************************************************************************)
EXTENDS Connection

MCClient == {1, 2}
MCByte == 1 .. 9

\* Any function of the bytes will do for a checksum.
MCCrc(bytes) == Len(bytes) + 256 * bytes[Len(bytes)]

\* Different for different numbers below 32.
MCSipHash(data) == SeqExt!FoldLeft(LAMBDA mac, x : 32 * mac + x, 0, data)

\* Two clients connect, and nothing else happens.
Base == [clients |-> MCClient, peer_count_max |-> 1,
         client_packets |-> [c \in MCClient |-> <<>>],
         peer_packets |-> [c \in MCClient |-> <<>>],
         client_disconnects |-> {}, peer_disconnects |-> {}, waiters |-> {},
         peers |-> 1, ticks |-> 0, restarts |-> 0, resends |-> 0]

\* Two clients want the only place, which one gives up after a while.
Full == [Base EXCEPT !.peers = 2, !.peer_disconnects = {1}]

\* Two peers share the timer queue.
Crowd == [Full EXCEPT !.peer_count_max = 2]

\* Cookies expire, and the server is restarted with cookies of its predecessor around.
Again == [Full EXCEPT !.clients = {1}, !.ticks = 1, !.restarts = 1]

\* Packets before, during and after the handshake, with resends and giving up.
Data == [Base EXCEPT !.clients = {1}, !.client_packets[1] = <<<<1>>, <<2>>>>, !.resends = 2]

\* A client that sends a packet and disconnects, or whose peer does, with a second peer for
\* the frames that come late.
Left == [Base EXCEPT !.clients = {1}, !.peers = 2, !.client_packets[1] = <<<<1>>>>,
                     !.client_disconnects = {1}]
Lost == [Left EXCEPT !.client_disconnects = {}, !.peer_disconnects = {1}]

\* Packets both ways, and an application that waits for events.
Talk == [Base EXCEPT !.clients = {1}, !.client_packets[1] = <<<<1>>>>,
                     !.peer_packets[1] = <<<<3>>, <<4>>>>, !.waiters = {1}]

MCPlans == {Full, Crowd, Again, Data, Left, Lost, Talk}
TalkPlan == {Talk}

\* Segments get alternating nonces.
MCNonces == {[id \in Id |-> id % 2 = 1]}

=============================================================================
