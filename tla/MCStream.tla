------------------------------ MODULE MCStream ------------------------------
(***************************************************************************)
(* Stream for TLC: what the two sides send in each run.                    *)
(***************************************************************************)
EXTENDS Stream

Reliable(packet) == [packet |-> packet, reliable |-> TRUE, timeout_ms |-> 0]
Unreliable(packet) == [packet |-> packet, reliable |-> FALSE, timeout_ms |-> 0]

MCByte == 1 .. 9

\* Two reliable fragments against an unreliable packet.
BothWays == [s \in Side |-> IF s = "client" THEN <<Reliable(<<1, 2>>)>>
                                            ELSE <<Unreliable(<<3>>)>>]

\* A packet from the server, to be cut off by disconnecting.
OnePacket == [s \in Side |-> IF s = "server" THEN <<Reliable(<<1>>)>> ELSE <<>>]

\* Four segments in one direction.
FourPackets == [s \in Side |-> IF s = "client" THEN [i \in 1 .. 4 |-> Reliable(<<i>>)]
                                               ELSE <<>>]

\* Segments get alternating nonces.
MCNonces == {[id \in Id |-> id % 2 = 1]}

=============================================================================
