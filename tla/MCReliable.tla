----------------------------- MODULE MCReliable -----------------------------
(***************************************************************************)
(* ReliableChannel for TLC: packets of 0 to 3 bytes in fragments of 2.     *)
(***************************************************************************)
EXTENDS ReliableChannel

CONSTANT Lengths

\* Packets of different lengths; the bytes carry their position and the length, so
\* that a mix-up of packets shows.
MCByte == Lengths \X (1 .. 3)

MCPacket == {[i \in 1 .. n |-> <<n, i>>] : n \in Lengths}

=============================================================================
