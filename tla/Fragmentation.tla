---------------------------- MODULE Fragmentation ----------------------------
(***************************************************************************)
(* Packets and their fragments, common to buffer/reliable.rs and           *)
(* buffer/unreliable.rs.  A packet is a sequence of bytes, whose values    *)
(* are left abstract; it is split into fragments of FragmentSize bytes,    *)
(* all full but the last.  The empty packet is one empty fragment.         *)
(***************************************************************************)
EXTENDS Integers, Sequences

CONSTANTS
    Byte,           \* what packets are made of
    FragmentSize    \* fragment_size: bytes of a full fragment

ASSUME FragmentSizeAssumption == FragmentSize \in Nat \ {0}

Fragment == [first : BOOLEAN, last : BOOLEAN, data : Seq(Byte)]

FragmentCount(packet) ==
    IF Len(packet) = 0 THEN 1
    ELSE (Len(packet) + FragmentSize - 1) \div FragmentSize

\* Mutant: `while bytes_remaining >= fragment_size` leaves an empty last fragment's
\* flag on the full one before it.
FragmentsLastIsFull(packet) ==
    [i \in 1 .. FragmentCount(packet) |->
        [first |-> i = 1,
         last  |-> Len(packet) - (i - 1) * FragmentSize >= FragmentSize
                   \/ i = FragmentCount(packet),
         data  |-> SubSeq(packet, (i - 1) * FragmentSize + 1,
                          IF i = FragmentCount(packet) THEN Len(packet)
                                                       ELSE i * FragmentSize)]]

Fragments(packet) ==
    [i \in 1 .. FragmentCount(packet) |->
        [first |-> i = 1,
         last  |-> i = FragmentCount(packet),
         data  |-> SubSeq(packet, (i - 1) * FragmentSize + 1,
                          IF i = FragmentCount(packet) THEN Len(packet)
                                                       ELSE i * FragmentSize)]]

\* A fragment that agrees with the receiver's fragment size.
FragmentIsValid(fragment) ==
    IF fragment.last THEN Len(fragment.data) <= FragmentSize
                     ELSE Len(fragment.data) = FragmentSize

=============================================================================
