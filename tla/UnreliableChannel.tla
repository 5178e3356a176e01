-------------------------- MODULE UnreliableChannel --------------------------
(***************************************************************************)
(* One direction of the unreliable packet stream: the buffers of           *)
(* UnreliableBuffer and the segments between them, one fragment in each.   *)
(* SegmentRx hands out segments in their order and each one once, so they  *)
(* form a queue that may lose anything.  Sync frames are plain UDP frames: *)
(* they may arrive late, twice, or never, and SegmentRx may refuse one,    *)
(* but each one that arrives resets the receiver's buffer.                 *)
(*                                                                         *)
(* Segments are numbered from 1 in n, floor, anchor and syncs without      *)
(* wrapping.                                                               *)
(***************************************************************************)
EXTENDS UnreliableBuffer, FiniteSets

CONSTANTS
    Lengths,      \* lengths of packets
    Timeouts,     \* timeouts of SendMode::Unreliable, in ms
    MaxPackets,   \* bound: packets sent in a behaviour
    MaxSyncs,     \* bound: sync frames sent in a behaviour
    MaxTime       \* bound: the clock

ASSUME UnreliableAssumption ==
    /\ Lengths \subseteq Nat /\ Timeouts \subseteq Nat
    /\ MaxPackets \in Nat /\ MaxSyncs \in Nat /\ MaxTime \in Nat

VARIABLES
    utx,         \* the sender's TxBuffer
    urx,         \* the receiver's RxBuffer
    wire,        \* segments in flight, oldest first
    syncs,       \* sync frames in flight: the number of the last segment before each
    now_ms,      \* the sender's clock
    packets,     \* history: packets sent
    delivered,   \* history: packets handed out
    last,        \* history: number of the last segment sent
    floor,       \* history: number of the last segment before the receiver's window
    anchor,      \* history: where the receiver's buffer last accepted or was reset
    handed       \* history: the fragments handed to the receiver's buffer

unrelVars ==
    <<utx, urx, wire, syncs, now_ms, packets, delivered, last, floor, anchor, handed>>

Init == /\ utx = UnrelTxNew(0)
        /\ urx = UnrelRxNew(0)
        /\ wire = <<>>
        /\ syncs = {}
        /\ now_ms = 0
        /\ packets = <<>>
        /\ delivered = <<>>
        /\ last = 0
        /\ floor = 0
        /\ anchor = 0
        /\ handed = {}

\* FragmentTxBuffers::enqueue in SendMode::Unreliable.  The bytes of a packet carry its
\* number and their position, so that a mixture of packets differs from every packet.
Enqueue(length, timeout_ms) ==
    LET packet == [i \in 1 .. length |-> <<Len(packets) + 1, i>>] IN
    /\ Len(packets) < MaxPackets
    /\ utx' = UnrelPush(utx, packet, now_ms + timeout_ms + 1)
    /\ packets' = Append(packets, packet)
    /\ UNCHANGED <<urx, wire, syncs, now_ms, delivered, last, floor, anchor, handed>>

Tick == /\ now_ms < MaxTime
        /\ now_ms' = now_ms + 1
        /\ UNCHANGED <<utx, urx, wire, syncs, packets, delivered, last, floor, anchor, handed>>

\* flush drops what has expired and writes the next fragment.  The receiver's buffer
\* compares ids with the one after anchor: with 32-bit ids it would take 2^32 fragments
\* that it neither accepts nor is reset by to make an id mean another fragment.
Flush ==
    LET live == PopExpired(utx, now_ms) IN
    /\ UnrelHasSendable(utx)
    /\ last < anchor + IdMod
    /\ IF UnrelHasSendable(live)
       THEN /\ utx' = UnrelPopSendable(live)
            /\ wire' = Append(wire, [n        |-> last + 1,
                                     id       |-> live.next_fragment_id,
                                     fragment |-> UnrelPeekSendable(live)])
            /\ last' = last + 1
       ELSE /\ utx' = live
            /\ UNCHANGED <<wire, last>>
    /\ UNCHANGED <<urx, syncs, now_ms, packets, delivered, floor, anchor, handed>>

\* The network, or SegmentRx skipping a segment, drops a fragment.
Lose(i) ==
    /\ wire' = SubSeq(wire, 1, i - 1) \o SubSeq(wire, i + 1, Len(wire))
    /\ UNCHANGED <<utx, urx, syncs, now_ms, packets, delivered, last, floor, anchor, handed>>

\* The segment layer hands the oldest segment to handle_stream_frame's callback.
ReceiveFragment ==
    /\ wire # <<>>
    /\ LET m    == Head(wire)
           done == UnrelReceive(urx, m.id, m.fragment)
       IN  /\ urx' = done.rx
           /\ delivered' = delivered \o done.out
           /\ floor' = m.n
           /\ anchor' = IF UnrelAccepts(urx, m.id, m.fragment) THEN m.n ELSE anchor
           /\ handed' = handed \cup {m.fragment}
    /\ wire' = Tail(wire)
    /\ UNCHANGED <<utx, syncs, now_ms, packets, last>>

\* handle_rto_timer sends a sync frame; the timer runs only once a segment was sent.
SendSync ==
    /\ last > 0
    /\ Cardinality(syncs) < MaxSyncs
    /\ syncs' = syncs \cup {last}
    /\ UNCHANGED <<utx, urx, wire, now_ms, packets, delivered, last, floor, anchor, handed>>

\* handle_stream_sync_frame: SegmentRx moves its window if it accepts the sync, and the
\* buffer is reset in any case.
ReceiveSync(s, accepted) ==
    /\ accepted => s > floor
    /\ urx' = UnrelReset(urx)
    /\ floor' = IF accepted THEN s ELSE floor
    /\ anchor' = floor'
    /\ IF accepted
       THEN \E first \in 1 .. Len(wire) + 1 :
               /\ \A i \in 1 .. Len(wire) : wire[i].n > s <=> i >= first
               /\ wire' = SubSeq(wire, first, Len(wire))
       ELSE UNCHANGED wire
    /\ UNCHANGED <<utx, syncs, now_ms, packets, delivered, last, handed>>

Next == \/ \E length \in Lengths, timeout_ms \in Timeouts : Enqueue(length, timeout_ms)
        \/ Tick
        \/ Flush
        \/ \E i \in 1 .. Len(wire) : Lose(i)
        \/ ReceiveFragment
        \/ SendSync
        \/ \E s \in syncs, accepted \in BOOLEAN : ReceiveSync(s, accepted)

Spec == Init /\ [][Next]_unrelVars

-----------------------------------------------------------------------------
(* Properties *)

\* Types of the buffers.
TypeOK ==
    /\ utx.next_fragment_id \in Id /\ urx.base_id \in Id
    /\ \A i \in 1 .. Len(utx.entries) : FragmentIsValid(utx.entries[i].fragment)
    /\ anchor <= floor /\ floor <= last
    /\ now_ms \in 0 .. MaxTime

\* Expiry in the middle of a packet, losses, syncs and wrapping ids never make the
\* receiver hand out anything but a packet that was sent, and none twice or out of
\* order: fragments of different packets are not combined.
OnlyWholePackets ==
    \E f \in [1 .. Len(delivered) -> 1 .. Len(packets)] :
        /\ \A i \in 1 .. Len(delivered) : delivered[i] = packets[f[i]]
        /\ \A i, j \in 1 .. Len(delivered) : i < j => f[i] < f[j]

\* A packet all of whose fragments reached the receiver's buffer has been handed out:
\* resetting the buffer on a sync "will not artificially introduce data loss"
\* (endpoint/mod.rs).
NoArtificialLoss ==
    \A p \in 1 .. Len(packets) :
        (\A i \in 1 .. FragmentCount(packets[p]) : Fragments(packets[p])[i] \in handed)
        => \E i \in 1 .. Len(delivered) : delivered[i] = packets[p]

=============================================================================
