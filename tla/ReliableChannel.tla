--------------------------- MODULE ReliableChannel ---------------------------
(***************************************************************************)
(* One direction of the reliable packet stream: a TxBuffer, a RxBuffer and *)
(* what lies between them.  Data passes through SegmentRx, which delivers  *)
(* segments in the order of their ids and each one once, so the data path  *)
(* is a queue that may lose anything.  Acknowledgements are plain UDP      *)
(* frames: they may be lost, duplicated and reordered, so those in flight  *)
(* are a set that receipt does not empty.                                  *)
(*                                                                         *)
(* The numbers n in messages, and pushed, received and base, are history:  *)
(* they count fragments without wrapping.  No action's guard on the code's *)
(* side reads them.                                                        *)
(***************************************************************************)
EXTENDS ReliableBuffer

CONSTANTS
    Packet,       \* the packets an application may send
    MaxPackets,   \* bound: packets sent in a behaviour
    MaxWire,      \* bound: fragments in flight
    AckLag        \* bound: an ack older than this never arrives

ASSUME PacketAssumption == \A packet \in Packet : packet \in Seq(Byte)
ASSUME MaxPacketsAssumption == MaxPackets \in Nat
ASSUME MaxWireAssumption == MaxWire \in Nat
\* In the code ids have 32 bits: an ack would have to be overtaken by 2^32
\* fragments less the window to be mistaken for a new one.
ASSUME AckLagAssumption == AckLag \in Nat /\ AckLag + WindowSize < IdMod

VARIABLES
    tx,         \* the sender's TxBuffer
    rx,         \* the receiver's RxBuffer
    wire,       \* fragments in flight, oldest first
    acks,       \* acknowledgements in flight
    sent,       \* packets handed to the sender
    delivered,  \* packets handed out by the receiver
    pushed,     \* history: every fragment of every packet sent
    received,   \* history: every fragment the receiver accepted
    base        \* history: number of fragments the sender has seen acknowledged

vars == <<tx, rx, wire, acks, sent, delivered, pushed, received, base>>

Init == /\ tx = TxNew(0)
        /\ rx = RxNew(0)
        /\ wire = <<>>
        /\ acks = {}
        /\ sent = <<>>
        /\ delivered = <<>>
        /\ pushed = <<>>
        /\ received = <<>>
        /\ base = 0

\* FragmentTxBuffers::enqueue in SendMode::Reliable.
Enqueue(packet) ==
    /\ Len(sent) < MaxPackets
    /\ tx' = TxPush(tx, packet)
    /\ sent' = Append(sent, packet)
    /\ pushed' = pushed \o Fragments(packet)
    /\ UNCHANGED <<rx, wire, acks, delivered, received, base>>

\* flush writes the next sendable fragment into a segment.
SendFragment ==
    /\ HasSendable(tx)
    /\ Len(wire) < MaxWire
    /\ wire' = Append(wire, [n        |-> base + NextSendDelta(tx) + 1,
                             id       |-> tx.next_send_id,
                             fragment |-> PeekSendable(tx)])
    /\ tx' = PopSendable(tx)
    /\ UNCHANGED <<rx, acks, sent, delivered, pushed, received, base>>

\* The network, or SegmentRx skipping a segment, drops a fragment.
LoseFragment(i) ==
    /\ wire' = SubSeq(wire, 1, i - 1) \o SubSeq(wire, i + 1, Len(wire))
    /\ UNCHANGED <<tx, rx, acks, sent, delivered, pushed, received, base>>

\* handle_stream_frame hands a fragment to the RxBuffer and acknowledges.
ReceiveFragment ==
    /\ wire # <<>>
    /\ LET m    == Head(wire)
           done == RxReceive(rx, m.id, m.fragment)
       IN  /\ rx' = done.rx
           /\ delivered' = delivered \o done.out
           /\ received' = IF RxAccepts(rx, m.id, m.fragment)
                          THEN Append(received, m.fragment) ELSE received
           /\ acks' = acks \cup {[n |-> Len(received'), id |-> done.rx.next_fragment_id]}
    /\ wire' = Tail(wire)
    /\ UNCHANGED <<tx, sent, pushed, base>>

\* handle_stream_sync_frame answers a sync with the id it expects, new or not.
AnswerSync ==
    /\ acks' = acks \cup {[n |-> Len(received), id |-> rx.next_fragment_id]}
    /\ UNCHANGED <<tx, rx, wire, sent, delivered, pushed, received, base>>

\* handle_stream_frame passes an acknowledgement to the TxBuffer.  Those that
\* the sender has outrun by more than AckLag will not arrive any more.
ReceiveAck(a) ==
    /\ tx' = Acknowledge(tx, a.id)
    /\ base' = base + WrappingSub(tx'.base_id, tx.base_id)
    /\ acks' = {k \in acks : base' <= k.n + AckLag}
    /\ UNCHANGED <<rx, wire, sent, delivered, pushed, received>>

\* handle_rto_timer.
Timeout == /\ tx' = ResendAll(tx)
           /\ UNCHANGED <<rx, wire, acks, sent, delivered, pushed, received, base>>

Next == \/ \E packet \in Packet : Enqueue(packet)
        \/ SendFragment
        \/ \E i \in 1 .. Len(wire) : LoseFragment(i)
        \/ ReceiveFragment
        \/ AnswerSync
        \/ \E a \in acks : ReceiveAck(a)
        \/ Timeout

Spec == Init /\ [][Next]_vars

-----------------------------------------------------------------------------
(* Properties *)

\* Types of the buffers and of what is in flight.
TypeOK ==
    /\ tx \in TxBuffer
    /\ rx \in RxBuffer
    /\ wire \in Seq([n : Nat, id : Id, fragment : Fragment])
    /\ acks \in SUBSET [n : Nat, id : Id]
    /\ pushed \in Seq(Fragment)
    /\ received \in Seq(Fragment)
    /\ base \in Nat

\* TxBuffer's numbers stay in order whatever is acknowledged, resent or lost:
\* base <= next_send <= max_ack, within the window and within the fragments that
\* exist.  It is why acknowledge may drain(0..delta) without a panic and why
\* peek_sendable indexes the fragment its id names.
SendWindowOK == TxWindowOK(tx)

\* The sender discards a fragment only after the receiver accepted it, and keeps
\* every other one: what it still holds is the rest of what was pushed.
NothingForgotten ==
    /\ base <= Len(received)
    /\ Len(pushed) = base + Len(tx.fragments)
    /\ \A i \in 1 .. Len(tx.fragments) : tx.fragments[i] = pushed[base + i]

\* The receiver accepts the fragments in the order in which they were pushed,
\* without a gap or a repetition, although ids wrap and fragments are lost and
\* resent.
ReceivedInOrder ==
    /\ Len(received) <= Len(pushed)
    /\ \A i \in 1 .. Len(received) : received[i] = pushed[i]

\* A fragment in flight is one that was pushed and sent, and less than a window away
\* from the one the receiver expects, so that its wrapped id names it.
WireOK ==
    \A i \in 1 .. Len(wire) :
        /\ wire[i].n \in 1 .. base + MaxAckDelta(tx)
        /\ wire[i].fragment = pushed[wire[i].n]
        /\ Len(received) < wire[i].n + WindowSize
        /\ Ahead(wire[i].id, rx.next_fragment_id, wire[i].n - 1 - Len(received))
        /\ \A j \in 1 .. i - 1 : wire[j].n < wire[i].n + WindowSize

\* An ack in flight is at most AckLag behind the sender's base and not ahead of what
\* the receiver accepted.
AcksOK ==
    \A a \in acks :
        /\ a.n <= Len(received)
        /\ base <= a.n + AckLag
        /\ Ahead(a.id, tx.base_id, a.n - base)

\* The receiver is within what the sender has sent of its window.
ReceiverOK ==
    /\ Len(received) <= base + MaxAckDelta(tx)
    /\ Ahead(rx.next_fragment_id, tx.base_id, Len(received) - base)

\* What is in flight can be told apart by its wrapped id: acknowledge and receive
\* never take an old message for a new one.
InFlightOK == WireOK /\ AcksOK /\ ReceiverOK

\* The packets that come out are the packets that went in, in their order:
\* reassembly inverts fragmentation and the channel implements FifoChannel.
Fifo == INSTANCE FifoChannel WITH Item <- Packet
FifoSpec == Fifo!Spec

=============================================================================
