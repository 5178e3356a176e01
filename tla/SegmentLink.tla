----------------------------- MODULE SegmentLink -----------------------------
(***************************************************************************)
(* One direction of a segment stream: a SegmentTx, a SegmentRx and UDP     *)
(* between them.  Segments, syncs and acknowledgements may be lost,        *)
(* duplicated and reordered: whatever was sent may arrive any number of    *)
(* times, in any order, until the receiver (or, for acks, the sender) has  *)
(* moved on by more than Lag ids.  Segments are numbered from 0 without    *)
(* wrapping in the history variables; the number is also the data that a   *)
(* segment carries.                                                        *)
(***************************************************************************)
EXTENDS SegmentTx, SegmentRx

CONSTANTS
    InitIds,       \* the ids a stream may start with (Endpoint::new passes 0)
    Kinds,         \* the segments that may be sent: their nonce and size
    MaxSegments,   \* bound: segments sent
    Lag            \* bound: how much older than the window a frame may be on arrival

\* With 32-bit ids a frame would have to be 2^32 less a window ids late.
ASSUME LagAssumption ==
    Lag \in Nat /\ Lag + RxWindow < IdMod /\ Lag + TxWindow < IdMod
ASSUME SegmentLinkAssumption ==
    /\ Kinds \subseteq [nonce : BOOLEAN, size : Nat]
    /\ InitIds \subseteq Id /\ MaxSegments \in Nat
    /\ TxWindow <= RxWindow /\ AckBits <= HistoryBits

VARIABLES
    stx,         \* the sender's SegmentTx
    srx,         \* the receiver's SegmentRx
    syncs,       \* sync frames in flight, by the number they carry
    acks,        \* acknowledgements in flight
    sent,        \* history: nonce and size of every segment sent
    delivered,   \* history: numbers of the segments handed to the callback
    tx_base,     \* history: number of stx.base_id
    rx_base,     \* history: number of srx.base_id
    drop,        \* whether the last step reported a drop to congestion control
    jumped       \* history: some ack covered more segments than it has history for

linkVars == <<stx, srx, syncs, acks, sent, delivered, tx_base, rx_base, drop, jumped>>

Init == \E id \in InitIds :
    /\ stx = SegmentTxNew(id)
    /\ srx = SegmentRxNew(id)
    /\ syncs = {}
    /\ acks = {}
    /\ sent = <<>>
    /\ delivered = <<>>
    /\ tx_base = 0
    /\ rx_base = 0
    /\ drop = FALSE
    /\ jumped = FALSE

\* The id of the n-th segment: the receiver's base is the rx_base-th.
IdOf(n) == IF n >= rx_base THEN WrappingAdd(srx.base_id, n - rx_base)
                           ELSE WrappingSub(srx.base_id, rx_base - n)

\* flush_stream sends a segment with a random nonce.
SendSegment(kind) ==
    /\ Len(sent) < MaxSegments
    /\ CanSend(stx)
    /\ stx' = MarkSent(StoreNonce(stx, kind.nonce), kind.size)
    /\ sent' = Append(sent, kind)
    /\ drop' = FALSE
    /\ UNCHANGED <<srx, syncs, acks, delivered, tx_base, rx_base, jumped>>

\* handle_rto_timer sends a sync with the id of the next segment.
SendSync ==
    /\ syncs' = syncs \cup {Len(sent)}
    /\ drop' = FALSE
    /\ UNCHANGED <<stx, srx, acks, sent, delivered, tx_base, rx_base, jumped>>

\* What the receiver does after either frame: the acknowledgement of the new state.
ReceiverBecomes(rx, answer) ==
    /\ srx' = [rx EXCEPT !.out = <<>>]
    /\ delivered' = delivered \o rx.out
    /\ rx_base' = rx_base + WrappingSub(rx.base_id, srx.base_id)
    /\ acks' = IF answer
               THEN acks \cup {[n        |-> rx_base',
                                id       |-> rx.base_id,
                                history  |-> AckHistory(rx),
                                checksum |-> AckChecksum(rx)]}
               ELSE acks
    /\ drop' = FALSE
    /\ UNCHANGED <<stx, sent, tx_base, jumped>>

\* handle_stream_frame: an ack is sent only if something was delivered.
ReceiveSegment(n) ==
    /\ n + Lag >= rx_base
    /\ LET rx == SegmentReceive(srx, [id |-> IdOf(n), nonce |-> sent[n + 1].nonce,
                                      data |-> n])
       IN  /\ ReceiverBecomes(rx, rx.out # <<>>)
           /\ syncs' = {m \in syncs : m + Lag >= rx_base'}

\* handle_stream_sync_frame: an ack is always sent.
ReceiveSync(m) ==
    /\ ReceiverBecomes(SegmentSync(srx, IdOf(m)), TRUE)
    /\ syncs' = {k \in syncs : k + Lag >= rx_base'}

\* handle_stream_frame: cc_state.handle_drop is called when drop is reported.
ReceiveAck(a) ==
    LET done == SegmentAcknowledge(stx, a.id, a.history, a.checksum) IN
    /\ stx' = done.tx
    /\ drop' = done.drop
    /\ tx_base' = tx_base + WrappingSub(done.tx.base_id, stx.base_id)
    /\ jumped' = (jumped \/ tx_base' - tx_base > AckBits)
    /\ acks' = {k \in acks : k.n + Lag >= tx_base'}
    /\ UNCHANGED <<srx, syncs, sent, delivered, rx_base>>

Next == \/ \E kind \in Kinds : SendSegment(kind)
        \/ SendSync
        \/ \E n \in 0 .. Len(sent) - 1 : ReceiveSegment(n)
        \/ \E m \in syncs : ReceiveSync(m)
        \/ \E a \in acks : ReceiveAck(a)

Spec == Init /\ [][Next]_linkVars

-----------------------------------------------------------------------------
(* Properties *)

\* Ids stay in the range of their integers, bit fields in their width, and the slots
\* hold segments that were sent.
TypeOK ==
    /\ stx \in SegmentTxType
    /\ srx.base_id \in Id
    /\ srx.rx_history \subseteq AllOnes(RxHistoryBits)
    /\ srx.nonce_history \subseteq AllOnes(RxHistoryBits)
    /\ \A i \in 1 .. Len(srx.slots) :
          srx.slots[i] \in [id : Id, nonce : BOOLEAN, data : 0 .. Len(sent) - 1]
    /\ syncs \subseteq 0 .. Len(sent)
    /\ acks \subseteq [n : Nat, id : Id, history : SUBSET AllOnes(AckBits),
                      checksum : BOOLEAN]

\* Segments wait in the slots in the order of their ids, each once, strictly beyond
\* the expected one and inside the window: receive's while loop, the insertion and
\* sync's delivery rely on it.
SlotsOK ==
    /\ Len(srx.slots) <= 2
    /\ \A i \in 1 .. Len(srx.slots) :
          RxDelta(srx, srx.slots[i].id) \in 1 .. RxWindow - 1
    /\ Len(srx.slots) = 2 =>
          RxDelta(srx, srx.slots[1].id) < RxDelta(srx, srx.slots[2].id)

\* Despite duplication, reordering, skips, syncs and wrapping ids, every segment is
\* handed out at most once and in the order of sending, and never again once the
\* window has passed it.
DeliveredInOrder ==
    /\ \A i \in 1 .. Len(delivered) - 1 : delivered[i] < delivered[i + 1]
    /\ \A i \in 1 .. Len(delivered) : delivered[i] < rx_base

\* The history that next_ack_info reports is the truth about the last segments before
\* the window, skipped ones included.
HistoryTruthful ==
    \A k \in 0 .. AckBits - 1 :
        k \in srx.rx_history <=>
            \E i \in 1 .. Len(delivered) : delivered[i] = rx_base - 1 - k

\* An acknowledgement from this receiver is never refused for its nonces: the bits the
\* sender cuts out of its ring of words agree with what the receiver saw.
HonestAckVerifies ==
    \A a \in acks :
        SegmentAckValid(stx, a.id) =>
            ExpectedChecksum(AdvanceBase(stx, a.id).nonce_history, a.history) = a.checksum

\* An ack that is older than the window, or was never due, is recognised by its id.
AcksRecognised ==
    /\ \A a \in acks : SegmentAckValid(stx, a.id) <=> a.n >= tx_base
    /\ tx_base <= rx_base /\ rx_base <= Len(sent)

\* bytes_in_transit is the size of the segments between base_id and next_id: the
\* subtraction in acknowledge cannot underflow and the congestion window is compared
\* with what is really unacknowledged.
TransitExact ==
    LET n == Len(sent) - tx_base
    IN  stx.transit_total = SumTo([i \in 1 .. n |-> sent[tx_base + i].size], n)

\* Congestion control hears of a drop only if the receiver has skipped a segment, or
\* acks were lost or overtaken so that one of them covered more than its history.
DropHasCause ==
    drop => \/ jumped
            \/ \E n \in 0 .. rx_base - 1 : \A i \in 1 .. Len(delivered) : delivered[i] # n

\* A sync that points beyond everything the receiver has, within its window, leaves
\* nothing outstanding: the window moves to it ("Only accept syncs which exceed the
\* last outstanding segment (if any)", segment_rx.rs).
SyncCompletes ==
    [][\A m \in syncs :
          (/\ ReceiveSync(m)
           /\ m > rx_base
           /\ \A i \in 1 .. Len(srx.slots) :
                 RxDelta(srx, srx.slots[i].id) < RxDelta(srx, IdOf(m)))
          => srx'.base_id = IdOf(m)]_linkVars

=============================================================================
