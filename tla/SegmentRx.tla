------------------------------ MODULE SegmentRx ------------------------------
(***************************************************************************)
(* The receiver's segment window (endpoint/segment_rx.rs) as operators on  *)
(* a record.  Segments are delivered in the order of their ids, each once; *)
(* up to two that arrived early wait in slots, and a third one makes the   *)
(* receiver give up on what is missing before the oldest of the three.     *)
(* A segment is [id, nonce, data]; out collects the data handed to the     *)
(* callback, and len (how many slots are used) is Len(slots).              *)
(***************************************************************************)
EXTENDS WrappingIds, Bits, Sequences

CONSTANTS
    RxWindow,        \* window.size (4096)
    RxHistoryBits,   \* bits of rx_history and nonce_history (32)
    AckBits          \* bits of history in an acknowledgement (5)

ASSUME RxWindowAssumption == RxWindow \in Nat \ {0} /\ 2 * RxWindow <= IdMod
ASSUME RxHistoryAssumption ==
    RxHistoryBits \in Nat \ {0} /\ AckBits \in Nat /\ AckBits <= RxHistoryBits

SegmentRxNew(base_id) ==
    [base_id |-> base_id, slots |-> <<>>, rx_history |-> {}, nonce_history |-> {},
     out |-> <<>>]

RxDelta(rx, id) == WrappingSub(id, rx.base_id)

\* Mutant: the skipped segments leave no trace in the history.
PushHistoryNoSkips(history, skips, bit) ==
    Shl(history, 1, RxHistoryBits) \cup (IF bit THEN {0} ELSE {})

\* push_history_skips, then push_history_ack.
PushHistory(history, skips, bit) ==
    Shl(history, skips + 1, RxHistoryBits) \cup (IF bit THEN {0} ELSE {})

\* Hands a segment to the callback, skips what is missing before it and moves the
\* window past it.
Deliver(rx, segment) ==
    [rx EXCEPT !.out           = Append(@, segment.data),
               !.rx_history    = PushHistory(@, RxDelta(rx, segment.id), TRUE),
               !.nonce_history = PushHistory(@, RxDelta(rx, segment.id), segment.nonce),
               !.base_id       = WrappingAdd(segment.id, 1)]

\* Takes the first slot and delivers it.
DeliverSlot(rx) == [Deliver(rx, rx.slots[1]) EXCEPT !.slots = Tail(@)]

DeliverIfNext(rx) ==
    IF rx.slots # <<>> /\ rx.slots[1].id = rx.base_id THEN DeliverSlot(rx) ELSE rx

\* Delivers all segments in the slots that match the next expected id.
DeliverReady(rx) == DeliverIfNext(DeliverIfNext(rx))

\* Mutant: the slots are compared by their ids, which wrap.
SortSlotsById(rx, a, b) == IF a.id > b.id THEN <<b, a>> ELSE <<a, b>>

\* swap_slots_if_backward.
SortSlots(rx, a, b) == IF RxDelta(rx, a.id) > RxDelta(rx, b.id) THEN <<b, a>> ELSE <<a, b>>

\* Mutant: only the first slot is looked at.
BufferedFirst(rx, id) == rx.slots # <<>> /\ rx.slots[1].id = id

Buffered(rx, id) == \E i \in 1 .. Len(rx.slots) : rx.slots[i].id = id

\* receive, for a segment in the window ...
Accept(rx, segment) ==
    CASE segment.id = rx.base_id ->
            DeliverReady(Deliver(rx, segment))
      [] segment.id # rx.base_id /\ Len(rx.slots) = 0 ->
            [rx EXCEPT !.slots = <<segment>>]
      [] segment.id # rx.base_id /\ Len(rx.slots) = 1 ->
            IF Buffered(rx, segment.id) THEN rx
            ELSE [rx EXCEPT !.slots = SortSlots(rx, @[1], segment)]
      [] segment.id # rx.base_id /\ Len(rx.slots) = 2 ->
            IF Buffered(rx, segment.id) THEN DeliverReady(rx)
            ELSE IF RxDelta(rx, segment.id) < RxDelta(rx, rx.slots[1].id)
            THEN DeliverReady(Deliver(rx, segment))
            ELSE LET popped == DeliverSlot(rx)
                 IN  DeliverReady([popped EXCEPT
                                     !.slots = SortSlots(popped, segment, rx.slots[2])])

\* ... and for any segment.
SegmentReceive(rx, segment) ==
    LET start == [rx EXCEPT !.out = <<>>]
    IN  IF Contains(rx.base_id, RxWindow, segment.id) THEN Accept(start, segment)
                                                      ELSE start

\* sync: the sender will not send again what precedes next_segment_id.  When no slot
\* is in use the code compares with base_id itself instead of with 0.
SyncMinDelta(rx) ==
    IF rx.slots = <<>> THEN rx.base_id ELSE RxDelta(rx, rx.slots[Len(rx.slots)].id)

SyncAccepted(rx, next_segment_id) ==
    /\ RxDelta(rx, next_segment_id) > SyncMinDelta(rx)
    /\ RxDelta(rx, next_segment_id) <= RxWindow

\* Hands out what waits in the slots, then moves the window.
Resync(rx, next_segment_id) ==
    LET r1 == IF rx.slots = <<>> THEN rx ELSE DeliverSlot(rx)
        r2 == IF r1.slots = <<>> THEN r1 ELSE DeliverSlot(r1)
        remaining == RxDelta(r2, next_segment_id)
    IN  [r2 EXCEPT !.rx_history    = Shl(@, remaining, RxHistoryBits),
                   !.nonce_history = Shl(@, remaining, RxHistoryBits),
                   !.base_id       = next_segment_id]

SegmentSync(rx, next_segment_id) ==
    LET start == [rx EXCEPT !.out = <<>>]
    IN  IF SyncAccepted(rx, next_segment_id) THEN Resync(start, next_segment_id)
                                             ELSE start

\* next_ack_info: the history of an acknowledgement and its checksum.
AckHistory(rx) == Low(rx.rx_history, AckBits)
AckChecksum(rx) == Parity(AckHistory(rx) \cap rx.nonce_history)

=============================================================================
