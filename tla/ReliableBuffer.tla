--------------------------- MODULE ReliableBuffer ---------------------------
(***************************************************************************)
(* The reliable fragment buffers (buffer/reliable.rs) as operators on      *)
(* records: TxBuffer splits packets into fragments and slides a go-back-N  *)
(* window over them, RxBuffer accepts fragments in order and puts packets  *)
(* back together.                                                          *)
(***************************************************************************)
EXTENDS WrappingIds, Fragmentation

CONSTANT WindowSize    \* window_size: fragments that may be unacknowledged

ASSUME WindowSizeAssumption ==
    WindowSize \in Nat \ {0} /\ 2 * WindowSize < IdMod

\* resend_all is triggered by this many acks of the same base in a row.
DuplicateAcks == 3

-----------------------------------------------------------------------------
(* TxBuffer: send_window.base_id is base_id; fragment_size and the window's *)
(* size never change and are constants.                                     *)

TxBuffer == [fragments           : Seq(Fragment),
             next_send_id        : Id,
             max_ack_id          : Id,
             base_id             : Id,
             duplicate_ack_count : 0 .. DuplicateAcks - 1]

TxNew(base_id) ==
    [fragments           |-> <<>>,
     next_send_id        |-> base_id,
     max_ack_id          |-> base_id,
     base_id             |-> base_id,
     duplicate_ack_count |-> 0]

TxPush(tx, packet) ==
    [tx EXCEPT !.fragments = @ \o Fragments(packet)]

\* How far the next fragment to send, and the first that was never sent, are
\* from the window's base.
NextSendDelta(tx) == WrappingSub(tx.next_send_id, tx.base_id)
MaxAckDelta(tx)   == WrappingSub(tx.max_ack_id, tx.base_id)

\* Mutant: the window is not consulted.
HasSendableNoWindow(tx) == NextSendDelta(tx) < Len(tx.fragments)

\* peek_sendable returns something ...
HasSendable(tx) ==
    /\ Contains(tx.base_id, WindowSize, tx.next_send_id)
    /\ NextSendDelta(tx) < Len(tx.fragments)

\* ... namely this fragment, under the id next_send_id.
PeekSendable(tx) == tx.fragments[NextSendDelta(tx) + 1]

\* pop_sendable, when there is something to send.
PopSendable(tx) ==
    LET next == WrappingAdd(tx.next_send_id, 1) IN
    [tx EXCEPT !.next_send_id = next,
               !.max_ack_id   = IF tx.next_send_id = @ THEN next ELSE @]

ResendAll(tx) ==
    [tx EXCEPT !.duplicate_ack_count = 0, !.next_send_id = tx.base_id]

\* Mutant: any id is acceptable.
AcknowledgeOKAny(tx, new_base_id) == TRUE

\* acknowledge: whether the id is acceptable, and the buffer afterwards.
AcknowledgeOK(tx, new_base_id) ==
    WrappingSub(new_base_id, tx.base_id) <= MaxAckDelta(tx)

\* Mutant: the count goes on after the third duplicate.
AcknowledgeDuplicateNoReset(tx) ==
    LET counted == [tx EXCEPT !.duplicate_ack_count = @ + 1] IN
    IF counted.duplicate_ack_count = DuplicateAcks
    THEN [counted EXCEPT !.next_send_id = tx.base_id] ELSE counted

AcknowledgeDuplicate(tx) ==
    LET counted == [tx EXCEPT !.duplicate_ack_count = @ + 1] IN
    IF counted.duplicate_ack_count = DuplicateAcks THEN ResendAll(counted) ELSE counted

\* Mutant: next_send_id is not moved when the ack overtakes a resend.
AcknowledgeNewKeepsNext(tx, new_base_id) ==
    LET new_base_delta == WrappingSub(new_base_id, tx.base_id) IN
    [tx EXCEPT
        !.fragments           = SubSeq(@, new_base_delta + 1, Len(@)),
        !.base_id             = new_base_id,
        !.duplicate_ack_count = 0]

AcknowledgeNew(tx, new_base_id) ==
    LET new_base_delta == WrappingSub(new_base_id, tx.base_id) IN
    [tx EXCEPT
        !.fragments           = SubSeq(@, new_base_delta + 1, Len(@)),
        !.base_id             = new_base_id,
        !.next_send_id        = IF new_base_delta > NextSendDelta(tx) THEN new_base_id
                                                                     ELSE @,
        !.duplicate_ack_count = 0]

Acknowledge(tx, new_base_id) ==
    IF new_base_id = tx.base_id THEN AcknowledgeDuplicate(tx)
    ELSE IF AcknowledgeOK(tx, new_base_id) THEN AcknowledgeNew(tx, new_base_id)
    ELSE tx

\* The order of a TxBuffer's numbers: base <= next_send <= max_ack, within the
\* window and within the fragments that exist.
TxWindowOK(tx) ==
    /\ NextSendDelta(tx) <= MaxAckDelta(tx)
    /\ MaxAckDelta(tx) <= WindowSize
    /\ MaxAckDelta(tx) <= Len(tx.fragments)

-----------------------------------------------------------------------------
(* RxBuffer: build is the packet under construction, <<>> when there is none *)
(* (get_or_insert_with starts one on any fragment, so the two are the same). *)

RxBuffer == [next_fragment_id : Id, build : Seq(Byte)]

RxNew(base_id) == [next_fragment_id |-> base_id, build |-> <<>>]

\* Mutant: any fragment from the next one on is accepted (a gap is skipped).
RxAcceptsAny(rx, fragment_id, fragment) ==
    /\ Contains(rx.next_fragment_id, WindowSize, fragment_id)
    /\ FragmentIsValid(fragment)

RxAccepts(rx, fragment_id, fragment) ==
    fragment_id = rx.next_fragment_id /\ FragmentIsValid(fragment)

\* receive: the buffer afterwards, and the packets it returns (none or one).
RxReceive(rx, fragment_id, fragment) ==
    IF RxAccepts(rx, fragment_id, fragment)
    THEN LET buffer == rx.build \o fragment.data IN
         [rx  |-> [next_fragment_id |-> WrappingAdd(rx.next_fragment_id, 1),
                   build            |-> IF fragment.last THEN <<>> ELSE buffer],
          out |-> IF fragment.last THEN <<buffer>> ELSE <<>>]
    ELSE [rx |-> rx, out |-> <<>>]

=============================================================================
