------------------------------ MODULE Endpoint ------------------------------
(***************************************************************************)
(* An endpoint of a connection (endpoint/mod.rs) as operators on a record: *)
(* what each call and each frame does to the buffers, the segment windows, *)
(* congestion control, the retransmission timer and the state.  Besides    *)
(* the fields of the code the record has what HostContext is called with:  *)
(* timer (the host's timer is set), frames and events (those sent and      *)
(* raised by the call, emptied by the host).                               *)
(*                                                                         *)
(* Time appears as now_ms where packets expire.  When the host's timer     *)
(* fires, and which RTO update_rtt computes, is left to the host, as are   *)
(* the random nonces of segments (nonces, by segment id).  Both nonces of  *)
(* a connection are 0 (new), so validate_close_frame holds.                *)
(***************************************************************************)
EXTENDS SegmentTx, SegmentRx, ReliableBuffer, UnreliableBuffer, AimdReno, Prio

SeqExt == INSTANCE SequencesExt

CONSTANTS
    Q16,               \* units of the congestion window in a byte (2^16)
    FrameRoom,         \* bytes for an ack and datagrams in a frame
    StreamAckSize,     \* STREAM_ACK_SIZE
    DatagramHeader,    \* DATAGRAM_HEADER_SIZE
    RtoMin,            \* RTO_MIN_MS, also RTO_INITIAL_MS
    RtoMax,            \* RTO_MAX_MS
    TimeoutTime        \* config.timeout_time_ms

\* A full fragment always fits a frame, with an acknowledgement too.
ASSUME EndpointAssumption ==
    /\ Q16 \in Nat \ {0} /\ Mss = FragmentSize * Q16
    /\ {FrameRoom, StreamAckSize, DatagramHeader, TimeoutTime} \subseteq Nat
    /\ DatagramHeader > 0 /\ StreamAckSize + DatagramHeader + FragmentSize <= FrameRoom
    /\ RtoMin \in Nat \ {0} /\ RtoMax \in Nat /\ RtoMin <= RtoMax

\* Option values.
None == <<>>
Some(x) == <<x>>

\* The element of a singleton.
The(singleton) == CHOOSE x \in singleton : TRUE

EndpointNew ==
    [state_id        |-> "PreInit",
     segment_tx      |-> SegmentTxNew(0),
     unrel           |-> UnrelTxNew(0),
     rel             |-> TxNew(0),
     prio            |-> PrioNew,
     cc              |-> AimdNew,
     rto_ms          |-> RtoMin,
     rto_timer_state |-> None,
     segment_rx      |-> SegmentRxNew(0),
     unreliable_rx   |-> UnrelRxNew(0),
     reliable_rx     |-> RxNew(0),
     timer           |-> FALSE,
     frames          |-> <<>>,
     events          |-> <<>>]

SendFrame(ep, frame) == [ep EXCEPT !.frames = Append(@, frame)]
Raise(ep, event) == [ep EXCEPT !.events = Append(@, event)]

EndpointInit(ep) == Raise([ep EXCEPT !.state_id = "Active"], [kind |-> "Connect"])

-----------------------------------------------------------------------------
(* FragmentTxBuffers *)

\* enqueue; expire_time_ms is used by SendMode::Unreliable only.
EndpointEnqueue(ep, packet, reliable, expire_time_ms) ==
    IF ep.state_id # "Active" THEN ep
    ELSE IF reliable THEN [ep EXCEPT !.rel = TxPush(@, packet)]
    ELSE [ep EXCEPT !.unrel = UnrelPush(@, packet, expire_time_ms)]

\* The channels that have something to send.
ReadyChannels(ep) == {c \in Channel : IF c = 0 THEN UnrelHasSendable(ep.unrel)
                                               ELSE HasSendable(ep.rel)}

NextDatagram(ep) ==
    IF PrioNext(ep.prio, ReadyChannels(ep)) = 0
    THEN [unrel |-> TRUE, id |-> ep.unrel.next_fragment_id,
          fragment |-> UnrelPeekSendable(ep.unrel)]
    ELSE [unrel |-> FALSE, id |-> ep.rel.next_send_id, fragment |-> PeekSendable(ep.rel)]

\* The loop of flush: s.data is written, s.room is left in the frame.
WriteNext(s, now_ms) ==
    LET ep == [s.ep EXCEPT !.unrel = PopExpired(@, now_ms)]
        datagram == NextDatagram(ep)
        size == Len(datagram.fragment.data)
        c == IF datagram.unrel THEN 0 ELSE 1
        sent == [ep EXCEPT !.prio = PrioMarkSent(@, c, size)]
    IN  IF ReadyChannels(ep) = {} THEN [s EXCEPT !.ep = ep, !.done = TRUE]
        ELSE IF DatagramHeader + size > s.room THEN [s EXCEPT !.ep = ep, !.done = TRUE]
        ELSE [ep   |-> IF c = 0 THEN [sent EXCEPT !.unrel = UnrelPopSendable(@)]
                                ELSE [sent EXCEPT !.rel = PopSendable(@)],
              data |-> Append(s.data, datagram),
              size |-> s.size + size,
              room |-> s.room - DatagramHeader - size,
              done |-> FALSE]

\* flush: every turn of the loop but the last takes some of the room.
FlushFragments(ep, room, now_ms) ==
    LET loop[n \in 0 .. room + 1] ==
            IF n = 0 THEN [ep |-> ep, data |-> <<>>, size |-> 0, room |-> room,
                           done |-> FALSE]
            ELSE The({IF s.done THEN s ELSE WriteNext(s, now_ms) : s \in {loop[n - 1]}})
    IN  loop[room + 1]

-----------------------------------------------------------------------------
(* flush_stream *)

Cwnd(cc) == cc.cwnd \div Q16

CanSendData(ep) ==
    /\ CanSend(ep.segment_tx)
    /\ ep.segment_tx.transit_total < Cwnd(ep.cc)
    /\ ReadyChannels(ep) # {}

\* Mutant: the id of the next segment is acknowledged to the reliable channel.
NextAckSegmentId(ep, ack_rel) ==
    [segment_id       |-> ep.segment_rx.base_id,
     segment_history  |-> AckHistory(ep.segment_rx),
     segment_checksum |-> AckChecksum(ep.segment_rx),
     rel_fragment_id  |-> IF ack_rel THEN Some(ep.segment_rx.base_id) ELSE None]

NextAck(ep, ack_rel) ==
    [segment_id       |-> ep.segment_rx.base_id,
     segment_history  |-> AckHistory(ep.segment_rx),
     segment_checksum |-> AckChecksum(ep.segment_rx),
     rel_fragment_id  |-> IF ack_rel THEN Some(ep.reliable_rx.next_fragment_id) ELSE None]

\* Mutant: the timer is not set for the first segment.
ArmRtoNever(ep) == ep

\* "Acks are expected, set the resend timeout if not set already".
ArmRto(ep) ==
    IF ep.rto_timer_state = None
    THEN [ep EXCEPT !.timer = TRUE,
                    !.rto_timer_state = Some([rto_ms |-> ep.rto_ms, rto_sum_ms |-> 0])]
    ELSE ep

\* One turn of the loop: a frame with an ack, a segment or both.
SendStreamFrame(s, ack_rel, nonces, now_ms) ==
    LET ep     == [s.ep EXCEPT !.unrel = PopExpired(@, now_ms)]
        data   == CanSendData(ep)
        noted  == [ep EXCEPT !.segment_tx = StoreNonce(@, nonces[ep.segment_tx.next_id])]
        filled == FlushFragments(noted, FrameRoom - (IF s.send_ack THEN StreamAckSize ELSE 0),
                                 now_ms)
        after  == IF data THEN ArmRto([filled.ep EXCEPT
                                         !.segment_tx = MarkSent(@, filled.size)])
                          ELSE ep
    IN  IF ~(s.send_ack \/ data) THEN [ep |-> ep, send_ack |-> FALSE, done |-> TRUE]
        ELSE [ep |-> SendFrame(after,
                 [type    |-> "Stream",
                  ack     |-> IF s.send_ack THEN Some(NextAck(ep, ack_rel)) ELSE None,
                  segment |-> IF data
                              THEN Some([id    |-> ep.segment_tx.next_id,
                                         nonce |-> nonces[ep.segment_tx.next_id],
                                         data  |-> filled.data])
                              ELSE None]),
              send_ack |-> FALSE, done |-> FALSE]

\* Every turn but the last and perhaps the first sends a segment of the window.
FlushStream(ep, send_ack, ack_rel, nonces, now_ms) ==
    LET loop[n \in 0 .. TxWindow + 2] ==
            IF n = 0 THEN [ep |-> ep, send_ack |-> send_ack, done |-> FALSE]
            ELSE The({IF s.done THEN s ELSE SendStreamFrame(s, ack_rel, nonces, now_ms) :
                         s \in {loop[n - 1]}})
    IN  loop[TxWindow + 2].ep

EndpointFlush(ep, nonces, now_ms) ==
    IF ep.state_id = "Active" THEN FlushStream(ep, FALSE, FALSE, nonces, now_ms) ELSE ep

-----------------------------------------------------------------------------
(* Acknowledgements *)

\* update_rtt: rto_ms is the new estimate, or the old one.
UpdateRtt(ep, rto_ms) == [ep EXCEPT !.rto_ms = rto_ms]

\* Mutant: the state of the timer survives.
UpdateRtoTimerKeepsState(ep, segment_id) ==
    IF ep.rto_timer_state = None THEN ep
    ELSE IF segment_id = ep.segment_tx.next_id
    THEN [ep EXCEPT !.timer = FALSE]
    ELSE [ep EXCEPT !.timer = TRUE,
                    !.rto_timer_state = Some([rto_ms |-> ep.rto_ms, rto_sum_ms |-> 0])]

\* update_rto_timer: no more acks are expected, or the wait starts anew.
UpdateRtoTimer(ep, segment_id) ==
    IF ep.rto_timer_state = None THEN ep
    ELSE IF segment_id = ep.segment_tx.next_id
    THEN [ep EXCEPT !.timer = FALSE, !.rto_timer_state = None]
    ELSE [ep EXCEPT !.timer = TRUE,
                    !.rto_timer_state = Some([rto_ms |-> ep.rto_ms, rto_sum_ms |-> 0])]

\* The part of handle_stream_frame that reads an ack.
HandleStreamAck(ep, ack, rto_ms) ==
    LET done  == SegmentAcknowledge(ep.segment_tx, ack.segment_id, ack.segment_history,
                                    ack.segment_checksum)
        cc    == HandleAck(ep.cc)
        acked == [ep EXCEPT
                    !.cc         = IF done.drop THEN HandleDrop(cc) ELSE cc,
                    !.segment_tx = done.tx,
                    !.rel        = IF ack.rel_fragment_id = None THEN @
                                   ELSE Acknowledge(@, ack.rel_fragment_id[1])]
    IN  UpdateRtoTimer(UpdateRtt(acked, rto_ms), ack.segment_id)

-----------------------------------------------------------------------------
(* Segments *)

ReceiveDatagram(ep, datagram) ==
    LET done == IF datagram.unrel
                THEN UnrelReceive(ep.unreliable_rx, datagram.id, datagram.fragment)
                ELSE RxReceive(ep.reliable_rx, datagram.id, datagram.fragment)
        kept == IF datagram.unrel THEN [ep EXCEPT !.unreliable_rx = done.rx]
                                  ELSE [ep EXCEPT !.reliable_rx = done.rx]
    IN  IF done.out = <<>> THEN kept
        ELSE Raise(kept, [kind |-> "Receive", unrel |-> datagram.unrel,
                          packet |-> done.out[1]])

\* The segment window becomes rx; the callback reads the segments it hands out.
DeliverSegments(ep, rx) ==
    LET read == SeqExt!FlattenSeq(rx.out)
        loop[n \in 0 .. Len(read)] ==
            IF n = 0 THEN [ep EXCEPT !.segment_rx = [rx EXCEPT !.out = <<>>]]
            ELSE The({ReceiveDatagram(e, read[n]) : e \in {loop[n - 1]}})
    IN  loop[Len(read)]

\* handle_stream_frame: an ack is sent if a segment was handed out, for the reliable
\* channel if it held a reliable datagram.
HandleStreamFrame(ep, frame, nonces, rto_ms, now_ms) ==
    LET acked == IF frame.ack = None THEN ep ELSE HandleStreamAck(ep, frame.ack[1], rto_ms)
        rx    == IF frame.segment = None THEN acked.segment_rx
                 ELSE SegmentReceive(acked.segment_rx, frame.segment[1])
        read  == SeqExt!FlattenSeq(rx.out)
        rel   == \E i \in 1 .. Len(read) : ~read[i].unrel
    IN  FlushStream(DeliverSegments(acked, rx), read # <<>>, rel, nonces, now_ms)

\* handle_stream_sync_frame: what waits is handed out, the unreliable buffer is cleared,
\* an ack is sent.
HandleStreamSyncFrame(ep, next_segment_id, nonces, now_ms) ==
    LET got == DeliverSegments(ep, SegmentSync(ep.segment_rx, next_segment_id))
    IN  FlushStream([got EXCEPT !.unreliable_rx = UnrelReset(@)], TRUE, TRUE, nonces, now_ms)

-----------------------------------------------------------------------------
(* Closing *)

EnterClosing(ep) ==
    SendFrame([ep EXCEPT
                 !.state_id = "Closing",
                 !.timer = TRUE,
                 !.rto_timer_state = Some([rto_ms |-> ep.rto_ms, rto_sum_ms |-> 0])],
              [type |-> "Close"])

\* Mutant: the resend timer is not set anew.
EnterClosedNoTimer(ep) ==
    Raise([ep EXCEPT !.state_id = "Closed", !.timer = FALSE, !.rto_timer_state = None],
          [kind |-> "Disconnect"])

EnterClosed(ep) ==
    Raise([ep EXCEPT !.state_id = "Closed", !.timer = TRUE, !.rto_timer_state = None],
          [kind |-> "Disconnect"])

EndpointDisconnect(ep) == IF ep.state_id = "Active" THEN EnterClosing(ep) ELSE ep

\* Mutant: a close request is acknowledged but does not end the connection.
HandleCloseStaysActive(ep) ==
    CASE ep.state_id = "Closing" -> EnterClosed(SendFrame(ep, [type |-> "CloseAck"]))
      [] ep.state_id \in {"Active", "Closed"} -> SendFrame(ep, [type |-> "CloseAck"])
      [] OTHER -> ep

\* A close request, in any state.
HandleClose(ep) ==
    CASE ep.state_id \in {"Active", "Closing"} ->
            EnterClosed(SendFrame(ep, [type |-> "CloseAck"]))
      [] ep.state_id = "Closed" -> SendFrame(ep, [type |-> "CloseAck"])
      [] OTHER -> ep

\* Mutant: an acknowledged close leaves the closed state again.
HandleCloseAckAnyState(ep) ==
    IF ep.state_id \in {"Closing", "Closed"} THEN EnterClosed(ep) ELSE ep

HandleCloseAck(ep) == IF ep.state_id = "Closing" THEN EnterClosed(ep) ELSE ep

\* Mutant: stream frames are read while the endpoint closes.
HandleFrameWhileClosing(ep, frame, nonces, rto_ms, now_ms) ==
    CASE frame.type = "Stream" ->
            IF ep.state_id \in {"Active", "Closing"}
            THEN HandleStreamFrame(ep, frame, nonces, rto_ms, now_ms) ELSE ep
      [] frame.type = "StreamSync" ->
            IF ep.state_id = "Active"
            THEN HandleStreamSyncFrame(ep, frame.next_segment_id, nonces, now_ms) ELSE ep
      [] frame.type = "Close"    -> HandleClose(ep)
      [] frame.type = "CloseAck" -> HandleCloseAck(ep)

\* handle_frame.
HandleFrame(ep, frame, nonces, rto_ms, now_ms) ==
    CASE frame.type = "Stream" ->
            IF ep.state_id = "Active"
            THEN HandleStreamFrame(ep, frame, nonces, rto_ms, now_ms) ELSE ep
      [] frame.type = "StreamSync" ->
            IF ep.state_id = "Active"
            THEN HandleStreamSyncFrame(ep, frame.next_segment_id, nonces, now_ms) ELSE ep
      [] frame.type = "Close"    -> HandleClose(ep)
      [] frame.type = "CloseAck" -> HandleCloseAck(ep)

-----------------------------------------------------------------------------
(* handle_rto_timer *)

\* The time waited with this timeout, and the next timeout.
RtoSum(ep) == ep.rto_timer_state[1].rto_sum_ms + ep.rto_timer_state[1].rto_ms

BackedOff(ep) ==
    LET rto == 2 * ep.rto_ms
        clamped == IF rto < RtoMin THEN RtoMin ELSE IF rto > RtoMax THEN RtoMax ELSE rto
    IN  [ep EXCEPT !.rto_ms = clamped, !.timer = TRUE,
                   !.rto_timer_state = Some([rto_ms |-> clamped, rto_sum_ms |-> RtoSum(ep)])]

\* Nothing was heard for too long.
GiveUp(ep) == Raise([ep EXCEPT !.state_id = "Zombie",
                               !.rto_timer_state[1].rto_sum_ms = RtoSum(ep)],
                    [kind |-> "Timeout"])

\* The pipe has drained: resend everything and ask for a new start.
Resend(ep, nonces, now_ms) ==
    LET waited == BackedOff(ep)
        resent == [waited EXCEPT !.cc = HandleTimeout(@), !.rel = ResendAll(@)]
    IN  FlushStream(SendFrame(resent, [type |-> "StreamSync",
                                       next_segment_id |-> ep.segment_tx.next_id]),
                    FALSE, FALSE, nonces, now_ms)

HandleRtoTimer(ep, nonces, now_ms) ==
    CASE ep.state_id = "Active" ->
            IF RtoSum(ep) >= TimeoutTime THEN GiveUp(ep) ELSE Resend(ep, nonces, now_ms)
      [] ep.state_id = "Closing" ->
            IF RtoSum(ep) >= TimeoutTime THEN GiveUp(ep)
            ELSE SendFrame(BackedOff(ep), [type |-> "Close"])
      [] ep.state_id = "Closed" -> [ep EXCEPT !.state_id = "Zombie"]
      [] OTHER -> ep

=============================================================================
