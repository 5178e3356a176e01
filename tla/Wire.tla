-------------------------------- MODULE Wire --------------------------------
(***************************************************************************)
(* Frames as bytes (frame/mod.rs and frame/serial/mod.rs): a type byte, a  *)
(* payload and a CRC.  Integers are big endian; the CRC, any function of   *)
(* the bytes before it, is little endian.  A frame is the record that the  *)
(* endpoint and the handshake use; Encode is what a sender writes, Decode  *)
(* what the handlers of the receiver get to see, None if they return       *)
(* early.  Values stay below 2^31, so that higher bytes are 0.             *)
(***************************************************************************)
EXTENDS Integers, Sequences

LOCAL SeqExt == INSTANCE SequencesExt
LOCAL SetsExt == INSTANCE FiniteSetsExt

CONSTANTS
    Crc(_),         \* crc::compute: the checksum of a sequence of bytes
    FrameSizeMax    \* FRAME_SIZE_MAX (1472), the size an alpha request is padded to

ProtocolId == 0

HandshakeAlphaSize == 6
HandshakeBetaSize == 28

FrameOverheadSize == 1 + 4

DatagramHeaderSize == 1 + 4 + 2

\* The largest handshake frame fits.
ASSUME WireAssumption ==
    FrameSizeMax \in Nat /\ HandshakeBetaSize + FrameOverheadSize <= FrameSizeMax

\* FRAME_TYPE_*: the code of the n-th type is n - 1.
FrameType ==
    <<"HandshakeAlpha", "HandshakeAlphaAck", "HandshakeBeta", "HandshakeBetaAck", "Close",
      "CloseAck", "StreamSegment", "StreamAck", "StreamSegmentAck", "StreamSync">>

HandshakeErrorKind == <<"Capacity", "Parameter">>

LOCAL Position(seq, x) == CHOOSE i \in 1 .. Len(seq) : seq[i] = x

-----------------------------------------------------------------------------
(* Integers: Writer and Reader *)

\* write_u8, write_u16, write_u32 and write_u64, size being the number of bytes.
WriteUint(value, size) ==
    [i \in 1 .. size |-> IF size - i > 3 THEN 0 ELSE (value \div 256 ^ (size - i)) % 256]

\* The integer of size bytes after the first at bytes.
ReadUint(bytes, at, size) ==
    SeqExt!FoldLeft(LAMBDA value, byte : 256 * value + byte, 0,
                    SubSeq(bytes, at + 1, at + size))

\* A byte of flags as the set of its bits.
WriteInfo(bits) == <<SetsExt!SumSet({2 ^ b : b \in bits})>>

ReadInfo(bytes, at) == {b \in 0 .. 7 : (bytes[at + 1] \div 2 ^ b) % 2 = 1}

LOCAL When(condition, bit) == IF condition THEN {bit} ELSE {}

-----------------------------------------------------------------------------
(* Objects: write of Serial and BlockSerial *)

WriteHandshake(params, frame) ==
    WriteUint(params.packet_size_in_max, 4) \o WriteUint(params.packet_size_out_max, 4)
        \o WriteUint(frame.client_nonce, 4) \o WriteUint(frame.server_nonce, 4)
        \o WriteUint(frame.server_timestamp, 4) \o WriteUint(frame.server_mac, 8)

\* The history is masked to five bits; an absent id is written as 0.
WriteStreamAck(ack) ==
    WriteInfo({b \in ack.segment_history : b < 5} \cup When(ack.segment_checksum, 5)
                  \cup When(ack.rel_fragment_id # <<>>, 7))
        \o WriteUint(ack.segment_id, 4)
        \o WriteUint(IF ack.rel_fragment_id = <<>> THEN 0 ELSE ack.rel_fragment_id[1], 4)

WriteDatagram(datagram) ==
    WriteInfo(When(datagram.unrel, 0) \cup When(datagram.fragment.first, 1)
                  \cup When(datagram.fragment.last, 2))
        \o WriteUint(datagram.id, 4) \o WriteUint(Len(datagram.fragment.data), 2)
        \o datagram.fragment.data

WriteSegment(segment) ==
    SeqExt!FoldLeft(LAMBDA bytes, datagram : bytes \o WriteDatagram(datagram),
                    WriteInfo(When(segment.nonce, 0)) \o WriteUint(segment.id, 4),
                    segment.data)

\* The parts of a stream frame: an ack, a segment or both.
WriteStream(frame) ==
    (IF frame.ack = <<>> THEN <<>> ELSE WriteStreamAck(frame.ack[1]))
        \o (IF frame.segment = <<>> THEN <<>> ELSE WriteSegment(frame.segment[1]))

StreamType(frame) ==
    IF frame.ack = <<>> THEN "StreamSegment"
    ELSE IF frame.segment = <<>> THEN "StreamAck" ELSE "StreamSegmentAck"

\* The nonces of Close and CloseAck are 0 (Endpoint::new).
WritePayload(frame) ==
    CASE frame.type = "HandshakeAlpha" ->
            WriteUint(frame.protocol_id, 2) \o WriteUint(frame.client_nonce, 4)
      [] frame.type = "HandshakeAlphaAck" -> WriteHandshake(frame.server_params, frame)
      [] frame.type = "HandshakeBeta"     -> WriteHandshake(frame.client_params, frame)
      [] frame.type = "HandshakeBetaAck"  ->
            <<IF frame.error = <<>> THEN 0 ELSE Position(HandshakeErrorKind, frame.error[1])>>
                \o WriteUint(frame.client_nonce, 4)
      [] frame.type \in {"Close", "CloseAck"} -> WriteUint(0, 4)
      [] frame.type = "Stream"     -> WriteStream(frame)
      [] frame.type = "StreamSync" -> WriteUint(frame.next_segment_id, 4)

\* FrameWriter, and the padding of an alpha request.
Finalize(bytes) == bytes \o SeqExt!Reverse(WriteUint(Crc(bytes), 4))

Encode(frame) ==
    LET type  == IF frame.type = "Stream" THEN StreamType(frame) ELSE frame.type
        bytes == Finalize(<<Position(FrameType, type) - 1>> \o WritePayload(frame))
    IN  IF type = "HandshakeAlpha"
        THEN bytes \o [i \in 1 .. FrameSizeMax - Len(bytes) |-> 0] ELSE bytes

-----------------------------------------------------------------------------
(* Objects: read of Serial and BlockSerial.  bytes is a payload. *)

ReadParams(bytes) == [packet_size_in_max  |-> ReadUint(bytes, 0, 4),
                      packet_size_out_max |-> ReadUint(bytes, 4, 4)]

\* Mutant: an id is present if it is not 0.
ReadStreamAckNonZero(bytes) ==
    [segment_id       |-> ReadUint(bytes, 1, 4),
     segment_history  |-> ReadInfo(bytes, 0) \cap 0 .. 4,
     segment_checksum |-> 5 \in ReadInfo(bytes, 0),
     rel_fragment_id  |-> IF ReadUint(bytes, 5, 4) # 0 THEN <<ReadUint(bytes, 5, 4)>>
                                                       ELSE <<>>]

ReadStreamAck(bytes) ==
    [segment_id       |-> ReadUint(bytes, 1, 4),
     segment_history  |-> ReadInfo(bytes, 0) \cap 0 .. 4,
     segment_checksum |-> 5 \in ReadInfo(bytes, 0),
     rel_fragment_id  |-> IF 7 \in ReadInfo(bytes, 0) THEN <<ReadUint(bytes, 5, 4)>>
                                                      ELSE <<>>]

\* The size of the datagram that bytes begin with; 0 if there is none.
DatagramSize(bytes) ==
    IF Len(bytes) < DatagramHeaderSize THEN 0
    ELSE IF Len(bytes) < DatagramHeaderSize + ReadUint(bytes, 5, 2) THEN 0
    ELSE DatagramHeaderSize + ReadUint(bytes, 5, 2)

ReadDatagram(bytes) ==
    [unrel    |-> 0 \in ReadInfo(bytes, 0),
     id       |-> ReadUint(bytes, 1, 4),
     fragment |-> [first |-> 1 \in ReadInfo(bytes, 0), last |-> 2 \in ReadInfo(bytes, 0),
                   data |-> SubSeq(bytes, DatagramHeaderSize + 1, DatagramSize(bytes))]]

\* The loop `while let Some(datagram) = frame_reader.read()`.
ReadDatagrams(bytes) ==
    LET loop[n \in 0 .. Len(bytes)] ==
            IF n = 0 THEN [rest |-> bytes, data |-> <<>>]
            ELSE CHOOSE s \in {IF DatagramSize(l.rest) = 0 THEN l
                               ELSE [rest |-> SubSeq(l.rest, DatagramSize(l.rest) + 1,
                                                     Len(l.rest)),
                                     data |-> Append(l.data, ReadDatagram(l.rest))] :
                                  l \in {loop[n - 1]}} : TRUE
    IN  loop[Len(bytes) \div DatagramHeaderSize].data

\* handle_stream_frame: the ack of 9 bytes comes first, then a header of 5 bytes and
\* datagrams in what remains.
ReadStream(bytes, has_ack, has_segment) ==
    LET at == IF has_ack THEN 9 ELSE 0
    IN  [type    |-> "Stream",
         ack     |-> IF has_ack THEN <<ReadStreamAck(bytes)>> ELSE <<>>,
         segment |-> IF has_segment /\ Len(bytes) >= at + 5
                     THEN <<[nonce |-> 0 \in ReadInfo(bytes, at),
                             id    |-> ReadUint(bytes, at + 1, 4),
                             data  |-> ReadDatagrams(SubSeq(bytes, at + 6, Len(bytes)))]>>
                     ELSE <<>>]

\* The size below which the handler of a type ignores a payload (BlockSerial::SIZE).
MinSize(type) ==
    CASE type = "HandshakeAlpha" -> HandshakeAlphaSize
      [] type \in {"HandshakeAlphaAck", "HandshakeBeta"} -> HandshakeBetaSize
      [] type = "HandshakeBetaAck" -> 5
      [] type = "StreamSegment" -> 0
      [] type \in {"StreamAck", "StreamSegmentAck"} -> 9
      [] OTHER -> 4

ReadPayload(type, bytes) ==
    CASE type = "HandshakeAlpha" ->
            [type |-> type, protocol_id |-> ReadUint(bytes, 0, 2),
             client_nonce |-> ReadUint(bytes, 2, 4)]
      [] type = "HandshakeAlphaAck" ->
            [type |-> type, server_params |-> ReadParams(bytes),
             client_nonce |-> ReadUint(bytes, 8, 4), server_nonce |-> ReadUint(bytes, 12, 4),
             server_timestamp |-> ReadUint(bytes, 16, 4), server_mac |-> ReadUint(bytes, 20, 8)]
      [] type = "HandshakeBeta" ->
            [type |-> type, client_params |-> ReadParams(bytes),
             client_nonce |-> ReadUint(bytes, 8, 4), server_nonce |-> ReadUint(bytes, 12, 4),
             server_timestamp |-> ReadUint(bytes, 16, 4), server_mac |-> ReadUint(bytes, 20, 8)]
      [] type = "HandshakeBetaAck" ->
            [type |-> type, client_nonce |-> ReadUint(bytes, 1, 4),
             error |-> CASE bytes[1] = 0 -> <<>>
                         [] bytes[1] = 1 -> <<"Capacity">>
                         [] OTHER        -> <<"Parameter">>]
      [] type \in {"Close", "CloseAck"} -> [type |-> type]
      [] type = "StreamSegment"    -> ReadStream(bytes, FALSE, TRUE)
      [] type = "StreamAck"        -> ReadStream(bytes, TRUE, FALSE)
      [] type = "StreamSegmentAck" -> ReadStream(bytes, TRUE, TRUE)
      [] type = "StreamSync"       -> [type |-> type, next_segment_id |-> ReadUint(bytes, 0, 4)]

VerifyCrc(bytes) ==
    SubSeq(bytes, Len(bytes) - 3, Len(bytes))
        = SeqExt!Reverse(WriteUint(Crc(SubSeq(bytes, 1, Len(bytes) - 4)), 4))

\* verify_handshake_alpha_size_and_crc, verify_handshake_beta_size_and_crc, verify_crc.
Verify(type, bytes) ==
    CASE type = "HandshakeAlpha" ->
            /\ Len(bytes) = FrameSizeMax
            /\ VerifyCrc(SubSeq(bytes, 1, HandshakeAlphaSize + FrameOverheadSize))
      [] type = "HandshakeBeta" ->
            Len(bytes) = HandshakeBetaSize + FrameOverheadSize /\ VerifyCrc(bytes)
      [] OTHER -> VerifyCrc(bytes)

\* handle_frame of both hosts up to the handler of the type.
Decode(bytes) ==
    LET code    == bytes[1] % 16
        type    == FrameType[code + 1]
        payload == SubSeq(bytes, 2, Len(bytes) - 4)
    IN  IF Len(bytes) < FrameOverheadSize THEN <<>>
        ELSE IF code >= Len(FrameType) THEN <<>>
        ELSE IF ~Verify(type, bytes) THEN <<>>
        ELSE IF Len(payload) < MinSize(type) THEN <<>>
        ELSE <<ReadPayload(type, payload)>>

=============================================================================
