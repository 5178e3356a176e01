------------------------------ MODULE SegmentTx ------------------------------
(***************************************************************************)
(* The sender's segment window (endpoint/segment_tx.rs) as operators on a  *)
(* record: which segments are in transit, how many bytes they hold, which  *)
(* nonce each one carried and which ones the receiver has reported.  The   *)
(* ring of sizes and the ring of nonces are indexed by the segment id, the *)
(* latter in words whose most significant bit is the oldest segment's.     *)
(***************************************************************************)
EXTENDS WrappingIds, Bits, Sums

CONSTANTS
    TxWindow,      \* size: segments in transit at most (4096)
    WordBits,      \* bits of a word of nonce_buf (64)
    HistoryBits,   \* bits of ack_history and nonce_history (32)
    DropThreshold  \* reports behind an unacknowledged segment that make a drop (3)

\* The window is a power of two in the code, so that ids wrap where the rings do.
ASSUME TxWindowAssumption ==
    /\ TxWindow \in Nat \ {0} /\ WordBits \in Nat \ {0} /\ HistoryBits \in Nat \ {0}
    /\ HistoryBits < WordBits /\ DropThreshold \in Nat
    /\ TxWindow % WordBits = 0 /\ IdMod % TxWindow = 0

SegmentTxType ==
    [base_id       : Id,
     next_id       : Id,
     transit_buf   : [0 .. TxWindow - 1 -> Nat],
     nonce_buf     : [0 .. TxWindow \div WordBits - 1 -> SUBSET AllOnes(WordBits)],
     transit_total : Nat,
     ack_history   : SUBSET AllOnes(HistoryBits),
     nonce_history : SUBSET AllOnes(HistoryBits)]

SegmentTxNew(base_id) ==
    [base_id       |-> base_id,
     next_id       |-> base_id,
     transit_buf   |-> [i \in 0 .. TxWindow - 1 |-> 0],
     nonce_buf     |-> [i \in 0 .. TxWindow \div WordBits - 1 |-> {}],
     transit_total |-> 0,
     ack_history   |-> AllOnes(HistoryBits),
     nonce_history |-> {}]

\* The word of nonce_buf that holds the nonce of a segment.
NonceWord(id) == (id \div WordBits) % (TxWindow \div WordBits)

\* compute_next_nonce; the random bit is the caller's.
StoreNonce(tx, nonce) ==
    LET bit == WordBits - 1 - (tx.next_id % WordBits)
    IN  [tx EXCEPT !.nonce_buf[NonceWord(tx.next_id)] =
                       IF nonce THEN @ \cup {bit} ELSE @ \ {bit}]

InTransit(tx) == WrappingSub(tx.next_id, tx.base_id)

CanSend(tx) == InTransit(tx) < TxWindow

\* Mutant: the next id is incremented without wrapping.
MarkSentNoWrap(tx, size) ==
    [tx EXCEPT !.transit_buf[tx.next_id % TxWindow] = size,
               !.transit_total = @ + size,
               !.next_id = @ + 1]

MarkSent(tx, size) ==
    [tx EXCEPT !.transit_buf[tx.next_id % TxWindow] = size,
               !.transit_total = @ + size,
               !.next_id = WrappingAdd(@, 1)]

-----------------------------------------------------------------------------
(* update_nonce_history: the nonces of the last segments before the new base, *)
(* newest in bit 0, cut out of one word or out of two neighbouring ones.      *)

\* Mutant: the word that the new base lies in is used even when none of its bits
\* is needed.
NewNoncesNoBoundary(tx, new_bits, p1) ==
    LET p0      == WrappingSub(p1, new_bits)
        p1_bits == p1 % WordBits
        A       == tx.nonce_buf[NonceWord(p0)]
        B       == tx.nonce_buf[NonceWord(p1)]
    IN  IF p0 \div WordBits = p1 \div WordBits \/ p1_bits = 0
        THEN Low(Shr(B, WordBits - p1_bits), new_bits)
        ELSE Low(Shr(B, WordBits - p1_bits), p1_bits)
             \cup Shl(Low(A, new_bits - p1_bits), p1_bits, HistoryBits)

NewNonces(tx, new_bits, p1) ==
    LET p0      == WrappingSub(p1, new_bits)
        p1_bits == p1 % WordBits
        A       == tx.nonce_buf[NonceWord(p0)]
        B       == tx.nonce_buf[NonceWord(p1)]
    IN  IF p0 \div WordBits = p1 \div WordBits
        THEN Low(Shr(B, WordBits - p1_bits), new_bits)
        ELSE IF p1_bits = 0
        THEN Low(A, new_bits)
        ELSE Low(Shr(B, WordBits - p1_bits), p1_bits)
             \cup Shl(Low(A, new_bits - p1_bits), p1_bits, HistoryBits)

UpdateNonceHistory(tx, ack_delta, base_id_new) ==
    LET new_bits == IF ack_delta < HistoryBits THEN ack_delta ELSE HistoryBits
    IN  Shl(tx.nonce_history, new_bits, HistoryBits)
        \cup NewNonces(tx, new_bits, base_id_new)

-----------------------------------------------------------------------------
(* update_ack_history: the history afterwards and whether a drop was seen. *)

ExpectedChecksum(nonce_history, rx_history) == Parity(nonce_history \cap rx_history)

\* Mutant: the history is shifted after the report has been entered.
MergeHistoryShiftsReport(tx, ack_delta, rx_history, rx_checksum) ==
    Shl(tx.ack_history
            \cup (IF ExpectedChecksum(tx.nonce_history, rx_history) = rx_checksum
                  THEN rx_history ELSE {}),
        ack_delta, HistoryBits)

\* The history once the reported segments are entered, if their nonces are right.
MergeHistory(tx, ack_delta, rx_history, rx_checksum) ==
    Shl(tx.ack_history, ack_delta, HistoryBits)
        \cup (IF ExpectedChecksum(tx.nonce_history, rx_history) = rx_checksum
              THEN rx_history ELSE {})

\* A segment counts as dropped when it is HistoryBits ids old and unacknowledged,
\* or when enough later ones were reported.
ShowsDrop(history) ==
    LET ones == LeadingOnes(history, HistoryBits) IN
    /\ history # AllOnes(HistoryBits)
    /\ \/ HistoryBits - 1 \notin history
       \/ Cardinality(Low(history, HistoryBits - ones)) >= DropThreshold

UpdateAckHistory(tx, ack_delta, rx_history, rx_checksum) ==
    LET history == MergeHistory(tx, ack_delta, rx_history, rx_checksum)
        drop    == \/ ack_delta > LeadingOnes(tx.ack_history, HistoryBits)
                   \/ ShowsDrop(history)
    IN  [tx   |-> [tx EXCEPT !.ack_history = IF drop THEN AllOnes(HistoryBits)
                                                     ELSE history],
         drop |-> drop]

\* Mutant: an ack of all segments is refused.
SegmentAckValidLess(tx, rx_base_id) == WrappingSub(rx_base_id, tx.base_id) < InTransit(tx)

\* acknowledge: the window afterwards and whether a drop was seen.
SegmentAckValid(tx, rx_base_id) == WrappingSub(rx_base_id, tx.base_id) <= InTransit(tx)

\* The bytes of the n oldest segments in transit.
OldestBytes(tx, n) ==
    SumTo([i \in 1 .. n |-> tx.transit_buf[WrappingAdd(tx.base_id, i - 1) % TxWindow]], n)

\* Mutant: the running total is not reduced.
AdvanceBaseKeepsTotal(tx, rx_base_id) ==
    LET ack_delta == WrappingSub(rx_base_id, tx.base_id)
    IN  [tx EXCEPT !.nonce_history = IF ack_delta = 0 THEN @
                                     ELSE UpdateNonceHistory(tx, ack_delta, rx_base_id),
                   !.base_id = rx_base_id]

AdvanceBase(tx, rx_base_id) ==
    LET ack_delta == WrappingSub(rx_base_id, tx.base_id)
    IN  [tx EXCEPT !.transit_total = @ - OldestBytes(tx, ack_delta),
                   !.nonce_history = IF ack_delta = 0 THEN @
                                     ELSE UpdateNonceHistory(tx, ack_delta, rx_base_id),
                   !.base_id = rx_base_id]

SegmentAcknowledge(tx, rx_base_id, rx_history, rx_checksum) ==
    IF SegmentAckValid(tx, rx_base_id)
    THEN UpdateAckHistory(AdvanceBase(tx, rx_base_id),
                          WrappingSub(rx_base_id, tx.base_id), rx_history, rx_checksum)
    ELSE [tx |-> tx, drop |-> FALSE]

=============================================================================
