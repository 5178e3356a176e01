--------------------------- MODULE EndpointProofs ---------------------------
(***************************************************************************)
(* What the operations of an endpoint do to its timer, its state, the      *)
(* events it raises and the frames it sends.  The congestion window, the   *)
(* fragment buffers and the contents of packets play no part in this: of   *)
(* most fields it is enough that they exist.                               *)
(***************************************************************************)
EXTENDS Endpoint, CommonProofs

-----------------------------------------------------------------------------
(* Sequences of anything *)

IsSeq(s) == \E X : s \in Seq(X)

LEMMA EmptyIsSeq == IsSeq(<<>>) /\ Len(<<>>) = 0
<1>1. <<>> \in Seq({})
  OBVIOUS
<1> QED BY <1>1 DEF IsSeq

LEMMA IsSeqLen == ASSUME NEW s, IsSeq(s)
                  PROVE  /\ Len(s) \in Nat /\ DOMAIN s = 1 .. Len(s)
                         /\ Len(s) = 0 <=> s = <<>>
BY DEF IsSeq

LEMMA IsSeqAppend ==
    ASSUME NEW s, IsSeq(s), NEW x
    PROVE  /\ IsSeq(Append(s, x)) /\ Len(Append(s, x)) = Len(s) + 1
           /\ Append(s, x)[Len(s) + 1] = x
           /\ \A i \in 1 .. Len(s) : Append(s, x)[i] = s[i]
<1>1. PICK X : s \in Seq(X)
  BY DEF IsSeq
<1>2. PICK Y : Y = X \cup {x}
  OBVIOUS
<1>3. s \in Seq(Y) /\ x \in Y
  BY <1>1, <1>2
<1> QED BY <1>3, AppendProperties DEF IsSeq

LEMMA IsSeqConcat ==
    ASSUME NEW s, IsSeq(s), NEW t, IsSeq(t)
    PROVE  /\ IsSeq(s \o t) /\ Len(s \o t) = Len(s) + Len(t)
           /\ \A i \in 1 .. Len(s) : (s \o t)[i] = s[i]
           /\ \A i \in Len(s) + 1 .. Len(s) + Len(t) : (s \o t)[i] = t[i - Len(s)]
<1>1. PICK X : s \in Seq(X)
  BY DEF IsSeq
<1>2. PICK Y : t \in Seq(Y)
  BY DEF IsSeq
<1>3. PICK Z : Z = X \cup Y
  OBVIOUS
<1>4. s \in Seq(Z) /\ t \in Seq(Z)
  BY <1>1, <1>2, <1>3
<1>5. /\ s \o t \in Seq(Z) /\ Len(s \o t) = Len(s) + Len(t)
      /\ \A i \in 1 .. Len(s) + Len(t) :
            (s \o t)[i] = IF i <= Len(s) THEN s[i] ELSE t[i - Len(s)]
  BY <1>4, ConcatProperties
<1>6. Len(s) \in Nat /\ Len(t) \in Nat
  BY <1>4
<1> QED BY <1>5, <1>6 DEF IsSeq

LEMMA IsSeqTail ==
    ASSUME NEW s, IsSeq(s), s # <<>>
    PROVE  /\ IsSeq(Tail(s)) /\ Len(Tail(s)) = Len(s) - 1
           /\ \A i \in 1 .. Len(s) - 1 : Tail(s)[i] = s[i + 1]
<1>1. PICK X : s \in Seq(X)
  BY DEF IsSeq
<1> QED BY <1>1, HeadTailProperties DEF IsSeq

LEMMA IsSeqShort ==
    ASSUME NEW a, NEW b
    PROVE  /\ IsSeq(<<a>>) /\ Len(<<a>>) = 1 /\ <<a>>[1] = a
           /\ IsSeq(<<a, b>>) /\ Len(<<a, b>>) = 2 /\ <<a, b>>[1] = a /\ <<a, b>>[2] = b
<1>1. PICK X : X = {a, b}
  OBVIOUS
<1>2. <<a>> \in Seq(X) /\ <<a, b>> \in Seq(X)
  BY <1>1
<1> QED BY <1>2 DEF IsSeq

\* g holds what the first sequences make together.
IsFlat(g, seqs, n) == g = [i \in 1 .. n |-> IF i = 1 THEN seqs[i] ELSE g[i - 1] \o seqs[i]]

LEMMA FlatExists ==
    ASSUME NEW seqs, NEW n \in Nat
    PROVE  \E g : IsFlat(g, seqs, n)
<1> DEFINE T == {m \in Nat : \E g : IsFlat(g, seqs, m)}
<1>1. 0 \in T
  <2>1. PICK g : g = [i \in 1 .. 0 |-> 0]
    OBVIOUS
  <2>2. IsFlat(g, seqs, 0)
    BY <2>1 DEF IsFlat
  <2> QED BY <2>2
<1>2. ASSUME NEW m \in Nat, m \in T PROVE m + 1 \in T
  <2>1. PICK g : g = [i \in 1 .. m |-> IF i = 1 THEN seqs[i] ELSE g[i - 1] \o seqs[i]]
    BY <1>2 DEF IsFlat
  <2>2. PICK h : h = [i \in 1 .. m + 1 |->
                        IF i <= m THEN g[i]
                        ELSE IF i = 1 THEN seqs[i] ELSE g[m] \o seqs[i]]
    OBVIOUS
  <2>3. ASSUME NEW i \in 1 .. m + 1
        PROVE  h[i] = IF i = 1 THEN seqs[i] ELSE h[i - 1] \o seqs[i]
    <3>1. CASE i <= m
      <4>1. i \in 1 .. m /\ (i # 1 => i - 1 \in 1 .. m /\ i - 1 <= m)
        BY <3>1
      <4>2. g[i] = IF i = 1 THEN seqs[i] ELSE g[i - 1] \o seqs[i]
        BY <2>1, <4>1
      <4>3. h[i] = g[i] /\ (i # 1 => h[i - 1] = g[i - 1])
        BY <2>2, <3>1, <4>1
      <4> QED BY <4>2, <4>3
    <3>2. CASE ~(i <= m)
      <4>1. i = m + 1 /\ (i # 1 => i - 1 = m /\ m \in 1 .. m + 1 /\ m <= m)
        BY <3>2
      <4> QED BY <2>2, <3>2, <4>1
    <3> QED BY <3>1, <3>2
  <2>4. IsFlat(h, seqs, m + 1)
    BY <2>2, <2>3 DEF IsFlat
  <2> QED BY <2>4
<1> HIDE DEF T
<1>3. n \in T
  BY <1>1, <1>2, SetInduction
<1> QED BY <1>3 DEF T

\* The sequences of a sequence, one after the other.
LEMMA FlattenIsSeq ==
    ASSUME NEW seqs, IsSeq(seqs), \A i \in 1 .. Len(seqs) : IsSeq(seqs[i])
    PROVE  IsSeq(SeqExt!FlattenSeq(seqs))
<1>1. PICK n \in Nat : n = Len(seqs)
  BY IsSeqLen
<1>2. CASE n = 0
  BY <1>1, <1>2 DEF SeqExt!FlattenSeq
<1>3. CASE n # 0
  <2>1. PICK c : c = CHOOSE g : IsFlat(g, seqs, n)
    OBVIOUS
  <2>2. IsFlat(c, seqs, n)
    BY <2>1, FlatExists
  <2>3. SeqExt!FlattenSeq(seqs) = c[n]
    BY <1>1, <1>3, <2>1 DEF SeqExt!FlattenSeq, IsFlat
  <2> DEFINE T == {m \in Nat : m + 1 <= n => IsSeq(c[m + 1])}
  <2>4. 0 \in T
    <3>1. 1 \in 1 .. n
      BY <1>3
    <3>2. c[1] = seqs[1]
      BY <2>2, <3>1 DEF IsFlat
    <3>3. IsSeq(seqs[1])
      BY <1>1, <3>1
    <3> QED BY <3>2, <3>3
  <2>5. ASSUME NEW m \in Nat, m \in T PROVE m + 1 \in T
    <3>1. SUFFICES ASSUME (m + 1) + 1 <= n PROVE IsSeq(c[(m + 1) + 1])
      OBVIOUS
    <3>2. PICK k : k = (m + 1) + 1
      OBVIOUS
    <3>3. k \in 1 .. n /\ k # 1 /\ k - 1 = m + 1 /\ m + 1 <= n
      BY <3>1, <3>2
    <3>4. c[k] = c[m + 1] \o seqs[k]
      BY <2>2, <3>3 DEF IsFlat
    <3>5. IsSeq(c[m + 1]) /\ IsSeq(seqs[k])
      BY <1>1, <2>5, <3>3
    <3>6. IsSeq(c[k])
      BY <3>4, <3>5, IsSeqConcat
    <3> QED BY <3>2, <3>6
  <2> HIDE DEF T
  <2>6. n - 1 \in Nat /\ n - 1 \in T
    BY <1>3, <2>4, <2>5, SetInduction
  <2>7. IsSeq(c[(n - 1) + 1])
    BY <1>3, <2>6 DEF T
  <2>8. (n - 1) + 1 = n
    OBVIOUS
  <2> QED BY <2>3, <2>7, <2>8
<1> QED BY <1>2, <1>3

-----------------------------------------------------------------------------
(* The windows of segments: their fields are there, and their ids are ids *)

TxFields == {"base_id", "next_id", "transit_buf", "nonce_buf", "transit_total",
             "ack_history", "nonce_history"}

TxOK(tx) == DOMAIN tx = TxFields /\ tx.base_id \in Id /\ tx.next_id \in Id

LEMMA StoreNonceKeeps ==
    ASSUME NEW tx, TxOK(tx), NEW nonce
    PROVE  /\ TxOK(StoreNonce(tx, nonce))
           /\ StoreNonce(tx, nonce).base_id = tx.base_id
           /\ StoreNonce(tx, nonce).next_id = tx.next_id
<1>1. PICK word, value :
         StoreNonce(tx, nonce) = [tx EXCEPT !.nonce_buf = [@ EXCEPT ![word] = value]]
  BY DEF StoreNonce
<1>2. PICK buf : StoreNonce(tx, nonce) = [tx EXCEPT !.nonce_buf = buf]
  BY <1>1
<1> QED BY <1>2 DEF TxOK, TxFields

LEMMA MarkSentKeeps ==
    ASSUME NEW tx, TxOK(tx), NEW size
    PROVE  TxOK(MarkSent(tx, size)) /\ MarkSent(tx, size).base_id = tx.base_id
<1>1. PICK buf, total, next :
         /\ next = WrappingAdd(tx.next_id, 1)
         /\ MarkSent(tx, size) = [tx EXCEPT !.transit_buf = buf, !.transit_total = total,
                                            !.next_id = next]
  <2>1. MarkSent(tx, size) =
            [tx EXCEPT !.transit_buf = [@ EXCEPT ![tx.next_id % TxWindow] = size],
                       !.transit_total = @ + size, !.next_id = WrappingAdd(@, 1)]
    BY DEF MarkSent
  <2>2. MarkSent(tx, size) =
            [tx EXCEPT !.transit_buf = [tx.transit_buf EXCEPT ![tx.next_id % TxWindow] = size],
                       !.transit_total = tx.transit_total + size,
                       !.next_id = WrappingAdd(tx.next_id, 1)]
    BY <2>1 DEF TxOK, TxFields
  <2> QED BY <2>2
<1>2. next \in Id
  BY <1>1, AddType DEF TxOK
<1> QED BY <1>1, <1>2 DEF TxOK, TxFields

\* An ack of everything that was sent is valid and empties the window.
LEMMA SegmentAcknowledgeKeeps ==
    ASSUME NEW tx, TxOK(tx), NEW id \in Id, NEW history, NEW checksum
    PROVE  LET new == SegmentAcknowledge(tx, id, history, checksum).tx
           IN  /\ TxOK(new) /\ new.next_id = tx.next_id
               /\ id = tx.next_id => new.base_id = tx.next_id
               /\ tx.base_id = tx.next_id => id = tx.next_id \/ new.base_id = tx.base_id
<1>1. InTransit(tx) \in Int /\ WrappingSub(id, tx.base_id) \in Int
  BY SubType DEF InTransit, TxOK, Id
<1>2. CASE SegmentAckValid(tx, id)
  <2>1. PICK total, nonces : AdvanceBase(tx, id) =
            [tx EXCEPT !.transit_total = total, !.nonce_history = nonces, !.base_id = id]
    <3>1. AdvanceBase(tx, id) =
            [tx EXCEPT !.transit_total =
                            tx.transit_total - OldestBytes(tx, WrappingSub(id, tx.base_id)),
                       !.nonce_history =
                            IF WrappingSub(id, tx.base_id) = 0 THEN tx.nonce_history
                            ELSE UpdateNonceHistory(tx, WrappingSub(id, tx.base_id), id),
                       !.base_id = id]
      BY DEF AdvanceBase, TxOK, TxFields
    <3> QED BY <3>1
  <2>2. PICK a : a = AdvanceBase(tx, id)
    OBVIOUS
  <2>3. DOMAIN a = TxFields /\ a.base_id = id /\ a.next_id = tx.next_id
    BY <2>1, <2>2 DEF TxOK, TxFields
  <2>4. PICK seen, new : /\ new = SegmentAcknowledge(tx, id, history, checksum).tx
                         /\ new = [a EXCEPT !.ack_history = seen]
    BY <1>2, <2>2 DEF SegmentAcknowledge, UpdateAckHistory
  <2>5. DOMAIN new = TxFields /\ new.base_id = id /\ new.next_id = tx.next_id
    BY <2>3, <2>4 DEF TxFields
  <2>6. tx.base_id = tx.next_id => id = tx.next_id
    <3>1. SUFFICES ASSUME tx.base_id = tx.next_id PROVE id = tx.next_id
      OBVIOUS
    <3>2. InTransit(tx) = 0 /\ WrappingSub(id, tx.base_id) <= 0
      BY <1>2, <3>1 DEF InTransit, SegmentAckValid, TxOK, WrappingSub, Id
    <3> QED BY <3>1, <3>2, IdModAssumption DEF WrappingSub, TxOK, Id
  <2> QED BY <2>4, <2>5, <2>6 DEF TxOK
<1>3. CASE ~SegmentAckValid(tx, id)
  <2>1. id # tx.next_id
    BY <1>1, <1>3 DEF SegmentAckValid, InTransit
  <2> QED BY <1>3, <2>1 DEF SegmentAcknowledge, TxOK
<1> QED BY <1>2, <1>3

RxFields == {"base_id", "slots", "rx_history", "nonce_history", "out"}

SegmentOK(segment) == segment.id \in Id /\ IsSeq(segment.data)

\* The receiver's window, with what it has handed out.
RxOK(rx) ==
    /\ DOMAIN rx = RxFields /\ rx.base_id \in Id
    /\ IsSeq(rx.slots) /\ Len(rx.slots) <= 2
    /\ \A i \in 1 .. Len(rx.slots) : SegmentOK(rx.slots[i])
    /\ IsSeq(rx.out) /\ \A i \in 1 .. Len(rx.out) : IsSeq(rx.out[i])

LEMMA DeliverKeeps ==
    ASSUME NEW rx, RxOK(rx), NEW segment, SegmentOK(segment)
    PROVE  RxOK(Deliver(rx, segment)) /\ Deliver(rx, segment).slots = rx.slots
<1>1. PICK out, seen, nonces, base :
         /\ out = Append(rx.out, segment.data) /\ base = WrappingAdd(segment.id, 1)
         /\ Deliver(rx, segment) = [rx EXCEPT !.out = out, !.rx_history = seen,
                                              !.nonce_history = nonces, !.base_id = base]
  BY DEF Deliver, RxOK, RxFields
<1>2. base \in Id
  BY <1>1, AddType DEF SegmentOK
<1>3. IsSeq(out) /\ \A i \in 1 .. Len(out) : IsSeq(out[i])
  <2>1. /\ IsSeq(rx.out) /\ Len(rx.out) \in Nat /\ IsSeq(segment.data)
        /\ \A i \in 1 .. Len(rx.out) : IsSeq(rx.out[i])
    BY IsSeqLen DEF RxOK, SegmentOK
  <2>2. /\ IsSeq(out) /\ Len(out) = Len(rx.out) + 1 /\ out[Len(rx.out) + 1] = segment.data
        /\ \A i \in 1 .. Len(rx.out) : out[i] = rx.out[i]
    BY <1>1, <2>1, IsSeqAppend
  <2>3. \A i \in 1 .. Len(rx.out) + 1 : i \in 1 .. Len(rx.out) \/ i = Len(rx.out) + 1
    BY <2>1
  <2> QED BY <2>1, <2>2, <2>3
<1> QED BY <1>1, <1>2, <1>3 DEF RxOK, RxFields

\* A window whose slots are replaced.
LEMMA SlotsKeep ==
    ASSUME NEW rx, RxOK(rx), NEW slots, IsSeq(slots), Len(slots) <= 2,
           \A i \in 1 .. Len(slots) : SegmentOK(slots[i])
    PROVE  RxOK([rx EXCEPT !.slots = slots]) /\ [rx EXCEPT !.slots = slots].slots = slots
BY DEF RxOK, RxFields

LEMMA DeliverSlotKeeps ==
    ASSUME NEW rx, RxOK(rx), rx.slots # <<>>
    PROVE  /\ RxOK(DeliverSlot(rx)) /\ DeliverSlot(rx).slots = Tail(rx.slots)
           /\ Len(DeliverSlot(rx).slots) = Len(rx.slots) - 1
<1>1. /\ IsSeq(rx.slots) /\ Len(rx.slots) \in Nat /\ Len(rx.slots) # 0
      /\ 1 \in 1 .. Len(rx.slots) /\ Len(rx.slots) <= 2
  BY IsSeqLen DEF RxOK
<1>2. PICK got : got = Deliver(rx, rx.slots[1])
  OBVIOUS
<1>3. RxOK(got) /\ got.slots = rx.slots
  BY <1>1, <1>2, DeliverKeeps DEF RxOK
<1>4. PICK rest : rest = Tail(rx.slots)
  OBVIOUS
<1>5. /\ IsSeq(rest) /\ Len(rest) = Len(rx.slots) - 1
      /\ \A i \in 1 .. Len(rest) : SegmentOK(rest[i])
  <2>1. /\ IsSeq(rest) /\ Len(rest) = Len(rx.slots) - 1
        /\ \A i \in 1 .. Len(rx.slots) - 1 : rest[i] = rx.slots[i + 1]
    BY <1>1, <1>4, IsSeqTail
  <2>2. \A i \in 1 .. Len(rx.slots) - 1 : i + 1 \in 1 .. Len(rx.slots)
    BY <1>1
  <2> QED BY <2>1, <2>2 DEF RxOK
<1>6. DeliverSlot(rx) = [got EXCEPT !.slots = rest]
  BY <1>2, <1>3, <1>4 DEF DeliverSlot, RxOK, RxFields
<1>7. Len(rest) <= 2
  BY <1>1, <1>5
<1>8. RxOK([got EXCEPT !.slots = rest]) /\ [got EXCEPT !.slots = rest].slots = rest
  BY <1>3, <1>5, <1>7, SlotsKeep
<1> QED BY <1>4, <1>5, <1>6, <1>8

LEMMA DeliverReadyKeeps ==
    ASSUME NEW rx, RxOK(rx)
    PROVE  RxOK(DeliverReady(rx))
<1>1. \A r : RxOK(r) => RxOK(DeliverIfNext(r))
  BY DeliverSlotKeeps DEF DeliverIfNext
<1> QED BY <1>1 DEF DeliverReady

LEMMA SortSlotsOK ==
    ASSUME NEW rx, NEW a, SegmentOK(a), NEW b, SegmentOK(b)
    PROVE  /\ IsSeq(SortSlots(rx, a, b)) /\ Len(SortSlots(rx, a, b)) <= 2
           /\ \A i \in 1 .. Len(SortSlots(rx, a, b)) : SegmentOK(SortSlots(rx, a, b)[i])
<1>1. ASSUME NEW x, SegmentOK(x), NEW y, SegmentOK(y)
      PROVE  /\ IsSeq(<<x, y>>) /\ Len(<<x, y>>) <= 2
             /\ \A i \in 1 .. Len(<<x, y>>) : SegmentOK(<<x, y>>[i])
  <2>1. IsSeq(<<x, y>>) /\ Len(<<x, y>>) = 2 /\ <<x, y>>[1] = x /\ <<x, y>>[2] = y
    BY IsSeqShort
  <2>2. \A i \in 1 .. 2 : i = 1 \/ i = 2
    OBVIOUS
  <2> QED BY <1>1, <2>1, <2>2
<1>2. SortSlots(rx, a, b) = <<a, b>> \/ SortSlots(rx, a, b) = <<b, a>>
  BY DEF SortSlots
<1> QED BY <1>1, <1>2

LEMMA AcceptKeeps ==
    ASSUME NEW rx, RxOK(rx), NEW segment, SegmentOK(segment)
    PROVE  RxOK(Accept(rx, segment))
<1>1. /\ IsSeq(rx.slots) /\ Len(rx.slots) \in 0 .. 2
      /\ \A i \in 1 .. Len(rx.slots) : SegmentOK(rx.slots[i])
  <2>1. /\ IsSeq(rx.slots) /\ Len(rx.slots) <= 2
        /\ \A i \in 1 .. Len(rx.slots) : SegmentOK(rx.slots[i])
    BY DEF RxOK
  <2>2. Len(rx.slots) \in Nat
    BY <2>1, IsSeqLen
  <2>3. \A n \in Nat : n <= 2 => n \in 0 .. 2
    OBVIOUS
  <2>4. Len(rx.slots) \in 0 .. 2
    BY <2>1, <2>2, <2>3
  <2> QED BY <2>1, <2>4
<1>2. CASE segment.id = rx.base_id
  <2>1. Accept(rx, segment) = DeliverReady(Deliver(rx, segment))
    BY <1>2 DEF Accept
  <2> QED BY <2>1, DeliverKeeps, DeliverReadyKeeps
<1>3. CASE segment.id # rx.base_id /\ Len(rx.slots) = 0
  <2>1. Accept(rx, segment) = [rx EXCEPT !.slots = <<segment>>]
    BY <1>3 DEF Accept
  <2>2. IsSeq(<<segment>>) /\ Len(<<segment>>) = 1 /\ <<segment>>[1] = segment
    BY IsSeqShort
  <2>3. PICK slots : slots = <<segment>>
    OBVIOUS
  <2>4. IsSeq(slots) /\ Len(slots) <= 2 /\ \A i \in 1 .. Len(slots) : SegmentOK(slots[i])
    BY <2>2, <2>3
  <2> QED BY <2>1, <2>3, <2>4, SlotsKeep
<1>4. CASE segment.id # rx.base_id /\ Len(rx.slots) = 1
  <2>1. Accept(rx, segment) = IF Buffered(rx, segment.id) THEN rx
                              ELSE [rx EXCEPT !.slots = SortSlots(rx, rx.slots[1], segment)]
    BY <1>4 DEF Accept, RxOK, RxFields
  <2>2. PICK slots : slots = SortSlots(rx, rx.slots[1], segment)
    OBVIOUS
  <2>3. IsSeq(slots) /\ Len(slots) <= 2 /\ \A i \in 1 .. Len(slots) : SegmentOK(slots[i])
    <3>1. SegmentOK(rx.slots[1])
      BY <1>1, <1>4
    <3> QED BY <2>2, <3>1, SortSlotsOK
  <2> QED BY <2>1, <2>2, <2>3, SlotsKeep
<1>5. CASE segment.id # rx.base_id /\ Len(rx.slots) = 2
  <2>1. PICK popped : popped = DeliverSlot(rx)
    OBVIOUS
  <2>2. PICK slots : slots = SortSlots(popped, segment, rx.slots[2])
    OBVIOUS
  <2>3. Accept(rx, segment) =
           IF Buffered(rx, segment.id) THEN DeliverReady(rx)
           ELSE IF RxDelta(rx, segment.id) < RxDelta(rx, rx.slots[1].id)
           THEN DeliverReady(Deliver(rx, segment))
           ELSE DeliverReady([popped EXCEPT !.slots = slots])
    BY <1>5, <2>1, <2>2 DEF Accept
  <2>4. rx.slots # <<>> /\ SegmentOK(rx.slots[2])
    BY <1>1, <1>5, IsSeqLen
  <2>5. RxOK(popped)
    BY <2>1, <2>4, DeliverSlotKeeps
  <2>6. IsSeq(slots) /\ Len(slots) <= 2 /\ \A i \in 1 .. Len(slots) : SegmentOK(slots[i])
    BY <2>2, <2>4, SortSlotsOK
  <2>7. RxOK([popped EXCEPT !.slots = slots])
    BY <2>5, <2>6, SlotsKeep
  <2> QED BY <2>3, <2>7, DeliverKeeps, DeliverReadyKeeps
<1>6. Len(rx.slots) = 0 \/ Len(rx.slots) = 1 \/ Len(rx.slots) = 2
  BY <1>1
<1> QED BY <1>2, <1>3, <1>4, <1>5, <1>6

\* What a call starts with: nothing has been handed out.
LEMMA StartOK ==
    ASSUME NEW rx, RxOK(rx)
    PROVE  RxOK([rx EXCEPT !.out = <<>>]) /\ [rx EXCEPT !.out = <<>>].out = <<>>
BY EmptyIsSeq DEF RxOK, RxFields

LEMMA SegmentReceiveKeeps ==
    ASSUME NEW rx, RxOK(rx), NEW segment, SegmentOK(segment)
    PROVE  RxOK(SegmentReceive(rx, segment))
<1>1. PICK start : start = [rx EXCEPT !.out = <<>>] /\ RxOK(start)
  BY StartOK
<1> QED BY <1>1, AcceptKeeps DEF SegmentReceive

LEMMA SegmentSyncKeeps ==
    ASSUME NEW rx, RxOK(rx), NEW id \in Id
    PROVE  RxOK(SegmentSync(rx, id))
<1>1. PICK start : start = [rx EXCEPT !.out = <<>>] /\ RxOK(start)
  BY StartOK
<1>2. RxOK(Resync(start, id))
  <2>1. PICK r1 : r1 = IF start.slots = <<>> THEN start ELSE DeliverSlot(start)
    OBVIOUS
  <2>2. PICK r2 : r2 = IF r1.slots = <<>> THEN r1 ELSE DeliverSlot(r1)
    OBVIOUS
  <2>3. RxOK(r1)
    BY <1>1, <2>1, DeliverSlotKeeps
  <2>4. RxOK(r2)
    BY <2>2, <2>3, DeliverSlotKeeps
  <2>5. PICK seen, nonces : Resync(start, id) =
            [r2 EXCEPT !.rx_history = seen, !.nonce_history = nonces, !.base_id = id]
    BY <2>1, <2>2, <2>4 DEF Resync, RxOK, RxFields
  <2> QED BY <2>4, <2>5 DEF RxOK, RxFields
<1> QED BY <1>1, <1>2 DEF SegmentSync

-----------------------------------------------------------------------------
(* Endpoints *)

EpFields == {"state_id", "segment_tx", "unrel", "rel", "prio", "cc", "rto_ms",
             "rto_timer_state", "segment_rx", "unreliable_rx", "reliable_rx", "timer",
             "frames", "events"}

\* Two endpoints that differ in the fragment buffers, in the counters of the channels and in
\* the congestion window at most.
Alike(new, old) ==
    /\ DOMAIN new = EpFields
    /\ new.state_id = old.state_id /\ new.timer = old.timer
    /\ new.segment_tx = old.segment_tx /\ new.segment_rx = old.segment_rx
    /\ new.rto_ms = old.rto_ms /\ new.rto_timer_state = old.rto_timer_state
    /\ new.frames = old.frames /\ new.events = old.events

LEMMA AlikeTrans ==
    ASSUME NEW a, NEW b, NEW c, Alike(b, a), Alike(c, b)
    PROVE  Alike(c, a)
BY DEF Alike

LEMMA BuffersAlike ==
    ASSUME NEW ep, DOMAIN ep = EpFields, NEW x
    PROVE  /\ Alike(ep, ep)
           /\ Alike([ep EXCEPT !.unrel = x], ep) /\ Alike([ep EXCEPT !.rel = x], ep)
           /\ Alike([ep EXCEPT !.prio = x], ep) /\ Alike([ep EXCEPT !.cc = x], ep)
           /\ Alike([ep EXCEPT !.unreliable_rx = x], ep)
           /\ Alike([ep EXCEPT !.reliable_rx = x], ep)
BY DEF Alike, EpFields

\* The state of the loop that writes fragments into a frame.
Filling(s, ep) ==
    /\ DOMAIN s = {"ep", "data", "size", "room", "done"}
    /\ Alike(s.ep, ep) /\ IsSeq(s.data)

LEMMA WriteNextKeeps ==
    ASSUME NEW s, NEW ep, Filling(s, ep), NEW now
    PROVE  Filling(WriteNext(s, now), ep)
<1>1. PICK e : e = [s.ep EXCEPT !.unrel = PopExpired(@, now)]
  OBVIOUS
<1>2. Alike(e, ep) /\ DOMAIN e = EpFields
  <2>1. DOMAIN s.ep = EpFields
    BY DEF Filling, Alike
  <2>2. e = [s.ep EXCEPT !.unrel = PopExpired(s.ep.unrel, now)]
    BY <1>1, <2>1 DEF EpFields
  <2> QED BY <2>1, <2>2, BuffersAlike, AlikeTrans DEF Filling, Alike
<1>3. CASE WriteNext(s, now) = [s EXCEPT !.ep = e, !.done = TRUE]
  BY <1>2, <1>3 DEF Filling
<1>4. CASE WriteNext(s, now) # [s EXCEPT !.ep = e, !.done = TRUE]
  <2>1. PICK datagram : datagram = NextDatagram(e)
    OBVIOUS
  <2>2. PICK sent : sent = [e EXCEPT !.prio = PrioMarkSent(@, IF datagram.unrel THEN 0 ELSE 1,
                                                           Len(datagram.fragment.data))]
    OBVIOUS
  <2>3. PICK new, size, room :
           /\ WriteNext(s, now) = [ep |-> new, data |-> Append(s.data, datagram),
                                   size |-> size, room |-> room, done |-> FALSE]
           /\ \/ new = [sent EXCEPT !.unrel = UnrelPopSendable(@)]
              \/ new = [sent EXCEPT !.rel = PopSendable(@)]
    BY <1>1, <1>4, <2>1, <2>2 DEF WriteNext
  <2>4. Alike(sent, ep) /\ DOMAIN sent = EpFields
    <3>1. \E x : sent = [e EXCEPT !.prio = x]
      BY <1>2, <2>2 DEF EpFields
    <3> QED BY <1>2, <3>1, BuffersAlike, AlikeTrans DEF Alike
  <2>5. Alike(new, ep)
    <3>1. \E x : new = [sent EXCEPT !.unrel = x] \/ new = [sent EXCEPT !.rel = x]
      <4>1. \/ new = [sent EXCEPT !.unrel = UnrelPopSendable(sent.unrel)]
            \/ new = [sent EXCEPT !.rel = PopSendable(sent.rel)]
        BY <2>3, <2>4 DEF EpFields
      <4> QED BY <4>1
    <3>2. Alike(new, sent)
      BY <2>4, <3>1, BuffersAlike
    <3> QED BY <2>4, <3>2, AlikeTrans
  <2>6. IsSeq(Append(s.data, datagram))
    BY IsSeqAppend DEF Filling
  <2> QED BY <2>3, <2>5, <2>6 DEF Filling
<1> QED BY <1>3, <1>4

LEMMA Singleton == ASSUME NEW x PROVE The({x}) = x
BY DEF The

\* g holds the states of the loop.
IsFillLoop(g, n, ep, room, now) ==
    g = [i \in 0 .. n |->
           IF i = 0 THEN [ep |-> ep, data |-> <<>>, size |-> 0, room |-> room, done |-> FALSE]
           ELSE The({IF s.done THEN s ELSE WriteNext(s, now) : s \in {g[i - 1]}})]

FillTurn(s, now) == The({IF t.done THEN t ELSE WriteNext(t, now) : t \in {s}})

LEMMA FillTurnIs ==
    ASSUME NEW s, NEW now
    PROVE  FillTurn(s, now) = IF s.done THEN s ELSE WriteNext(s, now)
<1>1. {IF t.done THEN t ELSE WriteNext(t, now) : t \in {s}}
         = {IF s.done THEN s ELSE WriteNext(s, now)}
  OBVIOUS
<1> QED BY <1>1, Singleton DEF FillTurn

LEMMA FillLoopExists ==
    ASSUME NEW ep, NEW room, NEW now, NEW n \in Nat
    PROVE  \E g : IsFillLoop(g, n, ep, room, now)
<1>1. PICK start : start = [ep |-> ep, data |-> <<>>, size |-> 0, room |-> room, done |-> FALSE]
  OBVIOUS
<1> DEFINE T == {m \in Nat : \E g : g = [i \in 0 .. m |-> IF i = 0 THEN start
                                                         ELSE FillTurn(g[i - 1], now)]}
<1>2. 0 \in T
  <2>1. PICK g : g = [i \in 0 .. 0 |-> start]
    OBVIOUS
  <2>2. g = [i \in 0 .. 0 |-> IF i = 0 THEN start ELSE FillTurn(g[i - 1], now)]
    BY <2>1
  <2> QED BY <2>2
<1>3. ASSUME NEW m \in Nat, m \in T PROVE m + 1 \in T
  <2>1. PICK g : g = [i \in 0 .. m |-> IF i = 0 THEN start ELSE FillTurn(g[i - 1], now)]
    BY <1>3
  <2>2. PICK h : h = [i \in 0 .. m + 1 |-> IF i <= m THEN g[i] ELSE FillTurn(g[m], now)]
    OBVIOUS
  <2>3. ASSUME NEW i \in 0 .. m + 1
        PROVE  h[i] = IF i = 0 THEN start ELSE FillTurn(h[i - 1], now)
    <3>1. CASE i <= m
      <4>1. i \in 0 .. m /\ (i # 0 => i - 1 \in 0 .. m + 1 /\ i - 1 <= m)
        BY <3>1
      <4>2. g[i] = IF i = 0 THEN start ELSE FillTurn(g[i - 1], now)
        BY <2>1, <4>1
      <4>3. h[i] = g[i] /\ (i # 0 => h[i - 1] = g[i - 1])
        BY <2>2, <3>1, <4>1
      <4> QED BY <4>2, <4>3
    <3>2. CASE ~(i <= m)
      <4>1. i # 0 /\ i - 1 = m /\ m \in 0 .. m + 1 /\ m <= m
        BY <3>2
      <4> QED BY <2>2, <3>2, <4>1
    <3> QED BY <3>1, <3>2
  <2>4. h = [i \in 0 .. m + 1 |-> IF i = 0 THEN start ELSE FillTurn(h[i - 1], now)]
    BY <2>2, <2>3
  <2> QED BY <2>4
<1> HIDE DEF T
<1>4. n \in T
  BY <1>2, <1>3, SetInduction
<1> QED BY <1>1, <1>4 DEF T, IsFillLoop, FillTurn

\* flush writes datagrams and leaves everything alone but the buffers and the counters.
LEMMA FlushFragmentsKeeps ==
    ASSUME NEW ep, DOMAIN ep = EpFields, NEW room \in Nat, NEW now
    PROVE  /\ Alike(FlushFragments(ep, room, now).ep, ep)
           /\ IsSeq(FlushFragments(ep, room, now).data)
<1>1. PICK n \in Nat : n = room + 1
  OBVIOUS
<1>2. PICK c : c = CHOOSE g : IsFillLoop(g, n, ep, room, now)
  OBVIOUS
<1>3. IsFillLoop(c, n, ep, room, now)
  BY <1>2, FillLoopExists
<1>4. FlushFragments(ep, room, now) = c[n]
  BY <1>1, <1>2 DEF FlushFragments, IsFillLoop
<1> DEFINE T == {m \in Nat : m <= n => Filling(c[m], ep)}
<1>5. 0 \in T
  <2>1. c[0] = [ep |-> ep, data |-> <<>>, size |-> 0, room |-> room, done |-> FALSE]
    BY <1>3 DEF IsFillLoop
  <2>2. Alike(ep, ep) /\ IsSeq(<<>>)
    BY BuffersAlike, EmptyIsSeq
  <2>3. Filling(c[0], ep)
    BY <2>1, <2>2 DEF Filling
  <2> QED BY <2>3
<1>6. ASSUME NEW m \in Nat, m \in T PROVE m + 1 \in T
  <2>1. SUFFICES ASSUME m + 1 <= n PROVE Filling(c[m + 1], ep)
    OBVIOUS
  <2>2. m + 1 \in 0 .. n /\ m + 1 # 0 /\ (m + 1) - 1 = m /\ m <= n
    BY <2>1
  <2>3. c[m + 1] = FillTurn(c[m], now)
    BY <1>3, <2>2 DEF IsFillLoop, FillTurn
  <2>4. Filling(c[m], ep)
    BY <1>6, <2>2
  <2> QED BY <2>3, <2>4, FillTurnIs, WriteNextKeeps
<1> HIDE DEF T
<1>7. n \in T
  BY <1>5, <1>6, SetInduction
<1> QED BY <1>4, <1>7 DEF T, Filling

-----------------------------------------------------------------------------
(* Frames, and an endpoint that is active *)

StreamFrameOK(frame) ==
    \/ /\ frame.type = "Stream"
       /\ frame.ack = None \/ frame.ack[1].segment_id \in Id
       /\ frame.segment = None \/ SegmentOK(frame.segment[1])
    \/ frame.type = "StreamSync" /\ frame.next_segment_id \in Id

FrameOK(frame) == StreamFrameOK(frame) \/ frame.type \in {"Close", "CloseAck"}

\* What holds of an endpoint's parts in every state.
PartsOK(ep) ==
    /\ DOMAIN ep = EpFields /\ ep.timer \in BOOLEAN
    /\ TxOK(ep.segment_tx) /\ RxOK(ep.segment_rx)
    /\ ep.rto_ms \in RtoMin .. RtoMax

\* The timer is set, or has fired and is still to be handled, exactly as rto_timer_state
\* says; and it is while something is in transit.
ClockOK(ep, fired) ==
    /\ (ep.timer \/ fired) <=> ep.rto_timer_state # None
    /\ ~(ep.timer /\ fired)
    /\ ep.rto_timer_state = None => ep.segment_tx.base_id = ep.segment_tx.next_id

StreamFrames(frames) == IsSeq(frames) /\ \A i \in 1 .. Len(frames) : StreamFrameOK(frames[i])

OnlyReceived(events) == IsSeq(events) /\ \A i \in 1 .. Len(events) : events[i].kind = "Receive"

\* An active endpoint in the middle of a call, with the frames and events of the call.
Running(ep, fired) ==
    /\ PartsOK(ep) /\ ep.state_id = "Active" /\ ClockOK(ep, fired)
    /\ StreamFrames(ep.frames) /\ OnlyReceived(ep.events)

\* One that sends frames and raises no events beyond those it has told.
Sending(ep, fired, told) ==
    /\ PartsOK(ep) /\ ep.state_id = "Active" /\ ClockOK(ep, fired)
    /\ StreamFrames(ep.frames) /\ ep.events = told

LEMMA SendingAlike ==
    ASSUME NEW ep, NEW new, NEW fired, NEW told, Sending(ep, fired, told), Alike(new, ep)
    PROVE  Sending(new, fired, told)
BY DEF Sending, PartsOK, ClockOK, Alike

LEMMA RunningAlike ==
    ASSUME NEW ep, NEW new, NEW fired, Running(ep, fired), Alike(new, ep)
    PROVE  Running(new, fired)
BY DEF Running, PartsOK, ClockOK, Alike

LEMMA SendFrameSends ==
    ASSUME NEW ep, NEW fired, NEW told, Sending(ep, fired, told), NEW frame, StreamFrameOK(frame)
    PROVE  Sending(SendFrame(ep, frame), fired, told)
<1>1. PICK frames : frames = Append(ep.frames, frame)
  OBVIOUS
<1>2. SendFrame(ep, frame) = [ep EXCEPT !.frames = frames]
  BY <1>1 DEF SendFrame, Sending, PartsOK, EpFields
<1>3. StreamFrames(frames)
  <2>1. IsSeq(ep.frames) /\ Len(ep.frames) \in Nat
    BY IsSeqLen DEF Sending, StreamFrames
  <2>2. /\ IsSeq(frames) /\ Len(frames) = Len(ep.frames) + 1
        /\ frames[Len(ep.frames) + 1] = frame
        /\ \A i \in 1 .. Len(ep.frames) : frames[i] = ep.frames[i]
    BY <1>1, <2>1, IsSeqAppend
  <2>3. \A i \in 1 .. Len(ep.frames) + 1 : i \in 1 .. Len(ep.frames) \/ i = Len(ep.frames) + 1
    BY <2>1
  <2> QED BY <2>2, <2>3 DEF Sending, StreamFrames
<1> QED BY <1>2, <1>3 DEF Sending, PartsOK, ClockOK, EpFields

LEMMA SendFrameKeeps ==
    ASSUME NEW ep, NEW fired, Running(ep, fired), NEW frame, StreamFrameOK(frame)
    PROVE  Running(SendFrame(ep, frame), fired)
<1>1. Sending(ep, fired, ep.events) /\ OnlyReceived(ep.events)
  BY DEF Running, Sending
<1>2. Sending(SendFrame(ep, frame), fired, ep.events)
  BY <1>1, SendFrameSends
<1> QED BY <1>1, <1>2 DEF Running, Sending

LEMMA RaiseKeeps ==
    ASSUME NEW ep, NEW fired, Running(ep, fired), NEW event, event.kind = "Receive"
    PROVE  Running(Raise(ep, event), fired)
<1>1. PICK events : events = Append(ep.events, event)
  OBVIOUS
<1>2. Raise(ep, event) = [ep EXCEPT !.events = events]
  BY <1>1 DEF Raise, Running, PartsOK, EpFields
<1>3. OnlyReceived(events)
  <2>1. IsSeq(ep.events) /\ Len(ep.events) \in Nat
    BY IsSeqLen DEF Running, OnlyReceived
  <2>2. /\ IsSeq(events) /\ Len(events) = Len(ep.events) + 1
        /\ events[Len(ep.events) + 1] = event
        /\ \A i \in 1 .. Len(ep.events) : events[i] = ep.events[i]
    BY <1>1, <2>1, IsSeqAppend
  <2>3. \A i \in 1 .. Len(ep.events) + 1 : i \in 1 .. Len(ep.events) \/ i = Len(ep.events) + 1
    BY <2>1
  <2> QED BY <2>2, <2>3 DEF Running, OnlyReceived
<1> QED BY <1>2, <1>3 DEF Running, PartsOK, ClockOK, EpFields

\* A segment is marked as sent and the timer runs.
LEMMA SegmentSent ==
    ASSUME NEW ep, NEW fired, NEW told, Sending(ep, fired, told), NEW noted, TxOK(noted),
           noted.base_id = ep.segment_tx.base_id, noted.next_id = ep.segment_tx.next_id,
           NEW filled, Alike(filled, [ep EXCEPT !.segment_tx = noted]), NEW size
    PROVE  Sending(ArmRto([filled EXCEPT !.segment_tx = MarkSent(@, size)]), fired, told)
<1>1. PICK e : e = [ep EXCEPT !.segment_tx = noted]
  OBVIOUS
<1>2. /\ DOMAIN e = EpFields /\ e.segment_tx = noted /\ e.state_id = ep.state_id
      /\ e.timer = ep.timer /\ e.rto_timer_state = ep.rto_timer_state
      /\ e.segment_rx = ep.segment_rx /\ e.rto_ms = ep.rto_ms /\ e.frames = ep.frames
      /\ e.events = ep.events
  BY <1>1 DEF Sending, PartsOK, EpFields
<1>3. PICK tx : tx = MarkSent(noted, size)
  OBVIOUS
<1>4. TxOK(tx)
  BY <1>3, MarkSentKeeps
<1>5. PICK x : x = [filled EXCEPT !.segment_tx = MarkSent(@, size)]
  OBVIOUS
<1>6. /\ DOMAIN x = EpFields /\ x.segment_tx = tx /\ x.state_id = ep.state_id
      /\ x.timer = ep.timer /\ x.rto_timer_state = ep.rto_timer_state
      /\ x.segment_rx = ep.segment_rx /\ x.rto_ms = ep.rto_ms /\ x.frames = ep.frames
      /\ x.events = ep.events
  <2>1. Alike(filled, e)
    BY <1>1
  <2>2. x = [filled EXCEPT !.segment_tx = MarkSent(filled.segment_tx, size)]
    BY <1>5, <2>1 DEF Alike, EpFields
  <2>3. filled.segment_tx = noted
    BY <1>2, <2>1 DEF Alike
  <2>4. x = [filled EXCEPT !.segment_tx = tx]
    BY <1>3, <2>2, <2>3
  <2> QED BY <1>2, <2>1, <2>4 DEF Alike, EpFields
<1>7. PICK y : y = ArmRto(x)
  OBVIOUS
<1>8. CASE x.rto_timer_state = None
  <2>1. PICK state : /\ state = Some([rto_ms |-> x.rto_ms, rto_sum_ms |-> 0])
                     /\ y = [x EXCEPT !.timer = TRUE, !.rto_timer_state = state]
    BY <1>7, <1>8 DEF ArmRto
  <2>2. state # None
    BY <2>1 DEF Some, None
  <2>3. ~fired
    BY <1>6, <1>8 DEF Sending, ClockOK
  <2>4. Sending(y, fired, told)
    BY <1>4, <1>6, <2>1, <2>2, <2>3 DEF Sending, PartsOK, ClockOK, EpFields
  <2> QED BY <1>5, <1>7, <2>4
<1>9. CASE x.rto_timer_state # None
  <2>1. y = x
    BY <1>7, <1>9 DEF ArmRto
  <2>2. Sending(y, fired, told)
    BY <1>4, <1>6, <1>9, <2>1 DEF Sending, PartsOK, ClockOK
  <2> QED BY <1>5, <1>7, <2>2
<1> QED BY <1>8, <1>9

-----------------------------------------------------------------------------
(* flush_stream *)

LEMMA SendStreamFrameSends ==
    ASSUME NEW s, NEW fired, NEW told, Sending(s.ep, fired, told), NEW ack_rel, NEW nonces, NEW now
    PROVE  Sending(SendStreamFrame(s, ack_rel, nonces, now).ep, fired, told)
<1>1. PICK ep : ep = [s.ep EXCEPT !.unrel = PopExpired(@, now)]
  OBVIOUS
<1>2. Sending(ep, fired, told) /\ DOMAIN ep = EpFields
  <2>1. DOMAIN s.ep = EpFields
    BY DEF Sending, PartsOK
  <2>2. ep = [s.ep EXCEPT !.unrel = PopExpired(s.ep.unrel, now)]
    BY <1>1, <2>1 DEF EpFields
  <2>3. Alike(ep, s.ep)
    BY <2>1, <2>2, BuffersAlike
  <2> QED BY <2>3, SendingAlike DEF Alike
<1>3. PICK data : data = CanSendData(ep)
  OBVIOUS
<1>4. PICK nonce : nonce = nonces[ep.segment_tx.next_id]
  OBVIOUS
<1>5. PICK noted : noted = StoreNonce(ep.segment_tx, nonce)
  OBVIOUS
<1>6. /\ TxOK(noted) /\ noted.base_id = ep.segment_tx.base_id
      /\ noted.next_id = ep.segment_tx.next_id
  BY <1>2, <1>5, StoreNonceKeeps DEF Sending, PartsOK
<1>7. PICK room \in Nat : room = FrameRoom - (IF s.send_ack THEN StreamAckSize ELSE 0)
  <2>1. /\ FrameRoom \in Nat /\ StreamAckSize \in Nat /\ DatagramHeader \in Nat
        /\ FragmentSize \in Nat /\ StreamAckSize + DatagramHeader + FragmentSize <= FrameRoom
    BY EndpointAssumption, FragmentSizeAssumption
  <2>2. FrameRoom - StreamAckSize \in Nat /\ FrameRoom - 0 \in Nat
    BY <2>1
  <2> QED BY <2>2
<1>8. PICK carrier : carrier = [ep EXCEPT !.segment_tx = noted]
  OBVIOUS
<1>9. DOMAIN carrier = EpFields
  BY <1>2, <1>8
<1>10. PICK filled : filled = FlushFragments(carrier, room, now)
  OBVIOUS
<1>11. Alike(filled.ep, carrier) /\ IsSeq(filled.data)
  BY <1>9, <1>10, FlushFragmentsKeeps
<1>12. PICK after : after = IF data
                            THEN ArmRto([filled.ep EXCEPT !.segment_tx = MarkSent(@, filled.size)])
                            ELSE ep
  OBVIOUS
<1>13. Sending(after, fired, told)
  <2>1. Sending(ArmRto([filled.ep EXCEPT !.segment_tx = MarkSent(@, filled.size)]), fired, told)
    BY <1>2, <1>6, <1>8, <1>11, SegmentSent
  <2> QED BY <1>2, <1>12, <2>1
<1>14. PICK frame :
          frame = [type    |-> "Stream",
                   ack     |-> IF s.send_ack THEN Some(NextAck(ep, ack_rel)) ELSE None,
                   segment |-> IF data THEN Some([id |-> ep.segment_tx.next_id,
                                                  nonce |-> nonce, data |-> filled.data])
                                       ELSE None]
  OBVIOUS
<1>15. SendStreamFrame(s, ack_rel, nonces, now).ep =
          IF ~(s.send_ack \/ data) THEN ep ELSE SendFrame(after, frame)
  <2>1. carrier = [ep EXCEPT !.segment_tx = StoreNonce(@, nonces[ep.segment_tx.next_id])]
    BY <1>2, <1>4, <1>5, <1>8 DEF EpFields
  <2> QED BY <1>1, <1>3, <1>4, <1>7, <1>10, <1>12, <1>14, <2>1 DEF SendStreamFrame
<1>16. StreamFrameOK(frame)
  <2>1. frame.type = "Stream"
    BY <1>14
  <2>2. frame.ack = None \/ frame.ack[1].segment_id \in Id
    <3>1. NextAck(ep, ack_rel).segment_id = ep.segment_rx.base_id
      BY DEF NextAck
    <3>2. ep.segment_rx.base_id \in Id
      BY <1>2 DEF Sending, PartsOK, RxOK
    <3>3. Some(NextAck(ep, ack_rel))[1] = NextAck(ep, ack_rel)
      BY DEF Some
    <3> QED BY <1>14, <3>1, <3>2, <3>3
  <2>3. frame.segment = None \/ SegmentOK(frame.segment[1])
    <3>1. PICK segment : segment = [id |-> ep.segment_tx.next_id, nonce |-> nonce,
                                    data |-> filled.data]
      OBVIOUS
    <3>2. SegmentOK(segment)
      BY <1>2, <1>11, <3>1 DEF SegmentOK, Sending, PartsOK, TxOK
    <3>3. Some(segment)[1] = segment
      BY DEF Some
    <3>4. frame.segment = Some(segment) \/ frame.segment = None
      BY <1>14, <3>1
    <3> QED BY <3>2, <3>3, <3>4
  <2> QED BY <2>1, <2>2, <2>3 DEF StreamFrameOK
<1> QED BY <1>2, <1>13, <1>15, <1>16, SendFrameSends

\* g holds the states of the loop.
IsFlushLoop(g, n, ep, send_ack, ack_rel, nonces, now) ==
    g = [i \in 0 .. n |->
           IF i = 0 THEN [ep |-> ep, send_ack |-> send_ack, done |-> FALSE]
           ELSE The({IF s.done THEN s ELSE SendStreamFrame(s, ack_rel, nonces, now) :
                        s \in {g[i - 1]}})]

FlushTurn(s, ack_rel, nonces, now) ==
    The({IF t.done THEN t ELSE SendStreamFrame(t, ack_rel, nonces, now) : t \in {s}})

LEMMA FlushTurnIs ==
    ASSUME NEW s, NEW ack_rel, NEW nonces, NEW now
    PROVE  FlushTurn(s, ack_rel, nonces, now)
             = IF s.done THEN s ELSE SendStreamFrame(s, ack_rel, nonces, now)
<1>1. {IF t.done THEN t ELSE SendStreamFrame(t, ack_rel, nonces, now) : t \in {s}}
         = {IF s.done THEN s ELSE SendStreamFrame(s, ack_rel, nonces, now)}
  OBVIOUS
<1> QED BY <1>1, Singleton DEF FlushTurn

LEMMA FlushLoopExists ==
    ASSUME NEW ep, NEW send_ack, NEW ack_rel, NEW nonces, NEW now, NEW n \in Nat
    PROVE  \E g : IsFlushLoop(g, n, ep, send_ack, ack_rel, nonces, now)
<1>1. PICK start : start = [ep |-> ep, send_ack |-> send_ack, done |-> FALSE]
  OBVIOUS
<1> DEFINE T == {m \in Nat : \E g : g = [i \in 0 .. m |->
                                          IF i = 0 THEN start
                                          ELSE FlushTurn(g[i - 1], ack_rel, nonces, now)]}
<1>2. 0 \in T
  <2>1. PICK g : g = [i \in 0 .. 0 |-> start]
    OBVIOUS
  <2>2. g = [i \in 0 .. 0 |-> IF i = 0 THEN start
                              ELSE FlushTurn(g[i - 1], ack_rel, nonces, now)]
    BY <2>1
  <2> QED BY <2>2
<1>3. ASSUME NEW m \in Nat, m \in T PROVE m + 1 \in T
  <2>1. PICK g : g = [i \in 0 .. m |-> IF i = 0 THEN start
                                       ELSE FlushTurn(g[i - 1], ack_rel, nonces, now)]
    BY <1>3
  <2>2. PICK h : h = [i \in 0 .. m + 1 |->
                        IF i <= m THEN g[i] ELSE FlushTurn(g[m], ack_rel, nonces, now)]
    OBVIOUS
  <2>3. ASSUME NEW i \in 0 .. m + 1
        PROVE  h[i] = IF i = 0 THEN start ELSE FlushTurn(h[i - 1], ack_rel, nonces, now)
    <3>1. CASE i <= m
      <4>1. i \in 0 .. m /\ (i # 0 => i - 1 \in 0 .. m + 1 /\ i - 1 <= m)
        BY <3>1
      <4>2. g[i] = IF i = 0 THEN start ELSE FlushTurn(g[i - 1], ack_rel, nonces, now)
        BY <2>1, <4>1
      <4>3. h[i] = g[i] /\ (i # 0 => h[i - 1] = g[i - 1])
        BY <2>2, <3>1, <4>1
      <4> QED BY <4>2, <4>3
    <3>2. CASE ~(i <= m)
      <4>1. i # 0 /\ i - 1 = m /\ m \in 0 .. m + 1 /\ m <= m
        BY <3>2
      <4> QED BY <2>2, <3>2, <4>1
    <3> QED BY <3>1, <3>2
  <2>4. h = [i \in 0 .. m + 1 |-> IF i = 0 THEN start
                                  ELSE FlushTurn(h[i - 1], ack_rel, nonces, now)]
    BY <2>2, <2>3
  <2> QED BY <2>4
<1> HIDE DEF T
<1>4. n \in T
  BY <1>2, <1>3, SetInduction
<1> QED BY <1>1, <1>4 DEF T, IsFlushLoop, FlushTurn

LEMMA FlushStreamSends ==
    ASSUME NEW ep, NEW fired, NEW told, Sending(ep, fired, told), NEW send_ack, NEW ack_rel, NEW nonces,
           NEW now
    PROVE  Sending(FlushStream(ep, send_ack, ack_rel, nonces, now), fired, told)
<1>1. PICK n \in Nat : n = TxWindow + 2
  BY TxWindowAssumption
<1>2. PICK c : c = CHOOSE g : IsFlushLoop(g, n, ep, send_ack, ack_rel, nonces, now)
  OBVIOUS
<1>3. IsFlushLoop(c, n, ep, send_ack, ack_rel, nonces, now)
  BY <1>2, FlushLoopExists
<1>4. FlushStream(ep, send_ack, ack_rel, nonces, now) = c[n].ep
  BY <1>1, <1>2 DEF FlushStream, IsFlushLoop
<1> DEFINE T == {m \in Nat : m <= n => Sending(c[m].ep, fired, told)}
<1>5. 0 \in T
  <2>1. c[0] = [ep |-> ep, send_ack |-> send_ack, done |-> FALSE]
    BY <1>3 DEF IsFlushLoop
  <2>2. c[0].ep = ep
    BY <2>1
  <2> QED BY <2>2
<1>6. ASSUME NEW m \in Nat, m \in T PROVE m + 1 \in T
  <2>1. SUFFICES ASSUME m + 1 <= n PROVE Sending(c[m + 1].ep, fired, told)
    OBVIOUS
  <2>2. m + 1 \in 0 .. n /\ m + 1 # 0 /\ (m + 1) - 1 = m /\ m <= n
    BY <2>1
  <2>3. c[m + 1] = FlushTurn(c[m], ack_rel, nonces, now)
    BY <1>3, <2>2 DEF IsFlushLoop, FlushTurn
  <2>4. Sending(c[m].ep, fired, told)
    BY <1>6, <2>2
  <2>5. \/ c[m + 1] = c[m]
        \/ c[m + 1] = SendStreamFrame(c[m], ack_rel, nonces, now)
    BY <2>3, FlushTurnIs
  <2>6. Sending(SendStreamFrame(c[m], ack_rel, nonces, now).ep, fired, told)
    BY <2>4, SendStreamFrameSends
  <2> QED BY <2>4, <2>5, <2>6
<1> HIDE DEF T
<1>7. n \in T
  BY <1>5, <1>6, SetInduction
<1> QED BY <1>4, <1>7 DEF T

LEMMA FlushStreamKeeps ==
    ASSUME NEW ep, NEW fired, Running(ep, fired), NEW send_ack, NEW ack_rel, NEW nonces,
           NEW now
    PROVE  Running(FlushStream(ep, send_ack, ack_rel, nonces, now), fired)
<1>1. Sending(ep, fired, ep.events) /\ OnlyReceived(ep.events)
  BY DEF Running, Sending
<1>2. Sending(FlushStream(ep, send_ack, ack_rel, nonces, now), fired, ep.events)
  BY <1>1, FlushStreamSends
<1> QED BY <1>1, <1>2 DEF Running, Sending

LEMMA EndpointFlushKeeps ==
    ASSUME NEW ep, NEW fired, Running(ep, fired), NEW nonces, NEW now
    PROVE  Running(EndpointFlush(ep, nonces, now), fired)
BY FlushStreamKeeps DEF EndpointFlush

LEMMA EnqueueAlike ==
    ASSUME NEW ep, DOMAIN ep = EpFields, NEW packet, NEW reliable, NEW time
    PROVE  Alike(EndpointEnqueue(ep, packet, reliable, time), ep)
<1>1. PICK x : \/ EndpointEnqueue(ep, packet, reliable, time) = ep
               \/ EndpointEnqueue(ep, packet, reliable, time) = [ep EXCEPT !.rel = x]
               \/ EndpointEnqueue(ep, packet, reliable, time) = [ep EXCEPT !.unrel = x]
  <2>1. \/ EndpointEnqueue(ep, packet, reliable, time) = ep
        \/ EndpointEnqueue(ep, packet, reliable, time)
             = [ep EXCEPT !.rel = TxPush(ep.rel, packet)]
        \/ EndpointEnqueue(ep, packet, reliable, time)
             = [ep EXCEPT !.unrel = UnrelPush(ep.unrel, packet, time)]
    BY DEF EndpointEnqueue, EpFields
  <2> QED BY <2>1
<1> QED BY <1>1, BuffersAlike

LEMMA EndpointEnqueueKeeps ==
    ASSUME NEW ep, NEW fired, Running(ep, fired), NEW packet, NEW reliable, NEW time
    PROVE  Running(EndpointEnqueue(ep, packet, reliable, time), fired)
BY EnqueueAlike, RunningAlike DEF Running, PartsOK

-----------------------------------------------------------------------------
(* Acknowledgements and segments *)

\* The timer is stopped only by an ack of everything that was sent.
LEMMA UpdateRtoTimerKeeps ==
    ASSUME NEW ep, PartsOK(ep), ep.state_id = "Active",
           StreamFrames(ep.frames), OnlyReceived(ep.events),
           ep.timer <=> ep.rto_timer_state # None,
           NEW id, id = ep.segment_tx.next_id => ep.segment_tx.base_id = ep.segment_tx.next_id,
           ep.rto_timer_state = None => ep.segment_tx.base_id = ep.segment_tx.next_id
    PROVE  Running(UpdateRtoTimer(ep, id), FALSE)
<1>1. CASE ep.rto_timer_state = None
  BY <1>1 DEF UpdateRtoTimer, Running, ClockOK
<1>2. CASE ep.rto_timer_state # None /\ id = ep.segment_tx.next_id
  <2>1. PICK new : new = [ep EXCEPT !.timer = FALSE, !.rto_timer_state = None]
    OBVIOUS
  <2>2. Running(new, FALSE)
    BY <1>2, <2>1 DEF Running, ClockOK, PartsOK, EpFields
  <2> QED BY <1>2, <2>1, <2>2 DEF UpdateRtoTimer
<1>3. CASE ep.rto_timer_state # None /\ id # ep.segment_tx.next_id
  <2>1. PICK state : state = Some([rto_ms |-> ep.rto_ms, rto_sum_ms |-> 0])
    OBVIOUS
  <2>2. state # None
    BY <2>1 DEF Some, None
  <2>3. PICK new : new = [ep EXCEPT !.timer = TRUE, !.rto_timer_state = state]
    OBVIOUS
  <2>4. Running(new, FALSE)
    BY <2>2, <2>3 DEF Running, ClockOK, PartsOK, EpFields
  <2> QED BY <1>3, <2>1, <2>3, <2>4 DEF UpdateRtoTimer
<1> QED BY <1>1, <1>2, <1>3

LEMMA HandleStreamAckKeeps ==
    ASSUME NEW ep, Running(ep, FALSE), NEW ack, ack.segment_id \in Id,
           NEW rto \in RtoMin .. RtoMax
    PROVE  Running(HandleStreamAck(ep, ack, rto), FALSE)
<1>1. PICK id \in Id : id = ack.segment_id
  OBVIOUS
<1>2. PICK tx : tx = SegmentAcknowledge(ep.segment_tx, id, ack.segment_history,
                                        ack.segment_checksum).tx
  OBVIOUS
<1>3. TxOK(ep.segment_tx) /\ DOMAIN ep = EpFields
  BY DEF Running, PartsOK
<1>4. /\ TxOK(tx) /\ tx.next_id = ep.segment_tx.next_id
      /\ id = ep.segment_tx.next_id => tx.base_id = tx.next_id
      /\ ep.segment_tx.base_id = ep.segment_tx.next_id => tx.base_id = tx.next_id
  BY <1>2, <1>3, SegmentAcknowledgeKeeps
<1>5. PICK cc, rel : HandleStreamAck(ep, ack, rto)
         = UpdateRtoTimer(UpdateRtt([ep EXCEPT !.cc = cc, !.segment_tx = tx, !.rel = rel], rto),
                          id)
  <2>1. HandleStreamAck(ep, ack, rto)
         = UpdateRtoTimer(UpdateRtt(
              [ep EXCEPT
                 !.cc = IF SegmentAcknowledge(ep.segment_tx, ack.segment_id,
                                              ack.segment_history, ack.segment_checksum).drop
                        THEN HandleDrop(HandleAck(ep.cc)) ELSE HandleAck(ep.cc),
                 !.segment_tx = SegmentAcknowledge(ep.segment_tx, ack.segment_id,
                                              ack.segment_history, ack.segment_checksum).tx,
                 !.rel = IF ack.rel_fragment_id = None THEN ep.rel
                         ELSE Acknowledge(ep.rel, ack.rel_fragment_id[1])], rto),
              ack.segment_id)
    BY <1>3 DEF HandleStreamAck, EpFields
  <2> QED BY <1>1, <1>2, <2>1
<1>6. PICK acked : acked = UpdateRtt([ep EXCEPT !.cc = cc, !.segment_tx = tx, !.rel = rel], rto)
  OBVIOUS
<1>7. /\ DOMAIN acked = EpFields /\ acked.segment_tx = tx /\ acked.rto_ms = rto
      /\ acked.state_id = ep.state_id /\ acked.timer = ep.timer
      /\ acked.rto_timer_state = ep.rto_timer_state /\ acked.segment_rx = ep.segment_rx
      /\ acked.frames = ep.frames /\ acked.events = ep.events
  BY <1>3, <1>6 DEF UpdateRtt, EpFields
<1>8. /\ PartsOK(acked) /\ acked.state_id = "Active" /\ StreamFrames(acked.frames)
      /\ OnlyReceived(acked.events)
      /\ acked.timer <=> acked.rto_timer_state # None
      /\ acked.rto_timer_state = None => acked.segment_tx.base_id = acked.segment_tx.next_id
      /\ id = acked.segment_tx.next_id
            => acked.segment_tx.base_id = acked.segment_tx.next_id
  BY <1>4, <1>7 DEF Running, PartsOK, ClockOK
<1> QED BY <1>5, <1>6, <1>8, UpdateRtoTimerKeeps

LEMMA ReceiveDatagramKeeps ==
    ASSUME NEW ep, NEW fired, Running(ep, fired), NEW datagram
    PROVE  Running(ReceiveDatagram(ep, datagram), fired)
<1>1. DOMAIN ep = EpFields
  BY DEF Running, PartsOK
<1>2. PICK kept, rx, packet :
         /\ kept = [ep EXCEPT !.unreliable_rx = rx] \/ kept = [ep EXCEPT !.reliable_rx = rx]
         /\ \/ ReceiveDatagram(ep, datagram) = kept
            \/ ReceiveDatagram(ep, datagram)
                 = Raise(kept, [kind |-> "Receive", unrel |-> datagram.unrel,
                                packet |-> packet])
  BY DEF ReceiveDatagram
<1>3. Running(kept, fired)
  BY <1>1, <1>2, BuffersAlike, RunningAlike
<1>4. PICK event : event = [kind |-> "Receive", unrel |-> datagram.unrel, packet |-> packet]
  OBVIOUS
<1>5. Running(Raise(kept, event), fired)
  BY <1>3, <1>4, RaiseKeeps
<1> QED BY <1>2, <1>3, <1>4, <1>5

\* g holds the states of the loop.
IsReadLoop(g, n, start, read) ==
    g = [i \in 0 .. n |-> IF i = 0 THEN start
                          ELSE The({ReceiveDatagram(e, read[i]) : e \in {g[i - 1]}})]

ReadTurn(ep, datagram) == The({ReceiveDatagram(e, datagram) : e \in {ep}})

LEMMA ReadTurnIs ==
    ASSUME NEW ep, NEW datagram
    PROVE  ReadTurn(ep, datagram) = ReceiveDatagram(ep, datagram)
<1>1. {ReceiveDatagram(e, datagram) : e \in {ep}} = {ReceiveDatagram(ep, datagram)}
  OBVIOUS
<1> QED BY <1>1, Singleton DEF ReadTurn

LEMMA ReadLoopExists ==
    ASSUME NEW start, NEW read, NEW n \in Nat
    PROVE  \E g : IsReadLoop(g, n, start, read)
<1> DEFINE T == {m \in Nat : \E g : g = [i \in 0 .. m |-> IF i = 0 THEN start
                                                         ELSE ReadTurn(g[i - 1], read[i])]}
<1>2. 0 \in T
  <2>1. PICK g : g = [i \in 0 .. 0 |-> start]
    OBVIOUS
  <2>2. g = [i \in 0 .. 0 |-> IF i = 0 THEN start ELSE ReadTurn(g[i - 1], read[i])]
    BY <2>1
  <2> QED BY <2>2
<1>3. ASSUME NEW m \in Nat, m \in T PROVE m + 1 \in T
  <2>1. PICK g : g = [i \in 0 .. m |-> IF i = 0 THEN start ELSE ReadTurn(g[i - 1], read[i])]
    BY <1>3
  <2>2. PICK h : h = [i \in 0 .. m + 1 |-> IF i <= m THEN g[i] ELSE ReadTurn(g[m], read[i])]
    OBVIOUS
  <2>3. ASSUME NEW i \in 0 .. m + 1
        PROVE  h[i] = IF i = 0 THEN start ELSE ReadTurn(h[i - 1], read[i])
    <3>1. CASE i <= m
      <4>1. i \in 0 .. m /\ (i # 0 => i - 1 \in 0 .. m + 1 /\ i - 1 <= m)
        BY <3>1
      <4>2. g[i] = IF i = 0 THEN start ELSE ReadTurn(g[i - 1], read[i])
        BY <2>1, <4>1
      <4>3. h[i] = g[i] /\ (i # 0 => h[i - 1] = g[i - 1])
        BY <2>2, <3>1, <4>1
      <4> QED BY <4>2, <4>3
    <3>2. CASE ~(i <= m)
      <4>1. i # 0 /\ i - 1 = m /\ m \in 0 .. m + 1 /\ m <= m
        BY <3>2
      <4> QED BY <2>2, <3>2, <4>1
    <3> QED BY <3>1, <3>2
  <2>4. h = [i \in 0 .. m + 1 |-> IF i = 0 THEN start ELSE ReadTurn(h[i - 1], read[i])]
    BY <2>2, <2>3
  <2> QED BY <2>4
<1> HIDE DEF T
<1>4. n \in T
  BY <1>2, <1>3, SetInduction
<1> QED BY <1>4 DEF T, IsReadLoop, ReadTurn

LEMMA DeliverSegmentsKeeps ==
    ASSUME NEW ep, NEW fired, Running(ep, fired), NEW rx, RxOK(rx)
    PROVE  Running(DeliverSegments(ep, rx), fired)
<1>1. PICK read : read = SeqExt!FlattenSeq(rx.out)
  OBVIOUS
<1>2. PICK n \in Nat : n = Len(read)
  <2>1. IsSeq(read)
    BY <1>1, FlattenIsSeq DEF RxOK
  <2> QED BY <2>1, IsSeqLen
<1>3. PICK start : start = [ep EXCEPT !.segment_rx = [rx EXCEPT !.out = <<>>]]
  OBVIOUS
<1>4. Running(start, fired)
  <2>1. PICK r : r = [rx EXCEPT !.out = <<>>] /\ RxOK(r)
    BY StartOK
  <2>2. start = [ep EXCEPT !.segment_rx = r]
    BY <1>3, <2>1
  <2> QED BY <2>1, <2>2 DEF Running, PartsOK, ClockOK, EpFields
<1>5. PICK c : c = CHOOSE g : IsReadLoop(g, n, start, read)
  OBVIOUS
<1>6. IsReadLoop(c, n, start, read)
  BY <1>5, ReadLoopExists
<1>7. DeliverSegments(ep, rx) = c[n]
  BY <1>1, <1>2, <1>3, <1>5 DEF DeliverSegments, IsReadLoop
<1> DEFINE T == {m \in Nat : m <= n => Running(c[m], fired)}
<1>8. 0 \in T
  <2>1. c[0] = start
    BY <1>6 DEF IsReadLoop
  <2> QED BY <1>4, <2>1
<1>9. ASSUME NEW m \in Nat, m \in T PROVE m + 1 \in T
  <2>1. SUFFICES ASSUME m + 1 <= n PROVE Running(c[m + 1], fired)
    OBVIOUS
  <2>2. m + 1 \in 0 .. n /\ m + 1 # 0 /\ (m + 1) - 1 = m /\ m <= n
    BY <2>1
  <2>3. c[m + 1] = ReadTurn(c[m], read[m + 1])
    BY <1>6, <2>2 DEF IsReadLoop, ReadTurn
  <2>4. Running(c[m], fired)
    BY <1>9, <2>2
  <2> QED BY <2>3, <2>4, ReadTurnIs, ReceiveDatagramKeeps
<1> HIDE DEF T
<1>10. n \in T
  BY <1>8, <1>9, SetInduction
<1> QED BY <1>7, <1>10 DEF T

LEMMA HandleStreamFrameKeeps ==
    ASSUME NEW ep, Running(ep, FALSE), NEW frame, StreamFrameOK(frame),
           frame.type = "Stream", NEW nonces, NEW rto \in RtoMin .. RtoMax, NEW now
    PROVE  Running(HandleStreamFrame(ep, frame, nonces, rto, now), FALSE)
<1>1. PICK acked : acked = IF frame.ack = None THEN ep
                           ELSE HandleStreamAck(ep, frame.ack[1], rto)
  OBVIOUS
<1>2. Running(acked, FALSE)
  <2>1. frame.ack = None \/ frame.ack[1].segment_id \in Id
    BY DEF StreamFrameOK
  <2> QED BY <1>1, <2>1, HandleStreamAckKeeps
<1>3. PICK rx : rx = IF frame.segment = None THEN acked.segment_rx
                     ELSE SegmentReceive(acked.segment_rx, frame.segment[1])
  OBVIOUS
<1>4. RxOK(rx)
  <2>1. frame.segment = None \/ SegmentOK(frame.segment[1])
    BY DEF StreamFrameOK
  <2>2. RxOK(acked.segment_rx)
    BY <1>2 DEF Running, PartsOK
  <2> QED BY <1>3, <2>1, <2>2, SegmentReceiveKeeps
<1>5. PICK send_ack, ack_rel :
         HandleStreamFrame(ep, frame, nonces, rto, now)
           = FlushStream(DeliverSegments(acked, rx), send_ack, ack_rel, nonces, now)
  BY <1>1, <1>3 DEF HandleStreamFrame
<1> QED BY <1>2, <1>4, <1>5, DeliverSegmentsKeeps, FlushStreamKeeps

LEMMA HandleStreamSyncFrameKeeps ==
    ASSUME NEW ep, NEW fired, Running(ep, fired), NEW id \in Id, NEW nonces, NEW now
    PROVE  Running(HandleStreamSyncFrame(ep, id, nonces, now), fired)
<1>1. PICK rx : rx = SegmentSync(ep.segment_rx, id)
  OBVIOUS
<1>2. RxOK(rx)
  BY <1>1, SegmentSyncKeeps DEF Running, PartsOK
<1>3. PICK got : got = DeliverSegments(ep, rx)
  OBVIOUS
<1>4. Running(got, fired) /\ DOMAIN got = EpFields
  BY <1>2, <1>3, DeliverSegmentsKeeps DEF Running, PartsOK
<1>5. PICK new : new = [got EXCEPT !.unreliable_rx = UnrelReset(@)]
  OBVIOUS
<1>6. Running(new, fired)
  <2>1. new = [got EXCEPT !.unreliable_rx = UnrelReset(got.unreliable_rx)]
    BY <1>4, <1>5 DEF EpFields
  <2>2. Alike(new, got)
    BY <1>4, <2>1, BuffersAlike
  <2> QED BY <1>4, <2>2, RunningAlike
<1>7. HandleStreamSyncFrame(ep, id, nonces, now) = FlushStream(new, TRUE, TRUE, nonces, now)
  BY <1>1, <1>3, <1>5 DEF HandleStreamSyncFrame
<1> QED BY <1>6, <1>7, FlushStreamKeeps

-----------------------------------------------------------------------------
(* Calls *)

Ended(ep) == ep.state_id \in {"Closed", "Zombie"}

\* The timer in every state; fired says that it is still to be handled.  An endpoint that
\* closes has both only if disconnect was called after the timer had fired.
StateOK(ep, fired) ==
    \/ ep.state_id = "Active" /\ ClockOK(ep, fired)
    \/ /\ ep.state_id = "Closing" /\ ep.rto_timer_state # None
       /\ ep.timer \/ fired
       /\ ep.timer /\ fired => RtoSum(ep) \in 0 .. RtoMax
    \/ /\ ep.state_id = "Closed"
       /\ ep.timer \/ fired
       /\ ~(ep.timer /\ fired)
    \/ ep.state_id = "Zombie" /\ (RtoMax < TimeoutTime => ~ep.timer /\ ~fired)

\* An endpoint between two calls.
Resting(ep, fired) ==
    PartsOK(ep) /\ StateOK(ep, fired) /\ ep.frames = <<>> /\ ep.events = <<>>

\* What a call makes of the endpoint old: with the frames and events of the call, which are
\* an ending if the endpoint ends and packets otherwise.  agreed says that the other side
\* is through with the connection.
Outcome(old, new, fired, agreed) ==
    /\ PartsOK(new) /\ StateOK(new, fired)
    /\ old.state_id # "Active" => /\ new.state_id # "Active"
                                  /\ new.segment_tx.next_id = old.segment_tx.next_id
    /\ IsSeq(new.frames) /\ IsSeq(new.events)
    /\ \A i \in 1 .. Len(new.frames) :
          /\ FrameOK(new.frames[i])
          /\ new.frames[i].type \in {"Close", "CloseAck"} => new.state_id # "Active"
    /\ Ended(old) => Ended(new) /\ new.events = <<>>
    /\ ~Ended(old) /\ Ended(new) => /\ Len(new.events) = 1
                                    /\ new.events[1].kind \in {"Disconnect", "Timeout"}
    /\ ~Ended(new) => /\ OnlyReceived(new.events)
                      /\ old.state_id # "Active" => new.events = <<>>
    /\ \A i \in 1 .. Len(new.events) : new.events[i].kind = "Disconnect" => agreed

LEMMA RestingRuns ==
    ASSUME NEW ep, NEW fired, Resting(ep, fired), ep.state_id = "Active"
    PROVE  Running(ep, fired)
<1>1. StreamFrames(<<>>) /\ OnlyReceived(<<>>)
  BY EmptyIsSeq DEF StreamFrames, OnlyReceived
<1> QED BY <1>1 DEF Resting, StateOK, Running

LEMMA RunningOutcome ==
    ASSUME NEW old, old.state_id = "Active", NEW new, NEW fired, Running(new, fired),
           NEW agreed
    PROVE  Outcome(old, new, fired, agreed)
<1>1. /\ PartsOK(new) /\ new.state_id = "Active" /\ StateOK(new, fired)
      /\ IsSeq(new.frames) /\ IsSeq(new.events) /\ OnlyReceived(new.events)
  BY DEF Running, StateOK, StreamFrames, OnlyReceived
<1>2. ASSUME NEW i \in 1 .. Len(new.frames)
      PROVE  /\ FrameOK(new.frames[i])
             /\ new.frames[i].type \in {"Close", "CloseAck"} => new.state_id # "Active"
  <2>1. StreamFrameOK(new.frames[i])
    BY DEF Running, StreamFrames
  <2>2. new.frames[i].type = "Stream" \/ new.frames[i].type = "StreamSync"
    BY <2>1 DEF StreamFrameOK
  <2> QED BY <2>1, <2>2 DEF FrameOK
<1>3. \A i \in 1 .. Len(new.events) : new.events[i].kind = "Disconnect" => agreed
  BY <1>1 DEF OnlyReceived
<1>4. ~Ended(old) /\ ~Ended(new)
  BY <1>1 DEF Ended
<1> QED BY <1>1, <1>2, <1>3, <1>4 DEF Outcome

LEMMA NothingOutcome ==
    ASSUME NEW ep, NEW fired, Resting(ep, fired), NEW agreed
    PROVE  Outcome(ep, ep, fired, agreed)
<1>1. IsSeq(ep.frames) /\ Len(ep.frames) = 0 /\ IsSeq(ep.events) /\ Len(ep.events) = 0
  BY EmptyIsSeq DEF Resting
<1>2. OnlyReceived(ep.events)
  BY <1>1 DEF OnlyReceived
<1> QED BY <1>1, <1>2 DEF Resting, Outcome

LEMMA FlushOutcome ==
    ASSUME NEW ep, NEW fired, Resting(ep, fired), NEW nonces, NEW now, NEW agreed
    PROVE  Outcome(ep, EndpointFlush(ep, nonces, now), fired, agreed)
<1>1. CASE ep.state_id = "Active"
  BY <1>1, RestingRuns, EndpointFlushKeeps, RunningOutcome
<1>2. CASE ep.state_id # "Active"
  BY <1>2, NothingOutcome DEF EndpointFlush
<1> QED BY <1>1, <1>2

LEMMA EnqueueOutcome ==
    ASSUME NEW ep, NEW fired, Resting(ep, fired), ep.state_id = "Active",
           NEW packet, NEW reliable, NEW time, NEW nonces, NEW now, NEW agreed
    PROVE  LET enqueued == EndpointEnqueue(ep, packet, reliable, time)
           IN  /\ Outcome(ep, enqueued, fired, agreed)
               /\ Outcome(ep, EndpointFlush(enqueued, nonces, now), fired, agreed)
<1>1. PICK e : e = EndpointEnqueue(ep, packet, reliable, time)
  OBVIOUS
<1>2. Running(e, fired)
  BY <1>1, RestingRuns, EndpointEnqueueKeeps
<1>3. Running(EndpointFlush(e, nonces, now), fired)
  BY <1>2, EndpointFlushKeeps
<1> QED BY <1>1, <1>2, <1>3, RunningOutcome

\* An endpoint that sends one close frame, and raises nothing.
LEMMA CloseSent ==
    ASSUME NEW old, NEW ep, PartsOK(ep), ep.frames = <<>>, ep.events = <<>>, NEW fired,
           StateOK(ep, fired), ep.state_id # "Active", Ended(old) <=> Ended(ep),
           ep.segment_tx.next_id = old.segment_tx.next_id,
           NEW type \in {"Close", "CloseAck"}, NEW agreed
    PROVE  Outcome(old, SendFrame(ep, [type |-> type]), fired, agreed)
<1>1. PICK frame : frame = [type |-> type]
  OBVIOUS
<1>2. PICK frames : frames = Append(<<>>, frame)
  OBVIOUS
<1>3. IsSeq(frames) /\ Len(frames) = 1 /\ frames[1] = frame
  <2>1. frames = <<frame>>
    BY <1>2
  <2> QED BY <2>1, IsSeqShort
<1>4. PICK new : new = [ep EXCEPT !.frames = frames]
  OBVIOUS
<1>5. SendFrame(ep, [type |-> type]) = new
  BY <1>1, <1>2, <1>4 DEF SendFrame, PartsOK, EpFields
<1>6. /\ new.state_id = ep.state_id /\ new.segment_tx = ep.segment_tx
      /\ new.events = <<>> /\ new.frames = frames /\ PartsOK(new)
      /\ new.timer = ep.timer /\ new.rto_timer_state = ep.rto_timer_state
  BY <1>4 DEF PartsOK, EpFields
<1>7. StateOK(new, fired)
  BY <1>6 DEF StateOK, RtoSum
<1>8. \A i \in 1 .. Len(frames) : FrameOK(frames[i])
  BY <1>1, <1>3 DEF FrameOK
<1>9. Ended(old) <=> Ended(new)
  BY <1>6 DEF Ended
<1>10. IsSeq(new.events) /\ Len(new.events) = 0 /\ OnlyReceived(new.events)
  BY <1>6, EmptyIsSeq DEF OnlyReceived
<1> QED BY <1>3, <1>5, <1>6, <1>7, <1>8, <1>9, <1>10 DEF Outcome

LEMMA DisconnectOutcome ==
    ASSUME NEW ep, NEW fired, Resting(ep, fired), NEW agreed
    PROVE  Outcome(ep, EndpointDisconnect(ep), fired, agreed)
<1>1. CASE ep.state_id # "Active"
  BY <1>1, NothingOutcome DEF EndpointDisconnect
<1>2. CASE ep.state_id = "Active"
  <2>1. PICK state : state = Some([rto_ms |-> ep.rto_ms, rto_sum_ms |-> 0])
    OBVIOUS
  <2>2. /\ state # None /\ state[1].rto_sum_ms + state[1].rto_ms = 0 + ep.rto_ms
    BY <2>1 DEF Some, None
  <2>3. PICK e : e = [ep EXCEPT !.state_id = "Closing", !.timer = TRUE,
                                !.rto_timer_state = state]
    OBVIOUS
  <2>4. /\ PartsOK(e) /\ e.state_id = "Closing" /\ e.timer = TRUE
        /\ e.rto_timer_state = state /\ e.segment_tx = ep.segment_tx
        /\ e.frames = <<>> /\ e.events = <<>>
    BY <2>3 DEF Resting, PartsOK, EpFields
  <2>5. RtoSum(e) \in 0 .. RtoMax
    BY <2>2, <2>4, EndpointAssumption DEF RtoSum, Resting, PartsOK
  <2>6. StateOK(e, fired)
    BY <2>2, <2>4, <2>5 DEF StateOK
  <2>7. ~Ended(ep) /\ ~Ended(e)
    BY <1>2, <2>4 DEF Ended
  <2>8. EndpointDisconnect(ep) = SendFrame(e, [type |-> "Close"])
    BY <1>2, <2>1, <2>3 DEF EndpointDisconnect, EnterClosing
  <2>9. "Close" \in {"Close", "CloseAck"}
    OBVIOUS
  <2> QED BY <2>4, <2>6, <2>7, <2>8, <2>9, CloseSent
<1> QED BY <1>1, <1>2

\* An endpoint that ends, with the event of it.
LEMMA EndRaised ==
    ASSUME NEW old, ~Ended(old), NEW ep, PartsOK(ep), NEW fired, StateOK(ep, fired),
           Ended(ep), ep.segment_tx.next_id = old.segment_tx.next_id,
           IsSeq(ep.frames), \A i \in 1 .. Len(ep.frames) : FrameOK(ep.frames[i]),
           ep.events = <<>>, NEW kind \in {"Disconnect", "Timeout"},
           NEW agreed, kind = "Disconnect" => agreed
    PROVE  Outcome(old, Raise(ep, [kind |-> kind]), fired, agreed)
<1>1. PICK event : event = [kind |-> kind]
  OBVIOUS
<1>2. PICK events : events = Append(<<>>, event)
  OBVIOUS
<1>3. IsSeq(events) /\ Len(events) = 1 /\ events[1] = event
  <2>1. events = <<event>>
    BY <1>2
  <2> QED BY <2>1, IsSeqShort
<1>4. PICK new : new = [ep EXCEPT !.events = events]
  OBVIOUS
<1>5. Raise(ep, [kind |-> kind]) = new
  BY <1>1, <1>2, <1>4 DEF Raise, PartsOK, EpFields
<1>6. /\ new.state_id = ep.state_id /\ new.segment_tx = ep.segment_tx
      /\ new.events = events /\ new.frames = ep.frames /\ PartsOK(new)
      /\ new.timer = ep.timer /\ new.rto_timer_state = ep.rto_timer_state
  BY <1>4 DEF PartsOK, EpFields
<1>7. StateOK(new, fired)
  BY <1>6 DEF StateOK, ClockOK, RtoSum
<1>8. Ended(new) /\ new.state_id # "Active"
  BY <1>6 DEF Ended
<1>9. event.kind = kind
  BY <1>1
<1> QED BY <1>3, <1>5, <1>6, <1>7, <1>8, <1>9 DEF Outcome

\* enter_closed, from an endpoint that has sent close frames at most.
LEMMA EnterClosedOutcome ==
    ASSUME NEW old, ~Ended(old), NEW ep, PartsOK(ep), ep.events = <<>>,
           ep.segment_tx.next_id = old.segment_tx.next_id,
           IsSeq(ep.frames), \A i \in 1 .. Len(ep.frames) : FrameOK(ep.frames[i])
    PROVE  Outcome(old, EnterClosed(ep), FALSE, TRUE)
<1>1. PICK e : e = [ep EXCEPT !.state_id = "Closed", !.timer = TRUE, !.rto_timer_state = None]
  OBVIOUS
<1>2. /\ PartsOK(e) /\ e.state_id = "Closed" /\ e.timer = TRUE /\ e.events = <<>>
      /\ e.segment_tx = ep.segment_tx /\ e.frames = ep.frames
  BY <1>1 DEF PartsOK, EpFields
<1>3. StateOK(e, FALSE) /\ Ended(e)
  BY <1>2 DEF StateOK, Ended
<1>4. EnterClosed(ep) = Raise(e, [kind |-> "Disconnect"])
  BY <1>1 DEF EnterClosed
<1>5. "Disconnect" \in {"Disconnect", "Timeout"}
  OBVIOUS
<1> QED BY <1>2, <1>3, <1>4, <1>5, EndRaised

\* A state is one of four.
LEMMA StateOneOf ==
    ASSUME NEW ep, NEW fired, StateOK(ep, fired)
    PROVE  \/ ep.state_id = "Active" \/ ep.state_id = "Closing"
           \/ ep.state_id = "Closed" \/ ep.state_id = "Zombie"
BY DEF StateOK

LEMMA HandleCloseOutcome ==
    ASSUME NEW ep, Resting(ep, FALSE)
    PROVE  Outcome(ep, HandleClose(ep), FALSE, TRUE)
<1>1. CASE ep.state_id \in {"Active", "Closing"}
  <2>1. PICK frame : frame = [type |-> "CloseAck"]
    OBVIOUS
  <2>2. PICK frames : frames = Append(<<>>, frame)
    OBVIOUS
  <2>3. IsSeq(frames) /\ Len(frames) = 1 /\ frames[1] = frame
    <3>1. frames = <<frame>>
      BY <2>2
    <3> QED BY <3>1, IsSeqShort
  <2>4. PICK e : e = [ep EXCEPT !.frames = frames]
    OBVIOUS
  <2>5. SendFrame(ep, [type |-> "CloseAck"]) = e
    BY <2>1, <2>2, <2>4 DEF SendFrame, Resting, PartsOK, EpFields
  <2>6. /\ PartsOK(e) /\ e.events = <<>> /\ e.segment_tx = ep.segment_tx /\ e.frames = frames
    BY <2>4 DEF Resting, PartsOK, EpFields
  <2>7. \A i \in 1 .. Len(frames) : FrameOK(frames[i])
    BY <2>1, <2>3 DEF FrameOK
  <2>8. ~Ended(ep)
    BY <1>1 DEF Ended
  <2>9. HandleClose(ep) = EnterClosed(e)
    BY <1>1, <2>5 DEF HandleClose
  <2> QED BY <2>3, <2>6, <2>7, <2>8, <2>9, EnterClosedOutcome
<1>2. CASE ep.state_id = "Closed"
  <2>1. HandleClose(ep) = SendFrame(ep, [type |-> "CloseAck"])
    BY <1>2 DEF HandleClose
  <2>2. "CloseAck" \in {"Close", "CloseAck"} /\ ep.state_id # "Active"
    BY <1>2
  <2> QED BY <2>1, <2>2, CloseSent DEF Resting
<1>3. CASE ep.state_id = "Zombie"
  <2>1. HandleClose(ep) = ep
    BY <1>3 DEF HandleClose
  <2> QED BY <2>1, NothingOutcome
<1> QED BY <1>1, <1>2, <1>3, StateOneOf DEF Resting

LEMMA HandleCloseAckOutcome ==
    ASSUME NEW ep, Resting(ep, FALSE)
    PROVE  Outcome(ep, HandleCloseAck(ep), FALSE, TRUE)
<1>1. CASE ep.state_id = "Closing"
  <2>1. ~Ended(ep) /\ IsSeq(ep.frames) /\ Len(ep.frames) = 0
    BY <1>1, EmptyIsSeq DEF Ended, Resting
  <2>2. \A i \in 1 .. Len(ep.frames) : FrameOK(ep.frames[i])
    BY <2>1
  <2>3. Outcome(ep, EnterClosed(ep), FALSE, TRUE)
    BY <2>1, <2>2, EnterClosedOutcome DEF Resting
  <2> QED BY <1>1, <2>3 DEF HandleCloseAck
<1>2. CASE ep.state_id # "Closing"
  BY <1>2, NothingOutcome DEF HandleCloseAck
<1> QED BY <1>1, <1>2

\* Any frame.
LEMMA HandleFrameOutcome ==
    ASSUME NEW ep, Resting(ep, FALSE), NEW frame, FrameOK(frame), NEW agreed,
           frame.type \in {"Close", "CloseAck"} => agreed,
           NEW nonces, NEW rto \in RtoMin .. RtoMax, NEW now
    PROVE  Outcome(ep, HandleFrame(ep, frame, nonces, rto, now), FALSE, agreed)
<1>1. CASE frame.type \in {"Close", "CloseAck"}
  <2>1. HandleFrame(ep, frame, nonces, rto, now) = HandleClose(ep)
        \/ HandleFrame(ep, frame, nonces, rto, now) = HandleCloseAck(ep)
    BY <1>1 DEF HandleFrame
  <2>2. Outcome(ep, HandleFrame(ep, frame, nonces, rto, now), FALSE, TRUE)
    BY <2>1, HandleCloseOutcome, HandleCloseAckOutcome
  <2> QED BY <1>1, <2>2 DEF Outcome
<1>2. CASE frame.type \notin {"Close", "CloseAck"} /\ ep.state_id # "Active"
  <2>1. frame.type = "Stream" \/ frame.type = "StreamSync"
    BY <1>2 DEF FrameOK, StreamFrameOK
  <2>2. HandleFrame(ep, frame, nonces, rto, now) = ep
    BY <1>2, <2>1 DEF HandleFrame
  <2> QED BY <2>2, NothingOutcome
<1>3. CASE frame.type \notin {"Close", "CloseAck"} /\ ep.state_id = "Active"
  <2>1. StreamFrameOK(frame) /\ Running(ep, FALSE)
    BY <1>3, RestingRuns DEF FrameOK
  <2>2. CASE frame.type = "Stream"
    <3>1. HandleFrame(ep, frame, nonces, rto, now)
            = HandleStreamFrame(ep, frame, nonces, rto, now)
      BY <1>3, <2>2 DEF HandleFrame
    <3>2. Running(HandleStreamFrame(ep, frame, nonces, rto, now), FALSE)
      BY <2>1, <2>2, HandleStreamFrameKeeps
    <3> QED BY <1>3, <3>1, <3>2, RunningOutcome
  <2>3. CASE frame.type = "StreamSync"
    <3>1. PICK id \in Id : id = frame.next_segment_id
      BY <2>1, <2>3 DEF StreamFrameOK
    <3>2. HandleFrame(ep, frame, nonces, rto, now) = HandleStreamSyncFrame(ep, id, nonces, now)
      BY <1>3, <2>3, <3>1 DEF HandleFrame
    <3>3. Running(HandleStreamSyncFrame(ep, id, nonces, now), FALSE)
      BY <2>1, HandleStreamSyncFrameKeeps
    <3> QED BY <1>3, <3>2, <3>3, RunningOutcome
  <2> QED BY <2>1, <2>2, <2>3 DEF StreamFrameOK
<1> QED BY <1>1, <1>2, <1>3

-----------------------------------------------------------------------------
(* The timer *)

\* An endpoint whose timer has been cleared and is about to be handled.
Due(ep) ==
    /\ PartsOK(ep) /\ ep.frames = <<>> /\ ep.events = <<>>
    /\ \/ ep.state_id = "Active" /\ ep.rto_timer_state # None /\ ~ep.timer
       \/ /\ ep.state_id = "Closing" /\ ep.rto_timer_state # None
          /\ ep.timer => RtoSum(ep) \in 0 .. RtoMax
       \/ ep.state_id = "Closed" /\ ~ep.timer
       \/ ep.state_id = "Zombie" /\ (RtoMax < TimeoutTime => ~ep.timer)

\* Timer::test.
LEMMA TimerTestKeeps ==
    ASSUME NEW ep, Resting(ep, FALSE), ep.timer
    PROVE  LET tested == [ep EXCEPT !.timer = FALSE]
           IN  Resting(tested, TRUE) /\ Due(tested)
<1>1. PICK e : e = [ep EXCEPT !.timer = FALSE]
  OBVIOUS
<1>2. /\ PartsOK(e) /\ e.state_id = ep.state_id /\ e.timer = FALSE /\ e.events = <<>>
      /\ e.frames = <<>> /\ e.segment_tx = ep.segment_tx
      /\ e.rto_timer_state = ep.rto_timer_state
  BY <1>1 DEF Resting, PartsOK, EpFields
<1>3. StateOK(ep, FALSE)
  BY DEF Resting
<1>4. StateOK(e, TRUE)
  BY <1>2, <1>3 DEF StateOK, ClockOK
<1>5. Due(e)
  BY <1>2, <1>3 DEF StateOK, ClockOK, Due
<1> QED BY <1>1, <1>2, <1>4, <1>5 DEF Resting

\* The server's timer between the two locks.
LEMMA FiredIsDue ==
    ASSUME NEW ep, Resting(ep, TRUE)
    PROVE  Due(ep)
BY DEF Resting, StateOK, ClockOK, Due

\* The next timeout, and a timer that runs again.
LEMMA BackedOffKeeps ==
    ASSUME NEW ep, PartsOK(ep)
    PROVE  /\ PartsOK(BackedOff(ep)) /\ BackedOff(ep).timer = TRUE
           /\ BackedOff(ep).rto_timer_state # None
           /\ BackedOff(ep).state_id = ep.state_id
           /\ BackedOff(ep).segment_tx = ep.segment_tx
           /\ BackedOff(ep).frames = ep.frames /\ BackedOff(ep).events = ep.events
<1>1. PICK rto, state : /\ rto \in RtoMin .. RtoMax /\ state # None
                        /\ BackedOff(ep) = [ep EXCEPT !.rto_ms = rto, !.timer = TRUE,
                                                      !.rto_timer_state = state]
  <2>1. PICK rto : rto = LET twice == 2 * ep.rto_ms
                         IN  IF twice < RtoMin THEN RtoMin
                             ELSE IF twice > RtoMax THEN RtoMax ELSE twice
    OBVIOUS
  <2>2. rto \in RtoMin .. RtoMax
    BY <2>1, EndpointAssumption DEF PartsOK
  <2>3. PICK state : state = Some([rto_ms |-> rto, rto_sum_ms |-> RtoSum(ep)])
    OBVIOUS
  <2>4. state # None
    BY <2>3 DEF Some, None
  <2>5. BackedOff(ep) = [ep EXCEPT !.rto_ms = rto, !.timer = TRUE, !.rto_timer_state = state]
    BY <2>1, <2>3 DEF BackedOff
  <2> QED BY <2>2, <2>4, <2>5
<1> QED BY <1>1 DEF PartsOK, EpFields

LEMMA GiveUpOutcome ==
    ASSUME NEW ep, PartsOK(ep), ep.frames = <<>>, ep.events = <<>>, ~Ended(ep),
           RtoMax < TimeoutTime => ~ep.timer, NEW agreed
    PROVE  Outcome(ep, GiveUp(ep), FALSE, agreed)
<1>1. PICK state : [ep EXCEPT !.state_id = "Zombie", !.rto_timer_state[1].rto_sum_ms = RtoSum(ep)]
                     = [ep EXCEPT !.state_id = "Zombie", !.rto_timer_state = state]
  OBVIOUS
<1>2. PICK e : e = [ep EXCEPT !.state_id = "Zombie", !.rto_timer_state = state]
  OBVIOUS
<1>3. /\ PartsOK(e) /\ e.state_id = "Zombie" /\ e.timer = ep.timer /\ e.events = <<>>
      /\ e.frames = <<>> /\ e.segment_tx = ep.segment_tx
  BY <1>2 DEF PartsOK, EpFields
<1>4. StateOK(e, FALSE) /\ Ended(e)
  BY <1>3 DEF StateOK, Ended
<1>5. GiveUp(ep) = Raise(e, [kind |-> "Timeout"])
  BY <1>1, <1>2 DEF GiveUp
<1>6. /\ "Timeout" \in {"Disconnect", "Timeout"} /\ "Timeout" # "Disconnect"
      /\ IsSeq(e.frames) /\ \A i \in 1 .. Len(e.frames) : FrameOK(e.frames[i])
  BY <1>3, EmptyIsSeq
<1> QED BY <1>3, <1>4, <1>5, <1>6, EndRaised

LEMMA ResendKeeps ==
    ASSUME NEW ep, Due(ep), ep.state_id = "Active", NEW nonces, NEW now
    PROVE  Running(Resend(ep, nonces, now), FALSE)
<1>1. PICK w : w = BackedOff(ep)
  OBVIOUS
<1>2. /\ PartsOK(w) /\ w.timer = TRUE /\ w.rto_timer_state # None /\ w.state_id = "Active"
      /\ w.segment_tx = ep.segment_tx /\ w.frames = <<>> /\ w.events = <<>>
  BY <1>1, BackedOffKeeps DEF Due
<1>3. Running(w, FALSE)
  <2>1. StreamFrames(<<>>) /\ OnlyReceived(<<>>)
    BY EmptyIsSeq DEF StreamFrames, OnlyReceived
  <2> QED BY <1>2, <2>1 DEF Running, ClockOK
<1>4. PICK cc, rel, e : /\ e = [w EXCEPT !.cc = cc, !.rel = rel]
                        /\ e = [w EXCEPT !.cc = HandleTimeout(@), !.rel = ResendAll(@)]
  <2>1. [w EXCEPT !.cc = HandleTimeout(@), !.rel = ResendAll(@)]
          = [w EXCEPT !.cc = HandleTimeout(w.cc), !.rel = ResendAll(w.rel)]
    BY <1>2 DEF PartsOK, EpFields
  <2> QED BY <2>1
<1>5. Running(e, FALSE)
  <2>1. Alike(e, w)
    BY <1>2, <1>4 DEF Alike, PartsOK, EpFields
  <2> QED BY <1>3, <2>1, RunningAlike
<1>6. PICK frame : frame = [type |-> "StreamSync", next_segment_id |-> ep.segment_tx.next_id]
  OBVIOUS
<1>7. StreamFrameOK(frame)
  BY <1>6 DEF StreamFrameOK, Due, PartsOK, TxOK
<1>8. Resend(ep, nonces, now) = FlushStream(SendFrame(e, frame), FALSE, FALSE, nonces, now)
  BY <1>1, <1>4, <1>6 DEF Resend
<1> QED BY <1>5, <1>7, <1>8, SendFrameKeeps, FlushStreamKeeps

LEMMA HandleRtoTimerOutcome ==
    ASSUME NEW ep, Due(ep), NEW nonces, NEW now, NEW agreed
    PROVE  Outcome(ep, HandleRtoTimer(ep, nonces, now), FALSE, agreed)
<1>1. CASE ep.state_id = "Active"
  <2>1. ~Ended(ep) /\ ~ep.timer
    BY <1>1 DEF Ended, Due
  <2>2. HandleRtoTimer(ep, nonces, now) = GiveUp(ep)
        \/ HandleRtoTimer(ep, nonces, now) = Resend(ep, nonces, now)
    BY <1>1 DEF HandleRtoTimer
  <2>3. Outcome(ep, GiveUp(ep), FALSE, agreed)
    BY <2>1, GiveUpOutcome DEF Due
  <2>4. Outcome(ep, Resend(ep, nonces, now), FALSE, agreed)
    BY <1>1, ResendKeeps, RunningOutcome
  <2> QED BY <2>2, <2>3, <2>4
<1>2. CASE ep.state_id = "Closing"
  <2>1. ~Ended(ep) /\ (ep.timer => RtoSum(ep) \in 0 .. RtoMax)
    BY <1>2 DEF Ended, Due
  <2>2. CASE RtoSum(ep) >= TimeoutTime
    <3>1. RtoMax < TimeoutTime => ~ep.timer
      BY <2>1, <2>2, EndpointAssumption
    <3>2. HandleRtoTimer(ep, nonces, now) = GiveUp(ep)
      BY <1>2, <2>2 DEF HandleRtoTimer
    <3> QED BY <2>1, <3>1, <3>2, GiveUpOutcome DEF Due
  <2>3. CASE ~(RtoSum(ep) >= TimeoutTime)
    <3>1. PICK e : e = BackedOff(ep)
      OBVIOUS
    <3>2. /\ PartsOK(e) /\ e.timer = TRUE /\ e.rto_timer_state # None /\ e.state_id = "Closing"
          /\ e.segment_tx = ep.segment_tx /\ e.frames = <<>> /\ e.events = <<>>
      BY <1>2, <3>1, BackedOffKeeps DEF Due
    <3>3. StateOK(e, FALSE) /\ ~Ended(e)
      BY <3>2 DEF StateOK, Ended
    <3>4. HandleRtoTimer(ep, nonces, now) = SendFrame(e, [type |-> "Close"])
      BY <1>2, <2>3, <3>1 DEF HandleRtoTimer
    <3>5. "Close" \in {"Close", "CloseAck"}
      OBVIOUS
    <3> QED BY <2>1, <3>2, <3>3, <3>4, <3>5, CloseSent
  <2> QED BY <2>2, <2>3
<1>3. CASE ep.state_id = "Closed"
  <2>1. PICK e : e = [ep EXCEPT !.state_id = "Zombie"]
    OBVIOUS
  <2>2. /\ PartsOK(e) /\ e.state_id = "Zombie" /\ e.timer = FALSE /\ e.events = <<>>
        /\ e.frames = <<>> /\ e.segment_tx = ep.segment_tx
    BY <1>3, <2>1 DEF Due, PartsOK, EpFields
  <2>3. StateOK(e, FALSE) /\ Ended(e) /\ Ended(ep)
    BY <1>3, <2>2 DEF StateOK, Ended
  <2>4. HandleRtoTimer(ep, nonces, now) = e
    BY <1>3, <2>1 DEF HandleRtoTimer
  <2>5. IsSeq(e.frames) /\ Len(e.frames) = 0 /\ IsSeq(e.events) /\ Len(e.events) = 0
    BY <2>2, EmptyIsSeq
  <2>6. e.state_id # "Active"
    BY <2>2
  <2>7. /\ \A i \in 1 .. Len(e.frames) :
              /\ FrameOK(e.frames[i])
              /\ e.frames[i].type \in {"Close", "CloseAck"} => e.state_id # "Active"
        /\ \A i \in 1 .. Len(e.events) : e.events[i].kind = "Disconnect" => agreed
    <3>1. 1 .. Len(e.frames) = {} /\ 1 .. Len(e.events) = {}
      BY <2>5
    <3> QED BY <3>1
  <2>8. Outcome(ep, e, FALSE, agreed)
    BY <2>2, <2>3, <2>5, <2>6, <2>7, Zenon DEF Outcome
  <2> QED BY <2>4, <2>8
<1>4. CASE ep.state_id = "Zombie"
  <2>1. Resting(ep, FALSE)
    BY <1>4 DEF Due, Resting, StateOK
  <2>2. HandleRtoTimer(ep, nonces, now) = ep
    BY <1>4 DEF HandleRtoTimer
  <2> QED BY <2>1, <2>2, NothingOutcome
<1> QED BY <1>1, <1>2, <1>3, <1>4 DEF Due

-----------------------------------------------------------------------------
(* The events of a connection *)

EndKinds == {"Disconnect", "Timeout"}

Left(e) == e.state_id # "Active"

\* Connect, then packets, then one ending if the endpoint e has ended.
EventsOK(es, e) ==
    /\ IsSeq(es) /\ Len(es) >= 1
    /\ \A i \in 1 .. Len(es) :
          /\ es[i].kind \in {"Connect", "Receive"} \cup EndKinds
          /\ i = 1 <=> es[i].kind = "Connect"
          /\ es[i].kind \in EndKinds => i = Len(es)
    /\ Ended(e) <=> es[Len(es)].kind \in EndKinds

Agreed(es, left) == (\E i \in 1 .. Len(es) : es[i].kind = "Disconnect") => left

\* The endpoint at rest again.
LEMMA EmptiedRests ==
    ASSUME NEW old, NEW new, NEW handling, NEW agreed, Outcome(old, new, handling, agreed)
    PROVE  LET e == [new EXCEPT !.frames = <<>>, !.events = <<>>]
           IN  /\ Resting(e, handling) /\ e.state_id = new.state_id
               /\ e.segment_tx = new.segment_tx
<1>1. PartsOK(new) /\ StateOK(new, handling)
  BY DEF Outcome
<1>2. PICK e : e = [new EXCEPT !.frames = <<>>, !.events = <<>>]
  OBVIOUS
<1>3. /\ PartsOK(e) /\ e.state_id = new.state_id /\ e.timer = new.timer
      /\ e.segment_tx = new.segment_tx /\ e.rto_timer_state = new.rto_timer_state
      /\ e.frames = <<>> /\ e.events = <<>>
  BY <1>1, <1>2 DEF PartsOK, EpFields
<1>4. StateOK(e, handling)
  BY <1>1, <1>3 DEF StateOK, ClockOK, RtoSum
<1> QED BY <1>2, <1>3, <1>4 DEF Resting

\* The events of a call come after the earlier ones: nothing after an ending, and nothing
\* but an ending once disconnect was called.
LEMMA EventsAdded ==
    ASSUME NEW es, NEW old, EventsOK(es, old), NEW new, NEW handling, NEW agreed,
           Outcome(old, new, handling, agreed)
    PROVE  LET all == es \o new.events
           IN  /\ EventsOK(all, new)
               /\ Agreed(es, agreed) => Agreed(all, agreed)
               /\ Left(old) => \A i \in Len(es) + 1 .. Len(all) : all[i].kind \in EndKinds
<1>1. PICK n, m \in Nat : n = Len(es) /\ m = Len(new.events)
  BY IsSeqLen DEF EventsOK, Outcome
<1>2. PICK all : all = es \o new.events
  OBVIOUS
<1>3. /\ IsSeq(all) /\ Len(all) = n + m
      /\ \A i \in 1 .. n : all[i] = es[i]
      /\ \A i \in n + 1 .. n + m : all[i] = new.events[i - n]
  <2>1. IsSeq(es) /\ IsSeq(new.events)
    BY DEF EventsOK, Outcome
  <2>2. /\ IsSeq(all) /\ Len(all) = n + m
        /\ \A i \in 1 .. n : all[i] = es[i]
        /\ \A i \in 1 .. m : all[n + i] = new.events[i]
    BY <1>1, <1>2, <2>1, IsSeqConcat
  <2>3. ASSUME NEW i \in n + 1 .. n + m PROVE all[i] = new.events[i - n]
    <3>1. i - n \in 1 .. m /\ n + (i - n) = i
      BY <1>1
    <3> QED BY <2>2, <3>1
  <2> QED BY <2>2, <2>3
<1>4. EndKinds = {"Disconnect", "Timeout"}
  BY DEF EndKinds
<1>5. CASE m = 0
  <2>1. Ended(old) <=> Ended(new)
    BY <1>1, <1>5 DEF Outcome
  <2>2. n >= 1 /\ n + m = n
    BY <1>1, <1>5 DEF EventsOK
  <2>3. EventsOK(all, new)
    BY <1>1, <1>3, <2>1, <2>2 DEF EventsOK
  <2>4. Agreed(es, agreed) => Agreed(all, agreed)
    BY <1>1, <1>3, <2>2 DEF Agreed
  <2> QED BY <1>1, <1>2, <1>3, <1>5, <2>3, <2>4
<1>6. CASE m # 0
  <2>1. ~Ended(old)
    <3>1. new.events = <<>> => m = 0
      BY <1>1, EmptyIsSeq
    <3> QED BY <1>6, <3>1 DEF Outcome
  <2>2. \A i \in 1 .. n : es[i].kind \notin EndKinds
    BY <1>1, <2>1 DEF EventsOK
  <2>3. /\ n >= 1 /\ n + m >= 1 /\ n + m \in n + 1 .. n + m /\ n + m - n = m
        /\ \A i \in n + 1 .. n + m : i - n \in 1 .. m
        /\ \A i \in 1 .. n + m : i \in 1 .. n \/ i \in n + 1 .. n + m
    BY <1>1, <1>6 DEF EventsOK
  <2>4. CASE Ended(new)
    <3>1. m = 1 /\ new.events[1].kind \in EndKinds
      BY <1>1, <1>4, <2>1, <2>4 DEF Outcome
    <3>2. all[n + 1].kind \in EndKinds /\ \A i \in n + 1 .. n + m : i = n + 1
      BY <1>1, <1>3, <3>1
    <3>3. EventsOK(all, new)
      BY <1>1, <1>3, <2>2, <2>3, <2>4, <3>1, <3>2 DEF EventsOK
    <3> QED BY <1>1, <1>2, <1>3, <3>3, <3>1, <3>2, <2>3 DEF Agreed, Outcome
  <2>5. CASE ~Ended(new)
    <3>1. \A i \in 1 .. m : new.events[i].kind = "Receive"
      BY <1>1, <2>5 DEF Outcome, OnlyReceived
    <3>2. \A i \in n + 1 .. n + m : all[i].kind = "Receive"
      BY <1>3, <2>3, <3>1
    <3>3. EventsOK(all, new)
      BY <1>1, <1>3, <1>4, <2>2, <2>3, <2>5, <3>2 DEF EventsOK
    <3>4. ~Left(old)
      <4>1. new.events # <<>>
        BY <1>1, <1>6, EmptyIsSeq
      <4> QED BY <2>5, <4>1 DEF Outcome, Left
    <3>5. Agreed(es, agreed) => Agreed(all, agreed)
      BY <1>1, <1>3, <2>3, <3>2 DEF Agreed
    <3> QED BY <1>2, <3>3, <3>4, <3>5
  <2> QED BY <2>4, <2>5
<1> QED BY <1>5, <1>6

\* A connection that has just been made.
LEMMA ConnectOK ==
    ASSUME NEW es, es = <<[kind |-> "Connect"]>>, NEW e, ~Ended(e)
    PROVE  EventsOK(es, e) /\ \A i \in 1 .. Len(es) : es[i].kind # "Disconnect"
<1>1. IsSeq(es) /\ Len(es) = 1 /\ es[1].kind = "Connect"
  BY IsSeqShort
<1>2. \A i \in 1 .. 1 : i = 1
  OBVIOUS
<1> QED BY <1>1, <1>2 DEF EventsOK, EndKinds

LEMMA InitSends ==
    Sending(EndpointInit(EndpointNew), FALSE, <<[kind |-> "Connect"]>>)
<1>1. PICK e : e = EndpointInit(EndpointNew)
  OBVIOUS
<1>2. PICK connect : connect = [kind |-> "Connect"]
  OBVIOUS
<1>3. /\ DOMAIN e = EpFields /\ e.state_id = "Active" /\ e.timer = FALSE
      /\ e.rto_timer_state = None /\ e.rto_ms = RtoMin
      /\ e.segment_tx = SegmentTxNew(0) /\ e.segment_rx = SegmentRxNew(0)
      /\ e.frames = <<>> /\ e.events = Append(<<>>, connect)
  BY <1>1, <1>2 DEF EndpointInit, EndpointNew, Raise, EpFields
<1>4. Append(<<>>, connect) = <<connect>>
  OBVIOUS
<1>5. 0 \in Id
  BY IdModAssumption DEF Id
<1>6. TxOK(e.segment_tx) /\ e.segment_tx.base_id = e.segment_tx.next_id
  BY <1>3, <1>5 DEF SegmentTxNew, TxOK, TxFields
<1>7. RxOK(e.segment_rx)
  <2>1. PICK rx : rx = e.segment_rx
    OBVIOUS
  <2>2. /\ DOMAIN rx = RxFields /\ rx.base_id = 0 /\ rx.slots = <<>> /\ rx.out = <<>>
    BY <1>3, <2>1 DEF SegmentRxNew, RxFields
  <2>3. /\ IsSeq(rx.slots) /\ Len(rx.slots) = 0 /\ 1 .. Len(rx.slots) = {}
        /\ IsSeq(rx.out) /\ 1 .. Len(rx.out) = {}
    BY <2>2, EmptyIsSeq
  <2> QED BY <1>5, <2>1, <2>2, <2>3 DEF RxOK
<1>8. PartsOK(e)
  <2>1. e.rto_ms \in RtoMin .. RtoMax
    BY <1>3, EndpointAssumption
  <2> QED BY <1>3, <1>6, <1>7, <2>1 DEF PartsOK
<1>9. ClockOK(e, FALSE)
  BY <1>3, <1>6 DEF ClockOK
<1>10. StreamFrames(e.frames)
  BY <1>3, EmptyIsSeq DEF StreamFrames
<1> QED BY <1>1, <1>2, <1>3, <1>4, <1>8, <1>9, <1>10 DEF Sending

\* An endpoint that sends, with its frames sent and its events read.
LEMMA SendingRests ==
    ASSUME NEW ep, NEW fired, NEW told, Sending(ep, fired, told)
    PROVE  LET e == [ep EXCEPT !.frames = <<>>, !.events = <<>>]
           IN  Resting(e, fired) /\ e.state_id = "Active"
<1>1. PartsOK(ep) /\ ep.state_id = "Active" /\ ClockOK(ep, fired)
  BY DEF Sending
<1>2. PICK e : e = [ep EXCEPT !.frames = <<>>, !.events = <<>>]
  OBVIOUS
<1>3. /\ PartsOK(e) /\ e.state_id = "Active" /\ e.timer = ep.timer
      /\ e.segment_tx = ep.segment_tx /\ e.rto_timer_state = ep.rto_timer_state
      /\ e.frames = <<>> /\ e.events = <<>>
  BY <1>1, <1>2 DEF PartsOK, EpFields
<1>4. StateOK(e, fired)
  BY <1>1, <1>3 DEF StateOK, ClockOK
<1> QED BY <1>2, <1>3, <1>4 DEF Resting

-----------------------------------------------------------------------------
(* Only a timer makes a zombie *)

\* enqueue, in any state.
LEMMA EnqueueRests ==
    ASSUME NEW ep, NEW fired, Resting(ep, fired), NEW packet, NEW reliable, NEW time
    PROVE  LET new == EndpointEnqueue(ep, packet, reliable, time)
           IN  Resting(new, fired) /\ new.state_id = ep.state_id
<1>1. PICK new : new = EndpointEnqueue(ep, packet, reliable, time)
  OBVIOUS
<1>2. Alike(new, ep)
  BY <1>1, EnqueueAlike DEF Resting, PartsOK
<1>3. PartsOK(new) /\ StateOK(new, fired) /\ new.frames = <<>> /\ new.events = <<>>
  BY <1>2 DEF Resting, PartsOK, StateOK, ClockOK, RtoSum, Alike
<1> QED BY <1>1, <1>2, <1>3 DEF Resting, Alike

LEMMA FlushNoZombie ==
    ASSUME NEW ep, NEW fired, Resting(ep, fired), NEW nonces, NEW now
    PROVE  EndpointFlush(ep, nonces, now).state_id = ep.state_id
<1>1. CASE ep.state_id = "Active"
  BY <1>1, RestingRuns, EndpointFlushKeeps DEF Running
<1>2. CASE ep.state_id # "Active"
  BY <1>2 DEF EndpointFlush
<1> QED BY <1>1, <1>2

LEMMA DisconnectNoZombie ==
    ASSUME NEW ep, NEW fired, Resting(ep, fired)
    PROVE  EndpointDisconnect(ep).state_id = "Zombie" <=> ep.state_id = "Zombie"
<1>1. CASE ep.state_id = "Active"
  <2>1. EndpointDisconnect(ep).state_id = "Closing"
    BY <1>1 DEF EndpointDisconnect, EnterClosing, SendFrame, Resting, PartsOK, EpFields
  <2> QED BY <1>1, <2>1
<1>2. CASE ep.state_id # "Active"
  BY <1>2 DEF EndpointDisconnect
<1> QED BY <1>1, <1>2

LEMMA HandleFrameNoZombie ==
    ASSUME NEW ep, Resting(ep, FALSE), NEW frame, FrameOK(frame),
           NEW nonces, NEW rto \in RtoMin .. RtoMax, NEW now
    PROVE  HandleFrame(ep, frame, nonces, rto, now).state_id = "Zombie"
             <=> ep.state_id = "Zombie"
<1>1. DOMAIN ep = EpFields
  BY DEF Resting, PartsOK
<1>2. CASE frame.type = "Close"
  <2>1. HandleFrame(ep, frame, nonces, rto, now) = HandleClose(ep)
    BY <1>2 DEF HandleFrame
  <2>2. CASE ep.state_id \in {"Active", "Closing"}
    <3>1. PICK e : e = SendFrame(ep, [type |-> "CloseAck"])
      OBVIOUS
    <3>2. DOMAIN e = EpFields
      BY <1>1, <3>1 DEF SendFrame
    <3>3. EnterClosed(e).state_id = "Closed"
      BY <3>2 DEF EnterClosed, Raise, EpFields
    <3>4. HandleClose(ep) = EnterClosed(e)
      BY <2>2, <3>1 DEF HandleClose
    <3> QED BY <2>1, <2>2, <3>3, <3>4
  <2>3. CASE ep.state_id = "Closed"
    <3>1. HandleClose(ep) = SendFrame(ep, [type |-> "CloseAck"])
      BY <2>3 DEF HandleClose
    <3>2. SendFrame(ep, [type |-> "CloseAck"]).state_id = ep.state_id
      BY <1>1 DEF SendFrame, EpFields
    <3> QED BY <2>1, <3>1, <3>2
  <2>4. CASE ep.state_id = "Zombie"
    BY <2>1, <2>4 DEF HandleClose
  <2> QED BY <2>2, <2>3, <2>4, StateOneOf DEF Resting
<1>3. CASE frame.type = "CloseAck"
  <2>1. HandleFrame(ep, frame, nonces, rto, now) = HandleCloseAck(ep)
    BY <1>3 DEF HandleFrame
  <2>2. EnterClosed(ep).state_id = "Closed"
    BY <1>1 DEF EnterClosed, Raise, EpFields
  <2> QED BY <2>1, <2>2 DEF HandleCloseAck
<1>4. CASE frame.type \notin {"Close", "CloseAck"}
  <2>1. frame.type = "Stream" \/ frame.type = "StreamSync"
    BY <1>4 DEF FrameOK, StreamFrameOK
  <2>2. CASE ep.state_id # "Active"
    BY <2>1, <2>2 DEF HandleFrame
  <2>3. CASE ep.state_id = "Active"
    <3>1. StreamFrameOK(frame) /\ Running(ep, FALSE)
      BY <1>4, <2>3, RestingRuns DEF FrameOK
    <3>2. CASE frame.type = "Stream"
      <4>1. HandleFrame(ep, frame, nonces, rto, now)
              = HandleStreamFrame(ep, frame, nonces, rto, now)
        BY <2>3, <3>2 DEF HandleFrame
      <4>2. Running(HandleStreamFrame(ep, frame, nonces, rto, now), FALSE)
        BY <3>1, <3>2, HandleStreamFrameKeeps
      <4> QED BY <2>3, <4>1, <4>2 DEF Running
    <3>3. CASE frame.type = "StreamSync"
      <4>1. PICK id \in Id : id = frame.next_segment_id
        BY <3>1, <3>3 DEF StreamFrameOK
      <4>2. HandleFrame(ep, frame, nonces, rto, now)
              = HandleStreamSyncFrame(ep, id, nonces, now)
        BY <2>3, <3>3, <4>1 DEF HandleFrame
      <4>3. Running(HandleStreamSyncFrame(ep, id, nonces, now), FALSE)
        BY <3>1, HandleStreamSyncFrameKeeps
      <4> QED BY <2>3, <4>2, <4>3 DEF Running
    <3> QED BY <2>1, <3>2, <3>3
  <2> QED BY <2>2, <2>3
<1> QED BY <1>2, <1>3, <1>4

\* The timer of a zombie does nothing.
LEMMA ZombieStays ==
    ASSUME NEW ep, ep.state_id = "Zombie", NEW nonces, NEW now
    PROVE  HandleRtoTimer(ep, nonces, now) = ep
BY DEF HandleRtoTimer


=============================================================================
