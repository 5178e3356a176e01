---------------------------- MODULE SegmentProofs ----------------------------
(***************************************************************************)
(* Proofs about the segment windows and the link between them, for every   *)
(* window, id width, width of the histories and number of segments.        *)
(***************************************************************************)
EXTENDS SegmentLink, CommonProofs

-----------------------------------------------------------------------------
(* The inductive invariant, in the numbers of the segments instead of their *)
(* wrapped ids.                                                             *)

SlotType == [id : Id, nonce : BOOLEAN, data : Nat]
RxType == [base_id       : Id,
           slots         : Seq(SlotType),
           rx_history    : SUBSET AllOnes(RxHistoryBits),
           nonce_history : SUBSET AllOnes(RxHistoryBits),
           out           : Seq(Nat)]

\* s is segment number s.data, which rx (whose base has number b) has yet to deliver.
IsSegment(s, rx, b) ==
    /\ s.data \in b .. Len(sent) - 1
    /\ s.nonce = sent[s.data + 1].nonce
    /\ RxDelta(rx, s.id) = s.data - b

\* The bits of rx_history and nonce_history after d was delivered up to number b.
Delivered(d, n) == \E i \in 1 .. Len(d) : d[i] = n
HistoryOK(history, d, b) ==
    \A k \in AllOnes(RxHistoryBits) : k \in history <=> Delivered(d, b - 1 - k)
NoncesOK(history, d, b) ==
    \A k \in AllOnes(RxHistoryBits) :
        k \in history <=> Delivered(d, b - 1 - k) /\ sent[b - k].nonce

\* All of d in order, and before number b.
InOrder(d, b) ==
    /\ \A i \in 1 .. Len(d) - 1 : d[i] < d[i + 1]
    /\ \A i \in 1 .. Len(d) : d[i] < b

SlotsInOrder(rx, b) ==
    /\ Len(rx.slots) <= 2
    /\ \A i \in 1 .. Len(rx.slots) : IsSegment(rx.slots[i], rx, b)
    /\ Len(rx.slots) = 2 => rx.slots[1].data < rx.slots[2].data

\* What receive and sync hand out was not passed before.
NewOnly(out) == \A i \in 1 .. Len(out) : rx_base <= out[i]

\* What rx is at any point of receive and sync, when its base_id has number b.
RxSound(rx, b) ==
    /\ rx \in RxType
    /\ b \in rx_base .. Len(sent)
    /\ RxDelta(srx, rx.base_id) = b - rx_base
    /\ SlotsInOrder(rx, b)
    /\ InOrder(delivered \o rx.out, b)
    /\ HistoryOK(rx.rx_history, delivered \o rx.out, b)
    /\ NoncesOK(rx.nonce_history, delivered \o rx.out, b)
    /\ NewOnly(rx.out)

Settled(rx, b) == \A i \in 1 .. Len(rx.slots) : rx.slots[i].data > b

ReceiverSound ==
    /\ RxSound(srx, rx_base)
    /\ Settled(srx, rx_base)
    /\ srx.out = <<>>

HistoryTypes ==
    /\ sent \in Seq([nonce : BOOLEAN, size : Nat])
    /\ delivered \in Seq(Nat)
    /\ tx_base \in Nat
    /\ rx_base \in Nat

\* The sender's window: the two bases and the next id are as far apart as their numbers.
WindowSound ==
    /\ tx_base <= rx_base /\ rx_base <= Len(sent)
    /\ Len(sent) - tx_base <= TxWindow
    /\ InTransit(stx) = Len(sent) - tx_base
    /\ WrappingSub(srx.base_id, stx.base_id) = rx_base - tx_base

\* The nonce that the ring holds for an id.
NonceAt(tx, id) == WordBits - 1 - (id % WordBits) \in tx.nonce_buf[NonceWord(id)]

\* The rings hold the size and the nonce of every segment in transit.
RingsSound ==
    \A j \in 0 .. Len(sent) - tx_base - 1 :
        /\ stx.transit_buf[WrappingAdd(stx.base_id, j) % TxWindow] = sent[tx_base + j + 1].size
        /\ NonceAt(stx, WrappingAdd(stx.base_id, j)) <=> sent[tx_base + j + 1].nonce

\* nonce_history holds the nonces of the segments before the window.
NoncesSound ==
    \A k \in AllOnes(HistoryBits) :
        k \in stx.nonce_history <=> k < tx_base /\ sent[tx_base - k].nonce

\* An acknowledgement in flight tells the truth about the segments before its id.
AckSound(a) ==
    /\ a.n <= rx_base
    /\ tx_base <= a.n + Lag
    /\ Ahead(a.id, stx.base_id, a.n - tx_base)
    /\ \A k \in AllOnes(AckBits) : k \in a.history <=> Delivered(delivered, a.n - 1 - k)
    /\ a.checksum = Parity({k \in a.history : sent[a.n - k].nonce})

SyncsSound == \A m \in syncs : rx_base <= m + Lag

\* As long as nothing was skipped and no ack covered too much, the sender sees no gap.
NoSkip == \A n \in 0 .. rx_base - 1 : Delivered(delivered, n)
NoGapSeen == NoSkip /\ ~jumped => stx.ack_history = AllOnes(HistoryBits) /\ ~drop

Inv == /\ TypeOK
       /\ HistoryTypes
       /\ ReceiverSound
       /\ WindowSound
       /\ RingsSound
       /\ NoncesSound
       /\ TransitExact
       /\ SyncsSound
       /\ \A a \in acks : AckSound(a)
       /\ NoGapSeen

-----------------------------------------------------------------------------
(* Sequences of delivered numbers *)

LEMMA ConcatAppend ==
    ASSUME NEW d \in Seq(Nat), NEW out \in Seq(Nat), NEW n \in Nat
    PROVE  /\ d \o out \in Seq(Nat)
           /\ d \o Append(out, n) = Append(d \o out, n)
<1>1. d \o out \in Seq(Nat)
  BY ConcatProperties
<1>2. Append(out, n) = out \o <<n>> /\ Append(d \o out, n) = (d \o out) \o <<n>>
  BY <1>1, AppendIsConcat
<1>3. <<n>> \in Seq(Nat)
  OBVIOUS
<1>4. d \o (out \o <<n>>) = (d \o out) \o <<n>>
  BY <1>3, ConcatAssociative
<1> QED BY <1>1, <1>2, <1>4

LEMMA DeliveredAppend ==
    ASSUME NEW d \in Seq(Nat), NEW n \in Nat, NEW m
    PROVE  Delivered(Append(d, n), m) <=> Delivered(d, m) \/ m = n
<1>1. /\ Len(d) \in Nat /\ Len(Append(d, n)) = Len(d) + 1
      /\ \A i \in 1 .. Len(d) : Append(d, n)[i] = d[i]
      /\ Append(d, n)[Len(d) + 1] = n
  BY AppendProperties
<1>2. ASSUME NEW i \in 1 .. Len(d) + 1
      PROVE  i = Len(d) + 1 \/ i \in 1 .. Len(d)
  BY <1>1
<1>3. Len(d) + 1 \in 1 .. Len(d) + 1 /\ \A i \in 1 .. Len(d) : i \in 1 .. Len(d) + 1
  BY <1>1
<1> QED BY <1>1, <1>2, <1>3 DEF Delivered

LEMMA InOrderAppend ==
    ASSUME NEW d \in Seq(Nat), NEW b \in Nat, NEW n \in Nat, b <= n, InOrder(d, b)
    PROVE  InOrder(Append(d, n), n + 1)
<1>1. /\ Len(d) \in Nat /\ Len(Append(d, n)) = Len(d) + 1
      /\ \A i \in 1 .. Len(d) : Append(d, n)[i] = d[i]
      /\ Append(d, n)[Len(d) + 1] = n
  BY AppendProperties
<1>2. \A i \in 1 .. Len(d) : d[i] \in Nat /\ d[i] < b
  BY DEF InOrder
<1>3. ASSUME NEW i \in 1 .. Len(d)
      PROVE  Append(d, n)[i] < Append(d, n)[i + 1]
  <2>1. CASE i = Len(d)
    BY <1>1, <1>2, <2>1
  <2>2. CASE i # Len(d)
    <3>1. i \in 1 .. Len(d) - 1 /\ i + 1 \in 1 .. Len(d)
      BY <1>1, <2>2
    <3>2. d[i] < d[i + 1]
      BY <3>1 DEF InOrder
    <3> QED BY <1>1, <3>1, <3>2
  <2> QED BY <2>1, <2>2
<1>4. ASSUME NEW i \in 1 .. Len(d) + 1
      PROVE  Append(d, n)[i] < n + 1
  <2>1. CASE i = Len(d) + 1
    BY <1>1, <2>1
  <2>2. CASE i # Len(d) + 1
    <3>1. i \in 1 .. Len(d)
      BY <1>1, <2>2
    <3> QED BY <1>1, <1>2, <3>1
  <2> QED BY <2>1, <2>2
<1>5. (Len(d) + 1) - 1 = Len(d)
  BY <1>1
<1> QED BY <1>1, <1>3, <1>4, <1>5 DEF InOrder

-----------------------------------------------------------------------------
(* Histories *)

LEMMA ShlMember ==
    ASSUME NEW x \in SUBSET Nat, NEW n \in Nat, NEW width \in Nat, NEW k \in AllOnes(width)
    PROVE  k \in Shl(x, n, width) <=> k >= n /\ k - n \in x
<1>1. k \in Nat /\ k < width
  BY DEF AllOnes
<1>2. ASSUME k \in Shl(x, n, width)
      PROVE  k >= n /\ k - n \in x
  <2>1. PICK b \in x : b + n < width /\ k = b + n
    BY <1>2 DEF Shl
  <2>2. b \in Nat
    OBVIOUS
  <2>3. k - n = b /\ k >= n
    BY <2>1, <2>2
  <2> QED BY <2>3
<1>3. ASSUME k >= n, k - n \in x
      PROVE  k \in Shl(x, n, width)
  <2>1. (k - n) + n = k
    BY <1>1
  <2> QED BY <1>1, <1>3, <2>1 DEF Shl
<1> QED BY <1>2, <1>3

LEMMA ShlType ==
    ASSUME NEW width \in Nat, NEW x \in SUBSET AllOnes(width), NEW n \in Nat
    PROVE  Shl(x, n, width) \in SUBSET AllOnes(width)
  BY DEF Shl, AllOnes

LEMMA BitsType == AllOnes(RxHistoryBits) \subseteq Nat /\ RxHistoryBits \in Nat
  BY RxHistoryAssumption DEF AllOnes

\* Delivering number n, and skipping what is missing before it, keeps both histories
\* true.
LEMMA PushHistoryOK ==
    ASSUME NEW d \in Seq(Nat), NEW b \in Nat, NEW n \in Nat, b <= n, InOrder(d, b),
           NEW h \in SUBSET AllOnes(RxHistoryBits)
    PROVE  /\ \A bit \in BOOLEAN :
                PushHistory(h, n - b, bit) \in SUBSET AllOnes(RxHistoryBits)
           /\ HistoryOK(h, d, b) => HistoryOK(PushHistory(h, n - b, TRUE), Append(d, n), n + 1)
           /\ NoncesOK(h, d, b) =>
                NoncesOK(PushHistory(h, n - b, sent[n + 1].nonce), Append(d, n), n + 1)
<1> DEFINE s == n - b + 1
           x == Shl(h, s, RxHistoryBits)
<1>1. s \in Nat /\ s >= 1 /\ h \subseteq Nat
  BY BitsType
<1>2. x \in SUBSET AllOnes(RxHistoryBits)
  BY <1>1, BitsType, ShlType
<1>3. \A bit : PushHistory(h, n - b, bit) = x \cup (IF bit THEN {0} ELSE {})
  BY DEF PushHistory
<1>4. ASSUME NEW k \in AllOnes(RxHistoryBits)
      PROVE  /\ k \in Nat
             /\ k \in x <=> k >= s /\ k - s \in h
             /\ k >= s => k - s \in AllOnes(RxHistoryBits)
  <2>1. k \in Nat
    BY BitsType
  <2>2. k >= s => k - s \in AllOnes(RxHistoryBits)
    BY <1>1, <2>1, BitsType DEF AllOnes
  <2>3. k \in x <=> k >= s /\ k - s \in h
    BY <1>1, BitsType, ShlMember
  <2> QED BY <2>1, <2>2, <2>3
<1>5. ASSUME NEW k \in AllOnes(RxHistoryBits)
      PROVE  /\ k = 0 => Delivered(Append(d, n), n + 1 - 1 - k) /\ k \notin x
             /\ k # 0 => (Delivered(Append(d, n), n + 1 - 1 - k) <=> Delivered(d, n - k))
             /\ k # 0 /\ k < s => ~Delivered(d, n - k)
             /\ k >= s => n - k = b - 1 - (k - s) /\ (n + 1) - k = b - (k - s)
  <2>0. k \in Nat
    BY <1>4
  <2>6. n + 1 - 1 - k = n - k
    BY <2>0
  <2>1. k = 0 => n - k = n /\ ~(k >= s)
    BY <1>1
  <2>2. k # 0 => n - k # n
    BY <2>0
  <2>3. k # 0 /\ k < s => ~Delivered(d, n - k)
    <3> SUFFICES ASSUME k # 0, k < s, NEW i \in 1 .. Len(d), d[i] = n - k PROVE FALSE
      BY DEF Delivered
    <3>1. d[i] < b /\ d[i] \in Nat
      BY DEF InOrder
    <3>2. n - k >= b
      BY <2>0
    <3> QED BY <3>1, <3>2
  <2>4. k >= s => n - k = b - 1 - (k - s) /\ (n + 1) - k = b - (k - s)
    BY <2>0
  <2>5. Delivered(Append(d, n), n - k) <=> Delivered(d, n - k) \/ n - k = n
    BY DeliveredAppend
  <2> HIDE DEF x
  <2> QED BY <1>4, <2>1, <2>2, <2>3, <2>4, <2>5, <2>6
<1> HIDE DEF s, x
<1>6. \A bit \in BOOLEAN : PushHistory(h, n - b, bit) \in SUBSET AllOnes(RxHistoryBits)
  <2> SUFFICES ASSUME NEW bit \in BOOLEAN
               PROVE  PushHistory(h, n - b, bit) \in SUBSET AllOnes(RxHistoryBits)
    OBVIOUS
  <2>1. 0 \in AllOnes(RxHistoryBits)
    BY RxHistoryAssumption DEF AllOnes
  <2> QED BY <1>2, <1>3, <2>1
<1>7. ASSUME HistoryOK(h, d, b)
      PROVE  HistoryOK(PushHistory(h, n - b, TRUE), Append(d, n), n + 1)
  <2> DEFINE y == PushHistory(h, n - b, TRUE)
             e == Append(d, n)
             c == n + 1
  <2>0. y = x \cup {0}
    BY <1>3
  <2> HIDE DEF y, e, c
  <2> SUFFICES ASSUME NEW k \in AllOnes(RxHistoryBits)
               PROVE  k \in x \cup {0} <=> Delivered(e, c - 1 - k)
    <3>1. HistoryOK(y, e, c)
      BY <2>0 DEF HistoryOK
    <3> QED BY <3>1 DEF y, e, c
  <2>1. k >= s => (k - s \in h <=> Delivered(d, n - k))
    BY <1>4, <1>5, <1>7 DEF HistoryOK
  <2>2. k \in Nat /\ s \in Nat /\ (k < s \/ k >= s) /\ ~(k < s /\ k >= s) /\ (k = 0 => k < s)
    BY <1>1, <1>4
  <2> QED BY <1>4, <1>5, <2>1, <2>2 DEF e, c
<1>8. ASSUME NoncesOK(h, d, b)
      PROVE  NoncesOK(PushHistory(h, n - b, sent[n + 1].nonce), Append(d, n), n + 1)
  <2> DEFINE y == PushHistory(h, n - b, sent[n + 1].nonce)
             e == Append(d, n)
             c == n + 1
  <2>0. y = x \cup (IF sent[n + 1].nonce THEN {0} ELSE {})
    BY <1>3
  <2> HIDE DEF y, e, c
  <2> SUFFICES ASSUME NEW k \in AllOnes(RxHistoryBits)
               PROVE  k \in x \cup (IF sent[n + 1].nonce THEN {0} ELSE {})
                      <=> Delivered(e, c - 1 - k) /\ sent[c - k].nonce
    <3>1. NoncesOK(y, e, c)
      BY <2>0 DEF NoncesOK
    <3> QED BY <3>1 DEF y, e, c
  <2>1. k >= s => (k - s \in h <=> Delivered(d, n - k) /\ sent[n + 1 - k].nonce)
    BY <1>4, <1>5, <1>8 DEF NoncesOK
  <2>2. /\ k \in Nat /\ s \in Nat /\ (k < s \/ k >= s) /\ ~(k < s /\ k >= s)
        /\ (k = 0 => k < s) /\ (k = 0 => n + 1 - k = n + 1)
    BY <1>1, <1>4
  <2> QED BY <1>4, <1>5, <2>1, <2>2 DEF e, c
<1> QED BY <1>6, <1>7, <1>8

-----------------------------------------------------------------------------
(* receive and sync, step by step *)

\* What the steps of the receiver rely on: no segment is beyond its window.
Context == /\ HistoryTypes
           /\ srx.base_id \in Id
           /\ rx_base <= Len(sent) /\ Len(sent) <= rx_base + RxWindow

\* Moving the base past a segment moves all distances.
LEMMA BaseMoves ==
    ASSUME Context, NEW base \in Id, NEW b \in rx_base .. Len(sent),
           WrappingSub(base, srx.base_id) = b - rx_base,
           NEW id \in Id, NEW n \in b .. Len(sent) - 1, WrappingSub(id, base) = n - b
    PROVE  /\ WrappingAdd(id, 1) \in Id
           /\ n + 1 \in rx_base .. Len(sent)
           /\ WrappingSub(WrappingAdd(id, 1), srx.base_id) = n + 1 - rx_base
           /\ WrappingSub(WrappingAdd(id, 1), base) = n + 1 - b
<1> DEFINE next == WrappingAdd(id, 1)
           l == Len(sent)
<1>1. /\ rx_base \in Nat /\ l \in Nat /\ b \in Nat /\ n \in Nat /\ rx_base <= b
      /\ b <= n /\ n < l /\ l <= rx_base + RxWindow
      /\ RxWindow \in Nat /\ 2 * RxWindow <= IdMod /\ IdMod \in Nat /\ IdMod > 1 /\ RxWindow # 0
  BY IdModAssumption, RxWindowAssumption DEF Context, HistoryTypes
<1> HIDE DEF l
<1>2. /\ n + 1 \in rx_base .. l /\ n - b + 1 < IdMod /\ n + 1 - b = n - b + 1
      /\ n + 1 - b + (b - rx_base) = n + 1 - rx_base /\ n + 1 - rx_base < IdMod
  BY <1>1
<1>3. next \in Id
  BY AddType
<1>4. WrappingSub(next, base) = n + 1 - b
  BY <1>2, SubAdd
<1>5. WrappingSub(next, srx.base_id) = n + 1 - rx_base
  <2>1. srx.base_id \in Id
    BY DEF Context
  <2>2. WrappingSub(next, base) + WrappingSub(base, srx.base_id) = n + 1 - rx_base
    BY <1>2, <1>4
  <2> HIDE DEF next
  <2> QED BY <1>2, <1>3, <2>1, <2>2, SubTrans
<1> QED BY <1>2, <1>3, <1>4, <1>5 DEF l

LEMMA DeliverFields ==
    ASSUME NEW rx \in RxType, NEW s
    PROVE  LET rx2 == Deliver(rx, s)
           IN  /\ rx2.base_id = WrappingAdd(s.id, 1)
               /\ rx2.slots = rx.slots
               /\ rx2.rx_history = PushHistory(rx.rx_history, RxDelta(rx, s.id), TRUE)
               /\ rx2.nonce_history = PushHistory(rx.nonce_history, RxDelta(rx, s.id), s.nonce)
               /\ rx2.out = Append(rx.out, s.data)
               /\ /\ rx2.base_id \in Id /\ rx2.out \in Seq(Nat)
                  /\ rx2.rx_history \in SUBSET AllOnes(RxHistoryBits)
                  /\ rx2.nonce_history \in SUBSET AllOnes(RxHistoryBits)
                  => rx2 \in RxType
<1> DEFINE o == Append(rx.out, s.data)
           h == PushHistory(rx.rx_history, RxDelta(rx, s.id), TRUE)
           c == PushHistory(rx.nonce_history, RxDelta(rx, s.id), s.nonce)
           i == WrappingAdd(s.id, 1)
           rx2 == [rx EXCEPT !.out = o, !.rx_history = h, !.nonce_history = c, !.base_id = i]
<1>1. rx2 = Deliver(rx, s)
  BY DEF Deliver
<1> HIDE DEF o, h, c, i
<1>2. /\ rx2.base_id = i /\ rx2.slots = rx.slots /\ rx2.rx_history = h
      /\ rx2.nonce_history = c /\ rx2.out = o
  BY DEF RxType
<1>3. /\ i \in Id /\ o \in Seq(Nat) /\ h \in SUBSET AllOnes(RxHistoryBits)
      /\ c \in SUBSET AllOnes(RxHistoryBits)
      => rx2 \in RxType
  BY DEF RxType
<1> QED BY <1>1, <1>2, <1>3 DEF o, h, c, i

\* Delivering a segment that comes before everything in the slots.
LEMMA DeliverSound ==
    ASSUME Context, NEW rx, NEW b, RxSound(rx, b), NEW s \in SlotType, IsSegment(s, rx, b),
           \A i \in 1 .. Len(rx.slots) : s.data < rx.slots[i].data
    PROVE  RxSound(Deliver(rx, s), s.data + 1)
<1> DEFINE rx2 == Deliver(rx, s)
           n == s.data
           d == delivered \o rx.out
<1>1. /\ rx.base_id \in Id /\ rx.slots \in Seq(SlotType) /\ rx.out \in Seq(Nat)
      /\ rx.rx_history \in SUBSET AllOnes(RxHistoryBits)
      /\ rx.nonce_history \in SUBSET AllOnes(RxHistoryBits)
      /\ s.id \in Id /\ s.nonce \in BOOLEAN /\ n \in Nat
  BY DEF RxSound, RxType, SlotType
<1>2. /\ rx_base \in Nat /\ Len(sent) \in Nat /\ b \in rx_base .. Len(sent) /\ b \in Nat
      /\ n \in b .. Len(sent) - 1 /\ b <= n
  BY DEF Context, HistoryTypes, RxSound, IsSegment
<1>3. RxDelta(rx, s.id) = n - b
  BY DEF IsSegment
<1>4. /\ rx2.out = Append(rx.out, n) /\ rx2.slots = rx.slots
      /\ rx2.rx_history = PushHistory(rx.rx_history, n - b, TRUE)
      /\ rx2.nonce_history = PushHistory(rx.nonce_history, n - b, s.nonce)
      /\ rx2.base_id = WrappingAdd(s.id, 1)
      /\ /\ rx2.base_id \in Id /\ rx2.out \in Seq(Nat)
         /\ rx2.rx_history \in SUBSET AllOnes(RxHistoryBits)
         /\ rx2.nonce_history \in SUBSET AllOnes(RxHistoryBits)
         => rx2 \in RxType
  <2>1. rx \in RxType
    BY DEF RxSound
  <2> QED BY <1>3, <2>1, DeliverFields
<1> HIDE DEF rx2
<1>5. d \in Seq(Nat) /\ delivered \o rx2.out = Append(d, n)
  <2>1. delivered \in Seq(Nat)
    BY DEF Context, HistoryTypes
  <2> HIDE DEF n
  <2>2. PICK out : out = rx.out /\ out \in Seq(Nat)
    BY <1>1
  <2>3. /\ delivered \o out \in Seq(Nat)
        /\ delivered \o Append(out, n) = Append(delivered \o out, n)
    BY <1>1, <2>1, <2>2, ConcatAppend
  <2>4. rx2.out = Append(out, n)
    BY <1>4, <2>2
  <2> QED BY <2>2, <2>3, <2>4
<1>6. /\ InOrder(d, b) /\ HistoryOK(rx.rx_history, d, b) /\ NoncesOK(rx.nonce_history, d, b)
      /\ s.nonce = sent[n + 1].nonce
  BY DEF RxSound, IsSegment
<1>7. /\ WrappingAdd(s.id, 1) \in Id /\ n + 1 \in rx_base .. Len(sent)
      /\ WrappingSub(rx2.base_id, srx.base_id) = n + 1 - rx_base
      /\ WrappingSub(rx2.base_id, rx.base_id) = n + 1 - b
  <2>1. WrappingSub(rx.base_id, srx.base_id) = b - rx_base /\ WrappingSub(s.id, rx.base_id) = n - b
    BY <1>3 DEF RxSound, RxDelta
  <2> HIDE DEF n, rx2
  <2> QED BY <1>1, <1>2, <1>4, <2>1, BaseMoves
<1> HIDE DEF rx2, d, n
<1>8. InOrder(Append(d, n), n + 1)
  BY <1>1, <1>2, <1>5, <1>6, InOrderAppend
<1>9. /\ PushHistory(rx.rx_history, n - b, TRUE) \in SUBSET AllOnes(RxHistoryBits)
      /\ HistoryOK(PushHistory(rx.rx_history, n - b, TRUE), Append(d, n), n + 1)
  BY <1>1, <1>2, <1>5, <1>6, PushHistoryOK
<1>10. /\ PushHistory(rx.nonce_history, n - b, s.nonce) \in SUBSET AllOnes(RxHistoryBits)
       /\ NoncesOK(PushHistory(rx.nonce_history, n - b, s.nonce), Append(d, n), n + 1)
  BY <1>1, <1>2, <1>5, <1>6, PushHistoryOK
<1>11. rx2 \in RxType
  <2>1. rx2.out \in Seq(Nat)
    BY <1>1, <1>4, AppendProperties
  <2>2. rx2.rx_history \in SUBSET AllOnes(RxHistoryBits)
        /\ rx2.nonce_history \in SUBSET AllOnes(RxHistoryBits)
    BY <1>4, <1>9, <1>10
  <2> QED BY <1>1, <1>4, <1>7, <2>1, <2>2 DEF RxType
<1>12. SlotsInOrder(rx2, n + 1)
  <2>1. ASSUME NEW i \in 1 .. Len(rx.slots)
        PROVE  IsSegment(rx.slots[i], rx2, n + 1)
    <3> DEFINE t == rx.slots[i]
    <3>1. t \in SlotType /\ IsSegment(t, rx, b) /\ n < t.data
      BY <1>1 DEF RxSound, SlotsInOrder, n
    <3>2. /\ t.data \in b .. Len(sent) - 1 /\ t.nonce = sent[t.data + 1].nonce
          /\ WrappingSub(t.id, rx.base_id) = t.data - b /\ t.id \in Id
      BY <3>1 DEF IsSegment, RxDelta, SlotType
    <3> HIDE DEF t
    <3>3. t.data \in n + 1 .. Len(sent) - 1 /\ n + 1 - b <= t.data - b
          /\ (t.data - b) - (n + 1 - b) = t.data - (n + 1)
      BY <1>1, <1>2, <3>1, <3>2
    <3>4. WrappingSub(t.id, rx2.base_id) = t.data - (n + 1)
      <4>1. rx2.base_id \in Id
        BY <1>4, <1>7
      <4>2. WrappingSub(rx2.base_id, rx.base_id) <= WrappingSub(t.id, rx.base_id)
        BY <1>7, <3>2, <3>3
      <4> QED BY <1>1, <1>7, <3>2, <3>3, <4>1, <4>2, SubShift
    <3>5. IsSegment(t, rx2, n + 1)
      BY <3>2, <3>3, <3>4 DEF IsSegment, RxDelta
    <3> QED BY <3>5 DEF t
  <2> QED BY <1>4, <2>1 DEF RxSound, SlotsInOrder
<1>13. RxDelta(srx, rx2.base_id) = n + 1 - rx_base
  BY <1>7 DEF RxDelta
<1>14. RxSound(rx2, n + 1)
  <2> DEFINE e == n + 1
  <2>1. InOrder(delivered \o rx2.out, e)
    BY <1>5, <1>8
  <2>2. HistoryOK(rx2.rx_history, delivered \o rx2.out, e)
    BY <1>4, <1>5, <1>9, Zenon
  <2>3. NoncesOK(rx2.nonce_history, delivered \o rx2.out, e)
    BY <1>4, <1>5, <1>10, Zenon
  <2>4. e \in rx_base .. Len(sent)
    BY <1>7
  <2>6. RxDelta(srx, rx2.base_id) = e - rx_base
    BY <1>1, <1>2, <1>13
  <2>7. SlotsInOrder(rx2, e)
    BY <1>12
  <2>8. NewOnly(rx2.out)
    <3>1. NewOnly(rx.out) /\ rx_base <= n
      BY <1>1, <1>2 DEF RxSound
    <3>2. /\ Len(rx2.out) = Len(rx.out) + 1 /\ Len(rx.out) \in Nat
          /\ \A i \in 1 .. Len(rx.out) : rx2.out[i] = rx.out[i]
          /\ rx2.out[Len(rx.out) + 1] = n
      BY <1>1, <1>4, AppendProperties
    <3>3. ASSUME NEW i \in 1 .. Len(rx.out) + 1
          PROVE  i = Len(rx.out) + 1 \/ i \in 1 .. Len(rx.out)
      BY <3>2
    <3> QED BY <3>1, <3>2, <3>3 DEF NewOnly
  <2> HIDE DEF e
  <2>5. RxSound(rx2, e)
    BY <1>11, <2>1, <2>2, <2>3, <2>4, <2>6, <2>7, <2>8 DEF RxSound
  <2> QED BY <2>5 DEF e
<1> QED BY <1>14 DEF rx2, n

\* Delivering the first slot.
LEMMA DeliverSlotSound ==
    ASSUME Context, NEW rx, NEW b, RxSound(rx, b), rx.slots # <<>>
    PROVE  /\ RxSound(DeliverSlot(rx), rx.slots[1].data + 1)
           /\ DeliverSlot(rx).slots = Tail(rx.slots)
           /\ b <= rx.slots[1].data
<1> DEFINE s == rx.slots[1]
           r == [rx EXCEPT !.slots = Tail(@)]
<1>1. /\ rx \in RxType /\ rx.slots \in Seq(SlotType) /\ Len(rx.slots) \in 1 .. 2
      /\ s \in SlotType /\ IsSegment(s, rx, b)
      /\ Tail(rx.slots) \in Seq(SlotType) /\ Len(Tail(rx.slots)) = Len(rx.slots) - 1
      /\ \A i \in 1 .. Len(Tail(rx.slots)) : Tail(rx.slots)[i] = rx.slots[i + 1]
  <2>1. rx \in RxType /\ rx.slots \in Seq(SlotType) /\ Len(rx.slots) <= 2
    BY DEF RxSound, RxType, SlotsInOrder
  <2>2. Len(rx.slots) \in 1 .. 2
    <3>1. Len(rx.slots) \in Nat \ {0}
      BY <2>1, EmptySeq
    <3>2. \A n \in Nat \ {0} : n <= 2 => n \in 1 .. 2
      OBVIOUS
    <3> QED BY <2>1, <3>1, <3>2
  <2>3. 1 \in 1 .. Len(rx.slots)
    BY <2>2
  <2>4. s \in SlotType /\ IsSegment(s, rx, b)
    BY <2>1, <2>3 DEF RxSound, SlotsInOrder
  <2> QED BY <2>1, <2>2, <2>4, HeadTailProperties
<1>2. /\ r \in RxType /\ r.slots = Tail(rx.slots) /\ r.base_id = rx.base_id
      /\ r.rx_history = rx.rx_history /\ r.nonce_history = rx.nonce_history /\ r.out = rx.out
  <2> DEFINE t == Tail(rx.slots)
  <2>1. t \in Seq(SlotType)
    BY <1>1
  <2> HIDE DEF t
  <2>2. LET q == [rx EXCEPT !.slots = t]
        IN  /\ q \in RxType /\ q.slots = t /\ q.base_id = rx.base_id
            /\ q.rx_history = rx.rx_history /\ q.nonce_history = rx.nonce_history
            /\ q.out = rx.out
    BY <1>1, <2>1 DEF RxType
  <2> QED BY <2>2 DEF t
<1>3. ASSUME NEW i \in 1 .. Len(r.slots)
      PROVE  IsSegment(r.slots[i], r, b) /\ s.data < r.slots[i].data
  <2>1. Len(rx.slots) = 2 /\ i = 1 /\ r.slots[i] = rx.slots[2]
    BY <1>1, <1>2
  <2>2. IsSegment(rx.slots[2], rx, b) /\ s.data < rx.slots[2].data
    BY <2>1 DEF RxSound, SlotsInOrder
  <2> QED BY <1>2, <2>1, <2>2 DEF IsSegment, RxDelta
<1>4. SlotsInOrder(r, b)
  <2>0. \A n \in 1 .. 2 : n - 1 <= 2 /\ n - 1 # 2
    OBVIOUS
  <2>1. Len(r.slots) <= 2 /\ Len(r.slots) # 2
    BY <1>1, <1>2, <2>0
  <2> HIDE DEF r, s
  <2> QED BY <1>3, <2>1 DEF SlotsInOrder
<1> HIDE DEF r
<1>5. RxSound(r, b)
  BY <1>2, <1>4 DEF RxSound
<1>6. IsSegment(s, r, b)
  BY <1>1, <1>2 DEF IsSegment, RxDelta
<1>7. RxSound(Deliver(r, s), s.data + 1)
  BY <1>1, <1>3, <1>5, <1>6, DeliverSound
<1>8. Deliver(r, s) = DeliverSlot(rx)
  <2>1. RxDelta(r, s.id) = RxDelta(rx, s.id)
    BY <1>2 DEF RxDelta
  <2> QED BY <1>1, <1>2, <2>1 DEF DeliverSlot, Deliver, r, RxType
<1>9. DeliverSlot(rx).slots = Tail(rx.slots)
  <2>1. Deliver(r, s).slots = r.slots
    BY <1>2, DeliverFields
  <2> QED BY <1>2, <1>8, <2>1
<1>10. b <= s.data
  BY <1>1 DEF IsSegment
<1> QED BY <1>7, <1>8, <1>9, <1>10

LEMMA SoundTypes ==
    ASSUME Context, NEW rx, NEW b, RxSound(rx, b)
    PROVE  /\ rx \in RxType /\ rx.base_id \in Id /\ rx.slots \in Seq(SlotType)
           /\ Len(rx.slots) \in 0 .. 2 /\ rx.out \in Seq(Nat) /\ b \in Nat
           /\ rx.slots # <<>> => 1 \in 1 .. Len(rx.slots)
           /\ \A i \in 1 .. Len(rx.slots) :
                 /\ rx.slots[i] \in SlotType /\ rx.slots[i].id \in Id
                 /\ rx.slots[i].data \in Nat /\ b <= rx.slots[i].data
                 /\ IsSegment(rx.slots[i], rx, b)
<1>1. /\ rx \in RxType /\ rx.base_id \in Id /\ rx.slots \in Seq(SlotType)
      /\ rx.out \in Seq(Nat) /\ Len(rx.slots) <= 2 /\ Len(rx.slots) \in Nat
  BY DEF RxSound, RxType, SlotsInOrder
<1>2. b \in Nat
  BY DEF RxSound, Context, HistoryTypes
<1>3. rx.slots # <<>> => Len(rx.slots) \in Nat \ {0}
  BY <1>1, EmptySeq
<1>4. /\ \A n \in Nat : n <= 2 => n \in 0 .. 2
      /\ \A n \in Nat \ {0} : 1 \in 1 .. n
  OBVIOUS
<1>5. ASSUME NEW i \in 1 .. Len(rx.slots)
      PROVE  /\ rx.slots[i] \in SlotType /\ rx.slots[i].id \in Id
             /\ rx.slots[i].data \in Nat /\ b <= rx.slots[i].data
             /\ IsSegment(rx.slots[i], rx, b)
  <2>1. rx.slots[i] \in SlotType /\ IsSegment(rx.slots[i], rx, b)
    BY <1>1 DEF RxSound, SlotsInOrder
  <2>2. rx.slots[i].id \in Id /\ rx.slots[i].data \in Nat
    BY <2>1 DEF SlotType
  <2> QED BY <1>2, <2>1, <2>2 DEF IsSegment
<1> QED BY <1>1, <1>2, <1>3, <1>4, <1>5

LEMMA DeliverIfNextSound ==
    ASSUME Context, NEW rx, NEW b, RxSound(rx, b)
    PROVE  \E c : /\ RxSound(DeliverIfNext(rx), c)
                  /\ \/ Settled(DeliverIfNext(rx), c)
                     \/ Len(DeliverIfNext(rx).slots) < Len(rx.slots)
<1>1. CASE rx.slots # <<>> /\ rx.slots[1].id = rx.base_id
  <2>1. DeliverIfNext(rx) = DeliverSlot(rx)
    BY <1>1 DEF DeliverIfNext
  <2>2. /\ RxSound(DeliverSlot(rx), rx.slots[1].data + 1)
        /\ DeliverSlot(rx).slots = Tail(rx.slots)
    BY <1>1, DeliverSlotSound
  <2>3. Len(Tail(rx.slots)) < Len(rx.slots)
    <3>1. rx.slots \in Seq(SlotType) /\ Len(rx.slots) \in Nat
      BY SoundTypes
    <3>2. Len(Tail(rx.slots)) = Len(rx.slots) - 1
      BY <1>1, <3>1, HeadTailProperties
    <3> QED BY <3>1, <3>2
  <2> QED BY <2>1, <2>2, <2>3
<1>2. CASE ~(rx.slots # <<>> /\ rx.slots[1].id = rx.base_id)
  <2>1. DeliverIfNext(rx) = rx
    BY <1>2 DEF DeliverIfNext
  <2>2. ASSUME NEW i \in 1 .. Len(rx.slots)
        PROVE  rx.slots[i].data > b
    <3>0. rx.slots # <<>>
      <4>1. Len(<<>>) = 0
        OBVIOUS
      <4> QED BY <4>1
    <3>1. /\ 1 \in 1 .. Len(rx.slots) /\ rx.slots[1].id \in Id /\ rx.base_id \in Id
          /\ rx.slots[1].data \in Nat /\ b \in Nat /\ b <= rx.slots[1].data
          /\ rx.slots[i].data \in Nat /\ Len(rx.slots) \in 0 .. 2
      BY <3>0, SoundTypes
    <3>2. WrappingSub(rx.slots[1].id, rx.base_id) # 0
      BY <1>2, <3>0, <3>1, SubSelf
    <3>3. WrappingSub(rx.slots[1].id, rx.base_id) = rx.slots[1].data - b
      BY <3>1, SoundTypes DEF IsSegment, RxDelta
    <3>4. rx.slots[1].data > b
      BY <3>1, <3>2, <3>3
    <3>5. CASE i = 1
      BY <3>4, <3>5
    <3>6. CASE i # 1
      <4>1. i = 2 /\ Len(rx.slots) = 2
        BY <3>1, <3>6
      <4>2. rx.slots[1].data < rx.slots[2].data
        BY <4>1 DEF RxSound, SlotsInOrder
      <4> QED BY <3>1, <3>4, <4>1, <4>2
    <3> QED BY <3>5, <3>6
  <2>3. Settled(rx, b)
    BY <2>2 DEF Settled
  <2> QED BY <2>1, <2>3
<1> QED BY <1>1, <1>2

\* receive leaves no slot that could have been delivered.
LEMMA DeliverReadySound ==
    ASSUME Context, NEW rx, NEW b, RxSound(rx, b)
    PROVE  \E c : RxSound(DeliverReady(rx), c) /\ Settled(DeliverReady(rx), c)
<1> DEFINE r1 == DeliverIfNext(rx)
           r2 == DeliverIfNext(r1)
<1>1. PICK c : RxSound(r1, c) /\ (Settled(r1, c) \/ Len(r1.slots) < Len(rx.slots))
  BY DeliverIfNextSound
<1>2. PICK e : RxSound(r2, e) /\ (Settled(r2, e) \/ Len(r2.slots) < Len(r1.slots))
  BY <1>1, DeliverIfNextSound
<1>3. r2 = DeliverReady(rx)
  BY DEF DeliverReady
<1>4. /\ Len(rx.slots) \in 0 .. 2 /\ Len(r1.slots) \in 0 .. 2 /\ Len(r2.slots) \in 0 .. 2
      /\ r1.slots \in Seq(SlotType) /\ c \in Nat
  BY <1>1, <1>2, SoundTypes
<1>5. CASE Settled(r1, c)
  <2>1. r2 = r1
    <3>1. CASE r1.slots = <<>>
      BY <3>1 DEF DeliverIfNext
    <3>2. CASE r1.slots # <<>>
      <4> HIDE DEF r1
      <4>1. /\ 1 \in 1 .. Len(r1.slots) /\ r1.base_id \in Id /\ r1.slots[1].id \in Id
            /\ r1.slots[1].data \in Nat /\ IsSegment(r1.slots[1], r1, c)
        BY <1>1, <3>2, SoundTypes
      <4>2. r1.slots[1].data > c /\ WrappingSub(r1.slots[1].id, r1.base_id) = r1.slots[1].data - c
        BY <1>5, <4>1 DEF Settled, IsSegment, RxDelta
      <4>3. WrappingSub(r1.slots[1].id, r1.base_id) # 0
        BY <1>4, <4>1, <4>2
      <4>4. r1.slots[1].id # r1.base_id
        BY <4>1, <4>3, SubSelf
      <4> QED BY <4>4 DEF DeliverIfNext
    <3> QED BY <3>1, <3>2
  <2> QED BY <1>1, <1>3, <1>5, <2>1
<1>6. CASE Settled(r2, e)
  BY <1>2, <1>3, <1>6
<1>7. CASE ~Settled(r1, c) /\ ~Settled(r2, e)
  <2>1. Len(r1.slots) < Len(rx.slots) /\ Len(r2.slots) < Len(r1.slots)
    BY <1>1, <1>2, <1>7
  <2> HIDE DEF r1, r2
  <2>2. Len(r2.slots) = 0
    BY <1>4, <2>1
  <2>3. Settled(r2, e)
    BY <2>2 DEF Settled
  <2> QED BY <1>7, <2>3
<1> QED BY <1>5, <1>6, <1>7

\* Storing segments in the slots.
LEMMA SetSlotsSound ==
    ASSUME Context, NEW rx, NEW b, RxSound(rx, b), NEW t \in Seq(SlotType), Len(t) <= 2,
           \A i \in 1 .. Len(t) : IsSegment(t[i], rx, b),
           Len(t) = 2 => t[1].data < t[2].data
    PROVE  LET r == [rx EXCEPT !.slots = t]
           IN  RxSound(r, b) /\ r.slots = t /\ r.base_id = rx.base_id
<1> DEFINE r == [rx EXCEPT !.slots = t]
<1>1. /\ r \in RxType /\ r.slots = t /\ r.base_id = rx.base_id
      /\ r.rx_history = rx.rx_history /\ r.nonce_history = rx.nonce_history /\ r.out = rx.out
  BY DEF RxSound, RxType
<1> HIDE DEF r
<1>2. SlotsInOrder(r, b)
  BY <1>1 DEF SlotsInOrder, IsSegment, RxDelta
<1>3. RxSound(r, b)
  BY <1>1, <1>2 DEF RxSound
<1> QED BY <1>1, <1>3 DEF r

LEMMA SortSlotsOK ==
    ASSUME Context, NEW rx, NEW b \in Nat, NEW s \in SlotType, NEW t \in SlotType,
           IsSegment(s, rx, b), IsSegment(t, rx, b), s.data # t.data
    PROVE  LET q == SortSlots(rx, s, t)
           IN  /\ q \in Seq(SlotType) /\ Len(q) = 2 /\ q[1].data < q[2].data
               /\ \A i \in 1 .. Len(q) : IsSegment(q[i], rx, b) /\ q[i] \in {s, t}
<1>1. s.data \in Nat /\ t.data \in Nat
  BY DEF SlotType
<1>2. RxDelta(rx, s.id) = s.data - b /\ RxDelta(rx, t.id) = t.data - b
  BY DEF IsSegment
<1>3. CASE s.data > t.data
  <2>1. SortSlots(rx, s, t) = <<t, s>>
    BY <1>1, <1>2, <1>3 DEF SortSlots
  <2> QED BY <1>1, <1>3, <2>1
<1>4. CASE s.data < t.data
  <2>1. SortSlots(rx, s, t) = <<s, t>>
    BY <1>1, <1>2, <1>4 DEF SortSlots
  <2> QED BY <1>1, <1>4, <2>1
<1> QED BY <1>1, <1>3, <1>4

\* Different segments have different ids.
LEMMA SegmentIds ==
    ASSUME Context, NEW rx, NEW b \in Nat, rx.base_id \in Id, NEW s \in SlotType,
           NEW t \in SlotType, IsSegment(s, rx, b), IsSegment(t, rx, b)
    PROVE  /\ s.id = t.id <=> s.data = t.data
           /\ s.id = rx.base_id <=> s.data = b
           /\ RxDelta(rx, s.id) < RxDelta(rx, t.id) <=> s.data < t.data
<1>1. s.data \in Nat /\ t.data \in Nat /\ s.id \in Id /\ t.id \in Id
  BY DEF SlotType
<1>2. WrappingSub(s.id, rx.base_id) = s.data - b /\ WrappingSub(t.id, rx.base_id) = t.data - b
  BY DEF IsSegment, RxDelta
<1>3. s.id = t.id <=> s.data - b = t.data - b
  BY <1>1, <1>2, SubInjective
<1>4. s.id = rx.base_id <=> s.data - b = 0
  BY <1>1, <1>2, SubSelf
<1>5. RxDelta(rx, s.id) < RxDelta(rx, t.id) <=> s.data - b < t.data - b
  BY <1>2 DEF RxDelta
<1> QED BY <1>1, <1>3, <1>4, <1>5

\* receive, for a segment that is not behind the window.
LEMMA AcceptSound ==
    ASSUME Context, NEW rx, NEW b, RxSound(rx, b), Settled(rx, b),
           NEW s \in SlotType, IsSegment(s, rx, b)
    PROVE  \E c : RxSound(Accept(rx, s), c) /\ Settled(Accept(rx, s), c)
<1> DEFINE len == Len(rx.slots)
<1>1. /\ rx \in RxType /\ rx.base_id \in Id /\ rx.slots \in Seq(SlotType) /\ b \in Nat
      /\ len \in 0 .. 2 /\ s.data \in Nat /\ s.id \in Id /\ b <= s.data
      /\ \A i \in 1 .. len : /\ rx.slots[i] \in SlotType /\ rx.slots[i].id \in Id
                             /\ rx.slots[i].data \in Nat /\ IsSegment(rx.slots[i], rx, b)
  <2>1. s.data \in Nat /\ s.id \in Id
    BY DEF SlotType
  <2>2. b \in Nat
    BY SoundTypes
  <2>3. b <= s.data
    BY <2>1, <2>2 DEF IsSegment
  <2> QED BY <2>1, <2>3, SoundTypes
<1>2. s.id = rx.base_id <=> s.data = b
  BY <1>1, SegmentIds
<1>3. \A i \in 1 .. len : b < rx.slots[i].data
  BY <1>1 DEF Settled
<1>4. ASSUME NEW i \in 1 .. len
      PROVE  /\ rx.slots[i].id = s.id <=> rx.slots[i].data = s.data
             /\ RxDelta(rx, s.id) < RxDelta(rx, rx.slots[i].id) <=> s.data < rx.slots[i].data
  BY <1>1, SegmentIds
<1> HIDE DEF len
<1>5. CASE s.id = rx.base_id
  <2>1. Accept(rx, s) = DeliverReady(Deliver(rx, s))
    BY <1>5 DEF Accept
  <2>2. \A i \in 1 .. Len(rx.slots) : s.data < rx.slots[i].data
    BY <1>2, <1>3, <1>5 DEF len
  <2>3. RxSound(Deliver(rx, s), s.data + 1)
    BY <2>2, DeliverSound
  <2> QED BY <2>1, <2>3, DeliverReadySound
<1>6. CASE s.id # rx.base_id /\ len = 0
  <2> DEFINE r == [rx EXCEPT !.slots = <<s>>]
  <2>1. Accept(rx, s) = r
    BY <1>6 DEF Accept, len
  <2>2. /\ <<s>> \in Seq(SlotType) /\ Len(<<s>>) = 1 /\ <<s>>[1] = s
        /\ \A i \in 1 .. 1 : i = 1
    OBVIOUS
  <2>3. RxSound(r, b) /\ r.slots = <<s>>
    BY <2>2, SetSlotsSound
  <2>4. s.data > b
    BY <1>1, <1>2, <1>6
  <2>5. Settled(r, b)
    BY <2>2, <2>3, <2>4 DEF Settled
  <2> QED BY <2>1, <2>3, <2>5
<1>7. CASE s.id # rx.base_id /\ len = 1
  <2> DEFINE t == SortSlots(rx, rx.slots[1], s)
             r == [rx EXCEPT !.slots = t]
  <2>1. Accept(rx, s) = IF Buffered(rx, s.id) THEN rx ELSE r
    BY <1>7 DEF Accept, len
  <2>2. CASE Buffered(rx, s.id)
    BY <2>1, <2>2
  <2>3. CASE ~Buffered(rx, s.id)
    <3>1. 1 \in 1 .. len /\ rx.slots[1].data # s.data
      BY <1>4, <1>7, <2>3 DEF Buffered, len
    <3>2. /\ t \in Seq(SlotType) /\ Len(t) = 2 /\ t[1].data < t[2].data
          /\ \A i \in 1 .. Len(t) : IsSegment(t[i], rx, b) /\ t[i] \in {rx.slots[1], s}
      BY <1>1, <3>1, SortSlotsOK
    <3> HIDE DEF t
    <3>6. /\ Len(t) <= 2 /\ (\A i \in 1 .. Len(t) : IsSegment(t[i], rx, b))
          /\ (Len(t) = 2 => t[1].data < t[2].data)
      BY <3>2
    <3>3. RxSound(r, b) /\ r.slots = t
      BY <3>2, <3>6, SetSlotsSound
    <3>4. s.data > b /\ rx.slots[1].data > b
      BY <1>1, <1>2, <1>3, <1>7, <3>1
    <3>5. Settled(r, b)
      BY <3>2, <3>3, <3>4 DEF Settled
    <3> QED BY <2>1, <2>3, <3>3, <3>5
  <2> QED BY <2>2, <2>3
<1>8. CASE s.id # rx.base_id /\ len = 2
  <2> DEFINE popped == DeliverSlot(rx)
             t == SortSlots(popped, s, rx.slots[2])
             r == [popped EXCEPT !.slots = t]
  <2>1. Accept(rx, s) = IF Buffered(rx, s.id) THEN DeliverReady(rx)
                        ELSE IF RxDelta(rx, s.id) < RxDelta(rx, rx.slots[1].id)
                        THEN DeliverReady(Deliver(rx, s))
                        ELSE DeliverReady(r)
    BY <1>8 DEF Accept, len
  <2>2. CASE Buffered(rx, s.id)
    BY <2>1, <2>2, DeliverReadySound
  <2>3. 1 \in 1 .. len /\ 2 \in 1 .. len /\ (\A i \in 1 .. len : i = 1 \/ i = 2)
        /\ rx.slots[1].data < rx.slots[2].data
    BY <1>8 DEF RxSound, SlotsInOrder, len
  <2>4. CASE ~Buffered(rx, s.id) /\ RxDelta(rx, s.id) < RxDelta(rx, rx.slots[1].id)
    <3>1. \A i \in 1 .. Len(rx.slots) : s.data < rx.slots[i].data
      <4>1. s.data < rx.slots[1].data /\ s.data < rx.slots[2].data
        BY <1>1, <1>4, <2>3, <2>4
      <4> QED BY <2>3, <4>1 DEF len
    <3>2. RxSound(Deliver(rx, s), s.data + 1)
      BY <3>1, DeliverSound
    <3> QED BY <2>1, <2>4, <3>2, DeliverReadySound
  <2>5. CASE ~Buffered(rx, s.id) /\ ~(RxDelta(rx, s.id) < RxDelta(rx, rx.slots[1].id))
    <3> DEFINE e == rx.slots[1].data + 1
               u == rx.slots[2]
    <3>1. rx.slots[1].data < s.data /\ s.data # u.data
      BY <1>1, <1>4, <2>3, <2>5 DEF Buffered, len
    <3>2. RxSound(popped, e) /\ popped.slots = Tail(rx.slots)
      <4>1. rx.slots # <<>>
        BY <1>8 DEF len
      <4> QED BY <4>1, DeliverSlotSound
    <3>3. e \in Nat /\ popped.base_id \in Id
      BY <3>2, SoundTypes
    <3>4. u \in SlotType /\ IsSegment(u, popped, e)
      <4>1. Tail(rx.slots)[1] = u /\ 1 \in 1 .. Len(Tail(rx.slots))
        BY <1>1, <1>8, HeadTailProperties DEF len
      <4> HIDE DEF popped, e, u
      <4> QED BY <3>2, <4>1, SoundTypes
    <3>5. IsSegment(s, popped, e)
      <4>1. /\ s.data \in e .. Len(sent) - 1 /\ s.nonce = sent[s.data + 1].nonce
        BY <1>1, <2>3, <3>1 DEF IsSegment
      <4>2. RxDelta(popped, s.id) = s.data - e
        <5>1. /\ WrappingSub(s.id, rx.base_id) = s.data - b
              /\ WrappingSub(popped.base_id, srx.base_id) = e - rx_base
              /\ WrappingSub(rx.base_id, srx.base_id) = b - rx_base
              /\ rx_base \in Nat /\ srx.base_id \in Id
          BY <3>2 DEF RxSound, IsSegment, RxDelta, Context, HistoryTypes
        <5>2. b <= e /\ e <= s.data /\ b - rx_base <= e - rx_base
          <6>1. /\ rx.slots[1].data \in Nat /\ rx.slots[1].data > b
                /\ rx.slots[1].data < s.data /\ s.data \in Nat /\ b \in Nat
            BY <1>1, <1>3, <2>3, <3>1
          <6>2. \A x \in Nat : b < x /\ x < s.data =>
                   b <= x + 1 /\ x + 1 <= s.data /\ b - rx_base <= (x + 1) - rx_base
            BY <5>1, <6>1
          <6> QED BY <6>1, <6>2
        <5>3. WrappingSub(popped.base_id, rx.base_id) = e - b
          <6>1. WrappingSub(popped.base_id, rx.base_id) = (e - rx_base) - (b - rx_base)
            BY <1>1, <3>3, <5>1, <5>2, SubShift
          <6> HIDE DEF e
          <6> QED BY <1>1, <3>3, <5>1, <6>1
        <5>4. WrappingSub(s.id, popped.base_id) = (s.data - b) - (e - b)
          <6>1. e - b <= s.data - b
            BY <1>1, <3>3, <5>2
          <6> HIDE DEF e, popped
          <6> QED BY <1>1, <3>3, <5>1, <5>3, <6>1, SubShift
        <5> HIDE DEF e
        <5> QED BY <1>1, <3>3, <5>4 DEF RxDelta
      <4> QED BY <4>1, <4>2 DEF IsSegment
    <3> HIDE DEF popped, e, u
    <3>6. /\ t \in Seq(SlotType) /\ Len(t) = 2 /\ t[1].data < t[2].data
          /\ \A i \in 1 .. Len(t) : IsSegment(t[i], popped, e)
      BY <3>1, <3>3, <3>4, <3>5, SortSlotsOK DEF u
    <3> HIDE DEF t
    <3>8. Len(t) <= 2 /\ (Len(t) = 2 => t[1].data < t[2].data)
      BY <3>6
    <3>7. RxSound(r, e)
      BY <3>2, <3>6, <3>8, SetSlotsSound
    <3> QED BY <2>1, <2>5, <3>7, DeliverReadySound
  <2> QED BY <2>2, <2>4, <2>5
<1>9. len = 0 \/ len = 1 \/ len = 2
  BY <1>1
<1> QED BY <1>5, <1>6, <1>7, <1>8, <1>9

\* The id of a frame tells whether it is behind the window.
LEMMA IdOfDelta ==
    ASSUME Context, NEW n \in 0 .. Len(sent), rx_base <= n + Lag
    PROVE  /\ IdOf(n) \in Id
           /\ rx_base <= n => RxDelta(srx, IdOf(n)) = n - rx_base
           /\ n < rx_base => RxDelta(srx, IdOf(n)) > RxWindow
<1> DEFINE l == Len(sent)
           id == srx.base_id
<1>1. /\ rx_base \in Nat /\ l \in Nat /\ n \in Nat /\ n <= l /\ l <= rx_base + RxWindow
      /\ RxWindow \in Nat \ {0} /\ 2 * RxWindow <= IdMod /\ IdMod \in Nat /\ IdMod > 1
      /\ Lag \in Nat /\ Lag + RxWindow < IdMod /\ id \in Id
  BY IdModAssumption, RxWindowAssumption, LagAssumption DEF Context, HistoryTypes
<1> HIDE DEF l, id
<1>2. CASE rx_base <= n
  <2> DEFINE k == n - rx_base
  <2>1. k \in 0 .. IdMod - 1 /\ IdOf(n) = WrappingAdd(id, k) /\ ~(n < rx_base)
    BY <1>1, <1>2 DEF IdOf, id
  <2> HIDE DEF k
  <2>2. IdOf(n) \in Id /\ WrappingSub(IdOf(n), id) = k
    BY <1>1, <2>1, AddSteps
  <2> QED BY <2>1, <2>2 DEF RxDelta, id, k
<1>3. CASE n < rx_base
  <2> DEFINE k == rx_base - n
  <2>1. k \in 1 .. Lag /\ k \in 0 .. IdMod - 1 /\ IdOf(n) = WrappingSub(id, k) /\ ~(rx_base <= n)
    BY <1>1, <1>3 DEF IdOf, id
  <2> HIDE DEF k
  <2>2. IdOf(n) \in Id /\ Ahead(IdOf(n), id, -k)
    BY <1>1, <2>1, AddSteps
  <2>3. -k \in Int /\ -IdMod < -k /\ -k < IdMod /\ ~(-k >= 0)
    BY <1>1, <2>1
  <2>4. WrappingSub(IdOf(n), id) = -k + IdMod
    BY <1>1, <2>2, <2>3, SubOfAhead
  <2>5. -k + IdMod > RxWindow
    BY <1>1, <2>1
  <2> QED BY <2>1, <2>2, <2>4, <2>5 DEF RxDelta, id
<1> QED BY <1>1, <1>2, <1>3

LEMMA StartIs ==
    ASSUME ReceiverSound
    PROVE  [srx EXCEPT !.out = <<>>] = srx
  BY DEF ReceiverSound, RxSound, RxType

\* receive: whatever arrives, at most Lag behind the window.
LEMMA ReceiveSound ==
    ASSUME Context, ReceiverSound, NEW n \in 0 .. Len(sent) - 1, rx_base <= n + Lag
    PROVE  LET rx == SegmentReceive(srx, [id |-> IdOf(n), nonce |-> sent[n + 1].nonce,
                                          data |-> n])
           IN  \E c : RxSound(rx, c) /\ Settled(rx, c)
<1> DEFINE s == [id |-> IdOf(n), nonce |-> sent[n + 1].nonce, data |-> n]
           rx == SegmentReceive(srx, s)
<1>1. n \in 0 .. Len(sent) /\ n \in Nat /\ Len(sent) \in Nat /\ rx_base \in Nat /\ RxWindow \in Nat
  BY RxWindowAssumption DEF Context, HistoryTypes
<1>2. /\ IdOf(n) \in Id
      /\ rx_base <= n => RxDelta(srx, IdOf(n)) = n - rx_base
      /\ n < rx_base => RxDelta(srx, IdOf(n)) > RxWindow
  BY <1>1, IdOfDelta
<1>3. s \in SlotType /\ s.id = IdOf(n) /\ s.data = n /\ s.nonce = sent[n + 1].nonce
  <2>1. sent[n + 1].nonce \in BOOLEAN
    <3>1. sent \in Seq([nonce : BOOLEAN, size : Nat]) /\ n + 1 \in 1 .. Len(sent)
      BY <1>1 DEF Context, HistoryTypes
    <3>2. sent[n + 1] \in [nonce : BOOLEAN, size : Nat]
      BY <3>1, ElementOfSeq
    <3> QED BY <3>2
  <2> QED BY <1>1, <1>2, <2>1 DEF SlotType
<1> HIDE DEF s
<1>4. rx = IF RxDelta(srx, IdOf(n)) < RxWindow THEN Accept(srx, s) ELSE srx
  BY <1>3, StartIs DEF SegmentReceive, Contains, RxDelta
<1>5. RxSound(srx, rx_base) /\ Settled(srx, rx_base)
  BY DEF ReceiverSound
<1>6. CASE rx_base <= n
  <2>1. IsSegment(s, srx, rx_base)
    BY <1>1, <1>2, <1>3, <1>6 DEF IsSegment
  <2>2. n - rx_base < RxWindow
    <3>1. Len(sent) <= rx_base + RxWindow
      BY DEF Context
    <3> QED BY <1>1, <3>1
  <2>3. rx = Accept(srx, s)
    BY <1>2, <1>4, <1>6, <2>2
  <2> HIDE DEF rx
  <2> QED BY <1>3, <1>5, <2>1, <2>3, AcceptSound DEF rx, s
<1>7. CASE n < rx_base
  <2>1. ~(RxDelta(srx, IdOf(n)) < RxWindow)
    <3>1. RxDelta(srx, IdOf(n)) \in Nat
      BY <1>2, SubType DEF RxDelta, Context
    <3> QED BY <1>1, <1>2, <1>7, <3>1
  <2>2. rx = srx
    BY <1>4, <2>1
  <2> HIDE DEF rx
  <2> QED BY <1>5, <2>2 DEF rx, s
<1> QED BY <1>1, <1>6, <1>7

\* Moving the base of an empty window from number b to m keeps the histories true.
LEMMA ShiftHistoryOK ==
    ASSUME NEW d \in Seq(Nat), NEW b \in Nat, NEW m \in Nat, b <= m, InOrder(d, b),
           NEW h \in SUBSET AllOnes(RxHistoryBits), NEW r, r = m - b
    PROVE  /\ Shl(h, r, RxHistoryBits) \in SUBSET AllOnes(RxHistoryBits)
           /\ HistoryOK(h, d, b) => HistoryOK(Shl(h, r, RxHistoryBits), d, m)
           /\ NoncesOK(h, d, b) => NoncesOK(Shl(h, r, RxHistoryBits), d, m)
           /\ InOrder(d, m)
<1> DEFINE x == Shl(h, r, RxHistoryBits)
<1>1. r \in Nat /\ h \in SUBSET Nat /\ RxHistoryBits \in Nat
  BY BitsType
<1>2. x \in SUBSET AllOnes(RxHistoryBits)
  BY <1>1, ShlType
<1>3. ASSUME NEW k \in AllOnes(RxHistoryBits)
      PROVE  /\ k \in Nat
             /\ k \in x <=> k >= r /\ k - r \in h
             /\ k >= r => k - r \in AllOnes(RxHistoryBits)
             /\ k >= r => b - 1 - (k - r) = m - 1 - k /\ b - (k - r) = m - k
             /\ k < r => ~Delivered(d, m - 1 - k)
  <2>1. k \in Nat /\ k < RxHistoryBits
    BY <1>1 DEF AllOnes
  <2>2. k >= r => k - r \in AllOnes(RxHistoryBits)
    BY <1>1, <2>1 DEF AllOnes
  <2>3. k >= r => b - 1 - (k - r) = m - 1 - k /\ b - (k - r) = m - k
    BY <1>1, <2>1
  <2>4. k \in x <=> k >= r /\ k - r \in h
    BY <1>1, ShlMember
  <2>5. k < r => ~Delivered(d, m - 1 - k)
    <3> SUFFICES ASSUME k < r, NEW i \in 1 .. Len(d), d[i] = m - 1 - k PROVE FALSE
      BY DEF Delivered
    <3>1. d[i] < b /\ d[i] \in Nat
      BY DEF InOrder
    <3> QED BY <1>1, <2>1, <3>1
  <2> QED BY <2>1, <2>2, <2>3, <2>4, <2>5
<1> HIDE DEF x
<1>4. ASSUME NEW k \in AllOnes(RxHistoryBits)
      PROVE  k >= r \/ k < r
  BY <1>1, <1>3
<1>5. HistoryOK(h, d, b) => HistoryOK(x, d, m)
  <2> SUFFICES ASSUME HistoryOK(h, d, b), NEW k \in AllOnes(RxHistoryBits)
               PROVE  k \in x <=> Delivered(d, m - 1 - k)
    BY DEF HistoryOK
  <2>1. CASE k >= r
    <3>1. k - r \in h <=> Delivered(d, b - 1 - (k - r))
      BY <1>3, <2>1 DEF HistoryOK
    <3> QED BY <1>3, <2>1, <3>1
  <2>2. CASE k < r
    <3>1. ~(k >= r)
      BY <1>1, <1>3, <2>2
    <3> QED BY <1>3, <2>2, <3>1
  <2> QED BY <1>4, <2>1, <2>2
<1>6. NoncesOK(h, d, b) => NoncesOK(x, d, m)
  <2> SUFFICES ASSUME NoncesOK(h, d, b), NEW k \in AllOnes(RxHistoryBits)
               PROVE  k \in x <=> Delivered(d, m - 1 - k) /\ sent[m - k].nonce
    BY DEF NoncesOK
  <2>1. CASE k >= r
    <3>1. k - r \in h <=> Delivered(d, b - 1 - (k - r)) /\ sent[b - (k - r)].nonce
      BY <1>3, <2>1 DEF NoncesOK
    <3> QED BY <1>3, <2>1, <3>1
  <2>2. CASE k < r
    <3>1. ~(k >= r)
      BY <1>1, <1>3, <2>2
    <3> QED BY <1>3, <2>2, <3>1
  <2> QED BY <1>4, <2>1, <2>2
<1>7. InOrder(d, m)
  <2>1. ASSUME NEW i \in 1 .. Len(d) PROVE d[i] < m
    <3>1. d[i] \in Nat /\ d[i] < b
      BY DEF InOrder
    <3> QED BY <3>1
  <2> QED BY <2>1 DEF InOrder
<1> QED BY <1>2, <1>5, <1>6, <1>7 DEF x

\* The last step of sync.
LEMMA MoveBaseSound ==
    ASSUME Context, NEW rx, NEW b, RxSound(rx, b), rx.slots = <<>>,
           NEW m \in b .. Len(sent), NEW id \in Id, RxDelta(srx, id) = m - rx_base
    PROVE  RxSound([rx EXCEPT !.rx_history    = Shl(@, RxDelta(rx, id), RxHistoryBits),
                              !.nonce_history = Shl(@, RxDelta(rx, id), RxHistoryBits),
                              !.base_id       = id], m)
<1> DEFINE r == RxDelta(rx, id)
           h == Shl(rx.rx_history, r, RxHistoryBits)
           c == Shl(rx.nonce_history, r, RxHistoryBits)
           rx2 == [rx EXCEPT !.rx_history = h, !.nonce_history = c, !.base_id = id]
           d == delivered \o rx.out
<1>1. /\ rx \in RxType /\ rx.base_id \in Id /\ rx.out \in Seq(Nat) /\ b \in Nat
      /\ rx_base \in Nat /\ Len(sent) \in Nat /\ b \in rx_base .. Len(sent) /\ m \in Nat
      /\ b <= m /\ rx_base <= b /\ srx.base_id \in Id /\ delivered \in Seq(Nat)
      /\ rx.rx_history \in SUBSET AllOnes(RxHistoryBits)
      /\ rx.nonce_history \in SUBSET AllOnes(RxHistoryBits)
  <2>1. rx \in RxType /\ rx.base_id \in Id /\ rx.out \in Seq(Nat) /\ b \in Nat
    BY SoundTypes
  <2>2. /\ rx_base \in Nat /\ Len(sent) \in Nat /\ b \in rx_base .. Len(sent)
        /\ srx.base_id \in Id /\ delivered \in Seq(Nat)
    BY DEF Context, HistoryTypes, RxSound
  <2>3. m \in Nat /\ b <= m /\ rx_base <= b
    BY <2>1, <2>2
  <2>4. /\ rx.rx_history \in SUBSET AllOnes(RxHistoryBits)
        /\ rx.nonce_history \in SUBSET AllOnes(RxHistoryBits)
    BY <2>1 DEF RxType
  <2> QED BY <2>1, <2>2, <2>3, <2>4
<1>2. r = m - b
  <2>1. WrappingSub(rx.base_id, srx.base_id) = b - rx_base /\ WrappingSub(id, srx.base_id) = m - rx_base
    BY DEF RxSound, RxDelta
  <2>2. b - rx_base <= m - rx_base /\ (m - rx_base) - (b - rx_base) = m - b
    BY <1>1
  <2>3. WrappingSub(id, rx.base_id) = (m - rx_base) - (b - rx_base)
    BY <1>1, <2>1, <2>2, SubShift
  <2> QED BY <2>2, <2>3 DEF RxDelta
<1>3. d \in Seq(Nat) /\ InOrder(d, b) /\ HistoryOK(rx.rx_history, d, b)
      /\ NoncesOK(rx.nonce_history, d, b)
  BY <1>1, ConcatProperties DEF RxSound
<1> HIDE DEF r, d
<1>4. /\ h \in SUBSET AllOnes(RxHistoryBits) /\ HistoryOK(h, d, m) /\ InOrder(d, m)
  BY <1>1, <1>2, <1>3, ShiftHistoryOK
<1>5. /\ c \in SUBSET AllOnes(RxHistoryBits) /\ NoncesOK(c, d, m)
  BY <1>1, <1>2, <1>3, ShiftHistoryOK
<1> HIDE DEF h, c
<1>6. /\ rx2 \in RxType /\ rx2.rx_history = h /\ rx2.nonce_history = c /\ rx2.base_id = id
      /\ rx2.slots = rx.slots /\ rx2.out = rx.out
  BY <1>1, <1>4, <1>5 DEF RxType
<1> HIDE DEF rx2
<1>7. SlotsInOrder(rx2, m)
  <2>1. Len(rx2.slots) = 0
    BY <1>6
  <2> QED BY <2>1 DEF SlotsInOrder
<1>8. m \in rx_base .. Len(sent) /\ RxDelta(srx, rx2.base_id) = m - rx_base
  BY <1>1, <1>6
<1>9. RxSound(rx2, m)
  BY <1>4, <1>5, <1>6, <1>7, <1>8 DEF RxSound, d
<1> QED BY <1>9 DEF rx2, h, c, r

\* One slot less, as sync empties them: nothing in the slots reaches number m.
LEMMA FlushSlotSound ==
    ASSUME Context, NEW rx, NEW b, RxSound(rx, b), NEW m \in Nat, b <= m,
           \A i \in 1 .. Len(rx.slots) : rx.slots[i].data < m
    PROVE  LET r == IF rx.slots = <<>> THEN rx ELSE DeliverSlot(rx)
           IN  \E c : /\ RxSound(r, c) /\ c <= m
                      /\ \A i \in 1 .. Len(r.slots) : r.slots[i].data < m
                      /\ Len(r.slots) = 0 \/ Len(r.slots) < Len(rx.slots)
<1>1. CASE rx.slots = <<>>
  <2>1. Len(rx.slots) = 0
    BY <1>1
  <2> QED BY <1>1, <2>1
<1>2. CASE rx.slots # <<>>
  <2> DEFINE r == DeliverSlot(rx)
             c == rx.slots[1].data + 1
  <2>1. RxSound(r, c) /\ r.slots = Tail(rx.slots)
    BY <1>2, DeliverSlotSound
  <2>2. /\ rx.slots \in Seq(SlotType) /\ Len(rx.slots) \in Nat
        /\ 1 \in 1 .. Len(rx.slots) /\ rx.slots[1].data \in Nat
    BY <1>2, SoundTypes
  <2>3. rx.slots[1].data < m
    BY <2>2
  <2>4. c <= m
    BY <2>2, <2>3
  <2>5. /\ Len(Tail(rx.slots)) = Len(rx.slots) - 1
        /\ \A i \in 1 .. Len(Tail(rx.slots)) : Tail(rx.slots)[i] = rx.slots[i + 1]
    BY <1>2, <2>2, HeadTailProperties
  <2>6. ASSUME NEW i \in 1 .. Len(r.slots) PROVE r.slots[i].data < m
    <3>1. i + 1 \in 1 .. Len(rx.slots) /\ r.slots[i] = rx.slots[i + 1]
      BY <2>1, <2>2, <2>5
    <3> QED BY <3>1
  <2>7. Len(r.slots) < Len(rx.slots)
    BY <2>1, <2>2, <2>5
  <2> HIDE DEF r, c
  <2>8. \E x : /\ RxSound(r, x) /\ x <= m
               /\ \A i \in 1 .. Len(r.slots) : r.slots[i].data < m
               /\ Len(r.slots) = 0 \/ Len(r.slots) < Len(rx.slots)
    BY <2>1, <2>4, <2>6, <2>7
  <2> QED BY <1>2, <2>8 DEF r
<1> QED BY <1>1, <1>2

\* sync: whatever arrives, at most Lag behind the window.
LEMMA SyncSound ==
    ASSUME Context, ReceiverSound, NEW m \in 0 .. Len(sent), rx_base <= m + Lag
    PROVE  LET rx == SegmentSync(srx, IdOf(m))
           IN  \E c : RxSound(rx, c) /\ Settled(rx, c)
<1> DEFINE id == IdOf(m)
           rx == SegmentSync(srx, id)
<1>1. m \in Nat /\ Len(sent) \in Nat /\ rx_base \in Nat /\ RxWindow \in Nat
  BY RxWindowAssumption DEF Context, HistoryTypes
<1>2. /\ id \in Id
      /\ rx_base <= m => RxDelta(srx, id) = m - rx_base
      /\ m < rx_base => RxDelta(srx, id) > RxWindow
  BY <1>1, IdOfDelta
<1>3. RxSound(srx, rx_base) /\ Settled(srx, rx_base)
  BY DEF ReceiverSound
<1>4. rx = IF SyncAccepted(srx, id) THEN Resync(srx, id) ELSE srx
  BY StartIs DEF SegmentSync
<1> HIDE DEF id
<1>5. CASE ~SyncAccepted(srx, id)
  BY <1>3, <1>4, <1>5 DEF id
<1>6. CASE SyncAccepted(srx, id)
  <2>1. /\ RxDelta(srx, id) > SyncMinDelta(srx) /\ RxDelta(srx, id) <= RxWindow
        /\ RxDelta(srx, id) \in Nat
    BY <1>2, <1>6, SubType DEF SyncAccepted, RxDelta, Context
  <2>2. rx_base <= m /\ RxDelta(srx, id) = m - rx_base
    <3>1. ~(m < rx_base)
      BY <1>1, <1>2, <2>1
    <3> QED BY <1>1, <1>2, <3>1
  <2>3. ASSUME NEW i \in 1 .. Len(srx.slots)
        PROVE  srx.slots[i].data < m
    <3> DEFINE l == Len(srx.slots)
    <3>1. /\ l \in 0 .. 2 /\ srx.slots[i].data \in Nat /\ l \in 1 .. l
          /\ srx.slots[l].data \in Nat
      <4>1. l \in 0 .. 2 /\ srx.slots[i].data \in Nat
        BY <1>3, SoundTypes
      <4>2. l \in 1 .. l
        BY <4>1
      <4> QED BY <1>3, <4>1, <4>2, SoundTypes
    <3>2. RxDelta(srx, srx.slots[l].id) = srx.slots[l].data - rx_base
      BY <1>3, <3>1, SoundTypes DEF IsSegment
    <3>3. srx.slots # <<>>
      <4>1. Len(<<>>) = 0
        OBVIOUS
      <4> QED BY <4>1
    <3>4. SyncMinDelta(srx) = srx.slots[l].data - rx_base
      BY <3>2, <3>3 DEF SyncMinDelta
    <3>5. srx.slots[l].data < m
      <4> DEFINE x == srx.slots[l].data
      <4>1. x \in Nat /\ m - rx_base > x - rx_base
        BY <2>1, <2>2, <3>1, <3>4
      <4> HIDE DEF x
      <4>2. x < m
        BY <1>1, <4>1
      <4> QED BY <4>2 DEF x
    <3>6. CASE i = l
      BY <3>5, <3>6
    <3>7. CASE i # l
      <4>1. i = 1 /\ l = 2
        BY <3>1, <3>7
      <4>2. srx.slots[1].data < srx.slots[2].data
        BY <1>3, <4>1 DEF RxSound, SlotsInOrder
      <4> QED BY <1>1, <3>1, <3>5, <4>1, <4>2
    <3> QED BY <3>6, <3>7
  <2> DEFINE r1 == IF srx.slots = <<>> THEN srx ELSE DeliverSlot(srx)
             r2 == IF r1.slots = <<>> THEN r1 ELSE DeliverSlot(r1)
             r3 == [r2 EXCEPT !.rx_history    = Shl(@, RxDelta(r2, id), RxHistoryBits),
                              !.nonce_history = Shl(@, RxDelta(r2, id), RxHistoryBits),
                              !.base_id       = id]
  <2>4. rx = r3
    BY <1>4, <1>6 DEF Resync
  <2>5. PICK b1 : /\ RxSound(r1, b1) /\ b1 <= m
                  /\ \A i \in 1 .. Len(r1.slots) : r1.slots[i].data < m
                  /\ Len(r1.slots) = 0 \/ Len(r1.slots) < Len(srx.slots)
    BY <1>1, <1>3, <2>2, <2>3, FlushSlotSound
  <2> HIDE DEF r1
  <2>6. PICK b2 : /\ RxSound(r2, b2) /\ b2 <= m
                  /\ \A i \in 1 .. Len(r2.slots) : r2.slots[i].data < m
                  /\ Len(r2.slots) = 0 \/ Len(r2.slots) < Len(r1.slots)
    BY <1>1, <2>5, FlushSlotSound
  <2> HIDE DEF r2
  <2>7. r2.slots = <<>> /\ b2 \in Nat
    <3>1. /\ Len(srx.slots) \in 0 .. 2 /\ Len(r1.slots) \in 0 .. 2 /\ Len(r2.slots) \in 0 .. 2
          /\ r2.slots \in Seq(SlotType) /\ b2 \in Nat
      BY <1>3, <2>5, <2>6, SoundTypes
    <3>2. Len(r2.slots) = 0
      BY <2>5, <2>6, <3>1
    <3> QED BY <3>1, <3>2, EmptySeq
  <2>8. RxSound(r3, m)
    <3>1. m \in b2 .. Len(sent)
      BY <1>1, <2>6, <2>7
    <3> QED BY <1>2, <2>2, <2>6, <2>7, <3>1, MoveBaseSound
  <2>9. Settled(r3, m)
    <3>1. r3.slots = r2.slots
      <4>1. r2 \in RxType
        BY <2>6, SoundTypes
      <4> QED BY <4>1 DEF RxType
    <3>2. Len(r3.slots) = 0
      BY <2>7, <3>1
    <3> HIDE DEF r3
    <3> QED BY <3>2 DEF Settled
  <2> QED BY <2>4, <2>8, <2>9 DEF id
<1> QED BY <1>5, <1>6

-----------------------------------------------------------------------------
(* The sender's rings *)

LEMMA TxConstants ==
    /\ TxWindow \in Nat /\ TxWindow > 0 /\ TxWindow < IdMod /\ IdMod \in Nat /\ IdMod > 1
    /\ WordBits \in Nat /\ WordBits > 0 /\ HistoryBits \in Nat /\ HistoryBits > 0
    /\ HistoryBits < WordBits /\ AckBits \in Nat /\ AckBits <= HistoryBits
    /\ TxWindow <= RxWindow /\ RxWindow \in Nat /\ 2 * RxWindow <= IdMod
    /\ TxWindow % WordBits = 0 /\ IdMod % TxWindow = 0
  BY IdModAssumption, TxWindowAssumption, RxWindowAssumption, RxHistoryAssumption,
     SegmentLinkAssumption

\* A turn of the ids is a whole number of turns of the rings, and of words.
LEMMA RingTurns ==
    /\ \E c \in Int : IdMod = TxWindow * c
    /\ \E c \in Int : c >= 2 /\ IdMod = WordBits * c
<1>1. IdMod = TxWindow * (IdMod \div TxWindow) /\ IdMod \div TxWindow \in Int
  <2>1. /\ IdMod = (TxWindow * (IdMod \div TxWindow)) + (IdMod % TxWindow)
        /\ IdMod \div TxWindow \in Int
    BY TxConstants, DivMod
  <2> QED BY <2>1, TxConstants
<1> DEFINE e == IdMod \div TxWindow
           m == TxWindow \div WordBits
<1>2. TxWindow = WordBits * m /\ m \in Nat /\ m > 0
  BY TxConstants, ModNested
<1> HIDE DEF e, m
<1>3. e \in Int /\ IdMod = TxWindow * e
  BY <1>1 DEF e
<1>4. e >= 2
  <2> SUFFICES ASSUME e <= 1 PROVE FALSE
    BY <1>3
  <2>1. TxWindow * e <= TxWindow
    BY <1>3, TxConstants
  <2> QED BY <1>3, <2>1, TxConstants
<1>5. m * e >= 2 /\ m * e \in Int
  <2>1. m * e >= e
    BY <1>2, <1>3, <1>4
  <2> QED BY <1>2, <1>3, <1>4, <2>1
<1>6. IdMod = WordBits * (m * e)
  BY <1>2, <1>3, TxConstants
<1> QED BY <1>3, <1>5, <1>6

LEMMA RingPosition ==
    ASSUME NEW id \in Id
    PROVE  /\ id \in Nat
           /\ id % TxWindow \in 0 .. TxWindow - 1
           /\ NonceWord(id) \in 0 .. (TxWindow \div WordBits) - 1
           /\ id % WordBits \in 0 .. WordBits - 1
           /\ NonceWord(id) = (id % TxWindow) \div WordBits
           /\ id % WordBits = (id % TxWindow) % WordBits
<1>1. id \in Nat
  BY TxConstants DEF Id
<1> QED BY <1>1, TxConstants, DivMod, ModNested DEF NonceWord

\* Ids less than a window apart have different places in both rings.
LEMMA RingDistinct ==
    ASSUME NEW a \in Id, NEW b \in Id, WrappingSub(b, a) \in 1 .. TxWindow - 1
    PROVE  /\ a % TxWindow # b % TxWindow
           /\ ~(NonceWord(a) = NonceWord(b) /\ a % WordBits = b % WordBits)
<1> DEFINE d == WrappingSub(b, a)
<1>1. a \in Nat /\ b \in Nat /\ d \in Nat /\ 1 <= d /\ d < TxWindow
  BY RingPosition, TxConstants
<1>2. PICK c \in Int : IdMod = TxWindow * c
  BY RingTurns
<1>3. b = a + d \/ b = (a + d) - IdMod
  BY <1>1, TxConstants DEF WrappingSub
<1> HIDE DEF d
<1>4. b % TxWindow = (a + d) % TxWindow
  <2>1. CASE b = a + d
    BY <2>1
  <2>2. CASE b = (a + d) - IdMod
    <3>1. TxWindow * (-c) = -IdMod /\ -c \in Int
      BY <1>2, TxConstants
    <3>2. b = (a + d) + TxWindow * (-c)
      BY <1>1, <2>2, <3>1, TxConstants
    <3>3. a + d \in Int
      BY <1>1
    <3> QED BY <3>1, <3>2, <3>3, TxConstants, ModAdd
  <2> QED BY <1>3, <2>1, <2>2
<1>5. a % TxWindow # (a + d) % TxWindow
  <2> DEFINE x == a + d
  <2>1. a \in Int /\ x \in Int /\ a < x /\ x - a < TxWindow
    BY <1>1, TxConstants
  <2> HIDE DEF x
  <2>2. a % TxWindow # x % TxWindow
    BY <2>1, TxConstants, ModDistinct
  <2> QED BY <2>2 DEF x
<1>6. ASSUME NonceWord(a) = NonceWord(b), a % WordBits = b % WordBits
      PROVE  FALSE
  <2> DEFINE x == a % TxWindow
             y == b % TxWindow
  <2>1. /\ x \in Int /\ y \in Int /\ x \div WordBits = y \div WordBits
        /\ x % WordBits = y % WordBits
    BY <1>6, RingPosition
  <2> HIDE DEF x, y
  <2>2. /\ x = (WordBits * (x \div WordBits)) + (x % WordBits)
        /\ y = (WordBits * (y \div WordBits)) + (y % WordBits)
    BY <2>1, TxConstants, DivMod
  <2>3. x = y
    BY <2>1, <2>2
  <2> QED BY <1>4, <1>5, <2>3 DEF x, y
<1> QED BY <1>4, <1>5, <1>6

\* The bits of the ids just before p, in its word and in the previous one.
LEMMA BackInWord ==
    ASSUME NEW p \in Id
    PROVE  \E prev \in Int :
             /\ prev # p \div WordBits
             /\ \A k \in 0 .. WordBits - 1 :
                  /\ WrappingSub(p, k + 1) \in Id
                  /\ k < p % WordBits =>
                        /\ WrappingSub(p, k + 1) % WordBits = ((p % WordBits) - 1) - k
                        /\ WrappingSub(p, k + 1) \div WordBits = p \div WordBits
                  /\ k >= p % WordBits =>
                        /\ WrappingSub(p, k + 1) % WordBits
                               = (WordBits - 1) - (k - (p % WordBits))
                        /\ WrappingSub(p, k + 1) \div WordBits = prev
<1> DEFINE q == p \div WordBits
           r == p % WordBits
<1>1. PICK c \in Int : c >= 2 /\ IdMod = WordBits * c
  BY RingTurns
<1>2. p \in Nat /\ p < IdMod /\ q \in Int /\ r \in 0 .. WordBits - 1 /\ p = (WordBits * q) + r
  <2>1. p \in Nat /\ p < IdMod
    BY TxConstants DEF Id
  <2> QED BY <2>1, TxConstants, DivMod
<1> DEFINE prev == IF q = 0 THEN c - 1 ELSE q - 1
<1> HIDE DEF q, r
<1>3. q >= 0
  <2> SUFFICES ASSUME q <= -1 PROVE FALSE
    BY <1>2
  <2>1. WordBits * q <= -WordBits
    BY <1>2, TxConstants
  <2> QED BY <1>2, <2>1, TxConstants
<1>4. prev \in Int /\ prev # q
  BY <1>1, <1>2, <1>3
<1>5. /\ q = 0 => WordBits * q = 0
      /\ q # 0 => WordBits * q >= WordBits
      /\ WordBits * (c - 1) = IdMod - WordBits
      /\ WordBits * (q - 1) = (WordBits * q) - WordBits
      /\ WordBits * q \in Int
  BY <1>1, <1>2, <1>3, TxConstants
<1>6. ASSUME NEW k \in 0 .. WordBits - 1
      PROVE  /\ WrappingSub(p, k + 1) \in Id
             /\ k < r => /\ WrappingSub(p, k + 1) % WordBits = (r - 1) - k
                         /\ WrappingSub(p, k + 1) \div WordBits = q
             /\ k >= r => /\ WrappingSub(p, k + 1) % WordBits = (WordBits - 1) - (k - r)
                          /\ WrappingSub(p, k + 1) \div WordBits = prev
  <2> DEFINE id == WrappingSub(p, k + 1)
             wq == WordBits * q
  <2>0. WordBits <= IdMod /\ k \in Nat /\ k < WordBits
    BY <1>1, TxConstants
  <2>1. id \in Id
    <3>1. k + 1 \in Nat /\ k + 1 <= IdMod
      BY <2>0, TxConstants
    <3> QED BY <1>2, <3>1, TxConstants DEF Id, WrappingSub
  <2>2. CASE k < r
    <3>1. wq \in Int /\ p = wq + r /\ wq >= 0
      BY <1>2, <1>3, <1>5, TxConstants
    <3> HIDE DEF wq
    <3>2. p >= k + 1 /\ id = wq + ((r - 1) - k) /\ (r - 1) - k \in 0 .. WordBits - 1
      BY <1>2, <2>0, <2>2, <3>1, TxConstants DEF WrappingSub
    <3>3. id = (WordBits * q) + ((r - 1) - k) /\ id \in Int
      BY <3>2, <2>1, TxConstants DEF wq, Id
    <3> HIDE DEF id
    <3>4. id % WordBits = (r - 1) - k /\ id \div WordBits = q
      BY <1>2, <3>2, <3>3, TxConstants, DivModUnique
    <3> QED BY <2>1, <2>2, <3>4, <1>2, <2>0 DEF id
  <2>3. CASE k >= r
    <3> DEFINE s == (WordBits - 1) - (k - r)
               wp == WordBits * prev
    <3>1. s \in 0 .. WordBits - 1 /\ s = WordBits - 1 - k + r
      BY <1>2, <2>0, <2>3, TxConstants
    <3>2. id = wp + s
      <4>1. CASE q = 0
        <5>1. wp = IdMod - WordBits /\ p = r
          BY <4>1, <1>5, <1>2
        <5>2. p < k + 1
          BY <5>1, <1>2, <2>3, <2>0
        <5> QED BY <5>1, <5>2, <1>2, <2>0, TxConstants DEF WrappingSub
      <4>2. CASE q # 0
        <5>1. wp = wq - WordBits /\ wq >= WordBits /\ p = wq + r /\ wq \in Int
          BY <4>2, <1>5, <1>2
        <5> HIDE DEF wp, wq
        <5>2. p >= k + 1
          BY <5>1, <1>2, <2>0, TxConstants
        <5> QED BY <5>1, <5>2, <1>2, <2>0, TxConstants DEF WrappingSub
      <4> QED BY <4>1, <4>2
    <3> HIDE DEF s, id
    <3>3. id \in Int
      BY <2>1, TxConstants DEF Id
    <3>4. id = (WordBits * prev) + s
      BY <3>2 DEF wp
    <3> HIDE DEF prev, wp
    <3>5. id % WordBits = s /\ id \div WordBits = prev
      BY <1>4, <3>1, <3>3, <3>4, TxConstants, DivModUnique
    <3> QED BY <2>1, <2>3, <3>5, <1>2, <2>0 DEF id, s
  <2> QED BY <2>2, <2>3, <2>0, <1>2
<1> HIDE DEF prev
<1> QED BY <1>4, <1>6 DEF q, r

LEMMA ShrMember ==
    ASSUME NEW x \in SUBSET Nat, NEW n \in Nat, NEW k \in Nat
    PROVE  k \in Shr(x, n) <=> k + n \in x
<1>1. ASSUME k \in Shr(x, n) PROVE k + n \in x
  <2>1. PICK b \in x : b >= n /\ k = b - n
    BY <1>1 DEF Shr
  <2>2. b \in Nat /\ k + n = b
    BY <2>1
  <2> QED BY <2>1, <2>2
<1>2. ASSUME k + n \in x PROVE k \in Shr(x, n)
  <2>1. k + n >= n /\ k = (k + n) - n
    OBVIOUS
  <2> QED BY <1>2, <2>1 DEF Shr
<1> QED BY <1>1, <1>2

\* What compute_next_nonce wrote is what update_nonce_history cuts out, from one word or
\* from two, whatever the alignment.
LEMMA NewNoncesMember ==
    ASSUME NEW tx \in SegmentTxType, NEW nb \in 1 .. HistoryBits, NEW p \in Id,
           NEW k \in AllOnes(HistoryBits)
    PROVE  k \in NewNonces(tx, nb, p) <=> k < nb /\ NonceAt(tx, WrappingSub(p, k + 1))
<1> DEFINE pb == p % WordBits
           p0 == WrappingSub(p, nb)
           A == tx.nonce_buf[NonceWord(p0)]
           B == tx.nonce_buf[NonceWord(p)]
           id == WrappingSub(p, k + 1)
<1>1. PICK prev \in Int :
             /\ prev # p \div WordBits
             /\ \A j \in 0 .. WordBits - 1 :
                  /\ WrappingSub(p, j + 1) \in Id
                  /\ j < pb =>
                        /\ WrappingSub(p, j + 1) % WordBits = (pb - 1) - j
                        /\ WrappingSub(p, j + 1) \div WordBits = p \div WordBits
                  /\ j >= pb =>
                        /\ WrappingSub(p, j + 1) % WordBits = (WordBits - 1) - (j - pb)
                        /\ WrappingSub(p, j + 1) \div WordBits = prev
  BY BackInWord
<1>2. /\ pb \in Nat /\ pb < WordBits /\ k \in Nat /\ k < HistoryBits /\ nb \in Nat /\ nb >= 1
      /\ nb <= HistoryBits /\ k \in 0 .. WordBits - 1 /\ nb - 1 \in 0 .. WordBits - 1
      /\ (nb - 1) + 1 = nb
  BY TxConstants, RingPosition DEF AllOnes
<1> HIDE DEF pb
<1>3. /\ nb - 1 < pb => p0 \div WordBits = p \div WordBits
      /\ nb - 1 >= pb => p0 \div WordBits = prev
      /\ p0 \in Id /\ id \in Id
  BY <1>1, <1>2
<1>4. /\ k < pb => /\ id % WordBits = (pb - 1) - k
                   /\ NonceWord(id) = NonceWord(p)
      /\ k >= pb => /\ id % WordBits = (WordBits - 1) - (k - pb)
                    /\ nb - 1 >= pb => NonceWord(id) = NonceWord(p0)
  BY <1>1, <1>2, <1>3 DEF NonceWord
<1>5. A \in SUBSET AllOnes(WordBits) /\ B \in SUBSET AllOnes(WordBits)
  BY <1>3, RingPosition DEF SegmentTxType
<1>6. A \in SUBSET Nat /\ B \in SUBSET Nat
  BY <1>5, TxConstants DEF AllOnes
<1>7. /\ k < pb => (NonceAt(tx, id) <=> k + (WordBits - pb) \in B)
      /\ k >= pb /\ nb - 1 >= pb => (NonceAt(tx, id) <=> k - pb \in A)
  <2>1. CASE k < pb
    <3>1. (WordBits - 1) - ((pb - 1) - k) = k + (WordBits - pb)
      BY <1>2, TxConstants
    <3>2. NonceAt(tx, id) <=> (WordBits - 1) - ((pb - 1) - k) \in B
      BY <1>4, <2>1 DEF NonceAt
    <3>3. ~(k >= pb)
      BY <2>1, <1>2
    <3> QED BY <3>1, <3>2, <3>3
  <2>2. CASE k >= pb
    <3>1. (WordBits - 1) - ((WordBits - 1) - (k - pb)) = k - pb
      BY <1>2, TxConstants
    <3>2. nb - 1 >= pb => (NonceAt(tx, id) <=> (WordBits - 1) - ((WordBits - 1) - (k - pb)) \in A)
      BY <1>4, <2>2 DEF NonceAt
    <3>3. ~(k < pb)
      BY <2>2, <1>2
    <3> QED BY <3>1, <3>2, <3>3
  <2> QED BY <2>1, <2>2, <1>2
<1> HIDE DEF A, B, id, p0
<1>8. WordBits - pb \in Nat
  BY <1>2, TxConstants
<1>9. k \in Shr(B, WordBits - pb) <=> k + (WordBits - pb) \in B
  BY <1>2, <1>6, <1>8, ShrMember
<1>10. CASE p0 \div WordBits = p \div WordBits
  <2>1. NewNonces(tx, nb, p) = Low(Shr(B, WordBits - pb), nb)
    BY <1>10 DEF NewNonces, A, B, p0, pb
  <2>2. nb - 1 < pb
    BY <1>1, <1>2, <1>3, <1>10
  <2>3. k < nb => k < pb
    BY <1>2, <2>2
  <2> QED BY <1>7, <1>9, <2>1, <2>3 DEF Low, id
<1>11. CASE p0 \div WordBits # p \div WordBits
  <2>1. nb - 1 >= pb
    BY <1>2, <1>3, <1>11
  <2>2. CASE pb = 0
    <3>1. NewNonces(tx, nb, p) = Low(A, nb)
      BY <1>11, <2>2 DEF NewNonces, A, B, p0, pb
    <3>2. k >= pb /\ k - pb = k
      BY <1>2, <2>2
    <3> QED BY <1>7, <2>1, <3>1, <3>2 DEF Low, id
  <2>3. CASE pb # 0
    <3> DEFINE X == Low(A, nb - pb)
    <3>1. NewNonces(tx, nb, p)
             = Low(Shr(B, WordBits - pb), pb) \cup Shl(X, pb, HistoryBits)
      BY <1>11, <2>3 DEF NewNonces, A, B, p0, pb
    <3>2. X \in SUBSET Nat
      BY <1>6 DEF Low
    <3>3. k \in Shl(X, pb, HistoryBits) <=> k >= pb /\ k - pb \in X
      <4> HIDE DEF X
      <4> QED BY <1>2, <3>2, TxConstants, ShlMember
    <3>4. k - pb \in X <=> k - pb \in A /\ k - pb < nb - pb
      BY DEF Low
    <3>5. k - pb < nb - pb <=> k < nb
      BY <1>2
    <3>6. (k < pb <=> ~(k >= pb)) /\ (k < pb => k < nb)
      BY <1>2, <2>1
    <3>7. k \in Low(Shr(B, WordBits - pb), pb) <=> k \in Shr(B, WordBits - pb) /\ k < pb
      BY DEF Low
    <3> HIDE DEF X
    <3> QED BY <1>7, <1>9, <2>1, <3>1, <3>3, <3>4, <3>5, <3>6, <3>7 DEF id
  <2> QED BY <2>2, <2>3
<1> QED BY <1>10, <1>11

\* compute_next_nonce and mark_sent write one place of each ring.
LEMMA SendFields ==
    ASSUME NEW tx \in SegmentTxType, NEW nonce \in BOOLEAN, NEW size \in Nat
    PROVE  LET tx2 == MarkSent(StoreNonce(tx, nonce), size)
           IN  /\ tx2 \in SegmentTxType
               /\ tx2.base_id = tx.base_id /\ tx2.next_id = WrappingAdd(tx.next_id, 1)
               /\ tx2.transit_total = tx.transit_total + size
               /\ tx2.ack_history = tx.ack_history /\ tx2.nonce_history = tx.nonce_history
               /\ tx2.transit_buf[tx.next_id % TxWindow] = size
               /\ NonceAt(tx2, tx.next_id) <=> nonce
               /\ \A id \in Id : WrappingSub(tx.next_id, id) \in 1 .. TxWindow - 1 =>
                     /\ tx2.transit_buf[id % TxWindow] = tx.transit_buf[id % TxWindow]
                     /\ NonceAt(tx2, id) <=> NonceAt(tx, id)
<1> DEFINE tx1 == StoreNonce(tx, nonce)
           tx2 == MarkSent(tx1, size)
           next == tx.next_id
           w == NonceWord(next)
           bit == (WordBits - 1) - (next % WordBits)
           old == tx.nonce_buf[w]
           word == IF nonce THEN old \cup {bit} ELSE old \ {bit}
           nbuf == [tx.nonce_buf EXCEPT ![w] = word]
           tbuf == [tx.transit_buf EXCEPT ![next % TxWindow] = size]
<1>1. /\ tx.base_id \in Id /\ next \in Id /\ tx.transit_total \in Nat
      /\ tx.transit_buf \in [0 .. TxWindow - 1 -> Nat]
      /\ tx.nonce_buf \in [0 .. TxWindow \div WordBits - 1 -> SUBSET AllOnes(WordBits)]
      /\ tx.ack_history \in SUBSET AllOnes(HistoryBits)
      /\ tx.nonce_history \in SUBSET AllOnes(HistoryBits)
  BY DEF SegmentTxType
<1>2. /\ next % TxWindow \in 0 .. TxWindow - 1
      /\ w \in 0 .. (TxWindow \div WordBits) - 1
      /\ next % WordBits \in 0 .. WordBits - 1
  BY <1>1, RingPosition
<1>3. bit \in AllOnes(WordBits) /\ old \in SUBSET AllOnes(WordBits)
  <2>1. \A x \in 0 .. WordBits - 1 : (WordBits - 1) - x \in 0 .. WordBits - 1
    BY TxConstants
  <2> QED BY <1>1, <1>2, <2>1 DEF AllOnes
<1>4. word \in SUBSET AllOnes(WordBits)
  BY <1>3
<1>5. /\ tx1.base_id = tx.base_id /\ tx1.next_id = next /\ tx1.transit_buf = tx.transit_buf
      /\ tx1.nonce_buf = nbuf /\ tx1.transit_total = tx.transit_total
      /\ tx1.ack_history = tx.ack_history /\ tx1.nonce_history = tx.nonce_history
      /\ tx1 \in SegmentTxType
  <2> HIDE DEF word
  <2>1. nbuf \in [0 .. TxWindow \div WordBits - 1 -> SUBSET AllOnes(WordBits)]
    BY <1>1, <1>4
  <2>2. tx1 = [tx EXCEPT !.nonce_buf = nbuf]
    BY DEF StoreNonce, SegmentTxType, word
  <2> HIDE DEF tx1, nbuf
  <2> QED BY <1>1, <2>1, <2>2 DEF SegmentTxType
<1>6. /\ tx2.base_id = tx.base_id /\ tx2.next_id = WrappingAdd(next, 1)
      /\ tx2.transit_buf = tbuf
      /\ tx2.nonce_buf = nbuf /\ tx2.transit_total = tx.transit_total + size
      /\ tx2.ack_history = tx.ack_history /\ tx2.nonce_history = tx.nonce_history
      /\ tx2 \in SegmentTxType
  <2>1. tbuf \in [0 .. TxWindow - 1 -> Nat]
    BY <1>1, <1>2
  <2>2. WrappingAdd(next, 1) \in Id
    BY <1>1, AddType
  <2>3. tx2 = [tx1 EXCEPT !.transit_buf = tbuf, !.transit_total = tx.transit_total + size,
                          !.next_id = WrappingAdd(next, 1)]
    <3> HIDE DEF tx1, nbuf
    <3> QED BY <1>5 DEF MarkSent, SegmentTxType
  <2>4. tx.transit_total + size \in Nat
    BY <1>1
  <2> HIDE DEF tx1, tx2, tbuf, nbuf
  <2> QED BY <1>5, <2>1, <2>2, <2>3, <2>4 DEF SegmentTxType
<1> HIDE DEF tx2
<1>7. tx2.transit_buf[next % TxWindow] = size
  BY <1>1, <1>2, <1>6
<1>8. NonceAt(tx2, next) <=> nonce
  <2>1. nbuf[w] = word
    BY <1>1, <1>2
  <2> HIDE DEF nbuf
  <2> QED BY <1>6, <2>1 DEF NonceAt
<1>9. ASSUME NEW id \in Id, WrappingSub(next, id) \in 1 .. TxWindow - 1
      PROVE  /\ tx2.transit_buf[id % TxWindow] = tx.transit_buf[id % TxWindow]
             /\ NonceAt(tx2, id) <=> NonceAt(tx, id)
  <2>1. /\ id % TxWindow # next % TxWindow
        /\ ~(NonceWord(id) = w /\ id % WordBits = next % WordBits)
    BY <1>1, <1>9, RingDistinct
  <2>2. /\ id % TxWindow \in 0 .. TxWindow - 1
        /\ NonceWord(id) \in 0 .. (TxWindow \div WordBits) - 1
        /\ id % WordBits \in 0 .. WordBits - 1
    BY RingPosition
  <2>3. tx2.transit_buf[id % TxWindow] = tx.transit_buf[id % TxWindow]
    BY <1>1, <1>6, <2>1, <2>2
  <2> DEFINE b == (WordBits - 1) - (id % WordBits)
  <2>4. id % WordBits # next % WordBits => b # bit
    <3>1. \A x, y \in 0 .. WordBits - 1 : x # y => (WordBits - 1) - x # (WordBits - 1) - y
      BY TxConstants
    <3> QED BY <1>2, <2>2, <3>1
  <2> HIDE DEF b, bit
  <2>5. CASE NonceWord(id) # w
    <3>1. nbuf[NonceWord(id)] = tx.nonce_buf[NonceWord(id)]
      BY <1>1, <2>2, <2>5
    <3> HIDE DEF nbuf
    <3> QED BY <1>6, <2>3, <3>1 DEF NonceAt
  <2>6. CASE NonceWord(id) = w
    <3>1. nbuf[w] = word
      BY <1>1, <1>2
    <3>2. b \in word <=> b \in old
      BY <2>1, <2>4, <2>6
    <3> HIDE DEF nbuf, word
    <3>3. NonceAt(tx2, id) <=> b \in word
      BY <1>6, <2>6, <3>1 DEF NonceAt, b
    <3>4. NonceAt(tx, id) <=> b \in old
      BY <2>6 DEF NonceAt, b
    <3> QED BY <2>3, <3>2, <3>3, <3>4
  <2> QED BY <2>5, <2>6
<1> QED BY <1>6, <1>7, <1>8, <1>9 DEF tx2

\* acknowledge, field by field.
LEMMA AdvanceFields ==
    ASSUME NEW tx \in SegmentTxType, NEW id \in Id,
           tx.transit_total - OldestBytes(tx, WrappingSub(id, tx.base_id)) \in Nat
    PROVE  LET d == WrappingSub(id, tx.base_id)
               tx2 == AdvanceBase(tx, id)
           IN  /\ tx2 \in SegmentTxType
               /\ tx2.base_id = id /\ tx2.next_id = tx.next_id
               /\ tx2.transit_buf = tx.transit_buf /\ tx2.nonce_buf = tx.nonce_buf
               /\ tx2.ack_history = tx.ack_history
               /\ tx2.transit_total = tx.transit_total - OldestBytes(tx, d)
               /\ d = 0 => tx2.nonce_history = tx.nonce_history
               /\ d # 0 => tx2.nonce_history = UpdateNonceHistory(tx, d, id)
<1> DEFINE d == WrappingSub(id, tx.base_id)
           tx2 == AdvanceBase(tx, id)
           total == tx.transit_total - OldestBytes(tx, d)
           nh == IF d = 0 THEN tx.nonce_history ELSE UpdateNonceHistory(tx, d, id)
<1>1. /\ tx.base_id \in Id /\ tx.next_id \in Id
      /\ tx.transit_buf \in [0 .. TxWindow - 1 -> Nat]
      /\ tx.nonce_buf \in [0 .. TxWindow \div WordBits - 1 -> SUBSET AllOnes(WordBits)]
      /\ tx.ack_history \in SUBSET AllOnes(HistoryBits)
      /\ tx.nonce_history \in SUBSET AllOnes(HistoryBits)
  BY DEF SegmentTxType
<1>2. nh \in SUBSET AllOnes(HistoryBits)
  <2> SUFFICES ASSUME d # 0 PROVE UpdateNonceHistory(tx, d, id) \in SUBSET AllOnes(HistoryBits)
    BY <1>1
  <2>0. d \in Nat /\ d > 0
    BY <1>1, SubType
  <2> HIDE DEF d
  <2> DEFINE nb == IF d < HistoryBits THEN d ELSE HistoryBits
  <2>1. nb \in 1 .. HistoryBits /\ nb \in Nat
    BY <2>0, TxConstants
  <2> HIDE DEF nb
  <2>2. Shl(tx.nonce_history, nb, HistoryBits) \in SUBSET AllOnes(HistoryBits)
    BY <1>1, <2>1, TxConstants, ShlType
  <2>3. NewNonces(tx, nb, id) \in SUBSET AllOnes(HistoryBits)
    <3> DEFINE pb == id % WordBits
               p0 == WrappingSub(id, nb)
               A == tx.nonce_buf[NonceWord(p0)]
               B == tx.nonce_buf[NonceWord(id)]
    <3>1. /\ pb \in Nat /\ pb < WordBits /\ p0 \in Id /\ nb \in Nat /\ nb >= 1
          /\ nb <= HistoryBits /\ WordBits - pb \in Nat
      <4>1. nb \in 0 .. IdMod - 1
        <5>1. WordBits <= IdMod
          BY RingTurns, TxConstants
        <5> QED BY <2>1, <5>1, TxConstants
      <4>2. /\ pb \in Nat /\ pb < WordBits /\ nb \in Nat /\ nb >= 1
            /\ nb <= HistoryBits /\ WordBits - pb \in Nat
        BY <2>1, RingPosition, TxConstants
      <4> QED BY <4>1, <4>2, AddSteps
    <3>2. A \in SUBSET AllOnes(WordBits) /\ B \in SUBSET AllOnes(WordBits)
      BY <1>1, <3>1, RingPosition
    <3>3. A \in SUBSET Nat /\ B \in SUBSET Nat
      BY <3>2, TxConstants DEF AllOnes
    <3> HIDE DEF A, B
    <3>4. Shr(B, WordBits - pb) \in SUBSET Nat
      <4>1. \A X \in SUBSET Nat, m \in Nat : Shr(X, m) \in SUBSET Nat
        BY ONLY DEF Shr
      <4> QED BY <3>1, <3>3, <4>1
    <3>5. \A X \in SUBSET Nat, m \in Nat : m <= HistoryBits =>
             Low(X, m) \in SUBSET AllOnes(HistoryBits)
      <4>1. ASSUME NEW X \in SUBSET Nat, NEW m \in Nat, m <= HistoryBits,
                   NEW x \in Low(X, m)
            PROVE  x \in AllOnes(HistoryBits)
        <5>1. x \in Nat /\ x < m
          BY DEF Low
        <5> QED BY <4>1, <5>1, TxConstants DEF AllOnes
      <4> QED BY <4>1
    <3>6. Shl(Low(A, nb - pb), pb, HistoryBits) \in SUBSET AllOnes(HistoryBits)
      <4>1. Low(A, nb - pb) \in SUBSET Nat
        BY <3>3 DEF Low
      <4> QED BY <3>1, <4>1, TxConstants DEF Shl, AllOnes
    <3>7. CASE p0 \div WordBits = id \div WordBits
      <4>1. NewNonces(tx, nb, id) = Low(Shr(B, WordBits - pb), nb)
        BY <3>7 DEF NewNonces, B
      <4> QED BY <3>1, <3>4, <3>5, <4>1
    <3>8. CASE p0 \div WordBits # id \div WordBits /\ pb = 0
      <4>1. NewNonces(tx, nb, id) = Low(A, nb)
        BY <3>8 DEF NewNonces, A
      <4> QED BY <3>1, <3>3, <3>5, <4>1
    <3>9. CASE p0 \div WordBits # id \div WordBits /\ pb # 0
      <4>1. NewNonces(tx, nb, id)
              = Low(Shr(B, WordBits - pb), pb) \cup Shl(Low(A, nb - pb), pb, HistoryBits)
        BY <3>9 DEF NewNonces, A, B
      <4>2. CASE pb <= HistoryBits
        BY <3>1, <3>4, <3>5, <3>6, <4>1, <4>2
      <4>3. CASE pb > HistoryBits
        <5>1. PICK prev \in Int : prev # id \div WordBits /\
                 \A k \in 0 .. WordBits - 1 : k < pb =>
                    WrappingSub(id, k + 1) \div WordBits = id \div WordBits
          BY BackInWord
        <5>2. nb - 1 \in 0 .. WordBits - 1 /\ nb - 1 < pb /\ (nb - 1) + 1 = nb
          BY <3>1, <4>3, TxConstants
        <5> QED BY <3>9, <5>1, <5>2
      <4> QED BY <3>1, <4>2, <4>3, TxConstants
    <3> QED BY <3>7, <3>8, <3>9
  <2> QED BY <2>2, <2>3 DEF UpdateNonceHistory, nb
<1>3. total \in Nat
  OBVIOUS
<1>4. tx2 = [tx EXCEPT !.transit_total = total, !.nonce_history = nh, !.base_id = id]
  BY DEF AdvanceBase, SegmentTxType
<1> HIDE DEF total, nh, d, tx2
<1>5. /\ tx2 \in SegmentTxType
      /\ tx2.base_id = id /\ tx2.next_id = tx.next_id
      /\ tx2.transit_buf = tx.transit_buf /\ tx2.nonce_buf = tx.nonce_buf
      /\ tx2.ack_history = tx.ack_history
      /\ tx2.transit_total = total /\ tx2.nonce_history = nh
  BY <1>1, <1>2, <1>3, <1>4 DEF SegmentTxType
<1> QED BY <1>5 DEF total, nh, d, tx2

-----------------------------------------------------------------------------
(* acknowledge *)

SenderSound == /\ stx \in SegmentTxType
               /\ HistoryTypes
               /\ Len(sent) - tx_base <= TxWindow /\ tx_base <= Len(sent)
               /\ RingsSound /\ NoncesSound /\ TransitExact

LEMMA SentTypes ==
    ASSUME HistoryTypes, NEW i \in 1 .. Len(sent)
    PROVE  sent[i].nonce \in BOOLEAN /\ sent[i].size \in Nat
<1> DEFINE S == [nonce : BOOLEAN, size : Nat]
<1>1. sent \in Seq(S)
  BY DEF HistoryTypes
<1> HIDE DEF S
<1>2. sent[i] \in S
  BY <1>1
<1> QED BY <1>2 DEF S

\* bytes_in_transit is reduced by what is there.
LEMMA AckReducesTotal ==
    ASSUME SenderSound, NEW m \in tx_base .. Len(sent)
    PROVE  /\ stx.transit_total - OldestBytes(stx, m - tx_base) \in Nat
           /\ stx.transit_total - OldestBytes(stx, m - tx_base)
                = SumTo([i \in 1 .. Len(sent) - m |-> sent[m + i].size], Len(sent) - m)
<1> DEFINE l == Len(sent)
           d == m - tx_base
           r == l - m
           n == l - tx_base
           f == [i \in 1 .. n |-> sent[tx_base + i].size]
           g == [i \in 1 .. r |-> sent[m + i].size]
           o == [i \in 1 .. d |-> stx.transit_buf[WrappingAdd(stx.base_id, i - 1) % TxWindow]]
<1>1. l \in Nat /\ tx_base \in Nat /\ m \in Nat /\ tx_base <= m /\ m <= l
  BY DEF SenderSound, HistoryTypes
<1>2. d \in Nat /\ r \in Nat /\ n \in Nat /\ n = d + r /\ m = tx_base + d /\ d <= n
  <2> HIDE DEF l
  <2> QED BY <1>1
<1>3. \A k \in 1 .. n : f[k] \in Nat
  <2>1. ASSUME NEW k \in 1 .. n PROVE f[k] \in Nat
    <3>1. tx_base + k \in 1 .. l
      <4> HIDE DEF l
      <4> QED BY <1>1
    <3>2. sent[tx_base + k].size \in Nat
      BY <3>1, SentTypes DEF SenderSound
    <3> QED BY <3>2
  <2> QED BY <2>1
<1>4. \A k \in 1 .. r : g[k] = f[d + k]
  <2>1. ASSUME NEW k \in 1 .. r PROVE d + k \in 1 .. n /\ m + k = tx_base + (d + k)
    <3> HIDE DEF l
    <3> QED BY <1>1
  <2> HIDE DEF d, r, n
  <2> QED BY <2>1
<1>5. \A k \in 1 .. d : o[k] = f[k]
  <2>1. ASSUME NEW k \in 1 .. d PROVE o[k] = f[k]
    <3>1. /\ k - 1 \in 0 .. Len(sent) - tx_base - 1 /\ k \in 1 .. n
          /\ tx_base + (k - 1) + 1 = tx_base + k
      <4>1. /\ k - 1 \in 0 .. l - tx_base - 1 /\ k \in 1 .. n
            /\ tx_base + (k - 1) + 1 = tx_base + k
        <5> HIDE DEF l
        <5> QED BY <1>1
      <4> QED BY <4>1
    <3>2. stx.transit_buf[WrappingAdd(stx.base_id, k - 1) % TxWindow]
             = sent[tx_base + (k - 1) + 1].size
      BY <3>1 DEF SenderSound, RingsSound
    <3> HIDE DEF n, d
    <3> QED BY <3>1, <3>2
  <2> QED BY <2>1
<1>6. stx.transit_total = SumTo(f, n)
  BY DEF SenderSound, TransitExact
<1>7. OldestBytes(stx, d) = SumTo(o, d)
  BY DEF OldestBytes
<1> HIDE DEF d, r, n, f, g, o
<1>8. SumTo(o, d) = SumTo(f, d)
  BY <1>2, <1>5, SumSame
<1>9. SumTo(f, n) = SumTo(f, d) + SumTo(g, r)
  <2>1. \A k \in 1 .. d + r : f[k] \in Nat
    BY <1>2, <1>3
  <2> QED BY <1>2, <1>4, <2>1, SumSplit
<1>10. SumTo(f, d) \in Nat
  <2>1. \A k \in 1 .. d : f[k] \in Nat
    BY <1>2, <1>3
  <2> QED BY <1>2, <2>1, SumNat
<1>11. SumTo(g, r) \in Nat
  <2>1. \A k \in 1 .. r : g[k] \in Nat
    <3>1. ASSUME NEW k \in 1 .. r PROVE d + k \in 1 .. n
      BY <1>2
    <3> QED BY <1>3, <1>4, <3>1
  <2> QED BY <1>2, <2>1, SumNat
<1>12. stx.transit_total - OldestBytes(stx, d) = SumTo(g, r)
  BY <1>6, <1>7, <1>8, <1>9, <1>10, <1>11
<1> QED BY <1>11, <1>12 DEF d, r, g, l

\* The nonces before the new base.
LEMMA AckMovesNonces ==
    ASSUME SenderSound, NEW m \in tx_base .. Len(sent), NEW id \in Id,
           WrappingSub(id, stx.base_id) = m - tx_base
    PROVE  \A k \in AllOnes(HistoryBits) :
              k \in AdvanceBase(stx, id).nonce_history <=> k < m /\ sent[m - k].nonce
<1> DEFINE l == Len(sent)
           d == m - tx_base
           tx2 == AdvanceBase(stx, id)
           nb == IF d < HistoryBits THEN d ELSE HistoryBits
<1>1. /\ l \in Nat /\ tx_base \in Nat /\ m \in Nat /\ tx_base <= m /\ m <= l
      /\ stx.base_id \in Id /\ stx \in SegmentTxType /\ stx.nonce_history \in SUBSET AllOnes(HistoryBits)
  BY DEF SenderSound, HistoryTypes, SegmentTxType
<1>2. d \in Nat
  BY <1>1
<1>3. /\ d = 0 => tx2.nonce_history = stx.nonce_history
      /\ d # 0 => tx2.nonce_history = UpdateNonceHistory(stx, d, id)
  <2>1. stx.transit_total - OldestBytes(stx, WrappingSub(id, stx.base_id)) \in Nat
    BY AckReducesTotal
  <2> QED BY <1>1, <2>1, AdvanceFields
<1> SUFFICES ASSUME NEW k \in AllOnes(HistoryBits)
             PROVE  k \in tx2.nonce_history <=> k < m /\ sent[m - k].nonce
  OBVIOUS
<1>4. k \in Nat /\ k < HistoryBits
  BY TxConstants DEF AllOnes
<1>5. CASE d = 0
  <2>1. m = tx_base
    BY <1>1, <1>5
  <2> QED BY <1>3, <1>5, <2>1 DEF SenderSound, NoncesSound
<1>6. CASE d # 0
  <2>1. nb \in 1 .. HistoryBits /\ nb <= d
    BY <1>2, <1>6, TxConstants
  <2>2. tx2.nonce_history = Shl(stx.nonce_history, nb, HistoryBits) \cup NewNonces(stx, nb, id)
    BY <1>3, <1>6 DEF UpdateNonceHistory
  <2>3. (k >= nb => nb = d) /\ nb \in Nat
    BY <1>2, <1>4, TxConstants
  <2> HIDE DEF nb, tx2
  <2>4. k \in NewNonces(stx, nb, id) <=> k < nb /\ NonceAt(stx, WrappingSub(id, k + 1))
    BY <1>1, <2>1, NewNoncesMember
  <2>5. k \in Shl(stx.nonce_history, nb, HistoryBits) <=> k >= nb /\ k - nb \in stx.nonce_history
    <3>1. stx.nonce_history \in SUBSET Nat
      BY <1>1, TxConstants DEF AllOnes
    <3> QED BY <2>3, <3>1, TxConstants, ShlMember
  <2>6. CASE k < nb
    <3>1. k < d /\ k < m
      BY <1>1, <1>2, <1>4, <2>1, <2>3, <2>6
    <3>2. WrappingSub(id, k + 1) = WrappingAdd(stx.base_id, (d - 1) - k)
      BY <1>1, <1>4, <3>1, BackAndForth
    <3> DEFINE j == (d - 1) - k
    <3>3. j \in 0 .. Len(sent) - tx_base - 1 /\ tx_base + j + 1 = m - k
      <4>1. j \in 0 .. l - tx_base - 1 /\ tx_base + j + 1 = m - k
        <5> HIDE DEF l
        <5> QED BY <1>1, <1>4, <3>1
      <4> QED BY <4>1
    <3> HIDE DEF j
    <3>4. NonceAt(stx, WrappingAdd(stx.base_id, j)) <=> sent[m - k].nonce
      <4>1. NonceAt(stx, WrappingAdd(stx.base_id, j)) <=> sent[tx_base + j + 1].nonce
        BY <3>3 DEF SenderSound, RingsSound
      <4> QED BY <3>3, <4>1
    <3>5. ~(k >= nb)
      BY <1>4, <2>3, <2>6
    <3> QED BY <2>2, <2>4, <2>5, <2>6, <3>1, <3>2, <3>4, <3>5 DEF j
  <2>7. CASE k >= nb
    <3>1. /\ ~(k < nb) /\ nb = d /\ k - d \in AllOnes(HistoryBits)
          /\ (k - d < tx_base <=> k < m) /\ tx_base - (k - d) = m - k
      BY <1>1, <1>4, <2>3, <2>7, TxConstants DEF AllOnes
    <3>2. k - d \in stx.nonce_history <=> k - d < tx_base /\ sent[tx_base - (k - d)].nonce
      BY <3>1 DEF SenderSound, NoncesSound
    <3> QED BY <2>2, <2>4, <2>5, <2>7, <3>1, <3>2
  <2> QED BY <1>4, <2>3, <2>6, <2>7
<1> QED BY <1>5, <1>6

\* What a state of Inv gives the sender.
LEMMA SenderFacts ==
    ASSUME Inv
    PROVE  /\ SenderSound
           /\ Len(sent) \in Nat /\ tx_base \in Nat /\ rx_base \in Nat
           /\ tx_base <= rx_base /\ rx_base <= Len(sent) /\ Len(sent) - tx_base <= TxWindow
           /\ InTransit(stx) = Len(sent) - tx_base
           /\ WrappingSub(srx.base_id, stx.base_id) = rx_base - tx_base
           /\ stx.base_id \in Id /\ stx.next_id \in Id /\ srx.base_id \in Id
           /\ Lag \in Nat /\ Lag + TxWindow < IdMod /\ Lag + RxWindow < IdMod
           /\ \A a \in acks : /\ a.n \in Nat /\ a.id \in Id /\ a.checksum \in BOOLEAN
                              /\ a.history \in SUBSET AllOnes(AckBits)
<1>1. /\ Len(sent) \in Nat /\ tx_base \in Nat /\ rx_base \in Nat
      /\ tx_base <= rx_base /\ rx_base <= Len(sent) /\ Len(sent) - tx_base <= TxWindow
      /\ InTransit(stx) = Len(sent) - tx_base
      /\ WrappingSub(srx.base_id, stx.base_id) = rx_base - tx_base
  BY DEF Inv, HistoryTypes, WindowSound
<1>2. stx.base_id \in Id /\ stx.next_id \in Id /\ srx.base_id \in Id
  BY DEF Inv, TypeOK, SegmentTxType
<1>3. \A a \in acks : /\ a.n \in Nat /\ a.id \in Id /\ a.checksum \in BOOLEAN
                      /\ a.history \in SUBSET AllOnes(AckBits)
  BY DEF Inv, TypeOK
<1>4. SenderSound
  <2>1. tx_base <= Len(sent)
    <3>1. \A l \in Nat : rx_base <= l => tx_base <= l
      BY <1>1
    <3> QED BY <1>1, <3>1
  <2> QED BY <1>1, <2>1 DEF Inv, TypeOK, SenderSound
<1> QED BY <1>1, <1>2, <1>3, <1>4, LagAssumption

\* An acknowledgement is recognised as old or new by its id.
LEMMA AckDelta ==
    ASSUME Inv, NEW a \in acks
    PROVE  /\ SegmentAckValid(stx, a.id) <=> a.n >= tx_base
           /\ a.n >= tx_base => WrappingSub(a.id, stx.base_id) = a.n - tx_base
           /\ a.n >= tx_base => a.n \in tx_base .. Len(sent)
<1> DEFINE l == Len(sent)
           n == a.n
           d == n - tx_base
           s == WrappingSub(a.id, stx.base_id)
<1>1. /\ l \in Nat /\ tx_base \in Nat /\ rx_base \in Nat /\ n \in Nat /\ rx_base <= l
      /\ l - tx_base <= TxWindow /\ Lag \in Nat /\ Lag + TxWindow < IdMod
      /\ stx.base_id \in Id /\ a.id \in Id /\ InTransit(stx) = l - tx_base
      /\ TxWindow \in Nat /\ IdMod \in Nat
  BY SenderFacts, TxConstants
<1>2. n <= rx_base /\ tx_base <= n + Lag /\ Ahead(a.id, stx.base_id, d)
  BY DEF Inv, AckSound
<1> HIDE DEF l, n
<1>3. d \in Int /\ -IdMod < d /\ d < IdMod
  BY <1>1, <1>2
<1>4. s = IF d >= 0 THEN d ELSE d + IdMod
  <2> HIDE DEF d
  <2> QED BY <1>1, <1>2, <1>3, SubOfAhead
<1> HIDE DEF s
<1>5. s <= l - tx_base <=> n >= tx_base
  BY <1>1, <1>2, <1>4
<1>6. n >= tx_base => s = d /\ n \in tx_base .. l
  BY <1>1, <1>2, <1>4
<1> QED BY <1>1, <1>5, <1>6 DEF SegmentAckValid, s, n, l

\* An acknowledgement reports segments that exist.
LEMMA AckRange ==
    ASSUME Inv, NEW a \in acks, NEW k \in a.history
    PROVE  k \in Nat /\ k < a.n /\ a.n - k \in 1 .. Len(sent)
<1>1. /\ a.history \in SUBSET AllOnes(AckBits) /\ a.n \in Nat /\ AckSound(a)
      /\ rx_base \in Nat /\ Len(sent) \in Nat /\ rx_base <= Len(sent)
  BY SenderFacts DEF Inv
<1>2. k \in AllOnes(AckBits) /\ k \in Nat
  BY <1>1, TxConstants DEF AllOnes
<1>3. Delivered(delivered, a.n - 1 - k) /\ a.n <= rx_base
  BY <1>1, <1>2 DEF AckSound
<1>4. PICK i \in 1 .. Len(delivered) : delivered[i] = a.n - 1 - k
  BY <1>3 DEF Delivered
<1>5. delivered[i] \in Nat
  BY DEF Inv, HistoryTypes
<1>6. k < a.n /\ a.n - k \in 1 .. rx_base
  BY <1>1, <1>2, <1>3, <1>4, <1>5
<1>7. \A l \in Nat : rx_base <= l => a.n - k \in 1 .. l
  BY <1>1, <1>2, <1>6
<1> QED BY <1>1, <1>2, <1>6, <1>7

\* The checksum of an honest acknowledgement matches the sender's nonces.
LEMMA AckVerifies ==
    ASSUME Inv, NEW a \in acks, a.n >= tx_base
    PROVE  ExpectedChecksum(AdvanceBase(stx, a.id).nonce_history, a.history) = a.checksum
<1> DEFINE nh == AdvanceBase(stx, a.id).nonce_history
           S == {k \in a.history : sent[a.n - k].nonce}
<1>1. /\ a.n \in tx_base .. Len(sent) /\ WrappingSub(a.id, stx.base_id) = a.n - tx_base
      /\ a.id \in Id /\ SenderSound /\ a.history \in SUBSET AllOnes(AckBits) /\ a.n \in Nat
  BY AckDelta, SenderFacts
<1>2. \A k \in AllOnes(HistoryBits) : k \in nh <=> k < a.n /\ sent[a.n - k].nonce
  BY <1>1, AckMovesNonces
<1>3. AllOnes(AckBits) \subseteq AllOnes(HistoryBits)
  BY TxConstants DEF AllOnes
<1>4. \A k \in a.history : k < a.n
  BY AckRange
<1> HIDE DEF nh
<1>5. nh \cap a.history = S
  BY <1>1, <1>2, <1>3, <1>4
<1>6. a.checksum = Parity(S)
  BY DEF Inv, AckSound
<1> QED BY <1>5, <1>6 DEF ExpectedChecksum, nh

LEMMA LeadingOnesAll == LeadingOnes(AllOnes(HistoryBits), HistoryBits) = HistoryBits
  BY DEF LeadingOnes

\* update_ack_history sees no drop while the acks cover all segments one by one.
LEMMA AckSeesNoGap ==
    ASSUME Inv, NEW a \in acks, a.n >= tx_base, NoSkip, ~jumped, a.n - tx_base <= AckBits
    PROVE  LET done == SegmentAcknowledge(stx, a.id, a.history, a.checksum)
           IN  done.drop = FALSE /\ done.tx.ack_history = AllOnes(HistoryBits)
<1> DEFINE tx2 == AdvanceBase(stx, a.id)
           d == WrappingSub(a.id, stx.base_id)
           h == MergeHistory(tx2, d, a.history, a.checksum)
           done == SegmentAcknowledge(stx, a.id, a.history, a.checksum)
<1>1. /\ SegmentAckValid(stx, a.id) /\ d = a.n - tx_base /\ a.n \in tx_base .. Len(sent)
      /\ SenderSound /\ a.id \in Id /\ a.n \in Nat /\ tx_base \in Nat /\ rx_base \in Nat
      /\ a.history \in SUBSET AllOnes(AckBits) /\ stx \in SegmentTxType
  BY AckDelta, SenderFacts DEF SenderSound
<1>2. d \in Nat /\ d <= AckBits /\ a.n <= rx_base
  <2>1. a.n <= rx_base
    BY DEF Inv, AckSound
  <2> QED BY <1>1, <2>1
<1>3. done = UpdateAckHistory(tx2, d, a.history, a.checksum)
  BY <1>1 DEF SegmentAcknowledge
<1>4. tx2 \in SegmentTxType /\ tx2.ack_history = stx.ack_history
  <2>1. stx.transit_total - OldestBytes(stx, WrappingSub(a.id, stx.base_id)) \in Nat
    BY <1>1, AckReducesTotal
  <2> QED BY <1>1, <2>1, AdvanceFields
<1>5. stx.ack_history = AllOnes(HistoryBits)
  BY DEF Inv, NoGapSeen
<1>6. ExpectedChecksum(tx2.nonce_history, a.history) = a.checksum
  BY AckVerifies
<1>7. h = Shl(AllOnes(HistoryBits), d, HistoryBits) \cup a.history
  BY <1>4, <1>5, <1>6 DEF MergeHistory
<1>8. h = AllOnes(HistoryBits)
  <2>1. h \subseteq AllOnes(HistoryBits)
    <3>1. AllOnes(AckBits) \subseteq AllOnes(HistoryBits)
      BY TxConstants DEF AllOnes
    <3>2. Shl(AllOnes(HistoryBits), d, HistoryBits) \in SUBSET AllOnes(HistoryBits)
      BY <1>2, TxConstants, ShlType
    <3> QED BY <1>1, <1>7, <3>1, <3>2
  <2>2. ASSUME NEW k \in AllOnes(HistoryBits) PROVE k \in h
    <3>1. k \in Nat /\ k < HistoryBits
      BY TxConstants DEF AllOnes
    <3>2. CASE k >= d
      <4>1. k - d \in AllOnes(HistoryBits) /\ AllOnes(HistoryBits) \in SUBSET Nat
        BY <1>2, <3>1, <3>2, TxConstants DEF AllOnes
      <4>2. k \in Shl(AllOnes(HistoryBits), d, HistoryBits)
        <5> HIDE DEF d
        <5> QED BY <1>2, <3>2, <4>1, TxConstants, ShlMember
      <4> QED BY <1>7, <4>2
    <3>3. CASE k < d
      <4>1. k \in AllOnes(AckBits) /\ a.n - 1 - k \in 0 .. rx_base - 1
        BY <1>1, <1>2, <3>1, <3>3, TxConstants DEF AllOnes
      <4>2. k \in a.history
        BY <4>1 DEF NoSkip, Inv, AckSound
      <4> QED BY <1>7, <4>2
    <3> QED BY <1>2, <3>1, <3>2, <3>3
  <2> QED BY <2>1, <2>2
<1>9. ~(d > LeadingOnes(tx2.ack_history, HistoryBits))
  BY <1>2, <1>4, <1>5, LeadingOnesAll, TxConstants
<1>10. ~ShowsDrop(h)
  BY <1>8 DEF ShowsDrop
<1> HIDE DEF tx2, d, done
<1> QED BY <1>3, <1>4, <1>8, <1>9, <1>10 DEF UpdateAckHistory, SegmentTxType, done

\* The rings are where they were, seen from a later base.
LEMMA AckMovesRings ==
    ASSUME SenderSound, NEW m \in tx_base .. Len(sent), NEW id \in Id,
           WrappingSub(id, stx.base_id) = m - tx_base,
           NEW tx, tx.base_id = id, tx.transit_buf = stx.transit_buf,
           tx.nonce_buf = stx.nonce_buf
    PROVE  \A j \in 0 .. Len(sent) - m - 1 :
             /\ tx.transit_buf[WrappingAdd(tx.base_id, j) % TxWindow] = sent[m + j + 1].size
             /\ NonceAt(tx, WrappingAdd(tx.base_id, j)) <=> sent[m + j + 1].nonce
<1> DEFINE l == Len(sent)
           d == m - tx_base
<1>1. /\ l \in Nat /\ tx_base \in Nat /\ m \in Nat /\ tx_base <= m /\ m <= l
      /\ l - tx_base <= TxWindow /\ stx.base_id \in Id
  BY DEF SenderSound, HistoryTypes, SegmentTxType
<1> SUFFICES ASSUME NEW j \in 0 .. Len(sent) - m - 1
             PROVE  /\ tx.transit_buf[WrappingAdd(id, j) % TxWindow] = sent[m + j + 1].size
                    /\ NonceAt(tx, WrappingAdd(id, j)) <=> sent[m + j + 1].nonce
  OBVIOUS
<1>2. /\ d + j \in 0 .. Len(sent) - tx_base - 1 /\ tx_base + (d + j) + 1 = m + j + 1
      /\ j \in Nat /\ d \in Nat /\ d + j < TxWindow
  <2>1. j \in 0 .. l - m - 1
    OBVIOUS
  <2> HIDE DEF l
  <2>2. /\ d + j \in 0 .. l - tx_base - 1 /\ tx_base + (d + j) + 1 = m + j + 1
        /\ j \in Nat /\ d \in Nat /\ d + j < TxWindow
    BY <1>1, <2>1, TxConstants
  <2> QED BY <2>2 DEF l
<1>3. WrappingAdd(id, j) = WrappingAdd(stx.base_id, d + j)
  <2> HIDE DEF d
  <2>1. WrappingSub(id, stx.base_id) = d
    BY DEF d
  <2>2. WrappingSub(id, stx.base_id) + j < IdMod
    BY <1>2, <2>1, TxConstants
  <2> QED BY <1>1, <1>2, <2>1, <2>2, AddTrans
<1> DEFINE i == d + j
<1>4. i \in 0 .. Len(sent) - tx_base - 1 /\ tx_base + i + 1 = m + j + 1
  BY <1>2
<1>5. WrappingAdd(id, j) = WrappingAdd(stx.base_id, i)
  BY <1>3
<1> HIDE DEF i
<1>6. /\ stx.transit_buf[WrappingAdd(stx.base_id, i) % TxWindow] = sent[tx_base + i + 1].size
      /\ NonceAt(stx, WrappingAdd(stx.base_id, i)) <=> sent[tx_base + i + 1].nonce
  BY <1>4 DEF SenderSound, RingsSound
<1>7. NonceAt(tx, WrappingAdd(stx.base_id, i)) <=> NonceAt(stx, WrappingAdd(stx.base_id, i))
  BY DEF NonceAt
<1> QED BY <1>4, <1>5, <1>6, <1>7

\* acknowledge for a new enough acknowledgement, field by field.
LEMMA AcknowledgeFields ==
    ASSUME Inv, NEW a \in acks, a.n >= tx_base
    PROVE  LET tx == SegmentAcknowledge(stx, a.id, a.history, a.checksum).tx
               tx2 == AdvanceBase(stx, a.id)
           IN  /\ tx \in SegmentTxType
               /\ tx.base_id = a.id /\ tx.next_id = stx.next_id
               /\ tx.transit_buf = stx.transit_buf /\ tx.nonce_buf = stx.nonce_buf
               /\ tx.transit_total = stx.transit_total - OldestBytes(stx, a.n - tx_base)
               /\ tx.nonce_history = tx2.nonce_history
<1> DEFINE tx2 == AdvanceBase(stx, a.id)
           d == WrappingSub(a.id, stx.base_id)
           h == MergeHistory(tx2, d, a.history, a.checksum)
           done == SegmentAcknowledge(stx, a.id, a.history, a.checksum)
<1>1. /\ SegmentAckValid(stx, a.id) /\ d = a.n - tx_base /\ a.n \in tx_base .. Len(sent)
      /\ SenderSound /\ a.id \in Id /\ stx \in SegmentTxType
      /\ a.history \in SUBSET AllOnes(AckBits) /\ d \in Nat
  BY AckDelta, SenderFacts DEF SenderSound
<1>2. done = UpdateAckHistory(tx2, d, a.history, a.checksum)
  BY <1>1 DEF SegmentAcknowledge
<1>3. /\ tx2 \in SegmentTxType
      /\ tx2.base_id = a.id /\ tx2.next_id = stx.next_id
      /\ tx2.transit_buf = stx.transit_buf /\ tx2.nonce_buf = stx.nonce_buf
      /\ tx2.transit_total = stx.transit_total - OldestBytes(stx, d)
  <2>1. stx.transit_total - OldestBytes(stx, WrappingSub(a.id, stx.base_id)) \in Nat
    BY <1>1, AckReducesTotal
  <2> QED BY <1>1, <2>1, AdvanceFields
<1>4. h \in SUBSET AllOnes(HistoryBits)
  <2>1. AllOnes(AckBits) \subseteq AllOnes(HistoryBits)
    BY TxConstants DEF AllOnes
  <2>2. tx2.ack_history \in SUBSET AllOnes(HistoryBits)
    BY <1>3 DEF SegmentTxType
  <2>3. Shl(tx2.ack_history, d, HistoryBits) \in SUBSET AllOnes(HistoryBits)
    <3> HIDE DEF tx2, d
    <3> QED BY <1>1, <2>2, TxConstants, ShlType
  <2> QED BY <1>1, <2>1, <2>3 DEF MergeHistory
<1> DEFINE drp == d > LeadingOnes(tx2.ack_history, HistoryBits) \/ ShowsDrop(h)
           ah == IF drp THEN AllOnes(HistoryBits) ELSE h
<1>5. done.tx = [tx2 EXCEPT !.ack_history = ah]
  BY <1>2 DEF UpdateAckHistory
<1>6. ah \in SUBSET AllOnes(HistoryBits)
  BY <1>4
<1> DEFINE tx == done.tx
<1> HIDE DEF tx2, ah, done
<1>7. /\ tx \in SegmentTxType
      /\ tx.base_id = tx2.base_id /\ tx.next_id = tx2.next_id
      /\ tx.transit_buf = tx2.transit_buf /\ tx.nonce_buf = tx2.nonce_buf
      /\ tx.transit_total = tx2.transit_total /\ tx.nonce_history = tx2.nonce_history
  BY <1>3, <1>5, <1>6 DEF SegmentTxType
<1>8. tx2.transit_total = stx.transit_total - OldestBytes(stx, a.n - tx_base)
  BY <1>1, <1>3
<1> QED BY <1>3, <1>7, <1>8 DEF tx2, done

-----------------------------------------------------------------------------
(* The steps keep the invariant *)

LEMMA ReceiverUnchanged ==
    ASSUME ReceiverSound, UNCHANGED <<srx, sent, delivered, rx_base>>
    PROVE  ReceiverSound'
  BY DEF ReceiverSound, RxSound, Settled, SlotsInOrder, IsSegment, InOrder, HistoryOK,
         NoncesOK, NewOnly, Delivered, RxDelta

LEMMA ReceiveAckInv ==
    ASSUME Inv, NEW a \in acks, ReceiveAck(a)
    PROVE  Inv'
<1> DEFINE l == Len(sent)
           done == SegmentAcknowledge(stx, a.id, a.history, a.checksum)
           tx == done.tx
<1>1. /\ stx' = tx /\ drop' = done.drop
      /\ tx_base' = tx_base + WrappingSub(tx.base_id, stx.base_id)
      /\ jumped' = (jumped \/ tx_base' - tx_base > AckBits)
      /\ acks' = {k \in acks : k.n + Lag >= tx_base'}
      /\ UNCHANGED <<srx, syncs, sent, delivered, rx_base>>
  BY DEF ReceiveAck
<1>2. /\ l \in Nat /\ tx_base \in Nat /\ rx_base \in Nat /\ tx_base <= rx_base
      /\ rx_base <= l /\ l - tx_base <= TxWindow
      /\ InTransit(stx) = l - tx_base
      /\ WrappingSub(srx.base_id, stx.base_id) = rx_base - tx_base
      /\ stx.base_id \in Id /\ stx.next_id \in Id /\ srx.base_id \in Id
      /\ a.n \in Nat /\ a.id \in Id /\ SenderSound
      /\ Lag \in Nat /\ Lag + TxWindow < IdMod
  BY SenderFacts
<1>3. ReceiverSound' /\ SyncsSound' /\ acks' \subseteq acks
  BY <1>1, ReceiverUnchanged DEF Inv, SyncsSound
<1>4. (/\ srx.base_id \in Id
       /\ srx.rx_history \subseteq AllOnes(RxHistoryBits)
       /\ srx.nonce_history \subseteq AllOnes(RxHistoryBits)
       /\ \A i \in 1 .. Len(srx.slots) :
             srx.slots[i] \in [id : Id, nonce : BOOLEAN, data : 0 .. Len(sent) - 1]
       /\ syncs \subseteq 0 .. Len(sent)
       /\ acks \subseteq [n : Nat, id : Id, history : SUBSET AllOnes(AckBits),
                          checksum : BOOLEAN])'
  <2>1. acks' \subseteq [n : Nat, id : Id, history : SUBSET AllOnes(AckBits),
                         checksum : BOOLEAN]
    BY <1>3 DEF Inv, TypeOK
  <2> QED BY <1>1, <2>1 DEF Inv, TypeOK
<1>5. CASE a.n < tx_base
  <2>1. ~SegmentAckValid(stx, a.id)
    BY <1>2, <1>5, AckDelta
  <2>2. tx = stx /\ done.drop = FALSE
    BY <2>1 DEF SegmentAcknowledge
  <2>3. tx_base' = tx_base /\ (jumped' <=> jumped) /\ stx' = stx /\ drop' = FALSE
    <3>1. WrappingSub(stx.base_id, stx.base_id) = 0
      BY <1>2, SubSelf
    <3>2. tx_base' = tx_base /\ ~(tx_base' - tx_base > AckBits) /\ stx' = stx /\ drop' = FALSE
      BY <1>1, <1>2, <2>2, <3>1, TxConstants
    <3> QED BY <1>1, <3>2, Zenon
  <2>4. TypeOK' /\ HistoryTypes' /\ WindowSound'
    BY <1>1, <1>4, <2>3 DEF Inv, TypeOK, HistoryTypes, WindowSound, InTransit
  <2>5. RingsSound' /\ NoncesSound' /\ TransitExact'
    BY <1>1, <2>3 DEF Inv, RingsSound, NonceAt, NoncesSound, TransitExact
  <2>6. \A k \in acks' : AckSound(k)'
    BY <1>1, <1>3, <2>3 DEF Inv, AckSound, Delivered
  <2>7. NoGapSeen'
    BY <1>1, <2>3 DEF Inv, NoGapSeen, NoSkip, Delivered
  <2> QED BY <1>3, <2>4, <2>5, <2>6, <2>7 DEF Inv
<1>6. CASE a.n >= tx_base
  <2> DEFINE m == a.n
  <2>1. /\ m \in tx_base .. Len(sent) /\ WrappingSub(a.id, stx.base_id) = m - tx_base
        /\ m <= rx_base
    BY <1>6, AckDelta DEF Inv, AckSound
  <2>2. /\ tx \in SegmentTxType
        /\ tx.base_id = a.id /\ tx.next_id = stx.next_id
        /\ tx.transit_buf = stx.transit_buf /\ tx.nonce_buf = stx.nonce_buf
        /\ tx.transit_total = stx.transit_total - OldestBytes(stx, m - tx_base)
        /\ tx.nonce_history = AdvanceBase(stx, a.id).nonce_history
    BY <1>6, AcknowledgeFields
  <2>3. tx_base' = m /\ (jumped' <=> jumped \/ m - tx_base > AckBits)
    <3>1. tx_base' = m
      BY <1>1, <1>2, <2>1, <2>2
    <3> QED BY <1>1, <3>1, Zenon
  <2> HIDE DEF tx
  <2>4. TypeOK' /\ HistoryTypes'
    BY <1>1, <1>2, <1>4, <2>2, <2>3 DEF Inv, TypeOK, HistoryTypes
  <2>5. WindowSound'
    <3>1. WrappingSub(stx.next_id, a.id) = l - m
      <4>1. WrappingSub(stx.next_id, stx.base_id) = l - tx_base
        BY <1>2 DEF InTransit
      <4>2. m - tx_base <= l - tx_base /\ (l - tx_base) - (m - tx_base) = l - m
        <5> HIDE DEF l, m
        <5> QED BY <1>2, <2>1 DEF l
      <4> HIDE DEF l, m
      <4> QED BY <1>2, <2>1, <4>1, <4>2, SubShift
    <3>2. WrappingSub(srx.base_id, a.id) = rx_base - m
      <4>2. m - tx_base <= rx_base - tx_base /\ (rx_base - tx_base) - (m - tx_base) = rx_base - m
        <5> HIDE DEF m
        <5> QED BY <1>2, <2>1
      <4> HIDE DEF m
      <4> QED BY <1>2, <2>1, <4>2, SubShift
    <3>3. l - m <= TxWindow
      <4> HIDE DEF l
      <4> QED BY <1>2, <1>6, TxConstants
    <3> QED BY <1>1, <1>2, <2>1, <2>2, <2>3, <3>1, <3>2, <3>3 DEF WindowSound, InTransit
  <2>6. RingsSound'
    <3>1. \A j \in 0 .. Len(sent) - m - 1 :
             /\ tx.transit_buf[WrappingAdd(tx.base_id, j) % TxWindow] = sent[m + j + 1].size
             /\ NonceAt(tx, WrappingAdd(tx.base_id, j)) <=> sent[m + j + 1].nonce
      BY <1>2, <2>1, <2>2, AckMovesRings
    <3> QED BY <1>1, <2>3, <3>1 DEF RingsSound, NonceAt
  <2>7. NoncesSound'
    <3>1. \A k \in AllOnes(HistoryBits) :
              k \in tx.nonce_history <=> k < m /\ sent[m - k].nonce
      BY <1>2, <2>1, <2>2, AckMovesNonces
    <3> QED BY <1>1, <2>3, <3>1 DEF NoncesSound
  <2>8. TransitExact'
    <3>1. tx.transit_total
             = SumTo([i \in 1 .. Len(sent) - m |-> sent[m + i].size], Len(sent) - m)
      BY <1>2, <2>1, <2>2, AckReducesTotal
    <3> QED BY <1>1, <2>3, <3>1 DEF TransitExact
  <2>9. ASSUME NEW k \in acks' PROVE AckSound(k)'
    <3>1. k \in acks /\ k.n + Lag >= m /\ k.n \in Nat /\ k.id \in Id /\ AckSound(k)
      BY <1>1, <2>3, SenderFacts DEF Inv
    <3>2. Ahead(k.id, a.id, k.n - m)
      <4>1. Ahead(k.id, stx.base_id, k.n - tx_base) /\ Ahead(a.id, stx.base_id, m - tx_base)
            /\ k.n <= rx_base
        BY <3>1 DEF AckSound, Inv
      <4> DEFINE x == k.n - tx_base
                 y == m - tx_base
      <4>2. /\ x \in Int /\ y \in Int /\ x - y = k.n - m
            /\ -IdMod < x - y /\ x - y < IdMod
        <5>1. rx_base <= tx_base + TxWindow
          <6> HIDE DEF l
          <6> QED BY <1>2, TxConstants
        <5>2. \A p, q \in Nat : /\ p <= rx_base /\ p + Lag >= q /\ q >= tx_base
                 => /\ p - tx_base \in Int /\ q - tx_base \in Int
                    /\ (p - tx_base) - (q - tx_base) = p - q
                    /\ -IdMod < p - q /\ p - q < IdMod
          BY <1>2, <5>1, TxConstants
        <5> QED BY <1>2, <1>6, <3>1, <4>1, <5>2
      <4>3. Ahead(k.id, stx.base_id, x) /\ Ahead(a.id, stx.base_id, y)
        BY <4>1
      <4> HIDE DEF x, y
      <4>4. Ahead(k.id, a.id, x - y)
        BY <1>2, <3>1, <4>2, <4>3, AheadDiff
      <4> QED BY <4>2, <4>4
    <3> QED BY <1>1, <1>2, <2>2, <2>3, <3>1, <3>2 DEF AckSound, Delivered
  <2>10. NoGapSeen'
    <3> SUFFICES ASSUME NoSkip', ~jumped'
                 PROVE  (stx.ack_history = AllOnes(HistoryBits) /\ ~drop)'
      BY DEF NoGapSeen
    <3>1. NoSkip
      BY <1>1 DEF NoSkip, Delivered
    <3>2. ~jumped /\ m - tx_base <= AckBits
      BY <1>2, <2>3, TxConstants
    <3>3. done.drop = FALSE /\ done.tx.ack_history = AllOnes(HistoryBits)
      BY <1>6, <3>1, <3>2, AckSeesNoGap
    <3> QED BY <1>1, <3>3 DEF tx
  <2> QED BY <1>3, <2>4, <2>5, <2>6, <2>7, <2>8, <2>9, <2>10 DEF Inv
<1> QED BY <1>2, <1>5, <1>6

LEMMA SendSyncInv ==
    ASSUME Inv, SendSync
    PROVE  Inv'
<1>1. /\ syncs' = syncs \cup {Len(sent)} /\ drop' = FALSE
      /\ UNCHANGED <<stx, srx, acks, sent, delivered, tx_base, rx_base, jumped>>
  BY DEF SendSync
<1>2. ReceiverSound'
  BY <1>1, ReceiverUnchanged DEF Inv
<1>3. Len(sent) \in 0 .. Len(sent) /\ rx_base <= Len(sent) + Lag
  <2>1. Len(sent) \in Nat /\ rx_base \in Nat /\ rx_base <= Len(sent) /\ Lag \in Nat
    BY SenderFacts
  <2>2. \A l \in Nat : rx_base <= l => l \in 0 .. l /\ rx_base <= l + Lag
    BY <2>1
  <2> QED BY <2>1, <2>2
<1>4. TypeOK' /\ HistoryTypes' /\ WindowSound'
  BY <1>1, <1>3 DEF Inv, TypeOK, HistoryTypes, WindowSound, InTransit
<1>5. SyncsSound'
  BY <1>1, <1>3 DEF Inv, SyncsSound
<1>6. RingsSound' /\ NoncesSound' /\ TransitExact'
  BY <1>1 DEF Inv, RingsSound, NonceAt, NoncesSound, TransitExact
<1>7. \A k \in acks' : AckSound(k)'
  BY <1>1 DEF Inv, AckSound, Delivered
<1>8. NoGapSeen'
  BY <1>1 DEF Inv, NoGapSeen, NoSkip, Delivered
<1> QED BY <1>2, <1>4, <1>5, <1>6, <1>7, <1>8 DEF Inv

LEMMA SentGrows ==
    ASSUME HistoryTypes, NEW kind \in Kinds
    PROVE  /\ Append(sent, kind) \in Seq([nonce : BOOLEAN, size : Nat])
           /\ Len(Append(sent, kind)) = Len(sent) + 1
           /\ \A i \in 1 .. Len(sent) : Append(sent, kind)[i] = sent[i]
           /\ Append(sent, kind)[Len(sent) + 1] = kind
           /\ kind.nonce \in BOOLEAN /\ kind.size \in Nat
<1> DEFINE S == [nonce : BOOLEAN, size : Nat]
<1>1. sent \in Seq(S) /\ kind \in S
  BY SegmentLinkAssumption DEF HistoryTypes
<1>2. kind.nonce \in BOOLEAN /\ kind.size \in Nat
  BY <1>1
<1> HIDE DEF S
<1>3. /\ Append(sent, kind) \in Seq(S)
      /\ Len(Append(sent, kind)) = Len(sent) + 1
      /\ \A i \in 1 .. Len(sent) : Append(sent, kind)[i] = sent[i]
      /\ Append(sent, kind)[Len(sent) + 1] = kind
  BY <1>1, AppendProperties
<1> QED BY <1>2, <1>3 DEF S

\* A longer sequence of sent segments changes nothing for the receiver.
LEMMA ReceiverKeeps ==
    ASSUME Inv, NEW kind \in Kinds, sent' = Append(sent, kind),
           UNCHANGED <<srx, delivered, rx_base>>
    PROVE  ReceiverSound'
<1> DEFINE l == Len(sent)
           d == delivered \o srx.out
<1>1. /\ l \in Nat /\ rx_base \in Nat /\ rx_base <= l /\ RxSound(srx, rx_base)
      /\ Settled(srx, rx_base) /\ srx.out = <<>> /\ srx \in RxType
  BY SenderFacts DEF Inv, ReceiverSound, RxSound
<1>2. Len(sent') = l + 1 /\ \A i \in 1 .. l : sent'[i] = sent[i]
  BY SentGrows DEF Inv
<1>3. d \in Seq(Nat)
  BY <1>1, ConcatProperties DEF RxType, Inv, HistoryTypes
<1>4. rx_base \in rx_base .. l + 1 /\ (\A n \in rx_base .. l - 1 : n \in rx_base .. l /\ n + 1 \in 1 .. l)
  <2> HIDE DEF l
  <2> QED BY <1>1
<1>5. \A i \in 1 .. Len(srx.slots) : IsSegment(srx.slots[i], srx, rx_base)'
  <2> SUFFICES ASSUME NEW i \in 1 .. Len(srx.slots)
               PROVE  (IsSegment(srx.slots[i], srx, rx_base))'
    OBVIOUS
  <2> DEFINE s == srx.slots[i]
  <2>1. IsSegment(s, srx, rx_base)
    BY <1>1 DEF RxSound, SlotsInOrder
  <2>2. s.data \in rx_base .. l - 1 /\ s.nonce = sent[s.data + 1].nonce
        /\ RxDelta(srx, s.id) = s.data - rx_base
    BY <2>1 DEF IsSegment
  <2>3. s.data + 1 \in 1 .. l /\ s.data \in rx_base .. (l + 1) - 1
    <3> HIDE DEF s, l
    <3> QED BY <1>1, <2>2
  <2> QED BY <1>2, <2>2, <2>3 DEF IsSegment, RxDelta
<1>6. NoncesOK(srx.nonce_history, d, rx_base)'
  <2>1. ASSUME NEW k \in AllOnes(RxHistoryBits), Delivered(d, rx_base - 1 - k)
        PROVE  sent'[rx_base - k] = sent[rx_base - k]
    <3>1. PICK i \in 1 .. Len(d) : d[i] = rx_base - 1 - k
      BY <2>1 DEF Delivered
    <3>2. d[i] \in Nat
      <4> HIDE DEF d
      <4> QED BY <1>3
    <3>3. k \in Nat
      BY BitsType
    <3>4. rx_base - k \in 1 .. l
      <4> HIDE DEF l, d
      <4> QED BY <1>1, <3>1, <3>2, <3>3
    <3> QED BY <1>2, <3>4
  <2>2. NoncesOK(srx.nonce_history, d, rx_base)
    BY <1>1 DEF RxSound
  <2> QED BY <2>1, <2>2 DEF NoncesOK, Delivered
<1>7. SlotsInOrder(srx, rx_base)'
  BY <1>1, <1>5 DEF RxSound, SlotsInOrder
<1>8. /\ srx' \in RxType /\ (rx_base \in rx_base .. Len(sent))'
      /\ (RxDelta(srx, srx.base_id) = rx_base - rx_base)'
      /\ InOrder(d, rx_base)' /\ HistoryOK(srx.rx_history, d, rx_base)'
  BY <1>1, <1>2, <1>4 DEF RxSound, InOrder, HistoryOK, Delivered, RxDelta
<1>9. RxSound(srx, rx_base)'
  BY <1>1, <1>6, <1>7, <1>8 DEF RxSound, NewOnly
<1>10. Settled(srx, rx_base)' /\ (srx.out = <<>>)'
  BY <1>1 DEF Settled
<1> QED BY <1>9, <1>10 DEF ReceiverSound

LEMMA SendSegmentInv ==
    ASSUME Inv, NEW kind \in Kinds, SendSegment(kind)
    PROVE  Inv'
<1> DEFINE l == Len(sent)
           n == l - tx_base
           nonce == kind.nonce
           size == kind.size
           tx == MarkSent(StoreNonce(stx, nonce), size)
           next == stx.next_id
           base == stx.base_id
<1>1. /\ stx' = tx /\ sent' = Append(sent, kind) /\ drop' = FALSE /\ CanSend(stx)
      /\ UNCHANGED <<srx, syncs, acks, delivered, tx_base, rx_base, jumped>>
  BY DEF SendSegment
<1>2. /\ l \in Nat /\ tx_base \in Nat /\ rx_base \in Nat /\ tx_base <= rx_base /\ rx_base <= l
      /\ InTransit(stx) = n /\ WrappingSub(next, base) = n
      /\ WrappingSub(srx.base_id, base) = rx_base - tx_base
      /\ base \in Id /\ next \in Id /\ srx.base_id \in Id
      /\ stx \in SegmentTxType /\ SenderSound /\ HistoryTypes
  BY SenderFacts DEF InTransit, SenderSound
<1>3. /\ sent' \in Seq([nonce : BOOLEAN, size : Nat])
      /\ Len(sent') = l + 1 /\ \A i \in 1 .. l : sent'[i] = sent[i]
      /\ sent'[l + 1] = kind /\ kind.nonce \in BOOLEAN /\ kind.size \in Nat
  BY <1>1, <1>2, SentGrows
<1>4. /\ tx \in SegmentTxType
      /\ tx.base_id = base /\ tx.next_id = WrappingAdd(next, 1)
      /\ tx.transit_total = stx.transit_total + kind.size
      /\ tx.ack_history = stx.ack_history /\ tx.nonce_history = stx.nonce_history
      /\ tx.transit_buf[next % TxWindow] = kind.size
      /\ NonceAt(tx, next) <=> kind.nonce
      /\ \A id \in Id : WrappingSub(next, id) \in 1 .. TxWindow - 1 =>
            /\ tx.transit_buf[id % TxWindow] = stx.transit_buf[id % TxWindow]
            /\ NonceAt(tx, id) <=> NonceAt(stx, id)
  <2>1. nonce \in BOOLEAN /\ size \in Nat /\ stx \in SegmentTxType
    BY <1>2, <1>3
  <2> HIDE DEF nonce, size
  <2>2. /\ tx \in SegmentTxType
        /\ tx.base_id = base /\ tx.next_id = WrappingAdd(next, 1)
        /\ tx.transit_total = stx.transit_total + size
        /\ tx.ack_history = stx.ack_history /\ tx.nonce_history = stx.nonce_history
        /\ tx.transit_buf[next % TxWindow] = size
        /\ NonceAt(tx, next) <=> nonce
        /\ \A id \in Id : WrappingSub(next, id) \in 1 .. TxWindow - 1 =>
              /\ tx.transit_buf[id % TxWindow] = stx.transit_buf[id % TxWindow]
              /\ NonceAt(tx, id) <=> NonceAt(stx, id)
    BY <2>1, SendFields
  <2> HIDE DEF tx
  <2> QED BY <2>2 DEF nonce, size
<1> HIDE DEF tx
<1>5. n \in Nat /\ n < TxWindow /\ l = tx_base + n /\ (l + 1) - tx_base = n + 1
  <2>1. n < TxWindow
    BY <1>1, <1>2 DEF CanSend
  <2> HIDE DEF l
  <2> QED BY <1>2, <2>1
<1>6. ReceiverSound'
  BY <1>1, ReceiverKeeps
<1>7. TypeOK'
  <2>1. 0 .. l - 1 \subseteq 0 .. (l + 1) - 1 /\ 0 .. l \subseteq 0 .. l + 1
    <3> HIDE DEF l
    <3> QED BY <1>2
  <2>2. \A i \in 1 .. Len(srx.slots) :
           srx.slots[i] \in [id : Id, nonce : BOOLEAN, data : 0 .. (l + 1) - 1]
    <3> HIDE DEF l
    <3> QED BY <2>1 DEF Inv, TypeOK, l
  <2>3. syncs \subseteq 0 .. l + 1
    BY <2>1 DEF Inv, TypeOK
  <2> QED BY <1>1, <1>3, <1>4, <2>2, <2>3 DEF Inv, TypeOK
<1>8. HistoryTypes'
  BY <1>1, <1>2, <1>3 DEF HistoryTypes
<1>9. WindowSound'
  <2>1. WrappingSub(WrappingAdd(next, 1), base) = n + 1
    <3> HIDE DEF n
    <3>1. WrappingSub(next, base) + 1 < IdMod
      BY <1>2, <1>5, TxConstants
    <3> QED BY <1>2, <3>1, SubAdd
  <2>2. rx_base <= l + 1 /\ n + 1 <= TxWindow
    <3> HIDE DEF l
    <3> QED BY <1>2, <1>5, TxConstants
  <2> HIDE DEF l, n
  <2> QED BY <1>1, <1>2, <1>3, <1>4, <1>5, <2>1, <2>2 DEF WindowSound, InTransit
<1>10. RingsSound'
  <2> SUFFICES ASSUME NEW j \in 0 .. n
               PROVE  /\ tx.transit_buf[WrappingAdd(base, j) % TxWindow] = sent'[tx_base + j + 1].size
                      /\ NonceAt(tx, WrappingAdd(base, j)) <=> sent'[tx_base + j + 1].nonce
    <3>1. Len(sent') - tx_base' - 1 = n
      <4> HIDE DEF l, n
      <4> QED BY <1>1, <1>2, <1>3, <1>5
    <3> HIDE DEF n
    <3> QED BY <1>1, <1>4, <3>1 DEF RingsSound, NonceAt
  <2>1. CASE j = n
    <3>1. tx_base + j + 1 = l + 1
      <4> HIDE DEF l, n
      <4> QED BY <1>2, <1>5, <2>1
    <3>2. WrappingAdd(base, j) = next
      <4> HIDE DEF n
      <4>1. j \in 0 .. IdMod - 1
        BY <1>5, <2>1, TxConstants
      <4>2. WrappingAdd(base, j) \in Id /\ WrappingSub(WrappingAdd(base, j), base) = j
        BY <1>2, <4>1, AddSteps
      <4> QED BY <1>2, <2>1, <4>2, SubInjective
    <3> HIDE DEF l
    <3> QED BY <1>3, <1>4, <3>1, <3>2
  <2>2. CASE j # n
    <3>1. /\ j \in 0 .. Len(sent) - tx_base - 1 /\ tx_base + j + 1 \in 1 .. l
          /\ j \in 0 .. IdMod - 1 /\ n - j \in 1 .. TxWindow - 1 /\ j <= n
      <4>1. /\ j \in 0 .. l - tx_base - 1 /\ tx_base + j + 1 \in 1 .. l
            /\ j \in 0 .. IdMod - 1 /\ n - j \in 1 .. TxWindow - 1 /\ j <= n
        <5> HIDE DEF l
        <5> QED BY <1>2, <1>5, <2>2, TxConstants
      <4> QED BY <4>1
    <3>2. /\ stx.transit_buf[WrappingAdd(base, j) % TxWindow] = sent[tx_base + j + 1].size
          /\ NonceAt(stx, WrappingAdd(base, j)) <=> sent[tx_base + j + 1].nonce
      BY <3>1 DEF Inv, RingsSound
    <3> DEFINE id == WrappingAdd(base, j)
    <3>3. id \in Id /\ WrappingSub(id, base) = j
      BY <1>2, <3>1, AddSteps
    <3> HIDE DEF id, n
    <3>4. WrappingSub(next, id) = n - j
      BY <1>2, <3>1, <3>3, SubShift
    <3>5. /\ tx.transit_buf[id % TxWindow] = stx.transit_buf[id % TxWindow]
          /\ NonceAt(tx, id) <=> NonceAt(stx, id)
      BY <1>4, <3>1, <3>3, <3>4
    <3> HIDE DEF l
    <3> QED BY <1>3, <3>1, <3>2, <3>5 DEF id
  <2> QED BY <2>1, <2>2
<1>11. NoncesSound'
  <2>1. ASSUME NEW k \in AllOnes(HistoryBits), k < tx_base
        PROVE  sent'[tx_base - k] = sent[tx_base - k]
    <3>1. k \in Nat
      BY TxConstants DEF AllOnes
    <3>2. tx_base - k \in 1 .. l
      <4> HIDE DEF l
      <4> QED BY <1>2, <2>1, <3>1
    <3> QED BY <1>3, <3>2
  <2> QED BY <1>1, <1>4, <2>1 DEF Inv, NoncesSound
<1>12. TransitExact'
  <2> DEFINE f == [i \in 1 .. n |-> sent[tx_base + i].size]
             g == [i \in 1 .. n + 1 |-> sent'[tx_base + i].size]
  <2>1. stx.transit_total = SumTo(f, n)
    BY DEF Inv, TransitExact
  <2>2. ASSUME NEW k \in 1 .. n PROVE f[k] = g[k]
    <3>1. k \in 1 .. n + 1 /\ tx_base + k \in 1 .. l
      <4> HIDE DEF l
      <4> QED BY <1>2
    <3> HIDE DEF l, n
    <3> QED BY <1>3, <3>1
  <2>3. g[n + 1] = kind.size
    <3>1. n + 1 \in 1 .. n + 1 /\ tx_base + (n + 1) = l + 1
      <4> HIDE DEF l, n
      <4> QED BY <1>2, <1>5
    <3> HIDE DEF n, l
    <3> QED BY <1>3, <3>1
  <2>4. tx.transit_total = SumTo(g, n + 1)
    <3> HIDE DEF f, g, n
    <3>1. SumTo(f, n) = SumTo(g, n)
      BY <1>5, <2>2, SumSame
    <3>2. SumTo(g, n + 1) = SumTo(g, n) + g[n + 1]
      BY <1>5, SumStep
    <3> QED BY <1>4, <2>1, <2>3, <3>1, <3>2
  <2>5. Len(sent') - tx_base' = n + 1
    <3> HIDE DEF l, n
    <3> QED BY <1>1, <1>3, <1>5
  <2> HIDE DEF n
  <2> QED BY <1>1, <2>4, <2>5 DEF TransitExact
<1>13. ASSUME NEW a \in acks PROVE AckSound(a)'
  <2>1. \A k \in a.history : sent'[a.n - k] = sent[a.n - k]
    BY <1>3, AckRange
  <2>2. {k \in a.history : sent'[a.n - k].nonce} = {k \in a.history : sent[a.n - k].nonce}
    BY <2>1
  <2>3. AckSound(a)
    BY DEF Inv
  <2> QED BY <1>1, <1>4, <2>2, <2>3 DEF AckSound, Delivered
<1>14. SyncsSound'
  BY <1>1 DEF Inv, SyncsSound
<1>15. NoGapSeen'
  BY <1>1, <1>4 DEF Inv, NoGapSeen, NoSkip, Delivered
<1> QED BY <1>1, <1>6, <1>7, <1>8, <1>9, <1>10, <1>11, <1>12, <1>13, <1>14, <1>15 DEF Inv

LEMMA ContextHolds ==
    ASSUME Inv
    PROVE  Context
<1> DEFINE l == Len(sent)
<1>1. /\ l \in Nat /\ rx_base \in Nat /\ tx_base \in Nat /\ rx_base <= l /\ tx_base <= rx_base
      /\ l - tx_base <= TxWindow /\ srx.base_id \in Id /\ TxWindow <= RxWindow
      /\ TxWindow \in Nat /\ RxWindow \in Nat
  BY SenderFacts, TxConstants
<1>2. l <= rx_base + RxWindow
  <2> HIDE DEF l
  <2> QED BY <1>1
<1> QED BY <1>1, <1>2 DEF Context, Inv

\* What was passed without being delivered stays undelivered.
LEMMA OldStaysOld ==
    ASSUME HistoryTypes, NEW out \in Seq(Nat), NewOnly(out), NEW n \in Int, n < rx_base
    PROVE  Delivered(delivered \o out, n) <=> Delivered(delivered, n)
<1> DEFINE d == delivered \o out
<1>1. /\ delivered \in Seq(Nat) /\ Len(delivered) \in Nat /\ Len(out) \in Nat
      /\ Len(d) = Len(delivered) + Len(out) /\ rx_base \in Nat
      /\ \A i \in 1 .. Len(d) :
            d[i] = IF i <= Len(delivered) THEN delivered[i] ELSE out[i - Len(delivered)]
  BY ConcatProperties DEF HistoryTypes
<1> HIDE DEF d
<1>2. ASSUME NEW i \in 1 .. Len(d), d[i] = n
      PROVE  Delivered(delivered, n)
  <2>1. CASE i <= Len(delivered)
    <3>1. i \in 1 .. Len(delivered)
      BY <1>1, <2>1
    <3> QED BY <1>1, <1>2, <2>1, <3>1 DEF Delivered
  <2>2. CASE ~(i <= Len(delivered))
    <3>1. i - Len(delivered) \in 1 .. Len(out)
      BY <1>1, <2>2
    <3>2. rx_base <= out[i - Len(delivered)] /\ out[i - Len(delivered)] \in Nat
      BY <3>1 DEF NewOnly
    <3> QED BY <1>1, <1>2, <2>2, <3>2
  <2> QED BY <2>1, <2>2
<1>3. ASSUME NEW i \in 1 .. Len(delivered), delivered[i] = n
      PROVE  Delivered(d, n)
  <2>1. i \in 1 .. Len(d) /\ i <= Len(delivered)
    BY <1>1
  <2> QED BY <1>1, <1>3, <2>1 DEF Delivered
<1> QED BY <1>2, <1>3 DEF Delivered, d

\* The acknowledgement of a sound receiver.
LEMMA AckOfSound ==
    ASSUME Inv, NEW rx, NEW c, RxSound(rx, c)
    PROVE  LET a == [n |-> c, id |-> rx.base_id, history |-> AckHistory(rx),
                     checksum |-> AckChecksum(rx)]
               d == delivered \o rx.out
           IN  /\ a \in [n : Nat, id : Id, history : SUBSET AllOnes(AckBits),
                         checksum : BOOLEAN]
               /\ tx_base <= c + Lag
               /\ Ahead(rx.base_id, stx.base_id, c - tx_base)
               /\ WrappingSub(rx.base_id, stx.base_id) = c - tx_base
               /\ \A k \in AllOnes(AckBits) : k \in AckHistory(rx) <=> Delivered(d, c - 1 - k)
               /\ AckChecksum(rx) = Parity({k \in AckHistory(rx) : sent[c - k].nonce})
<1> DEFINE d == delivered \o rx.out
           l == Len(sent)
<1>1. /\ rx.base_id \in Id /\ rx \in RxType /\ c \in Nat
  BY ContextHolds, SoundTypes
<1>2. /\ c \in rx_base .. l /\ WrappingSub(rx.base_id, srx.base_id) = c - rx_base
      /\ HistoryOK(rx.rx_history, d, c) /\ NoncesOK(rx.nonce_history, d, c)
  BY DEF RxSound, RxDelta
<1>3. /\ l \in Nat /\ rx_base \in Nat /\ tx_base \in Nat /\ rx_base <= l /\ tx_base <= rx_base
      /\ l - tx_base <= TxWindow /\ srx.base_id \in Id /\ stx.base_id \in Id
      /\ WrappingSub(srx.base_id, stx.base_id) = rx_base - tx_base /\ Lag \in Nat
  BY SenderFacts
<1>4. /\ tx_base <= c + Lag /\ (c - rx_base) + (rx_base - tx_base) = c - tx_base
      /\ c - tx_base < IdMod
  <2> HIDE DEF l
  <2> QED BY <1>1, <1>2, <1>3, TxConstants
<1>5. WrappingSub(rx.base_id, stx.base_id) = c - tx_base
  BY <1>1, <1>2, <1>3, <1>4, SubTrans
<1>6. Ahead(rx.base_id, stx.base_id, c - tx_base)
  BY <1>1, <1>3, <1>5, AheadOfSub
<1>7. AllOnes(AckBits) \subseteq AllOnes(RxHistoryBits) /\ AllOnes(AckBits) \subseteq Nat
  BY RxHistoryAssumption DEF AllOnes
<1>8. AckHistory(rx) \in SUBSET AllOnes(AckBits)
  <2>1. rx.rx_history \in SUBSET AllOnes(RxHistoryBits)
    BY <1>1 DEF RxType
  <2> QED BY <2>1, RxHistoryAssumption DEF AckHistory, Low, AllOnes
<1>9. \A k \in AllOnes(AckBits) : k \in AckHistory(rx) <=> Delivered(d, c - 1 - k)
  <2> SUFFICES ASSUME NEW k \in AllOnes(AckBits)
               PROVE  k \in AckHistory(rx) <=> Delivered(d, c - 1 - k)
    OBVIOUS
  <2>1. k < AckBits
    BY RxHistoryAssumption DEF AllOnes
  <2>2. k \in rx.rx_history <=> Delivered(d, c - 1 - k)
    BY <1>2, <1>7 DEF HistoryOK
  <2> QED BY <2>1, <2>2 DEF AckHistory, Low
<1>10. AckHistory(rx) \cap rx.nonce_history = {k \in AckHistory(rx) : sent[c - k].nonce}
  <2>1. ASSUME NEW k \in AckHistory(rx)
        PROVE  k \in rx.nonce_history <=> sent[c - k].nonce
    <3>1. k \in AllOnes(AckBits) /\ k \in AllOnes(RxHistoryBits)
      BY <1>7, <1>8
    <3>2. Delivered(d, c - 1 - k)
      BY <1>9, <3>1
    <3> QED BY <1>2, <3>1, <3>2 DEF NoncesOK
  <2> QED BY <2>1
<1>11. AckChecksum(rx) \in BOOLEAN
  BY DEF AckChecksum, Parity
<1>12. AckChecksum(rx) = Parity({k \in AckHistory(rx) : sent[c - k].nonce})
  BY <1>10 DEF AckChecksum
<1> QED BY <1>1, <1>4, <1>5, <1>6, <1>8, <1>9, <1>11, <1>12

LEMMA ReceiverBecomesInv ==
    ASSUME Inv, NEW rx, NEW c, RxSound(rx, c), Settled(rx, c),
           NEW answer \in BOOLEAN, ReceiverBecomes(rx, answer),
           syncs' = {m \in syncs : m + Lag >= rx_base'}
    PROVE  Inv'
<1> DEFINE d == delivered \o rx.out
           rx2 == [rx EXCEPT !.out = <<>>]
           new == [n |-> c, id |-> rx.base_id, history |-> AckHistory(rx),
                   checksum |-> AckChecksum(rx)]
           l == Len(sent)
<1>1. /\ rx \in RxType /\ rx.base_id \in Id /\ rx.slots \in Seq(SlotType)
      /\ rx.out \in Seq(Nat) /\ c \in Nat /\ Context
  BY ContextHolds, SoundTypes
<1>2. /\ c \in rx_base .. l /\ WrappingSub(rx.base_id, srx.base_id) = c - rx_base
      /\ SlotsInOrder(rx, c) /\ InOrder(d, c) /\ HistoryOK(rx.rx_history, d, c)
      /\ NoncesOK(rx.nonce_history, d, c) /\ NewOnly(rx.out)
  BY DEF RxSound, RxDelta
<1>3. /\ l \in Nat /\ rx_base \in Nat /\ tx_base \in Nat /\ rx_base <= l /\ tx_base <= rx_base
      /\ l - tx_base <= TxWindow /\ srx.base_id \in Id /\ InTransit(stx) = l - tx_base
      /\ HistoryTypes
  BY SenderFacts DEF Inv
<1>4. /\ rx_base' = c /\ srx' = rx2 /\ delivered' = d /\ drop' = FALSE
      /\ UNCHANGED <<stx, sent, tx_base, jumped>>
      /\ acks' \subseteq acks \cup {new}
  <2>1. rx_base' = c
    BY <1>1, <1>2, <1>3 DEF ReceiverBecomes
  <2> QED BY <2>1 DEF ReceiverBecomes
<1>5. /\ rx2 \in RxType /\ rx2.base_id = rx.base_id /\ rx2.slots = rx.slots
      /\ rx2.rx_history = rx.rx_history /\ rx2.nonce_history = rx.nonce_history
      /\ rx2.out = <<>>
  <2> DEFINE o == <<>>
  <2>1. o \in Seq(Nat)
    OBVIOUS
  <2> HIDE DEF o
  <2>2. LET q == [rx EXCEPT !.out = o]
        IN  /\ q \in RxType /\ q.base_id = rx.base_id /\ q.slots = rx.slots
            /\ q.rx_history = rx.rx_history /\ q.nonce_history = rx.nonce_history
            /\ q.out = o
    BY <1>1, <2>1 DEF RxType
  <2> QED BY <2>2 DEF o
<1> HIDE DEF rx2
<1>6. d \in Seq(Nat) /\ d \o <<>> = d
  <2>1. delivered \in Seq(Nat)
    BY <1>3 DEF HistoryTypes
  <2>2. d \in Seq(Nat)
    BY <1>1, <2>1, ConcatProperties
  <2> HIDE DEF d
  <2> QED BY <2>2, ConcatEmptySeq
<1>7. /\ new \in [n : Nat, id : Id, history : SUBSET AllOnes(AckBits), checksum : BOOLEAN]
      /\ tx_base <= c + Lag
      /\ Ahead(rx.base_id, stx.base_id, c - tx_base)
      /\ WrappingSub(rx.base_id, stx.base_id) = c - tx_base
      /\ \A k \in AllOnes(AckBits) : k \in AckHistory(rx) <=> Delivered(d, c - 1 - k)
      /\ AckChecksum(rx) = Parity({k \in AckHistory(rx) : sent[c - k].nonce})
  BY AckOfSound
<1> HIDE DEF d
<1>8. HistoryTypes'
  BY <1>1, <1>3, <1>4, <1>6 DEF HistoryTypes
<1>9. WindowSound'
  <2>1. tx_base <= c /\ c <= l
    <3> HIDE DEF l
    <3> QED BY <1>1, <1>2, <1>3
  <2> QED BY <1>3, <1>4, <1>5, <1>7, <2>1 DEF WindowSound, InTransit
<1>10. ReceiverSound'
  <2>1. (c \in c .. l) /\ WrappingSub(rx.base_id, rx.base_id) = c - c
    <3>1. WrappingSub(rx.base_id, rx.base_id) = 0
      BY <1>1, SubSelf
    <3> HIDE DEF l
    <3> QED BY <1>1, <1>2, <1>3, <3>1
  <2>2. SlotsInOrder(rx2, c)'
    <3>1. \A i \in 1 .. Len(rx2.slots) : IsSegment(rx2.slots[i], rx2, c)'
      BY <1>2, <1>4, <1>5 DEF SlotsInOrder, IsSegment, RxDelta
    <3> QED BY <1>2, <1>5, <3>1 DEF SlotsInOrder
  <2>3. /\ InOrder(d, c) /\ HistoryOK(rx2.rx_history, d, c)
        /\ \A k \in AllOnes(RxHistoryBits) :
              k \in rx2.nonce_history <=> Delivered(d, c - 1 - k) /\ sent'[c - k].nonce
    BY <1>2, <1>4, <1>5 DEF NoncesOK
  <2>4. NewOnly(srx.out)' /\ Settled(srx, rx_base)' /\ (srx.out = <<>>)'
    BY <1>4, <1>5 DEF NewOnly, Settled
  <2>5. delivered' \o srx'.out = d
    BY <1>4, <1>5, <1>6
  <2>6. SlotsInOrder(srx, rx_base)'
    BY <1>4, <2>2
  <2>7. (/\ InOrder(delivered \o srx.out, rx_base)
         /\ HistoryOK(srx.rx_history, delivered \o srx.out, rx_base)
         /\ NoncesOK(srx.nonce_history, delivered \o srx.out, rx_base))'
    <3>1. InOrder(delivered \o srx.out, rx_base)'
      BY <1>4, <2>3, <2>5 DEF InOrder
    <3>2. HistoryOK(srx.rx_history, delivered \o srx.out, rx_base)'
      BY <1>4, <2>3, <2>5 DEF HistoryOK, Delivered
    <3>3. NoncesOK(srx.nonce_history, delivered \o srx.out, rx_base)'
      BY <1>4, <2>3, <2>5 DEF NoncesOK, Delivered
    <3> QED BY <3>1, <3>2, <3>3
  <2>8. (/\ srx \in RxType /\ rx_base \in rx_base .. Len(sent)
         /\ RxDelta(srx, srx.base_id) = rx_base - rx_base)'
    BY <1>4, <1>5, <2>1 DEF RxDelta
  <2> QED BY <2>4, <2>6, <2>7, <2>8 DEF ReceiverSound, RxSound
<1>11. TypeOK'
  <2>1. \A i \in 1 .. Len(rx.slots) :
          rx.slots[i] \in [id : Id, nonce : BOOLEAN, data : 0 .. l - 1]
    <3> SUFFICES ASSUME NEW i \in 1 .. Len(rx.slots)
                 PROVE  rx.slots[i] \in [id : Id, nonce : BOOLEAN, data : 0 .. l - 1]
      OBVIOUS
    <3>1. rx.slots[i] \in SlotType /\ rx.slots[i].data \in c .. l - 1
      BY <1>1, <1>2 DEF SlotsInOrder, IsSegment
    <3>2. rx.slots[i].data \in 0 .. l - 1
      <4> HIDE DEF l
      <4> QED BY <1>1, <1>3, <3>1
    <3> DEFINE s == rx.slots[i]
               D == 0 .. l - 1
    <3>3. s \in SlotType /\ s.data \in D
      BY <3>1, <3>2
    <3> HIDE DEF s, D
    <3>4. s \in [id : Id, nonce : BOOLEAN, data : D]
      BY <3>3 DEF SlotType
    <3> QED BY <3>4 DEF s, D
  <2>2. acks' \subseteq [n : Nat, id : Id, history : SUBSET AllOnes(AckBits), checksum : BOOLEAN]
    BY <1>4, <1>7 DEF Inv, TypeOK
  <2>3. syncs' \subseteq 0 .. Len(sent')
    BY <1>4 DEF Inv, TypeOK
  <2>4. /\ rx2.base_id \in Id /\ rx2.rx_history \subseteq AllOnes(RxHistoryBits)
        /\ rx2.nonce_history \subseteq AllOnes(RxHistoryBits)
    BY <1>5 DEF RxType
  <2>5. stx' \in SegmentTxType
    BY <1>4 DEF Inv, TypeOK
  <2> QED BY <1>4, <1>5, <2>1, <2>2, <2>3, <2>4, <2>5 DEF TypeOK
<1>12. RingsSound' /\ NoncesSound' /\ TransitExact'
  BY <1>4 DEF Inv, RingsSound, NonceAt, NoncesSound, TransitExact
<1>13. \A n \in Int : n < rx_base => (Delivered(d, n) <=> Delivered(delivered, n))
  BY <1>1, <1>2, <1>3, OldStaysOld DEF d
<1>14. ASSUME NEW a \in acks' PROVE AckSound(a)'
  <2>1. CASE a = new
    BY <1>4, <1>7, <1>1, <2>1 DEF AckSound, Delivered
  <2>2. CASE a \in acks
    <3>1. AckSound(a) /\ a.n \in Nat
      BY <2>2, SenderFacts DEF Inv
    <3>2. a.n <= c
      BY <1>1, <1>2, <1>3, <3>1 DEF AckSound
    <3>3. \A k \in AllOnes(AckBits) : a.n - 1 - k \in Int /\ a.n - 1 - k < rx_base
      BY <1>3, <3>1, TxConstants DEF AckSound, AllOnes
    <3>4. \A k \in AllOnes(AckBits) : k \in a.history <=> Delivered(d, a.n - 1 - k)
      BY <1>13, <3>1, <3>3 DEF AckSound
    <3> QED BY <1>4, <3>1, <3>2, <3>4 DEF AckSound, Delivered
  <2> QED BY <1>4, <2>1, <2>2
<1>15. SyncsSound'
  <2>1. \A m \in syncs : m \in Nat
    BY <1>3 DEF Inv, TypeOK
  <2> QED BY <1>1, <1>4, <2>1, LagAssumption DEF SyncsSound
<1>16. NoGapSeen'
  <2> SUFFICES ASSUME NoSkip' PROVE NoSkip
    BY <1>4 DEF Inv, NoGapSeen
  <2>1. ASSUME NEW n \in 0 .. rx_base - 1 PROVE Delivered(delivered, n)
    <3>1. n \in 0 .. c - 1 /\ n \in Int /\ n < rx_base
      BY <1>1, <1>2, <1>3
    <3>2. Delivered(d, n)
      BY <1>4, <3>1 DEF NoSkip, Delivered
    <3> QED BY <1>13, <3>1, <3>2
  <2> QED BY <2>1 DEF NoSkip
<1> QED BY <1>8, <1>9, <1>10, <1>11, <1>12, <1>14, <1>15, <1>16 DEF Inv

LEMMA ReceiveSegmentInv ==
    ASSUME Inv, NEW n \in 0 .. Len(sent) - 1, ReceiveSegment(n)
    PROVE  Inv'
<1> DEFINE rx == SegmentReceive(srx, [id |-> IdOf(n), nonce |-> sent[n + 1].nonce, data |-> n])
<1>1. /\ n + Lag >= rx_base /\ ReceiverBecomes(rx, rx.out # <<>>)
      /\ syncs' = {m \in syncs : m + Lag >= rx_base'}
  BY DEF ReceiveSegment
<1>2. rx_base <= n + Lag /\ ReceiverSound /\ Context
  <2>1. rx_base \in Nat /\ Lag \in Nat /\ n \in Nat
    BY SenderFacts
  <2> QED BY <1>1, <2>1, ContextHolds DEF Inv
<1>3. PICK c : RxSound(rx, c) /\ Settled(rx, c)
  BY <1>2, ReceiveSound
<1> HIDE DEF rx
<1>4. (rx.out # <<>>) \in BOOLEAN
  OBVIOUS
<1> QED BY <1>1, <1>3, <1>4, ReceiverBecomesInv

LEMMA ReceiveSyncInv ==
    ASSUME Inv, NEW m \in syncs, ReceiveSync(m)
    PROVE  Inv'
<1> DEFINE rx == SegmentSync(srx, IdOf(m))
<1>1. /\ ReceiverBecomes(rx, TRUE)
      /\ syncs' = {k \in syncs : k + Lag >= rx_base'}
  BY DEF ReceiveSync
<1>2. m \in 0 .. Len(sent) /\ rx_base <= m + Lag /\ ReceiverSound /\ Context
  BY ContextHolds DEF Inv, TypeOK, SyncsSound
<1>3. PICK c : RxSound(rx, c) /\ Settled(rx, c)
  BY <1>2, SyncSound
<1> HIDE DEF rx
<1>4. TRUE \in BOOLEAN
  OBVIOUS
<1> QED BY <1>1, <1>3, <1>4, ReceiverBecomesInv

LEMMA InitInv == Init => Inv
<1> SUFFICES ASSUME Init PROVE Inv
  OBVIOUS
<1>1. PICK id \in InitIds :
        /\ stx = SegmentTxNew(id) /\ srx = SegmentRxNew(id) /\ syncs = {} /\ acks = {}
        /\ sent = <<>> /\ delivered = <<>> /\ tx_base = 0 /\ rx_base = 0
        /\ drop = FALSE /\ jumped = FALSE
  BY DEF Init
<1>2. id \in Id
  BY SegmentLinkAssumption
<1>3. stx \in SegmentTxType
  <2>1. {} \in SUBSET AllOnes(WordBits) /\ {} \in SUBSET AllOnes(HistoryBits) /\ 0 \in Nat
    OBVIOUS
  <2> QED BY <1>1, <1>2, <2>1 DEF SegmentTxType, SegmentTxNew
<1>4. /\ stx.base_id = id /\ stx.next_id = id /\ stx.transit_total = 0
      /\ stx.ack_history = AllOnes(HistoryBits) /\ stx.nonce_history = {}
  BY <1>1 DEF SegmentTxNew
<1>5. /\ srx.base_id = id /\ srx.slots = <<>> /\ srx.rx_history = {}
      /\ srx.nonce_history = {} /\ srx.out = <<>> /\ srx \in RxType
  <2>1. <<>> \in Seq(SlotType) /\ <<>> \in Seq(Nat)
    OBVIOUS
  <2> QED BY <1>1, <1>2, <2>1 DEF SegmentRxNew, RxType
<1>6. Len(sent) = 0 /\ Len(delivered) = 0 /\ Len(srx.slots) = 0 /\ WrappingSub(id, id) = 0
  BY <1>1, <1>2, <1>5, SubSelf
<1>7. TypeOK
  BY <1>1, <1>2, <1>3, <1>5, <1>6 DEF TypeOK
<1>8. HistoryTypes
  BY <1>1 DEF HistoryTypes
<1>9. WindowSound
  BY <1>1, <1>4, <1>5, <1>6, TxConstants DEF WindowSound, InTransit
<1>10. RingsSound /\ NoncesSound
  <2>1. \A k \in AllOnes(HistoryBits) : ~(k < 0)
    BY TxConstants DEF AllOnes
  <2> QED BY <1>1, <1>4, <1>6, <2>1 DEF RingsSound, NoncesSound
<1>11. TransitExact
  <2>1. \A f : SumTo(f, 0) = 0
    BY SumStep
  <2>2. Len(sent) - tx_base = 0
    BY <1>1, <1>6
  <2> QED BY <1>4, <2>1, <2>2 DEF TransitExact
<1>12. ReceiverSound
  <2> DEFINE d == delivered \o srx.out
  <2>1. Len(d) = 0
    <3>1. delivered \in Seq(Nat) /\ srx.out \in Seq(Nat) /\ Len(srx.out) = 0
      BY <1>1, <1>5
    <3> QED BY <1>6, <3>1, ConcatProperties
  <2> HIDE DEF d
  <2>2. \A n : ~Delivered(d, n)
    BY <2>1 DEF Delivered
  <2>3. InOrder(d, 0) /\ HistoryOK(srx.rx_history, d, 0) /\ NoncesOK(srx.nonce_history, d, 0)
    BY <1>5, <2>1, <2>2 DEF InOrder, HistoryOK, NoncesOK
  <2>4. SlotsInOrder(srx, 0) /\ Settled(srx, 0) /\ NewOnly(srx.out)
    BY <1>5, <1>6 DEF SlotsInOrder, Settled, NewOnly
  <2> QED BY <1>1, <1>5, <1>6, <2>3, <2>4 DEF ReceiverSound, RxSound, RxDelta, d
<1>13. SyncsSound /\ (\A a \in acks : AckSound(a)) /\ NoGapSeen
  BY <1>1, <1>4 DEF SyncsSound, NoGapSeen
<1> QED BY <1>7, <1>8, <1>9, <1>10, <1>11, <1>12, <1>13 DEF Inv

LEMMA StutterInv ==
    ASSUME Inv, UNCHANGED linkVars
    PROVE  Inv'
<1>1. UNCHANGED <<stx, srx, syncs, acks, sent, delivered, tx_base, rx_base, drop, jumped>>
  BY DEF linkVars
<1>2. ReceiverSound'
  BY <1>1, ReceiverUnchanged DEF Inv
<1>3. TypeOK' /\ HistoryTypes' /\ WindowSound' /\ SyncsSound'
  BY <1>1 DEF Inv, TypeOK, HistoryTypes, WindowSound, InTransit, SyncsSound
<1>4. RingsSound' /\ NoncesSound' /\ TransitExact'
  BY <1>1 DEF Inv, RingsSound, NonceAt, NoncesSound, TransitExact
<1>5. (\A k \in acks : AckSound(k))' /\ NoGapSeen'
  BY <1>1 DEF Inv, AckSound, Delivered, NoGapSeen, NoSkip
<1> QED BY <1>2, <1>3, <1>4, <1>5 DEF Inv

\* Inv is inductive: it holds whatever is lost, duplicated, reordered or skipped, and
\* wherever the ids wrap.
THEOREM Invariance == Spec => []Inv
<1>1. Init => Inv
  BY InitInv
<1>2. Inv /\ [Next]_linkVars => Inv'
  <2> SUFFICES ASSUME Inv, [Next]_linkVars PROVE Inv'
    OBVIOUS
  <2>1. CASE \E kind \in Kinds : SendSegment(kind)
    BY <2>1, SendSegmentInv
  <2>2. CASE SendSync
    BY <2>2, SendSyncInv
  <2>3. CASE \E n \in 0 .. Len(sent) - 1 : ReceiveSegment(n)
    BY <2>3, ReceiveSegmentInv
  <2>4. CASE \E m \in syncs : ReceiveSync(m)
    BY <2>4, ReceiveSyncInv
  <2>5. CASE \E a \in acks : ReceiveAck(a)
    BY <2>5, ReceiveAckInv
  <2>6. CASE UNCHANGED linkVars
    BY <2>6, StutterInv
  <2> QED BY <2>1, <2>2, <2>3, <2>4, <2>5, <2>6 DEF Next
<1> QED BY <1>1, <1>2, PTL DEF Spec

-----------------------------------------------------------------------------
(* The properties of the run *)

\* The records of both windows and everything in flight keep their types.
THEOREM TypeCorrect == Spec => []TypeOK
<1>1. Inv => TypeOK
  BY DEF Inv
<1> QED BY <1>1, Invariance, PTL

\* The slots of receive hold at most two segments, in order, beyond the expected one and
\* inside the window.
THEOREM SlotsAlwaysOK == Spec => []SlotsOK
<1>1. Inv => SlotsOK
  <2> SUFFICES ASSUME Inv PROVE SlotsOK
    OBVIOUS
  <2> DEFINE l == Len(sent)
  <2>1. /\ l \in Nat /\ rx_base \in Nat /\ l <= rx_base + RxWindow /\ RxWindow \in Nat
        /\ SlotsInOrder(srx, rx_base) /\ Settled(srx, rx_base) /\ RxSound(srx, rx_base)
        /\ Context
    BY SenderFacts, ContextHolds, TxConstants DEF Inv, ReceiverSound, RxSound, Context
  <2>2. ASSUME NEW i \in 1 .. Len(srx.slots)
        PROVE  /\ RxDelta(srx, srx.slots[i].id) = srx.slots[i].data - rx_base
               /\ srx.slots[i].data - rx_base \in 1 .. RxWindow - 1
               /\ srx.slots[i].data \in Nat
    <3>1. /\ srx.slots[i].data \in rx_base .. l - 1 /\ srx.slots[i].data > rx_base
          /\ RxDelta(srx, srx.slots[i].id) = srx.slots[i].data - rx_base
      BY <2>1 DEF SlotsInOrder, IsSegment, Settled
    <3> HIDE DEF l
    <3> QED BY <2>1, <3>1
  <2>3. Len(srx.slots) <= 2 /\ (Len(srx.slots) = 2 => srx.slots[1].data < srx.slots[2].data)
    BY <2>1 DEF SlotsInOrder
  <2>4. ASSUME Len(srx.slots) = 2
        PROVE  RxDelta(srx, srx.slots[1].id) < RxDelta(srx, srx.slots[2].id)
    <3>1. 1 \in 1 .. Len(srx.slots) /\ 2 \in 1 .. Len(srx.slots)
      BY <2>4
    <3> QED BY <2>1, <2>2, <2>3, <2>4, <3>1
  <2> QED BY <2>2, <2>3, <2>4 DEF SlotsOK
<1> QED BY <1>1, Invariance, PTL

LEMMA DeliveredPlain ==
    ASSUME Inv
    PROVE  /\ InOrder(delivered, rx_base)
           /\ HistoryOK(srx.rx_history, delivered, rx_base)
<1>1. delivered \in Seq(Nat) /\ srx.out = <<>> /\ RxSound(srx, rx_base)
  BY DEF Inv, HistoryTypes, ReceiverSound
<1>2. delivered \o <<>> = delivered
  BY <1>1, ConcatEmptySeq
<1> QED BY <1>1, <1>2 DEF RxSound

\* receive and sync hand out every segment at most once and in order.
THEOREM AlwaysDeliveredInOrder == Spec => []DeliveredInOrder
<1>1. Inv => DeliveredInOrder
  BY DeliveredPlain DEF DeliveredInOrder, InOrder
<1> QED BY <1>1, Invariance, PTL

\* next_ack_info reports the truth about the last AckBits segments.
THEOREM AlwaysHistoryTruthful == Spec => []HistoryTruthful
<1>1. Inv => HistoryTruthful
  <2> SUFFICES ASSUME Inv, NEW k \in 0 .. AckBits - 1
               PROVE  k \in srx.rx_history <=> Delivered(delivered, rx_base - 1 - k)
    BY DEF HistoryTruthful, Delivered
  <2>1. k \in AllOnes(RxHistoryBits)
    BY RxHistoryAssumption DEF AllOnes
  <2> QED BY <2>1, DeliveredPlain DEF HistoryOK
<1> QED BY <1>1, Invariance, PTL

\* acknowledge never takes an honest acknowledgement for a forged one, at any alignment
\* of the window with the words of nonce_buf.
THEOREM HonestAcksAlwaysVerify == Spec => []HonestAckVerifies
<1>1. Inv => HonestAckVerifies
  BY AckDelta, AckVerifies DEF HonestAckVerifies
<1> QED BY <1>1, Invariance, PTL

\* acknowledge tells old from new by the id alone, and the windows never overtake
\* each other.
THEOREM AcksAlwaysRecognised == Spec => []AcksRecognised
<1>1. Inv => AcksRecognised
  BY AckDelta, SenderFacts DEF AcksRecognised
<1> QED BY <1>1, Invariance, PTL

\* bytes_in_transit is exact, and the subtraction in acknowledge never underflows.
THEOREM AlwaysTransitExact == Spec => []TransitExact
<1>1. Inv => TransitExact
  BY DEF Inv
<1> QED BY <1>1, Invariance, PTL

\* update_ack_history reports a drop only with a cause.
THEOREM DropsAlwaysHaveCause == Spec => []DropHasCause
<1>1. Inv => DropHasCause
  BY DEF Inv, NoGapSeen, NoSkip, Delivered, DropHasCause
<1> QED BY <1>1, Invariance, PTL


==============================================================================
