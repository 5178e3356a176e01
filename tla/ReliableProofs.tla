--------------------------- MODULE ReliableProofs ---------------------------
(***************************************************************************)
(* Proofs about the reliable buffers and the channel between them, for     *)
(* every window, fragment size, id width and set of packets.               *)
(***************************************************************************)
EXTENDS ReliableChannel, CommonProofs

-----------------------------------------------------------------------------
(* TxBuffer *)

LEMMA TxTypes ==
    ASSUME NEW t \in TxBuffer
    PROVE  /\ t.next_send_id \in Id /\ t.max_ack_id \in Id /\ t.base_id \in Id
           /\ t.fragments \in Seq(Fragment) /\ Len(t.fragments) \in Nat
           /\ NextSendDelta(t) \in Nat /\ NextSendDelta(t) < IdMod
           /\ MaxAckDelta(t) \in Nat /\ MaxAckDelta(t) < IdMod
<1>1. /\ t.next_send_id \in Id /\ t.max_ack_id \in Id /\ t.base_id \in Id
      /\ t.fragments \in Seq(Fragment) /\ Len(t.fragments) \in Nat
  BY DEF TxBuffer
<1> QED BY <1>1, SubType DEF NextSendDelta, MaxAckDelta

\* push keeps the order of the sender's numbers.
LEMMA PushWindow ==
    ASSUME NEW t \in TxBuffer, TxWindowOK(t), NEW packet \in Seq(Byte)
    PROVE  /\ TxPush(t, packet) \in TxBuffer
           /\ TxWindowOK(TxPush(t, packet))
           /\ TxPush(t, packet).base_id = t.base_id
           /\ TxPush(t, packet).fragments = t.fragments \o Fragments(packet)
           /\ MaxAckDelta(TxPush(t, packet)) = MaxAckDelta(t)
<1> DEFINE u == TxPush(t, packet)
<1>1. Fragments(packet) \in Seq(Fragment)
  BY FragmentsType DEF Fragment
<1>2. /\ t.fragments \o Fragments(packet) \in Seq(Fragment)
      /\ Len(t.fragments \o Fragments(packet)) >= Len(t.fragments)
  BY <1>1, TxTypes
<1>3. /\ u.fragments = t.fragments \o Fragments(packet)
      /\ u.next_send_id = t.next_send_id
      /\ u.max_ack_id = t.max_ack_id
      /\ u.base_id = t.base_id
      /\ u \in TxBuffer
  BY <1>2 DEF TxPush, TxBuffer
<1> HIDE DEF u
<1>4. NextSendDelta(u) = NextSendDelta(t) /\ MaxAckDelta(u) = MaxAckDelta(t)
  BY <1>3 DEF NextSendDelta, MaxAckDelta
<1>5. TxWindowOK(u)
  <2>1. Len(u.fragments) \in Nat /\ Len(t.fragments) \in Nat /\ MaxAckDelta(t) \in Nat
    BY <1>3, TxTypes
  <2> QED BY <1>2, <1>3, <1>4, <2>1 DEF TxWindowOK
<1> QED BY <1>3, <1>4, <1>5 DEF u

\* pop_sendable keeps the order of the sender's numbers and advances by one.
LEMMA PopWindow ==
    ASSUME NEW t \in TxBuffer, TxWindowOK(t), HasSendable(t)
    PROVE  /\ PopSendable(t) \in TxBuffer
           /\ TxWindowOK(PopSendable(t))
           /\ PopSendable(t).base_id = t.base_id
           /\ PopSendable(t).fragments = t.fragments
           /\ NextSendDelta(PopSendable(t)) = NextSendDelta(t) + 1
           /\ MaxAckDelta(PopSendable(t)) >= MaxAckDelta(t)
<1> DEFINE u == PopSendable(t)
           next == WrappingAdd(t.next_send_id, 1)
<1>1. next \in Id
  BY TxTypes, AddType
<1>2. /\ u.next_send_id = next
      /\ u.max_ack_id = IF t.next_send_id = t.max_ack_id THEN next ELSE t.max_ack_id
      /\ u.base_id = t.base_id
      /\ u.fragments = t.fragments
      /\ u \in TxBuffer
  BY <1>1 DEF PopSendable, TxBuffer
<1>3. NextSendDelta(t) < WindowSize /\ NextSendDelta(t) < Len(t.fragments)
  BY DEF HasSendable, Contains, NextSendDelta
<1> HIDE DEF u
<1>4. NextSendDelta(u) = NextSendDelta(t) + 1
  <2>1. NextSendDelta(t) + 1 < IdMod
    BY <1>3, TxTypes, IdModAssumption, WindowSizeAssumption
  <2> QED BY <1>2, <2>1, TxTypes, SubAdd DEF NextSendDelta
<1>5. MaxAckDelta(u) = IF NextSendDelta(t) = MaxAckDelta(t) THEN NextSendDelta(u)
                                                            ELSE MaxAckDelta(t)
  BY <1>2, TxTypes, SubInjective DEF NextSendDelta, MaxAckDelta
<1>6. TxWindowOK(u) /\ MaxAckDelta(u) >= MaxAckDelta(t)
  <2>1. /\ NextSendDelta(t) \in Nat /\ MaxAckDelta(t) \in Nat
        /\ Len(t.fragments) \in Nat
    BY TxTypes
  <2> QED BY <1>2, <1>3, <1>4, <1>5, <2>1, WindowSizeAssumption DEF TxWindowOK
<1> QED BY <1>2, <1>4, <1>6 DEF u

\* resend_all keeps the order of the sender's numbers.
LEMMA ResendWindow ==
    ASSUME NEW t \in TxBuffer, TxWindowOK(t)
    PROVE  /\ ResendAll(t) \in TxBuffer
           /\ TxWindowOK(ResendAll(t))
           /\ ResendAll(t).base_id = t.base_id
           /\ ResendAll(t).fragments = t.fragments
           /\ MaxAckDelta(ResendAll(t)) = MaxAckDelta(t)
<1> DEFINE u == ResendAll(t)
<1>1. 0 \in 0 .. DuplicateAcks - 1 /\ t.base_id \in Id
  BY DEF DuplicateAcks, TxBuffer
<1>2. /\ u.next_send_id = t.base_id
      /\ u.max_ack_id = t.max_ack_id
      /\ u.base_id = t.base_id
      /\ u.fragments = t.fragments
      /\ u \in TxBuffer
  BY <1>1 DEF ResendAll, TxBuffer
<1> HIDE DEF u
<1>3. NextSendDelta(u) = 0 /\ MaxAckDelta(u) = MaxAckDelta(t)
  BY <1>1, <1>2, SubSelf DEF NextSendDelta, MaxAckDelta
<1>4. TxWindowOK(u)
  BY <1>2, <1>3, TxTypes DEF TxWindowOK
<1> QED BY <1>2, <1>3, <1>4 DEF u

\* A duplicate ack keeps everything but next_send_id and the count.
LEMMA DuplicateWindow ==
    ASSUME NEW t \in TxBuffer, TxWindowOK(t)
    PROVE  /\ AcknowledgeDuplicate(t) \in TxBuffer
           /\ TxWindowOK(AcknowledgeDuplicate(t))
           /\ AcknowledgeDuplicate(t).base_id = t.base_id
           /\ AcknowledgeDuplicate(t).fragments = t.fragments
           /\ MaxAckDelta(AcknowledgeDuplicate(t)) = MaxAckDelta(t)
<1> DEFINE counted == [t EXCEPT !.duplicate_ack_count = @ + 1]
<1>1. CASE t.duplicate_ack_count + 1 = DuplicateAcks
  <2>1. AcknowledgeDuplicate(t) = ResendAll(t)
    BY <1>1 DEF AcknowledgeDuplicate, ResendAll, TxBuffer
  <2> QED BY <2>1, ResendWindow
<1>2. CASE t.duplicate_ack_count + 1 # DuplicateAcks
  <2>1. AcknowledgeDuplicate(t) = counted
    BY <1>2 DEF AcknowledgeDuplicate, TxBuffer
  <2>2. t.duplicate_ack_count + 1 \in 0 .. DuplicateAcks - 1
    BY <1>2 DEF TxBuffer, DuplicateAcks
  <2>3. /\ counted \in TxBuffer
        /\ counted.next_send_id = t.next_send_id
        /\ counted.max_ack_id = t.max_ack_id
        /\ counted.base_id = t.base_id
        /\ counted.fragments = t.fragments
    BY <2>2 DEF TxBuffer
  <2> QED BY <2>1, <2>3 DEF TxWindowOK, NextSendDelta, MaxAckDelta
<1> QED BY <1>1, <1>2

\* acknowledge keeps the order of the sender's numbers whatever id is
\* acknowledged: the drain is within the fragments that exist.
LEMMA AcknowledgeWindow ==
    ASSUME NEW t \in TxBuffer, TxWindowOK(t), NEW id \in Id
    PROVE  /\ Acknowledge(t, id) \in TxBuffer
           /\ TxWindowOK(Acknowledge(t, id))
           /\ LET d == WrappingSub(id, t.base_id)
                  u == Acknowledge(t, id)
              IN  IF d <= MaxAckDelta(t)
                  THEN /\ u.base_id = id
                       /\ u.fragments = SubSeq(t.fragments, d + 1, Len(t.fragments))
                       /\ MaxAckDelta(u) = MaxAckDelta(t) - d
                       /\ d <= Len(t.fragments)
                  ELSE u = t
<1> DEFINE d == WrappingSub(id, t.base_id)
<1>1. CASE id = t.base_id
  <2>1. d = 0
    BY <1>1, TxTypes, SubSelf
  <2>2. Acknowledge(t, id) = AcknowledgeDuplicate(t)
    BY <1>1 DEF Acknowledge
  <2>3. t.fragments = SubSeq(t.fragments, 1, Len(t.fragments))
    BY TxTypes
  <2> QED BY <1>1, <2>1, <2>2, <2>3, TxTypes, DuplicateWindow
<1>2. CASE id # t.base_id /\ AcknowledgeOK(t, id)
  <2> DEFINE u == AcknowledgeNew(t, id)
  <2>1. d \in Nat /\ d <= MaxAckDelta(t) /\ d <= Len(t.fragments)
    <3>1. d \in Nat /\ d <= MaxAckDelta(t)
      BY <1>2, TxTypes, SubType DEF AcknowledgeOK
    <3> QED BY <3>1, TxTypes DEF TxWindowOK
  <2>2. /\ SubSeq(t.fragments, d + 1, Len(t.fragments)) \in Seq(Fragment)
        /\ Len(SubSeq(t.fragments, d + 1, Len(t.fragments))) = Len(t.fragments) - d
    <3> HIDE DEF d
    <3> QED BY <2>1, TxTypes
  <2>3. 0 \in 0 .. DuplicateAcks - 1
    BY DEF DuplicateAcks
  <2>4. /\ u.fragments = SubSeq(t.fragments, d + 1, Len(t.fragments))
        /\ u.base_id = id
        /\ u.max_ack_id = t.max_ack_id
        /\ u.next_send_id = IF d > NextSendDelta(t) THEN id ELSE t.next_send_id
        /\ u \in TxBuffer
    BY <2>2, <2>3 DEF AcknowledgeNew, TxBuffer
  <2>5. Acknowledge(t, id) = u
    BY <1>2 DEF Acknowledge
  <2> HIDE DEF u
  <2>6. MaxAckDelta(u) = MaxAckDelta(t) - d
    BY <2>1, <2>4, TxTypes, SubShift DEF MaxAckDelta
  <2>7. NextSendDelta(u) = IF d > NextSendDelta(t) THEN 0 ELSE NextSendDelta(t) - d
    <3>1. CASE d > NextSendDelta(t)
      BY <2>4, <3>1, SubSelf DEF NextSendDelta
    <3>2. CASE ~(d > NextSendDelta(t))
      <4>1. d <= NextSendDelta(t)
        BY <2>1, <3>2, TxTypes
      <4> QED BY <2>4, <3>2, <4>1, TxTypes, SubShift DEF NextSendDelta
    <3> QED BY <3>1, <3>2
  <2>8. TxWindowOK(u)
    <3>1. /\ NextSendDelta(t) \in Nat /\ MaxAckDelta(t) \in Nat
          /\ Len(t.fragments) \in Nat
      BY TxTypes
    <3> HIDE DEF d
    <3> QED
      BY <2>1, <2>2, <2>4, <2>6, <2>7, <3>1, WindowSizeAssumption DEF TxWindowOK
  <2> QED BY <2>1, <2>4, <2>5, <2>6, <2>8
<1>3. CASE id # t.base_id /\ ~AcknowledgeOK(t, id)
  BY <1>3 DEF Acknowledge, AcknowledgeOK
<1> QED BY <1>1, <1>2, <1>3

-----------------------------------------------------------------------------
(* The channel *)

Inv == TypeOK /\ SendWindowOK /\ NothingForgotten /\ ReceivedInOrder /\ InFlightOK

\* push leaves everything that is in flight valid.
LEMMA EnqueueInv ==
    ASSUME Inv, NEW packet \in Packet, Enqueue(packet)
    PROVE  Inv'
<1> USE DEF Inv
<1>1. packet \in Seq(Byte) /\ Fragments(packet) \in Seq(Fragment)
  BY PacketAssumption, FragmentsType DEF Fragment
<1>2. /\ tx' \in TxBuffer /\ TxWindowOK(tx)'
      /\ tx'.base_id = tx.base_id
      /\ tx'.fragments = tx.fragments \o Fragments(packet)
      /\ MaxAckDelta(tx)' = MaxAckDelta(tx)
  BY <1>1, PushWindow DEF TypeOK, SendWindowOK, Enqueue
<1>3. /\ pushed' = pushed \o Fragments(packet) /\ pushed' \in Seq(Fragment)
      /\ Len(pushed') = Len(pushed) + Len(Fragments(packet))
      /\ \A i \in 1 .. Len(pushed) : pushed'[i] = pushed[i]
      /\ Len(pushed) \in Nat /\ Len(pushed') \in Nat
  BY <1>1 DEF TypeOK, Enqueue
<1>4. TypeOK'
  BY <1>2, <1>3 DEF TypeOK, Enqueue
<1>5. SendWindowOK'
  BY <1>2 DEF SendWindowOK
<1>6. NothingForgotten'
  <2>1. tx.fragments \in Seq(Fragment) /\ Len(tx.fragments) \in Nat /\ base \in Nat
    BY TxTypes DEF TypeOK
  <2>2. /\ Len(pushed) = base + Len(tx.fragments)
        /\ \A i \in 1 .. Len(tx.fragments) : tx.fragments[i] = pushed[base + i]
        /\ base <= Len(received)
    BY DEF NothingForgotten
  <2>3. pushed \in Seq(Fragment) /\ UNCHANGED <<base, received>>
    BY DEF TypeOK, Enqueue
  <2>4. /\ Len(pushed') = base + Len(tx'.fragments)
        /\ \A i \in 1 .. Len(tx'.fragments) : tx'.fragments[i] = pushed'[base + i]
    <3>1. IsSuffix(tx.fragments, pushed, base)
      BY <2>2 DEF IsSuffix
    <3>2. IsSuffix(tx.fragments \o Fragments(packet), pushed \o Fragments(packet), base)
      BY <1>1, <2>1, <2>3, <3>1, SuffixConcat
    <3> QED BY <1>2, <1>3, <3>2 DEF IsSuffix
  <2> QED BY <2>2, <2>3, <2>4 DEF NothingForgotten
<1>7. ReceivedInOrder'
  BY <1>3 DEF ReceivedInOrder, Enqueue, TypeOK
<1>8. base + MaxAckDelta(tx) <= Len(pushed) /\ base + MaxAckDelta(tx) \in Nat
  BY <1>3, TxTypes DEF TypeOK, SendWindowOK, TxWindowOK, NothingForgotten
<1>9. WireOK'
  <2>1. ASSUME NEW i \in 1 .. Len(wire)
        PROVE  pushed'[wire[i].n] = pushed[wire[i].n]
    <3>1. wire[i].n \in 1 .. base + MaxAckDelta(tx)
      BY DEF InFlightOK, WireOK
    <3>2. wire[i].n \in 1 .. Len(pushed)
      BY <1>3, <1>8, <3>1
    <3> QED BY <1>3, <3>2
  <2> QED BY <1>2, <2>1 DEF InFlightOK, WireOK, Enqueue
<1>10. AcksOK' /\ ReceiverOK'
  BY <1>2 DEF InFlightOK, AcksOK, ReceiverOK, Enqueue
<1> QED BY <1>4, <1>5, <1>6, <1>7, <1>9, <1>10 DEF InFlightOK

\* The fragment that flush sends is the one its id names, and it is close enough to
\* the receiver and to what is in flight already.
LEMMA SendFragmentInv ==
    ASSUME Inv, SendFragment
    PROVE  Inv'
<1> USE DEF Inv
<1> DEFINE k == NextSendDelta(tx)
           m == [n |-> base + k + 1, id |-> tx.next_send_id, fragment |-> PeekSendable(tx)]
<1>1. /\ tx' = PopSendable(tx) /\ wire' = Append(wire, m)
      /\ HasSendable(tx) /\ UNCHANGED <<rx, acks, sent, delivered, pushed, received, base>>
  BY DEF SendFragment
<1>2. /\ tx' \in TxBuffer /\ TxWindowOK(tx)'
      /\ tx'.base_id = tx.base_id /\ tx'.fragments = tx.fragments
      /\ NextSendDelta(tx)' = k + 1
      /\ MaxAckDelta(tx)' >= MaxAckDelta(tx)
  BY <1>1, PopWindow DEF TypeOK, SendWindowOK
<1>3. /\ tx.next_send_id \in Id /\ tx.base_id \in Id /\ rx.next_fragment_id \in Id
      /\ k \in Nat /\ MaxAckDelta(tx) \in Nat /\ MaxAckDelta(tx)' \in Nat
      /\ Len(tx.fragments) \in Nat /\ base \in Nat
      /\ Len(received) \in Nat /\ Len(pushed) \in Nat /\ Len(wire) \in Nat
      /\ wire \in Seq([n : Nat, id : Id, fragment : Fragment])
  BY <1>2, TxTypes DEF TypeOK, RxBuffer
<1>4. k < Len(tx.fragments) /\ k < WindowSize /\ MaxAckDelta(tx) <= WindowSize
  BY <1>1 DEF HasSendable, Contains, NextSendDelta, SendWindowOK, TxWindowOK
<1>5. /\ m.fragment = pushed[m.n] /\ m.fragment \in Fragment
      /\ m.n = base + k + 1 /\ m.id = tx.next_send_id
      /\ m \in [n : Nat, id : Id, fragment : Fragment]
  <2>1. PeekSendable(tx) \in Fragment
    BY <1>3, <1>4 DEF PeekSendable, TypeOK, TxBuffer
  <2>2. PeekSendable(tx) = pushed[base + (k + 1)]
    <3>1. k + 1 \in 1 .. Len(tx.fragments)
      BY <1>3, <1>4
    <3>2. \A i \in 1 .. Len(tx.fragments) : tx.fragments[i] = pushed[base + i]
      BY DEF NothingForgotten
    <3>3. PeekSendable(tx) = tx.fragments[k + 1]
      BY DEF PeekSendable
    <3> HIDE DEF k
    <3> QED BY <3>1, <3>2, <3>3
  <2>3. base + (k + 1) = base + k + 1 /\ base + k + 1 \in Nat
    BY <1>3
  <2> QED BY <1>3, <2>1, <2>2, <2>3
<1> HIDE DEF m
<1>6. TypeOK'
  BY <1>1, <1>2, <1>3, <1>5 DEF TypeOK
<1>7. SendWindowOK' /\ NothingForgotten' /\ ReceivedInOrder'
  BY <1>1, <1>2 DEF SendWindowOK, NothingForgotten, ReceivedInOrder
<1>8. m.n \in 1 .. base + MaxAckDelta(tx)'
  <2>1. k + 1 <= MaxAckDelta(tx)'
    BY <1>2 DEF TxWindowOK
  <2> QED BY <1>3, <1>5, <2>1
<1>9. Len(received) < m.n + WindowSize
  BY <1>3, <1>5, WindowSizeAssumption
     DEF InFlightOK, ReceiverOK, SendWindowOK, TxWindowOK
<1>10. Ahead(m.id, rx.next_fragment_id, m.n - 1 - Len(received))
  <2> DEFINE e == Len(received) - base
  <2>1. e \in Nat /\ e <= WindowSize
    BY <1>3, <1>4, WindowSizeAssumption DEF InFlightOK, ReceiverOK, NothingForgotten
  <2>2. Ahead(rx.next_fragment_id, tx.base_id, e)
    BY DEF InFlightOK, ReceiverOK
  <2>3. Ahead(tx.next_send_id, tx.base_id, k)
    BY <1>3, AheadOfSub DEF NextSendDelta
  <2>4. m.n - 1 - Len(received) = k - e
    BY <1>3, <1>5
  <2> HIDE DEF e, k
  <2>5. -IdMod < k - e /\ k - e < IdMod
    BY <1>3, <1>4, <2>1, IdModAssumption, WindowSizeAssumption
  <2>6. Ahead(tx.next_send_id, rx.next_fragment_id, k - e)
    BY <1>3, <2>1, <2>2, <2>3, <2>5, AheadDiff
  <2> QED BY <1>5, <2>4, <2>6
<1>11. ASSUME NEW j \in 1 .. Len(wire)
       PROVE  wire[j].n < m.n + WindowSize
  <2>1. wire[j].n \in 1 .. base + MaxAckDelta(tx)
    BY DEF InFlightOK, WireOK
  <2> DEFINE x == wire[j].n
             d == MaxAckDelta(tx)
             y == m.n
  <2>2. /\ d \in Nat /\ d <= WindowSize /\ y = base + k + 1
        /\ base \in Nat /\ k \in Nat /\ x \in 1 .. base + d
    BY <1>3, <1>4, <1>5, <2>1
  <2> HIDE DEF k, x, d, y
  <2>3. x < y + WindowSize
    BY <2>2, WindowSizeAssumption
  <2> QED BY <2>3 DEF x, y
<1>12. WireOK'
  <2>1. /\ Len(wire') = Len(wire) + 1
        /\ wire'[Len(wire) + 1] = m
        /\ \A i \in 1 .. Len(wire) : wire'[i] = wire[i]
    BY <1>1, <1>3, <1>5
  <2>2. ASSUME NEW i \in 1 .. Len(wire)
        PROVE  wire[i].n \in 1 .. base + MaxAckDelta(tx)'
    BY <1>2, <1>3 DEF InFlightOK, WireOK
  <2>3. ASSUME NEW i \in 1 .. Len(wire')
        PROVE  /\ wire'[i].n \in 1 .. base + MaxAckDelta(tx)'
               /\ wire'[i].fragment = pushed[wire'[i].n]
               /\ Len(received) < wire'[i].n + WindowSize
               /\ Ahead(wire'[i].id, rx.next_fragment_id, wire'[i].n - 1 - Len(received))
               /\ \A j \in 1 .. i - 1 : wire'[j].n < wire'[i].n + WindowSize
    <3>1. CASE i = Len(wire) + 1
      <4>1. wire'[i] = m
        BY <2>1, <3>1
      <4>2. ASSUME NEW j \in 1 .. i - 1
            PROVE  wire'[j].n < m.n + WindowSize
        <5>1. j \in 1 .. Len(wire)
          BY <1>3, <3>1
        <5> QED BY <1>11, <2>1, <5>1
      <4> QED BY <1>5, <1>8, <1>9, <1>10, <4>1, <4>2
    <3>2. CASE i # Len(wire) + 1
      <4>1. i \in 1 .. Len(wire) /\ \A j \in 1 .. i - 1 : j \in 1 .. Len(wire)
        BY <1>3, <2>1, <3>2
      <4> QED BY <2>1, <2>2, <4>1 DEF InFlightOK, WireOK
    <3> QED BY <3>1, <3>2
  <2> QED BY <1>1, <2>3 DEF WireOK
<1>13. AcksOK' /\ ReceiverOK'
  BY <1>1, <1>2, <1>3 DEF InFlightOK, AcksOK, ReceiverOK
<1> QED BY <1>6, <1>7, <1>12, <1>13 DEF InFlightOK

\* Losing a fragment leaves the others in their order.
LEMMA LoseFragmentInv ==
    ASSUME Inv, NEW i \in 1 .. Len(wire), LoseFragment(i)
    PROVE  Inv'
<1> USE DEF Inv
<1> DEFINE T == [n : Nat, id : Id, fragment : Fragment]
           f(k) == IF k < i THEN k ELSE k + 1
<1>1. /\ wire \in Seq(T) /\ Len(wire) \in Nat
      /\ wire' = SubSeq(wire, 1, i - 1) \o SubSeq(wire, i + 1, Len(wire))
      /\ UNCHANGED <<tx, rx, acks, sent, delivered, pushed, received, base>>
  BY DEF TypeOK, LoseFragment
<1>2. /\ wire' \in Seq(T) /\ Len(wire') = Len(wire) - 1
      /\ \A k \in 1 .. Len(wire') : wire'[k] = wire[f(k)]
  BY <1>1, RemoveProperties
<1>3. TypeOK' /\ SendWindowOK' /\ NothingForgotten' /\ ReceivedInOrder'
  BY <1>1, <1>2 DEF TypeOK, SendWindowOK, NothingForgotten, ReceivedInOrder
<1>4. AcksOK' /\ ReceiverOK'
  BY <1>1 DEF InFlightOK, AcksOK, ReceiverOK
<1>5. WireOK'
  <2>1. ASSUME NEW k \in 1 .. Len(wire')
        PROVE  /\ f(k) \in 1 .. Len(wire)
               /\ \A j \in 1 .. k - 1 : j \in 1 .. Len(wire') /\ f(j) \in 1 .. f(k) - 1
    <3>1. Len(wire) \in Nat /\ Len(wire') = Len(wire) - 1
      BY <1>1, <1>2
    <3>2. f(k) \in 1 .. Len(wire)
      BY <3>1
    <3>3. ASSUME NEW j \in 1 .. k - 1
          PROVE  j \in 1 .. Len(wire') /\ f(j) \in 1 .. f(k) - 1
      BY <3>1
    <3> QED BY <3>2, <3>3
  <2>2. ASSUME NEW k \in 1 .. Len(wire'), NEW j \in 1 .. k - 1
        PROVE  wire'[j].n < wire'[k].n + WindowSize
    <3>1. /\ f(k) \in 1 .. Len(wire) /\ f(j) \in 1 .. f(k) - 1
          /\ wire'[k] = wire[f(k)] /\ wire'[j] = wire[f(j)]
      BY <1>2, <2>1
    <3> HIDE DEF f
    <3> QED BY <3>1 DEF InFlightOK, WireOK
  <2> HIDE DEF f
  <2> QED BY <1>1, <1>2, <2>1, <2>2 DEF InFlightOK, WireOK
<1> QED BY <1>3, <1>4, <1>5 DEF InFlightOK

\* acknowledge drops exactly the fragments the receiver has, and ignores old acks.
LEMMA ReceiveAckInv ==
    ASSUME Inv, NEW a \in acks, ReceiveAck(a)
    PROVE  Inv'
<1> USE DEF Inv
<1> DEFINE d == WrappingSub(a.id, tx.base_id)
           e == Len(received) - base
<1>1. /\ tx' = Acknowledge(tx, a.id)
      /\ base' = base + WrappingSub(tx'.base_id, tx.base_id)
      /\ acks' = {k \in acks : base' <= k.n + AckLag}
      /\ UNCHANGED <<rx, wire, sent, delivered, pushed, received>>
  BY DEF ReceiveAck
<1>2. /\ tx \in TxBuffer /\ tx.base_id \in Id /\ a.id \in Id /\ a.n \in Nat
      /\ rx.next_fragment_id \in Id
      /\ tx.fragments \in Seq(Fragment) /\ Len(tx.fragments) \in Nat
      /\ base \in Nat /\ Len(received) \in Nat /\ Len(pushed) \in Nat
      /\ MaxAckDelta(tx) \in Nat /\ MaxAckDelta(tx) <= WindowSize
      /\ \A k \in acks : k \in [n : Nat, id : Id]
  BY TxTypes DEF TypeOK, RxBuffer, SendWindowOK, TxWindowOK
<1>3. /\ e \in Nat /\ e <= MaxAckDelta(tx)
      /\ a.n <= Len(received) /\ base <= a.n + AckLag
      /\ Ahead(a.id, tx.base_id, a.n - base)
  BY <1>2 DEF NothingForgotten, InFlightOK, ReceiverOK, AcksOK
<1>4. tx' \in TxBuffer /\ TxWindowOK(tx)' /\ d \in Nat
  BY <1>1, <1>2, AcknowledgeWindow, SubType DEF SendWindowOK
<1>5. d = IF a.n >= base THEN a.n - base ELSE a.n - base + IdMod
  <2>1. a.n - base \in Int /\ -IdMod < a.n - base /\ a.n - base < IdMod
    BY <1>2, <1>3, AckLagAssumption, WindowSizeAssumption, IdModAssumption
  <2> QED BY <1>2, <1>3, <2>1, SubOfAhead
<1>6. CASE a.n < base
  <2>1. ~(d <= MaxAckDelta(tx))
    BY <1>2, <1>3, <1>5, <1>6, AckLagAssumption, WindowSizeAssumption, IdModAssumption
  <2>2. tx' = tx
    BY <1>1, <1>2, <2>1, AcknowledgeWindow DEF SendWindowOK
  <2>3. base' = base
    BY <1>1, <1>2, <2>2, SubSelf
  <2>4. acks' \subseteq acks
    BY <1>1
  <2>5. TypeOK' /\ SendWindowOK' /\ NothingForgotten' /\ ReceivedInOrder'
    BY <1>1, <2>2, <2>3, <2>4
       DEF TypeOK, SendWindowOK, NothingForgotten, ReceivedInOrder
  <2>6. WireOK' /\ AcksOK' /\ ReceiverOK'
    BY <1>1, <2>2, <2>3, <2>4 DEF InFlightOK, WireOK, AcksOK, ReceiverOK
  <2> QED BY <2>5, <2>6 DEF InFlightOK
<1>7. CASE a.n >= base
  <2>1. d = a.n - base /\ d <= e /\ d <= MaxAckDelta(tx)
    BY <1>2, <1>3, <1>5, <1>7
  <2>2. /\ tx'.base_id = a.id
        /\ tx'.fragments = SubSeq(tx.fragments, d + 1, Len(tx.fragments))
        /\ MaxAckDelta(tx)' = MaxAckDelta(tx) - d
        /\ d <= Len(tx.fragments)
    BY <1>1, <1>2, <2>1, AcknowledgeWindow DEF SendWindowOK
  <2>3. base' = base + d /\ base' = a.n
    BY <1>1, <1>2, <2>1, <2>2
  <2>4. base' + MaxAckDelta(tx)' = base + MaxAckDelta(tx)
    BY <1>2, <1>4, <2>2, <2>3
  <2>5. TypeOK'
    BY <1>1, <1>2, <1>4, <2>3 DEF TypeOK
  <2>6. SendWindowOK' /\ ReceivedInOrder'
    BY <1>1, <1>4 DEF SendWindowOK, ReceivedInOrder
  <2> HIDE DEF d
  <2>7. NothingForgotten'
    <3>1. /\ Len(tx'.fragments) = Len(tx.fragments) - d
          /\ \A k \in 1 .. Len(tx.fragments) - d : tx'.fragments[k] = tx.fragments[d + k]
      BY <1>2, <1>4, <2>2, DropProperties
    <3>2. Len(pushed) = base' + Len(tx'.fragments)
      <4>1. Len(pushed) = base + Len(tx.fragments)
        BY DEF NothingForgotten
      <4>2. Len(tx.fragments) \in Nat /\ base \in Nat /\ d \in Nat
        BY <1>2, <1>4
      <4> DEFINE old == Len(tx.fragments)
                 new == Len(tx'.fragments)
                 all == Len(pushed)
      <4>3. new = old - d /\ all = base + old /\ old \in Nat
        BY <3>1, <4>1, <4>2
      <4> HIDE DEF old, new, all
      <4>4. all = base' + new
        BY <2>3, <4>2, <4>3
      <4> QED BY <4>4 DEF all, new
    <3>3. ASSUME NEW k \in 1 .. Len(tx'.fragments)
          PROVE  tx'.fragments[k] = pushed[base' + k]
      <4>1. d + k \in 1 .. Len(tx.fragments) /\ base + (d + k) = base' + k
        BY <1>2, <1>4, <2>2, <2>3, <3>1
      <4>2. tx.fragments[d + k] = pushed[base + (d + k)]
        BY <4>1 DEF NothingForgotten
      <4> QED BY <3>1, <4>1, <4>2
    <3>4. base' <= Len(received)
      BY <1>3, <2>3
    <3> QED BY <1>1, <3>2, <3>3, <3>4 DEF NothingForgotten
  <2>8. WireOK'
    BY <1>1, <2>4 DEF InFlightOK, WireOK
  <2>9. AcksOK'
    <3>1. ASSUME NEW k \in acks'
          PROVE  Ahead(k.id, a.id, k.n - base')
      <4>1. /\ k \in acks /\ k.n \in Nat /\ k.id \in Id /\ k.n <= Len(received)
            /\ base' <= k.n + AckLag /\ Ahead(k.id, tx.base_id, k.n - base)
        BY <1>1, <1>2 DEF InFlightOK, AcksOK
      <4>2. /\ k.n - base \in Int /\ a.n - base \in Int
            /\ (k.n - base) - (a.n - base) = k.n - base'
        BY <1>2, <2>3, <4>1
      <4>3. -IdMod < k.n - base' /\ k.n - base' < IdMod
        BY <1>2, <1>3, <1>7, <2>3, <4>1, AckLagAssumption, WindowSizeAssumption,
           IdModAssumption
      <4> QED BY <1>2, <1>3, <4>1, <4>2, <4>3, AheadDiff
    <3> QED BY <1>1, <2>2, <3>1 DEF InFlightOK, AcksOK
  <2>10. ReceiverOK'
    <3>1. Ahead(rx.next_fragment_id, tx.base_id, e)
      BY DEF InFlightOK, ReceiverOK
    <3>2. e - (a.n - base) = Len(received) - base' /\ a.n - base \in Int /\ e \in Int
      BY <1>2, <1>3, <2>3
    <3>3. -IdMod < e - (a.n - base) /\ e - (a.n - base) < IdMod
      BY <1>2, <1>3, <1>7, WindowSizeAssumption, IdModAssumption
    <3>4. Ahead(rx.next_fragment_id, a.id, e - (a.n - base))
      BY <1>2, <1>3, <3>1, <3>2, <3>3, AheadDiff
    <3>5. Len(received) <= base' + MaxAckDelta(tx)'
      BY <2>4 DEF InFlightOK, ReceiverOK
    <3> QED BY <1>1, <2>2, <3>2, <3>4, <3>5 DEF ReceiverOK
  <2> QED BY <2>5, <2>6, <2>7, <2>8, <2>9, <2>10 DEF InFlightOK
<1> QED BY <1>2, <1>6, <1>7

\* The fragments behind the one that is received, when the receiver ignores it.
LEMMA TailWireOK ==
    ASSUME TypeOK, WireOK, wire # <<>>, wire' = Tail(wire),
           rx' = rx, received' = received, UNCHANGED <<tx, pushed, base>>
    PROVE  WireOK'
<1>2. ASSUME NEW i \in 1 .. Len(wire')
      PROVE  /\ i + 1 \in 1 .. Len(wire) /\ wire'[i] = wire[i + 1]
             /\ \A j \in 1 .. i - 1 : j + 1 \in 1 .. (i + 1) - 1 /\ wire'[j] = wire[j + 1]
  BY TailProperties DEF TypeOK
<1> QED BY <1>2 DEF WireOK

\* The acknowledgement that the receiver sends is one the sender can interpret.
LEMMA NewAckOK ==
    ASSUME AcksOK, ReceiverOK', Len(received) \in Nat, base \in Nat,
           base <= Len(received), Len(received') \in Nat, Len(received) <= Len(received'),
           acks \in SUBSET [n : Nat, id : Id],
           acks' = acks \cup {[n |-> Len(received'), id |-> rx'.next_fragment_id]},
           UNCHANGED <<tx, base>>
    PROVE  AcksOK'
<1>1. ASSUME NEW a \in acks
      PROVE  a.n <= Len(received') /\ base <= a.n + AckLag /\ Ahead(a.id, tx.base_id, a.n - base)
  <2>1. a.n \in Nat /\ a.n <= Len(received)
    BY DEF AcksOK
  <2> QED BY <2>1 DEF AcksOK
<1> DEFINE a == [n |-> Len(received'), id |-> rx'.next_fragment_id]
<1>2. a.n = Len(received') /\ a.id = rx'.next_fragment_id
  OBVIOUS
<1> HIDE DEF a
<1>3. /\ a.n <= Len(received') /\ base <= a.n + AckLag
      /\ Ahead(a.id, tx.base_id, a.n - base)
  BY <1>2, AckLagAssumption DEF ReceiverOK
<1>4. acks' = acks \cup {a}
  BY DEF a
<1> QED BY <1>1, <1>3, <1>4 DEF AcksOK

\* receive accepts exactly the next fragment: with a valid id it can be no other.
LEMMA ReceiveFragmentInv ==
    ASSUME Inv, ReceiveFragment
    PROVE  Inv'
<1> USE DEF Inv
<1> DEFINE T == [n : Nat, id : Id, fragment : Fragment]
           m == Head(wire)
           r == Len(received)
           r2 == Len(received')
<1>1. /\ wire \in Seq(T) /\ wire # <<>> /\ wire' = Tail(wire)
      /\ rx' = RxReceive(rx, m.id, m.fragment).rx
      /\ received' = IF RxAccepts(rx, m.id, m.fragment)
                     THEN Append(received, m.fragment) ELSE received
      /\ acks' = acks \cup {[n |-> r2, id |-> rx'.next_fragment_id]}
      /\ UNCHANGED <<tx, sent, pushed, base>>
  BY DEF TypeOK, ReceiveFragment
<1>2. /\ m \in T /\ m = wire[1] /\ 1 \in 1 .. Len(wire)
      /\ wire' \in Seq(T) /\ Len(wire') = Len(wire) - 1 /\ Len(wire) \in Nat
      /\ \A i \in 1 .. Len(wire') : wire'[i] = wire[i + 1]
  <2> HIDE DEF T
  <2>1. Len(wire) \in Nat /\ Len(wire) # 0 /\ m = wire[1]
    BY <1>1
  <2>2. 1 \in 1 .. Len(wire)
    BY <2>1
  <2> QED BY <1>1, <2>1, <2>2, HeadTailProperties
<1>3. /\ tx.base_id \in Id /\ rx.next_fragment_id \in Id /\ rx.build \in Seq(Byte)
      /\ MaxAckDelta(tx) \in Nat /\ MaxAckDelta(tx) <= WindowSize
      /\ Len(tx.fragments) \in Nat /\ MaxAckDelta(tx) <= Len(tx.fragments)
      /\ base \in Nat /\ r \in Nat /\ Len(pushed) \in Nat
      /\ m.n \in Nat /\ m.id \in Id /\ m.fragment \in Fragment
      /\ received \in Seq(Fragment)
  BY <1>2, TxTypes DEF TypeOK, RxBuffer, SendWindowOK, TxWindowOK
<1>4. /\ m.n \in 1 .. base + MaxAckDelta(tx) /\ m.fragment = pushed[m.n]
      /\ r < m.n + WindowSize /\ Ahead(m.id, rx.next_fragment_id, m.n - 1 - r)
  BY <1>2 DEF InFlightOK, WireOK
<1>5. base <= r /\ r <= base + MaxAckDelta(tx) /\ Len(pushed) = base + Len(tx.fragments)
  BY DEF NothingForgotten, InFlightOK, ReceiverOK
<1> HIDE DEF m
<1>6. CASE ~RxAccepts(rx, m.id, m.fragment)
  <2>1. rx' = rx /\ received' = received /\ r2 = r
    BY <1>1, <1>6 DEF RxReceive
  <2>2. [n |-> r2, id |-> rx'.next_fragment_id] \in [n : Nat, id : Id]
    BY <1>3, <2>1
  <2>3. TypeOK' /\ SendWindowOK' /\ NothingForgotten' /\ ReceivedInOrder'
    BY <1>1, <1>2, <2>1, <2>2
       DEF TypeOK, SendWindowOK, NothingForgotten, ReceivedInOrder
  <2>4. ReceiverOK'
    BY <1>1, <2>1 DEF InFlightOK, ReceiverOK
  <2>5. WireOK'
    BY <1>1, <2>1, TailWireOK DEF InFlightOK
  <2>6. AcksOK'
    BY <1>1, <1>3, <1>5, <2>1, <2>4, NewAckOK DEF InFlightOK, TypeOK
  <2> QED BY <2>3, <2>4, <2>5, <2>6 DEF InFlightOK
<1>7. CASE RxAccepts(rx, m.id, m.fragment)
  <2>1. m.n = r + 1
    <3>1. m.id = rx.next_fragment_id
      BY <1>7 DEF RxAccepts
    <3>2. m.n - 1 - r \in Int /\ -IdMod < m.n - 1 - r /\ m.n - 1 - r < IdMod
      <4> DEFINE x == m.n
                 y == MaxAckDelta(tx)
      <4>1. /\ x \in Nat /\ y \in Nat /\ r \in Nat /\ base \in Nat /\ y <= WindowSize
            /\ x <= base + y /\ r < x + WindowSize /\ base <= r /\ r <= base + y
        BY <1>3, <1>4, <1>5
      <4> HIDE DEF x, y, r
      <4>2. x - 1 - r \in Int /\ -IdMod < x - 1 - r /\ x - 1 - r < IdMod
        BY <4>1, WindowSizeAssumption, IdModAssumption
      <4> QED BY <4>2 DEF x
    <3>3. m.n - 1 - r = 0
      BY <1>3, <1>4, <3>1, <3>2, AheadZero
    <3> QED BY <1>3, <3>3
  <2>2. received' = Append(received, m.fragment)
    BY <1>1, <1>7
  <2>3. /\ received' \in Seq(Fragment) /\ r2 = r + 1 /\ received'[r + 1] = m.fragment
        /\ \A i \in 1 .. r : received'[i] = received[i]
    BY <1>3, <2>2, AppendProperties
  <2>4. rx'.next_fragment_id = WrappingAdd(rx.next_fragment_id, 1)
    BY <1>1, <1>7 DEF RxReceive
  <2>5. rx' \in RxBuffer
    <3>1. WrappingAdd(rx.next_fragment_id, 1) \in Id
      BY <1>3, AddType
    <3>2. m.fragment.data \in Seq(Byte)
      BY <1>3 DEF Fragment
    <3>3. rx.build \o m.fragment.data \in Seq(Byte) /\ <<>> \in Seq(Byte)
      BY <1>3, <3>2, ConcatProperties, EmptySeq
    <3> QED BY <1>1, <1>7, <3>1, <3>3 DEF RxReceive, RxBuffer
  <2>6. [n |-> r2, id |-> rx'.next_fragment_id] \in [n : Nat, id : Id]
    BY <1>3, <2>3, <2>5 DEF RxBuffer
  <2>7. TypeOK'
    BY <1>1, <1>2, <2>3, <2>5, <2>6 DEF TypeOK
  <2>8. SendWindowOK'
    BY <1>1 DEF SendWindowOK
  <2>9. NothingForgotten'
    BY <1>1, <1>3, <1>5, <2>3 DEF NothingForgotten
  <2>10. ReceivedInOrder'
    <3>1. r + 1 <= Len(pushed)
      BY <1>3, <1>4, <1>5, <2>1
    <3>2. ASSUME NEW i \in 1 .. r + 1
          PROVE  received'[i] = pushed[i]
      <4>1. CASE i = r + 1
        BY <1>4, <2>1, <2>3, <4>1
      <4>2. CASE i # r + 1
        <5>1. i \in 1 .. r
          BY <1>3, <4>2
        <5> QED BY <2>3, <5>1 DEF ReceivedInOrder
      <4> QED BY <4>1, <4>2
    <3> QED BY <1>1, <2>3, <3>1, <3>2 DEF ReceivedInOrder
  <2>11. ReceiverOK'
    <3>1. r + 1 <= base + MaxAckDelta(tx)
      BY <1>3, <1>4, <2>1
    <3>2. Ahead(rx.next_fragment_id, tx.base_id, r - base)
      BY DEF InFlightOK, ReceiverOK
    <3>3. /\ r - base \in Int /\ -IdMod < r - base + 1 /\ r - base + 1 < IdMod
          /\ r + 1 - base = r - base + 1
      BY <1>3, <1>5, <3>1, WindowSizeAssumption, IdModAssumption
    <3>4. Ahead(rx'.next_fragment_id, tx.base_id, r - base + 1)
      BY <1>3, <2>4, <3>2, <3>3, AheadNext
    <3>5. r2 - base = r - base + 1 /\ r2 <= base + MaxAckDelta(tx)
      <4> HIDE DEF r, r2
      <4>1. r2 = r + 1 /\ r \in Nat /\ base \in Nat
        BY <1>3, <2>3
      <4> QED BY <3>1, <4>1
    <3>6. Ahead(rx'.next_fragment_id, tx.base_id, r2 - base)
      BY <3>4, <3>5
    <3> QED BY <1>1, <3>5, <3>6 DEF ReceiverOK, MaxAckDelta
  <2>12. WireOK'
    <3>1. ASSUME NEW i \in 1 .. Len(wire')
          PROVE  /\ wire'[i].n \in 1 .. base + MaxAckDelta(tx)
                 /\ wire'[i].fragment = pushed[wire'[i].n]
                 /\ r2 < wire'[i].n + WindowSize
                 /\ Ahead(wire'[i].id, rx'.next_fragment_id, wire'[i].n - 1 - r2)
                 /\ \A j \in 1 .. i - 1 : wire'[j].n < wire'[i].n + WindowSize
      <4>1. /\ i + 1 \in 1 .. Len(wire) /\ 1 \in 1 .. (i + 1) - 1
            /\ wire'[i] = wire[i + 1]
            /\ \A j \in 1 .. i - 1 : j + 1 \in 1 .. (i + 1) - 1 /\ wire'[j] = wire[j + 1]
        BY <1>1, TailProperties
      <4> DEFINE w == wire'[i]
                 x == w.n
                 y == MaxAckDelta(tx)
      <4>2. /\ w.n \in 1 .. base + MaxAckDelta(tx) /\ w.fragment = pushed[w.n]
            /\ r < w.n + WindowSize /\ Ahead(w.id, rx.next_fragment_id, w.n - 1 - r)
            /\ m.n < w.n + WindowSize
        <5>1. wire[1].n < wire[i + 1].n + WindowSize
          BY <4>1 DEF InFlightOK, WireOK
        <5> QED BY <1>2, <4>1, <5>1 DEF InFlightOK, WireOK
      <4>3. \A j \in 1 .. i - 1 : wire'[j].n < wire'[i].n + WindowSize
        BY <4>1 DEF InFlightOK, WireOK
      <4>4. w.id \in Id
        <5>1. w \in T
          <6> HIDE DEF T
          <6> QED BY <1>2
        <5> QED BY <5>1
      <4>5. /\ x \in 1 .. base + y /\ r + 1 < x + WindowSize /\ y \in Nat /\ r \in Nat
            /\ y <= WindowSize /\ base <= r /\ base \in Nat
        BY <1>3, <1>5, <2>1, <4>2
      <4> HIDE DEF w, x, y, r, r2
      <4>10. r2 = r + 1
        BY <2>3
      <4>6. r2 < x + WindowSize /\ x - 1 - r2 = (x - 1 - r) - 1 /\ x - 1 - r \in Int
        BY <4>5, <4>10, WindowSizeAssumption
      <4>7. -IdMod < (x - 1 - r) - 1 /\ (x - 1 - r) - 1 < IdMod
        BY <4>5, WindowSizeAssumption, IdModAssumption
      <4>8. Ahead(w.id, rx.next_fragment_id, x - 1 - r)
        BY <4>2 DEF x
      <4>9. Ahead(w.id, rx'.next_fragment_id, x - 1 - r2)
        BY <1>3, <2>4, <4>4, <4>6, <4>7, <4>8, AheadNext
      <4> QED BY <4>2, <4>3, <4>6, <4>9 DEF w, x
    <3> QED BY <1>1, <3>1 DEF WireOK
  <2>13. AcksOK'
    <3>1. r2 \in Nat /\ r <= r2
      BY <1>3, <2>3
    <3> QED BY <1>1, <1>3, <1>5, <3>1, <2>11, NewAckOK DEF InFlightOK, TypeOK
  <2> QED BY <2>7, <2>8, <2>9, <2>10, <2>11, <2>12, <2>13 DEF InFlightOK
<1> QED BY <1>6, <1>7

\* resend_all changes nothing that is in flight.
LEMMA TimeoutInv ==
    ASSUME Inv, Timeout
    PROVE  Inv'
<1> USE DEF Inv
<1>1. /\ tx' = ResendAll(tx)
      /\ UNCHANGED <<rx, wire, acks, sent, delivered, pushed, received, base>>
  BY DEF Timeout
<1>2. /\ tx' \in TxBuffer /\ TxWindowOK(tx)'
      /\ tx'.base_id = tx.base_id /\ tx'.fragments = tx.fragments
      /\ MaxAckDelta(tx)' = MaxAckDelta(tx)
  BY <1>1, ResendWindow DEF TypeOK, SendWindowOK
<1>3. TypeOK' /\ SendWindowOK' /\ NothingForgotten' /\ ReceivedInOrder'
  BY <1>1, <1>2 DEF TypeOK, SendWindowOK, NothingForgotten, ReceivedInOrder
<1>4. WireOK' /\ AcksOK' /\ ReceiverOK'
  BY <1>1, <1>2 DEF InFlightOK, WireOK, AcksOK, ReceiverOK
<1> QED BY <1>3, <1>4 DEF InFlightOK

\* The answer to a sync repeats an acknowledgement the sender can interpret.
LEMMA AnswerSyncInv ==
    ASSUME Inv, AnswerSync
    PROVE  Inv'
<1> USE DEF Inv
<1>1. /\ UNCHANGED <<tx, rx, wire, pushed, received, base>>
      /\ acks' = acks \cup {[n |-> Len(received), id |-> rx.next_fragment_id]}
  BY DEF AnswerSync
<1>2. Len(received) \in Nat /\ rx.next_fragment_id \in Id
  BY DEF TypeOK, RxBuffer
<1>3. TypeOK'
  BY <1>1, <1>2 DEF TypeOK
<1>4. SendWindowOK' /\ NothingForgotten' /\ ReceivedInOrder'
  BY <1>1 DEF SendWindowOK, NothingForgotten, ReceivedInOrder
<1>5. WireOK' /\ ReceiverOK'
  BY <1>1 DEF InFlightOK, WireOK, ReceiverOK
<1>6. AcksOK'
  BY <1>1, <1>2, <1>5, NewAckOK DEF InFlightOK, NothingForgotten, TypeOK
<1> QED BY <1>3, <1>4, <1>5, <1>6 DEF InFlightOK

\* The inductive invariant: what the sender and the receiver hold (ReceivedInOrder,
\* NothingForgotten) cannot be shown without the distance of everything in flight.
THEOREM Invariance == Spec => []Inv
<1>1. Init => Inv
  <2> SUFFICES ASSUME Init PROVE Inv
    OBVIOUS
  <2> USE DEF Init
  <2>1. 0 \in Id /\ 0 \in 0 .. DuplicateAcks - 1
    BY IdModAssumption DEF Id, DuplicateAcks
  <2>2. TypeOK
    BY <2>1 DEF TypeOK, TxNew, RxNew, TxBuffer, RxBuffer
  <2>3. tx.base_id = 0 /\ tx.next_send_id = 0 /\ tx.max_ack_id = 0 /\ tx.fragments = <<>>
        /\ rx.next_fragment_id = 0
    BY DEF TxNew, RxNew
  <2>4. NextSendDelta(tx) = 0 /\ MaxAckDelta(tx) = 0
    BY <2>1, <2>3, SubSelf DEF NextSendDelta, MaxAckDelta
  <2>5. SendWindowOK
    BY <2>3, <2>4, WindowSizeAssumption DEF SendWindowOK, TxWindowOK
  <2>6. NothingForgotten /\ ReceivedInOrder
    BY <2>3 DEF NothingForgotten, ReceivedInOrder
  <2>7. ReceiverOK
    BY <2>3, <2>4 DEF ReceiverOK, Ahead
  <2> QED BY <2>2, <2>5, <2>6, <2>7 DEF Inv, InFlightOK, WireOK, AcksOK
<1>2. Inv /\ [Next]_vars => Inv'
  <2> SUFFICES ASSUME Inv, [Next]_vars PROVE Inv'
    OBVIOUS
  <2>1. ASSUME NEW packet \in Packet, Enqueue(packet) PROVE Inv'
    BY <2>1, EnqueueInv
  <2>2. CASE SendFragment
    BY <2>2, SendFragmentInv
  <2>3. ASSUME NEW i \in 1 .. Len(wire), LoseFragment(i) PROVE Inv'
    BY <2>3, LoseFragmentInv
  <2>4. CASE ReceiveFragment
    BY <2>4, ReceiveFragmentInv
  <2>5. ASSUME NEW a \in acks, ReceiveAck(a) PROVE Inv'
    BY <2>5, ReceiveAckInv
  <2>6. CASE Timeout
    BY <2>6, TimeoutInv
  <2>7. CASE AnswerSync
    BY <2>7, AnswerSyncInv
  <2>8. CASE UNCHANGED vars
    BY <2>8 DEF Inv, vars, TypeOK, SendWindowOK, NothingForgotten, ReceivedInOrder,
                InFlightOK, WireOK, AcksOK, ReceiverOK
  <2> QED BY <2>1, <2>2, <2>3, <2>4, <2>5, <2>6, <2>7, <2>8 DEF Next
<1> QED BY <1>1, <1>2, PTL DEF Spec

\* Type correctness of the buffers and of what is in flight.
THEOREM TypeCorrect == Spec => []TypeOK
  BY Invariance, PTL DEF Inv

\* acknowledge never drains more fragments than there are, and the numbers of the
\* send window keep their order.
THEOREM SendWindowSafe == Spec => []SendWindowOK
  BY Invariance, PTL DEF Inv

\* The sender keeps every fragment the receiver has not accepted yet.
THEOREM NothingForgottenSafe == Spec => []NothingForgotten
  BY Invariance, PTL DEF Inv

\* The receiver accepts fragments in the order in which they were pushed, none twice
\* and none missing.
THEOREM InOrder == Spec => []ReceivedInOrder
  BY Invariance, PTL DEF Inv

\* Wrapped ids in flight are never mistaken.
THEOREM InFlightSafe == Spec => []InFlightOK
  BY Invariance, PTL DEF Inv

-----------------------------------------------------------------------------
(* Reassembly inverts fragmentation: the channel implements FifoChannel *)

\* The number of fragments of the first k packets.
Offset(k) == SumTo([j \in 1 .. Len(sent) |-> FragmentCount(sent[j])], k)

\* What was pushed are the fragments of the packets, one packet after the other.
PushedIs ==
    /\ sent \in Seq(Packet)
    /\ Len(pushed) = Offset(Len(sent))
    /\ \A k \in 1 .. Len(sent) : \A i \in 1 .. FragmentCount(sent[k]) :
          pushed[Offset(k - 1) + i] = Fragments(sent[k])[i]

\* The packet that follows the delivered ones, as far as its first q fragments go.
BuildIs(q) ==
    IF q = 0 THEN rx.build = <<>>
    ELSE LET p == Len(delivered) + 1
         IN  /\ p <= Len(sent) /\ q < FragmentCount(sent[p])
             /\ rx.build = SubSeq(sent[p], 1, q * FragmentSize)

Reassembly ==
    LET p == Len(delivered)
        q == Len(received) - Offset(p)
    IN  /\ delivered \in Seq(Packet)
        /\ p <= Len(sent)
        /\ delivered = SubSeq(sent, 1, p)
        /\ q \in Nat
        /\ BuildIs(q)

PacketInv == Inv /\ PushedIs /\ Reassembly

LEMMA SentPackets ==
    ASSUME PushedIs, NEW k \in 1 .. Len(sent)
    PROVE  /\ sent[k] \in Packet /\ sent[k] \in Seq(Byte)
           /\ FragmentCount(sent[k]) \in Nat /\ FragmentCount(sent[k]) >= 1
<1>1. sent[k] \in Packet
  BY DEF PushedIs
<1> QED BY <1>1, PacketAssumption, FragmentBounds

LEMMA OffsetSteps ==
    ASSUME PushedIs
    PROVE  /\ Offset(0) = 0
           /\ \A k \in 0 .. Len(sent) : Offset(k) \in Nat
           /\ \A k \in 1 .. Len(sent) : Offset(k) = Offset(k - 1) + FragmentCount(sent[k])
<1> DEFINE f == [j \in 1 .. Len(sent) |-> FragmentCount(sent[j])]
<1>1. Len(sent) \in Nat
  BY DEF PushedIs
<1>2. \A j \in 1 .. Len(sent) : f[j] \in Nat /\ f[j] = FragmentCount(sent[j])
  BY SentPackets
<1>3. \A k : Offset(k) = SumTo(f, k)
  BY DEF Offset
<1> HIDE DEF f
<1>4. Offset(0) = 0
  BY <1>3, SumStep
<1>5. ASSUME NEW k \in 0 .. Len(sent) PROVE Offset(k) \in Nat
  <2>1. k \in Nat /\ \A j \in 1 .. k : f[j] \in Nat
    BY <1>1, <1>2
  <2> QED BY <1>3, <2>1, SumNat
<1>6. ASSUME NEW k \in 1 .. Len(sent)
      PROVE  Offset(k) = Offset(k - 1) + FragmentCount(sent[k])
  <2> DEFINE i == k - 1
  <2>1. i \in Nat /\ k = i + 1
    BY <1>1
  <2> HIDE DEF i
  <2>2. SumTo(f, i + 1) = SumTo(f, i) + f[i + 1]
    BY <2>1, SumStep
  <2> QED BY <1>2, <1>3, <2>1, <2>2 DEF i
<1> QED BY <1>4, <1>5, <1>6

LEMMA OffsetMonotone ==
    ASSUME PushedIs, NEW k \in 0 .. Len(sent)
    PROVE  Offset(k) <= Offset(Len(sent))
<1> DEFINE n == Len(sent)
           m == n - k
           f == [j \in 1 .. n |-> FragmentCount(sent[j])]
           g == [j \in 1 .. m |-> f[k + j]]
<1>1. n \in Nat /\ k \in Nat /\ m \in Nat /\ n = k + m
  <2>1. n \in Nat
    BY DEF PushedIs
  <2> HIDE DEF n
  <2> QED BY <2>1 DEF n
<1>2. \A j \in 1 .. n : f[j] \in Nat
  BY SentPackets
<1>3. Offset(k) = SumTo(f, k) /\ Offset(n) = SumTo(f, n)
  BY DEF Offset
<1>4. \A j \in 1 .. m : g[j] = f[k + j]
  OBVIOUS
<1> HIDE DEF n, m, f, g
<1>5. \A j \in 1 .. k + m : f[j] \in Nat
  BY <1>1, <1>2
<1>6. SumTo(f, k + m) = SumTo(f, k) + SumTo(g, m)
  BY <1>1, <1>4, <1>5, SumSplit
<1>7. SumTo(f, k) \in Nat
  <2>1. \A j \in 1 .. k : f[j] \in Nat
    BY <1>1, <1>5
  <2> QED BY <1>1, <2>1, SumNat
<1>8. SumTo(g, m) \in Nat
  <2>1. ASSUME NEW j \in 1 .. m PROVE k + j \in 1 .. k + m
    BY <1>1
  <2>2. \A j \in 1 .. m : g[j] \in Nat
    BY <1>4, <1>5, <2>1
  <2> QED BY <1>1, <2>2, SumNat
<1> QED BY <1>1, <1>3, <1>6, <1>7, <1>8 DEF n

\* push appends the fragments of one more packet.
LEMMA EnqueueReassembly ==
    ASSUME PacketInv, NEW packet \in Packet, Enqueue(packet)
    PROVE  PushedIs' /\ Reassembly'
<1> DEFINE c == FragmentCount(packet)
           F == Fragments(packet)
<1>0. PICK n \in Nat : n = Len(sent)
  BY DEF PacketInv, PushedIs
<1>1. /\ sent' = Append(sent, packet) /\ pushed' = pushed \o F
      /\ UNCHANGED <<rx, delivered, received>>
  BY DEF Enqueue
<1>2. /\ sent \in Seq(Packet) /\ n \in Nat /\ Len(pushed) = Offset(n) /\ pushed \in Seq(Fragment)
      /\ PushedIs /\ Reassembly
  BY <1>0 DEF PacketInv, PushedIs, Inv, TypeOK
<1>3. /\ F \in Seq(Fragment) /\ c \in Nat /\ c >= 1 /\ Len(F) = c
  <2>1. packet \in Seq(Byte)
    BY PacketAssumption
  <2>2. c \in Nat /\ c >= 1 /\ F \in Seq(Fragment)
    BY <2>1, FragmentBounds, FragmentsType DEF Fragment
  <2> QED BY <2>2 DEF Fragments
<1>4. /\ sent' \in Seq(Packet) /\ Len(sent') = n + 1 /\ sent'[n + 1] = packet
      /\ \A i \in 1 .. n : sent'[i] = sent[i]
  BY <1>0, <1>1, <1>2, AppendProperties
<1>5. /\ Len(pushed') = Len(pushed) + c /\ Len(pushed) \in Nat
      /\ \A i \in 1 .. Len(pushed) : pushed'[i] = pushed[i]
      /\ \A i \in 1 .. c : pushed'[Len(pushed) + i] = F[i]
  <2> HIDE DEF F, c
  <2>1. /\ Len(pushed') = Len(pushed) + c /\ Len(pushed) \in Nat
        /\ \A i \in 1 .. Len(pushed) + c :
             pushed'[i] = IF i <= Len(pushed) THEN pushed[i] ELSE F[i - Len(pushed)]
    <3>1. \A s, t \in Seq(Fragment) :
            /\ Len(s \o t) = Len(s) + Len(t) /\ Len(s) \in Nat
            /\ \A i \in 1 .. Len(s) + Len(t) :
                 (s \o t)[i] = IF i <= Len(s) THEN s[i] ELSE t[i - Len(s)]
      BY ConcatProperties
    <3> QED BY <1>1, <1>2, <1>3, <3>1
  <2>2. ASSUME NEW i \in 1 .. Len(pushed) PROVE pushed'[i] = pushed[i]
    <3>1. i \in 1 .. Len(pushed) + c /\ i <= Len(pushed)
      BY <1>3, <2>1
    <3> QED BY <2>1, <3>1
  <2>3. ASSUME NEW i \in 1 .. c PROVE pushed'[Len(pushed) + i] = F[i]
    <3>1. /\ Len(pushed) + i \in 1 .. Len(pushed) + c /\ ~(Len(pushed) + i <= Len(pushed))
          /\ (Len(pushed) + i) - Len(pushed) = i
      BY <1>3, <2>1
    <3> QED BY <2>1, <3>1
  <2> QED BY <2>1, <2>2, <2>3
<1>6. \A k \in 0 .. n : Offset(k)' = Offset(k)
  <2> DEFINE f == [j \in 1 .. n |-> FragmentCount(sent[j])]
             g == [j \in 1 .. n + 1 |-> FragmentCount(sent'[j])]
  <2>1. \A j \in 1 .. n : j \in 1 .. n + 1 /\ f[j] = g[j]
    <3>1. \A j \in 1 .. n : j \in 1 .. n + 1
      BY <1>2
    <3> QED BY <1>4, <3>1
  <2>2. \A k : Offset(k)' = SumTo(g, k) /\ Offset(k) = SumTo(f, k)
    BY <1>0, <1>4 DEF Offset
  <2> HIDE DEF f, g
  <2>3. ASSUME NEW k \in 0 .. n PROVE SumTo(g, k) = SumTo(f, k)
    <3>1. k \in Nat /\ \A j \in 1 .. k : f[j] = g[j]
      BY <1>2, <2>1
    <3> QED BY <3>1, SumSame
  <2> QED BY <2>2, <2>3
<1>7. Offset(n + 1)' = Offset(n) + c
  <2> DEFINE g == [j \in 1 .. n + 1 |-> FragmentCount(sent'[j])]
  <2>1. \A k : Offset(k)' = SumTo(g, k)
    BY <1>0, <1>4 DEF Offset
  <2>2. g[n + 1] = c
    <3>1. n + 1 \in 1 .. n + 1
      BY <1>2
    <3> QED BY <1>4, <3>1
  <2> HIDE DEF g, c
  <2>3. SumTo(g, n + 1) = SumTo(g, n) + g[n + 1]
    BY <1>2, SumStep
  <2>4. n \in 0 .. n
    BY <1>2
  <2> QED BY <1>6, <2>1, <2>2, <2>3, <2>4
<1>8. PushedIs'
  <2>1. ASSUME NEW k \in 1 .. n + 1, NEW i \in 1 .. FragmentCount(sent'[k])
        PROVE  pushed'[Offset(k - 1)' + i] = Fragments(sent'[k])[i]
    <3>1. k - 1 \in 0 .. n /\ (k = n + 1 \/ k \in 1 .. n)
      BY <1>2
    <3>2. CASE k = n + 1
      <4>1. k - 1 = n
        BY <1>2, <3>2
      <4> QED BY <1>2, <1>4, <1>5, <1>6, <3>1, <3>2, <4>1
    <3>3. CASE k \in 1 .. n
      <4>1. sent'[k] = sent[k]
        BY <1>4, <3>3
      <4>2. pushed[Offset(k - 1) + i] = Fragments(sent[k])[i]
        BY <1>0, <1>2, <3>3, <4>1 DEF PushedIs
      <4>3. Offset(k - 1) + i \in 1 .. Len(pushed)
        <5>1. /\ Offset(k) = Offset(k - 1) + FragmentCount(sent[k])
              /\ Offset(k - 1) \in Nat /\ FragmentCount(sent[k]) \in Nat
          BY <1>0, <1>2, <3>1, <3>3, OffsetSteps, SentPackets
        <5>2. Offset(k) <= Offset(n)
          BY <1>0, <1>2, <3>3, OffsetMonotone
        <5> QED BY <1>2, <1>5, <4>1, <5>1, <5>2
      <4> QED BY <1>5, <1>6, <3>1, <4>1, <4>2, <4>3
    <3> QED BY <3>1, <3>2, <3>3
  <2>2. Len(pushed') = Offset(Len(sent))'
    <3>1. \A k : k = Len(sent') => Offset(k)' = Offset(Len(sent))'
      BY DEF Offset
    <3> QED BY <1>2, <1>4, <1>5, <1>7, <3>1
  <2> QED BY <1>4, <2>1, <2>2 DEF PushedIs
<1>9. Reassembly'
  <2> DEFINE p == Len(delivered)
             q == Len(received) - Offset(p)
  <2>1. p <= n /\ delivered = SubSeq(sent, 1, p) /\ q \in Nat /\ BuildIs(q)
        /\ delivered \in Seq(Packet) /\ p \in 0 .. n
    BY <1>0, <1>2 DEF Reassembly
  <2>2. Offset(Len(delivered))' = Offset(p)
    BY <1>1, <1>6, <2>1
  <2>3. Len(received') - Offset(Len(delivered))' = q
    BY <1>1, <2>2
  <2>4. SubSeq(sent', 1, p) = delivered
    <3> HIDE DEF p
    <3>1. SubSeq(Append(sent, packet), 1, p) = SubSeq(sent, 1, p)
      BY <1>0, <1>2, <2>1, PrefixOfAppend
    <3> QED BY <1>1, <2>1, <3>1
  <2>5. \A x : BuildIs(x) => (BuildIs(x))'
    <3>1. p + 1 <= n => p + 1 <= n + 1 /\ sent'[p + 1] = sent[p + 1]
      <4>1. p + 1 <= n => p + 1 \in 1 .. n /\ p + 1 <= n + 1
        BY <1>2, <2>1
      <4> QED BY <1>4, <4>1
    <3> QED BY <1>0, <1>1, <1>4, <3>1 DEF BuildIs
  <2>6. p <= n + 1
    BY <1>2, <2>1
  <2> HIDE DEF q
  <2>7. (BuildIs(Len(received) - Offset(Len(delivered))))'
    <3>1. ASSUME NEW x, x = Len(received') - Offset(Len(delivered))', (BuildIs(x))'
          PROVE  (BuildIs(Len(received) - Offset(Len(delivered))))'
      BY <3>1 DEF BuildIs
    <3> QED BY <2>1, <2>3, <2>5, <3>1
  <2> QED BY <1>1, <1>4, <2>1, <2>3, <2>4, <2>6, <2>7 DEF Reassembly
<1> QED BY <1>8, <1>9

\* Reassembly of the next state, with the numbers it is about as rigid values.
LEMMA ReassemblyNext ==
    ASSUME NEW P \in Nat, NEW Q \in Nat,
           delivered' \in Seq(Packet), P = Len(delivered'), P <= Len(sent'),
           delivered' = SubSeq(sent', 1, P), Q = Len(received') - Offset(P)', (BuildIs(Q))'
    PROVE  Reassembly'
<1>1. Offset(P)' = Offset(Len(delivered))'
  BY DEF Offset
<1>2. Len(received') - Offset(Len(delivered))' = Q
  BY <1>1
<1>3. (BuildIs(Len(received) - Offset(Len(delivered))))'
  <2>1. ASSUME NEW x, x = Len(received') - Offset(Len(delivered))', (BuildIs(x))'
        PROVE  (BuildIs(Len(received) - Offset(Len(delivered))))'
    BY <2>1 DEF BuildIs
  <2> QED BY <1>2, <2>1
<1> QED BY <1>2, <1>3 DEF Reassembly

\* receive: the fragment completes the next packet or extends what is built of it.
LEMMA ReceiveFragmentReassembly ==
    ASSUME PacketInv, ReceiveFragment
    PROVE  /\ PushedIs' /\ Reassembly'
           /\ \/ UNCHANGED <<sent, delivered>>
              \/ /\ Len(delivered) + 1 \in Len(delivered) + 1 .. Len(sent)
                 /\ delivered' = SubSeq(sent, 1, Len(delivered) + 1) /\ UNCHANGED sent
<1> DEFINE m == Head(wire)
<1>1. PICK fragment, id : fragment = m.fragment /\ id = m.id
  OBVIOUS
<1>2. PICK p, r, n : p = Len(delivered) /\ r = Len(received) /\ n = Len(sent)
  OBVIOUS
<1>3. PICK q : q = r - Offset(p)
  OBVIOUS
<1>4. /\ rx' = RxReceive(rx, id, fragment).rx
      /\ delivered' = delivered \o RxReceive(rx, id, fragment).out
      /\ received' = IF RxAccepts(rx, id, fragment) THEN Append(received, fragment) ELSE received
      /\ UNCHANGED <<tx, sent, pushed, base>>
  BY <1>1 DEF ReceiveFragment
<1>5. /\ PushedIs /\ sent \in Seq(Packet) /\ n \in Nat /\ Len(pushed) = Offset(n)
      /\ pushed \in Seq(Fragment) /\ received \in Seq(Fragment) /\ r \in Nat
      /\ ReceivedInOrder'
  BY <1>2, ReceiveFragmentInv DEF PacketInv, Inv, PushedIs, TypeOK
<1>6. /\ delivered \in Seq(Packet) /\ p \in 0 .. n /\ p \in Nat /\ q \in Nat
      /\ delivered = SubSeq(sent, 1, p) /\ BuildIs(q)
  <2>1. /\ delivered \in Seq(Packet) /\ p <= n /\ q \in Nat
        /\ delivered = SubSeq(sent, 1, p) /\ BuildIs(q)
    BY <1>2, <1>3 DEF PacketInv, Reassembly
  <2>2. p \in Nat
    BY <1>2, <2>1
  <2> QED BY <1>5, <2>1, <2>2
<1>7. PushedIs'
  BY <1>4, <1>5 DEF PushedIs, Offset
<1>8. \A k : Offset(k)' = Offset(k)
  BY <1>4 DEF Offset
<1>9. CASE ~RxAccepts(rx, id, fragment)
  <2>1. rx' = rx /\ received' = received /\ delivered' = delivered
    <3>1. RxReceive(rx, id, fragment) = [rx |-> rx, out |-> <<>>]
      BY <1>9 DEF RxReceive
    <3>2. delivered \o <<>> = delivered
      BY <1>6, ConcatEmptySeq
    <3> QED BY <1>4, <1>9, <3>1, <3>2
  <2>2. (BuildIs(q))'
    BY <1>4, <1>6, <2>1 DEF BuildIs
  <2>3. Reassembly'
    <3>1. p <= n
      BY <1>5, <1>6
    <3> QED BY <1>2, <1>3, <1>4, <1>6, <1>8, <2>1, <2>2, <3>1, ReassemblyNext
  <2> QED BY <1>4, <1>7, <2>1, <2>3
<1>10. CASE RxAccepts(rx, id, fragment)
  <2>1. /\ received' = Append(received, fragment)
        /\ rx'.build = IF fragment.last THEN <<>> ELSE rx.build \o fragment.data
        /\ delivered' = delivered \o (IF fragment.last THEN <<rx.build \o fragment.data>> ELSE <<>>)
    BY <1>4, <1>10 DEF RxReceive
  <2>2. fragment \in Fragment /\ Len(received') = r + 1 /\ received'[r + 1] = fragment
    <3>1. fragment \in Fragment
      <4>1. wire \in Seq([n : Nat, id : Id, fragment : Fragment]) /\ wire # <<>>
        BY DEF PacketInv, Inv, TypeOK, ReceiveFragment
      <4>2. m \in [n : Nat, id : Id, fragment : Fragment]
        BY <4>1, HeadTailProperties
      <4> QED BY <1>1, <4>2
    <3> QED BY <1>2, <1>5, <2>1, <3>1, AppendProperties
  <2>3. r + 1 <= Len(pushed) /\ fragment = pushed[r + 1] /\ Len(pushed) \in Nat
    <3>1. Len(pushed) \in Nat
      BY <1>5
    <3>2. r + 1 \in 1 .. r + 1
      BY <1>5
    <3> QED BY <1>4, <1>5, <2>2, <3>1, <3>2 DEF ReceivedInOrder
  <2>4. Offset(p) \in Nat /\ r = Offset(p) + q
    <3>1. Offset(p) \in Nat
      BY <1>2, <1>5, <1>6, OffsetSteps
    <3> QED BY <1>3, <1>5, <1>6, <3>1
  <2>5. p < n
    <3>1. SUFFICES ASSUME p = n PROVE FALSE
      BY <1>5, <1>6
    <3>2. q = 0
      BY <1>2, <1>5, <1>6, <3>1 DEF BuildIs
    <3> QED BY <1>5, <2>3, <2>4, <3>1, <3>2
  <2>6. PICK k : k = p + 1
    OBVIOUS
  <2>7. k \in 1 .. n /\ k - 1 = p /\ k \in Nat /\ k \in 0 .. n
    BY <1>5, <1>6, <2>5, <2>6
  <2>8. PICK packet : packet = sent[k]
    OBVIOUS
  <2>9. PICK c : c = FragmentCount(packet)
    OBVIOUS
  <2>10. /\ packet \in Packet /\ packet \in Seq(Byte) /\ c \in Nat /\ c >= 1
         /\ Offset(k) = Offset(p) + c
    BY <1>2, <1>5, <2>7, <2>8, <2>9, SentPackets, OffsetSteps
  <2>11. q < c /\ rx.build = SubSeq(packet, 1, q * FragmentSize)
    <3>1. CASE q = 0
      <4>1. q * FragmentSize = 0
        BY <3>1, FragmentSizeAssumption
      <4>2. SubSeq(packet, 1, 0) = <<>>
        BY SubSeqEmpty
      <4>3. rx.build = <<>>
        BY <1>6, <3>1 DEF BuildIs
      <4> QED BY <2>10, <3>1, <4>1, <4>2, <4>3
    <3>2. CASE q # 0
      BY <1>2, <1>6, <2>6, <2>8, <2>9, <3>2 DEF BuildIs
    <3> QED BY <3>1, <3>2
  <2>12. fragment = Fragments(packet)[q + 1]
    <3>1. q + 1 \in 1 .. c /\ Offset(p) + (q + 1) = r + 1
      BY <1>6, <2>4, <2>10, <2>11
    <3>2. pushed[Offset(k - 1) + (q + 1)] = Fragments(packet)[q + 1]
      BY <1>2, <1>5, <2>7, <2>8, <2>9, <3>1 DEF PushedIs
    <3> QED BY <2>3, <2>7, <3>1, <3>2
  <2>13. /\ fragment.last = (q + 1 = c)
         /\ rx.build \o fragment.data =
              SubSeq(packet, 1, IF q + 1 = c THEN Len(packet) ELSE (q + 1) * FragmentSize)
    BY <1>6, <2>9, <2>10, <2>11, <2>12, NextFragment
  <2>14. CASE q + 1 = c
    <3>1. rx.build \o fragment.data = packet
      <4>1. rx.build \o fragment.data = SubSeq(packet, 1, Len(packet))
        BY <2>13, <2>14
      <4> QED BY <2>10, <4>1, SubSeqFull
    <3>2. rx'.build = <<>> /\ delivered' = delivered \o <<packet>>
      BY <2>1, <2>13, <2>14, <3>1
    <3>3. SubSeq(sent, 1, k) = SubSeq(sent, 1, k - 1) \o <<sent[k]>>
      <4>1. 1 \in 1 .. Len(sent) /\ k \in 1 .. Len(sent)
        BY <1>2, <1>5, <2>7
      <4> QED BY <1>5, <4>1, SubSeqRecursiveSecond
    <3>4. delivered' = SubSeq(sent, 1, k)
      BY <1>6, <2>7, <2>8, <3>2, <3>3
    <3>5. delivered' \in Seq(Packet) /\ Len(delivered') = k
      <4>1. <<packet>> \in Seq(Packet) /\ Len(<<packet>>) = 1
        BY <2>10
      <4> QED BY <1>2, <1>6, <2>6, <3>2, <4>1, ConcatProperties
    <3>6. Len(received') - Offset(k)' = 0
      BY <1>6, <1>8, <2>2, <2>4, <2>10, <2>14
    <3>7. (BuildIs(0))'
      BY <3>2 DEF BuildIs
    <3>8. Reassembly'
      <4>1. k <= Len(sent')
        BY <1>2, <1>4, <1>5, <2>7
      <4> QED BY <1>4, <2>7, <3>4, <3>5, <3>6, <3>7, <4>1, ReassemblyNext
    <3>9. k \in p + 1 .. n
      BY <1>5, <1>6, <2>6, <2>7
    <3> QED BY <1>2, <1>4, <1>7, <2>6, <3>4, <3>8, <3>9
  <2>15. CASE q + 1 # c
    <3>1. /\ rx'.build = SubSeq(packet, 1, (q + 1) * FragmentSize)
          /\ delivered' = delivered
      <4>1. delivered \o <<>> = delivered
        BY <1>6, ConcatEmptySeq
      <4> QED BY <2>1, <2>13, <2>15, <4>1
    <3>2. q + 1 \in Nat /\ q + 1 # 0 /\ q + 1 < c
      BY <1>6, <2>10, <2>11, <2>15
    <3>3. Len(received') - Offset(p)' = q + 1
      BY <1>6, <1>8, <2>2, <2>4
    <3>4. (BuildIs(q + 1))'
      <4>1. Len(delivered') + 1 = k /\ sent'[k] = packet /\ k <= Len(sent')
        BY <1>2, <1>4, <1>5, <2>6, <2>7, <2>8, <3>1
      <4> QED BY <2>9, <3>1, <3>2, <4>1 DEF BuildIs
    <3>5. Reassembly'
      <4>1. p <= Len(sent')
        BY <1>2, <1>4, <1>5, <1>6
      <4> QED BY <1>2, <1>4, <1>6, <3>1, <3>2, <3>3, <3>4, <4>1, ReassemblyNext
    <3> QED BY <1>4, <1>7, <3>1, <3>5
  <2> QED BY <2>14, <2>15
<1> QED BY <1>9, <1>10

\* No other action touches a packet or a fragment on the receiver's side.
LEMMA UnchangedReassembly ==
    ASSUME PacketInv, UNCHANGED <<rx, sent, delivered, pushed, received>>
    PROVE  PushedIs' /\ Reassembly'
  BY DEF PacketInv, PushedIs, Reassembly, BuildIs, Offset

\* How every step looks to a user of the channel: he hands over a packet, is handed
\* the next one that was sent, or sees nothing.
LEMMA PacketStep ==
    ASSUME PacketInv, [Next]_vars
    PROVE  /\ PushedIs' /\ Reassembly'
           /\ \/ \E packet \in Packet : sent' = Append(sent, packet) /\ UNCHANGED delivered
              \/ /\ Len(delivered) + 1 \in Len(delivered) + 1 .. Len(sent)
                 /\ delivered' = SubSeq(sent, 1, Len(delivered) + 1) /\ UNCHANGED sent
              \/ UNCHANGED <<sent, delivered>>
<1>1. CASE \E packet \in Packet : Enqueue(packet)
  <2>1. PICK packet \in Packet : Enqueue(packet)
    BY <1>1
  <2>2. PushedIs' /\ Reassembly'
    BY <2>1, EnqueueReassembly
  <2> QED BY <2>1, <2>2 DEF Enqueue
<1>2. CASE ReceiveFragment
  <2>1. /\ PushedIs' /\ Reassembly'
        /\ \/ UNCHANGED <<sent, delivered>>
           \/ /\ Len(delivered) + 1 \in Len(delivered) + 1 .. Len(sent)
              /\ delivered' = SubSeq(sent, 1, Len(delivered) + 1) /\ UNCHANGED sent
    BY <1>2, ReceiveFragmentReassembly
  <2> QED BY <2>1
<1>3. CASE \/ SendFragment \/ (\E i \in 1 .. Len(wire) : LoseFragment(i)) \/ AnswerSync
           \/ (\E a \in acks : ReceiveAck(a)) \/ Timeout \/ UNCHANGED vars
  <2>1. UNCHANGED <<rx, sent, delivered, pushed, received>>
    BY <1>3 DEF SendFragment, LoseFragment, AnswerSync, ReceiveAck, Timeout, vars
  <2>2. PushedIs' /\ Reassembly'
    BY <2>1, UnchangedReassembly
  <2> QED BY <2>1, <2>2
<1> QED BY <1>1, <1>2, <1>3 DEF Next

LEMMA PacketInit == Init => PushedIs /\ Reassembly
<1> SUFFICES ASSUME Init PROVE PushedIs /\ Reassembly
  OBVIOUS
<1>1. sent = <<>> /\ delivered = <<>> /\ pushed = <<>> /\ received = <<>> /\ rx.build = <<>>
  BY DEF Init, RxNew
<1>2. sent \in Seq(Packet) /\ delivered \in Seq(Packet) /\ Len(sent) = 0 /\ Len(delivered) = 0
      /\ Len(pushed) = 0 /\ Len(received) = 0
  BY <1>1
<1>3. Offset(0) = 0
  BY SumStep DEF Offset
<1>4. PushedIs
  BY <1>2, <1>3 DEF PushedIs
<1>5. delivered = SubSeq(sent, 1, 0)
  BY <1>1, SubSeqEmpty
<1> QED BY <1>1, <1>2, <1>3, <1>4, <1>5 DEF Reassembly, BuildIs

\* The receiver has delivered a prefix of the packets that were sent, and what it has
\* built is the beginning of the one after them.
THEOREM PacketInvariance == Spec => []PacketInv
<1>1. Init => PushedIs /\ Reassembly
  BY PacketInit
<1>2. Inv /\ PushedIs /\ Reassembly /\ [Next]_vars => PushedIs' /\ Reassembly'
  BY PacketStep DEF PacketInv
<1>3. Spec => []Inv
  BY Invariance
<1> QED BY <1>1, <1>2, <1>3, PTL DEF Spec, PacketInv

\* The go-back-N channel implements the FIFO channel: whatever is lost, resent or
\* acknowledged late, the packets handed out are those handed over, each once, whole
\* and in order.
THEOREM ImplementsFifo == Spec => FifoSpec
<1>1. Init => Fifo!Init
  BY DEF Init, Fifo!Init
<1>2. PacketInv /\ [Next]_vars => [Fifo!Next]_<<sent, delivered>>
  <2> SUFFICES ASSUME PacketInv, [Next]_vars PROVE [Fifo!Next]_<<sent, delivered>>
    OBVIOUS
  <2>1. sent \in Seq(Packet) /\ Len(sent) \in Nat
    BY DEF PacketInv, PushedIs
  <2>2. ASSUME NEW packet \in Packet, sent' = Append(sent, packet), UNCHANGED delivered
        PROVE  Fifo!Send
    <3>1. /\ sent' \in Seq(Packet) /\ Len(sent') = Len(sent) + 1
          /\ \A i \in 1 .. Len(sent) : sent'[i] = sent[i]
      BY <2>1, <2>2, AppendProperties
    <3>2. Len(sent) <= Len(sent')
      BY <2>1, <3>1
    <3> QED BY <2>2, <3>1, <3>2 DEF Fifo!Send
  <2>3. ASSUME Len(delivered) + 1 \in Len(delivered) + 1 .. Len(sent),
               delivered' = SubSeq(sent, 1, Len(delivered) + 1), UNCHANGED sent
        PROVE  Fifo!Deliver
    BY <2>3 DEF Fifo!Deliver
  <2> QED BY <2>2, <2>3, PacketStep DEF Fifo!Next
<1> QED BY <1>1, <1>2, PacketInvariance, PTL DEF Spec, FifoSpec, Fifo!Spec


=============================================================================
