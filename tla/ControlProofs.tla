---------------------------- MODULE ControlProofs ----------------------------
(***************************************************************************)
(* Proofs about what controls the traffic: the congestion window, for      *)
(* every segment size and every width of the integers, and the balance of  *)
(* the channels, for all weights, burst sizes and datagrams that the code  *)
(* accepts.                                                                *)
(***************************************************************************)
EXTENDS Congestion, ChannelBalance, TLAPS

-----------------------------------------------------------------------------
(* The congestion window *)

\* The smallest window: at least two segments, and a window that integers can hold.
LEMMA CwndMinType == CwndMin \in 0 .. CwndMax /\ 2 * Mss <= CwndMin /\ Mss <= CwndMin
<1>1. CwndMin \in Nat /\ CwndMin <= CwndMax
  BY AimdRenoAssumption DEF CwndMin
<1>2. 2 * Mss <= InitialCwndMss * Mss
  BY AimdRenoAssumption
<1> QED BY <1>1, <1>2, AimdRenoAssumption DEF CwndMin

\* Halving, with the floor of the smallest window.
LEMMA HalfType ==
    ASSUME NEW c \in 0 .. CwndMax
    PROVE  AtLeastCwndMin(c \div 2) \in CwndMin .. CwndMax
<1>1. c \div 2 \in 0 .. c
  OBVIOUS
<1> QED BY <1>1, CwndMinType, AimdRenoAssumption DEF AtLeastCwndMin

\* In congestion avoidance an ack adds at most one segment.
LEMMA IncrementBound ==
    ASSUME NEW c \in CwndMin .. CwndMax
    PROVE  Increment(c) \in 0 .. Mss
<1> DEFINE x == Mss * Mss + c \div 2
           q == x \div c
<1>1. c \in Nat /\ c > 0 /\ 2 * Mss <= c /\ Mss \in Nat /\ Mss > 0 /\ c \div 2 \in Nat
      /\ 2 * (c \div 2) <= c
  BY CwndMinType, AimdRenoAssumption
<1>2. x \in Nat /\ q \in Nat /\ q * c <= x
  <2>1. x \in Nat
    BY <1>1
  <2> HIDE DEF x
  <2> QED BY <1>1, <2>1
<1>3. 2 * (Mss * Mss) <= c * Mss
  BY <1>1
<1>4. 2 * x <= c * Mss + c
  BY <1>1, <1>3
<1>5. c <= c * Mss
  BY <1>1
<1> HIDE DEF x, q
<1>6. 2 * (q * c) <= 2 * (c * Mss)
  BY <1>1, <1>2, <1>4, <1>5
<1>7. q <= Mss
  <2> SUFFICES ASSUME q >= Mss + 1 PROVE FALSE
    BY <1>1, <1>2
  <2>1. q * c >= (Mss + 1) * c
    BY <1>1, <1>2
  <2>2. (Mss + 1) * c = c * Mss + c
    BY <1>1
  <2> QED BY <1>1, <1>2, <1>6, <2>1, <2>2
<1> QED BY <1>2, <1>7 DEF q, x, Increment

-----------------------------------------------------------------------------
(* The invariant of the congestion window *)

Inv == TypeOK /\ CwndOK /\ DropcntOK

\* What an acknowledgement does to the window and to the drop counter.
LEMMA AckEffect ==
    ASSUME TypeOK, CwndOK, Ack
    PROVE  /\ cc'.cwnd \in cc.cwnd .. cc.cwnd + Mss
           /\ cc'.cwnd <= CwndMax
           /\ cc'.dropcnt = IF cc.dropcnt > Mss THEN cc.dropcnt - Mss ELSE 0
           /\ cc' \in [mode : Mode, ssthresh : 0 .. CwndMax, cwnd : 0 .. CwndMax,
                       dropcnt : 0 .. CwndMax]
           /\ cc'.mode = "ThresholdSlowStart" => cc'.cwnd <= cc'.ssthresh
<1> DEFINE w == cc.cwnd
           s == cc.ssthresh
           grown == SaturatingAdd(w, Mss)
           d == IF cc.dropcnt > Mss THEN cc.dropcnt - Mss ELSE 0
           R == [mode : Mode, ssthresh : 0 .. CwndMax, cwnd : 0 .. CwndMax,
                 dropcnt : 0 .. CwndMax]
<1>1. /\ w \in CwndMin .. CwndMax /\ s \in 0 .. CwndMax /\ cc.mode \in Mode
      /\ Mss \in Nat /\ CwndMin \in Nat /\ CwndMax \in Nat /\ cc.dropcnt \in 0 .. CwndMax
  BY CwndMinType, AimdRenoAssumption DEF TypeOK, CwndOK
<1>2. grown \in w .. w + Mss /\ grown <= CwndMax
  BY <1>1 DEF SaturatingAdd
<1>3. d \in 0 .. CwndMax /\ 0 \in 0 .. CwndMax
  BY <1>1
<1>4. cc' = HandleAck(cc) /\ cc \in R
  BY DEF Ack, TypeOK
<1>5. CASE cc.mode = "UnboundedSlowStart"
  <2>1. cc' = [cc EXCEPT !.dropcnt = d, !.cwnd = grown]
    BY <1>4, <1>5 DEF HandleAck
  <2>2. grown \in 0 .. CwndMax
    BY <1>1, <1>2
  <2> HIDE DEF grown, d
  <2>3. cc'.cwnd = grown /\ cc'.dropcnt = d /\ cc'.mode = cc.mode /\ cc' \in R
    BY <1>3, <1>4, <2>1, <2>2
  <2> QED BY <1>2, <1>5, <2>3 DEF d
<1>6. CASE cc.mode = "ThresholdSlowStart" /\ grown < s
  <2>0. ~(grown >= s)
    BY <1>1, <1>2, <1>6
  <2>1. cc' = [cc EXCEPT !.dropcnt = d, !.cwnd = grown]
    BY <1>4, <1>6, <2>0 DEF HandleAck
  <2>2. grown \in 0 .. CwndMax /\ grown <= s
    BY <1>1, <1>2, <1>6
  <2> HIDE DEF grown, d
  <2>3. cc'.cwnd = grown /\ cc'.dropcnt = d /\ cc'.ssthresh = s /\ cc' \in R
    BY <1>3, <1>4, <2>1, <2>2
  <2> QED BY <1>2, <2>2, <2>3 DEF d
<1>7. CASE cc.mode = "ThresholdSlowStart" /\ ~(grown < s)
  <2>1. grown >= s /\ w <= s
    BY <1>1, <1>2, <1>7 DEF CwndOK
  <2>2. cc' = [cc EXCEPT !.dropcnt = d, !.cwnd = s, !.ssthresh = 0,
                         !.mode = "CongestionAvoidance"]
    BY <1>4, <1>7, <2>1 DEF HandleAck
  <2>3. s \in w .. w + Mss /\ s <= CwndMax
    BY <1>1, <1>2, <2>1
  <2> HIDE DEF grown, d
  <2>4. /\ cc'.cwnd = s /\ cc'.dropcnt = d /\ cc'.mode = "CongestionAvoidance"
        /\ cc' \in R
    BY <1>1, <1>3, <1>4, <2>2 DEF Mode
  <2> QED BY <2>3, <2>4 DEF d
<1>8. CASE cc.mode = "CongestionAvoidance"
  <2> DEFINE g == SaturatingAdd(w, Increment(w))
  <2>1. cc' = [cc EXCEPT !.dropcnt = d, !.cwnd = g]
    BY <1>4, <1>8 DEF HandleAck
  <2>2. Increment(w) \in 0 .. Mss
    BY <1>1, IncrementBound
  <2>3. g \in w .. w + Mss /\ g <= CwndMax /\ g \in 0 .. CwndMax
    BY <1>1, <2>2 DEF SaturatingAdd
  <2> HIDE DEF g, d
  <2>4. cc'.cwnd = g /\ cc'.dropcnt = d /\ cc'.mode = cc.mode /\ cc' \in R
    BY <1>3, <1>4, <2>1, <2>3
  <2> QED BY <1>8, <2>3, <2>4 DEF d
<1> QED BY <1>1, <1>5, <1>6, <1>7, <1>8 DEF Mode

\* The window is never smaller than the floor, and the drop counter is exact, in every
\* reachable state.
THEOREM Invariance == Spec => []Inv
<1>1. Init => Inv
  BY CwndMinType, AimdRenoAssumption
     DEF Init, AimdNew, Inv, TypeOK, CwndOK, DropcntOK, Mode
<1>2. Inv /\ [Next]_ccVars => Inv'
  <2> SUFFICES ASSUME Inv, [Next]_ccVars PROVE Inv'
    OBVIOUS
  <2> USE DEF Inv
  <2>0. /\ cc.cwnd \in 0 .. CwndMax /\ cc.dropcnt \in 0 .. CwndMax /\ credit \in Nat
        /\ owed \in 0 .. CwndMax /\ CwndMin \in 0 .. CwndMax /\ CwndMax \in Nat
        /\ Mss \in Nat /\ Mss <= CwndMin /\ Mss > 0
    BY CwndMinType, AimdRenoAssumption DEF TypeOK
  <2> DEFINE halved == AtLeastCwndMin(cc.cwnd \div 2)
  <2>1. halved \in CwndMin .. CwndMax /\ halved \in 0 .. CwndMax
    BY <2>0, HalfType
  <2>2. CASE Ack
    <3>1. /\ cc'.cwnd \in cc.cwnd .. cc.cwnd + Mss
          /\ cc'.dropcnt = IF cc.dropcnt > Mss THEN cc.dropcnt - Mss ELSE 0
          /\ cc' \in [mode : Mode, ssthresh : 0 .. CwndMax, cwnd : 0 .. CwndMax,
                      dropcnt : 0 .. CwndMax]
          /\ cc'.mode = "ThresholdSlowStart" => cc'.cwnd <= cc'.ssthresh
      BY <2>2, AckEffect
    <3>2. owed' = owed /\ credit' = IF credit < owed THEN credit + Mss ELSE credit
      BY <2>2 DEF Ack
    <3>3. TypeOK'
      BY <2>0, <3>1, <3>2 DEF TypeOK
    <3>4. CwndOK'
      BY <2>0, <3>1 DEF CwndOK
    <3> DEFINE d == cc.dropcnt
               e == cc'.dropcnt
               w == cc.cwnd
               v == cc'.cwnd
    <3>5. /\ e = IF d > Mss THEN d - Mss ELSE 0
          /\ d = IF credit < owed THEN owed - credit ELSE 0
          /\ d <= w /\ v >= w /\ d \in Nat /\ w \in Nat /\ v \in Nat
      BY <2>0, <3>1 DEF DropcntOK
    <3> HIDE DEF d, e, w, v
    <3>6. e <= v /\ e = IF credit' < owed' THEN owed' - credit' ELSE 0
      BY <2>0, <3>2, <3>5
    <3>7. DropcntOK'
      BY <3>6 DEF DropcntOK, e, v
    <3> QED BY <3>3, <3>4, <3>7
  <2>3. CASE Drop /\ cc.dropcnt = 0
    <3>1. cc' = [mode |-> "CongestionAvoidance", ssthresh |-> 0, cwnd |-> halved,
                 dropcnt |-> halved]
      BY <2>3 DEF Drop, HandleDrop
    <3> HIDE DEF halved
    <3>2. cc'.cwnd = halved /\ cc'.dropcnt = halved /\ cc'.mode = "CongestionAvoidance"
      BY <3>1
    <3>3. cc' # cc
      BY <2>0, <2>1, <2>3, <3>2
    <3>4. credit' = 0 /\ owed' = halved
      BY <2>3, <3>2, <3>3 DEF Drop
    <3>5. TypeOK'
      BY <2>0, <2>1, <3>1, <3>4 DEF TypeOK, Mode
    <3> QED BY <2>0, <2>1, <3>2, <3>4, <3>5 DEF CwndOK, DropcntOK
  <2>4. CASE Drop /\ cc.dropcnt # 0
    <3>1. cc' = cc /\ credit' = credit /\ owed' = owed
      BY <2>4 DEF Drop, HandleDrop
    <3> QED BY <3>1 DEF TypeOK, CwndOK, DropcntOK
  <2>5. CASE Timeout
    <3>1. /\ cc' = [mode |-> "ThresholdSlowStart", ssthresh |-> halved,
                    cwnd |-> CwndMin, dropcnt |-> 0]
          /\ credit' = 0 /\ owed' = 0
      BY <2>5 DEF Timeout, HandleTimeout
    <3> HIDE DEF halved
    <3>2. cc'.cwnd = CwndMin /\ cc'.dropcnt = 0 /\ cc'.ssthresh = halved
      BY <3>1
    <3>3. TypeOK'
      BY <2>0, <2>1, <3>1 DEF TypeOK, Mode
    <3> QED BY <2>0, <2>1, <3>1, <3>2, <3>3 DEF CwndOK, DropcntOK
  <2>6. CASE UNCHANGED ccVars
    BY <2>6 DEF ccVars, TypeOK, CwndOK, DropcntOK
  <2> QED BY <2>2, <2>3, <2>4, <2>5, <2>6 DEF Next
<1> QED BY <1>1, <1>2, PTL DEF Spec

\* The window always has room for InitialCwndMss segments.
THEOREM CwndSafe == Spec => []CwndOK
  BY Invariance, PTL DEF Inv

\* An ack never shrinks the window and opens it by at most a segment.
THEOREM AckGrowthHolds == Spec => AckGrowth
<1>1. Inv /\ [Next]_ccVars =>
        [Ack => cc.cwnd <= cc'.cwnd /\ cc'.cwnd <= cc.cwnd + Mss]_ccVars
  <2> SUFFICES ASSUME Inv, Ack PROVE cc.cwnd <= cc'.cwnd /\ cc'.cwnd <= cc.cwnd + Mss
    OBVIOUS
  <2>1. cc'.cwnd \in cc.cwnd .. cc.cwnd + Mss
    BY AckEffect DEF Inv
  <2>2. cc.cwnd \in Nat /\ Mss \in Nat
    BY AimdRenoAssumption DEF Inv, TypeOK
  <2> QED BY <2>1, <2>2
<1> QED BY <1>1, Invariance, PTL DEF Spec, AckGrowth

\* The window is halved at most once per window of acknowledged data.
THEOREM HalvedOncePerWindowHolds == Spec => HalvedOncePerWindow
<1>1. Inv /\ [Next]_ccVars => [Drop /\ cc' # cc => credit >= owed]_ccVars
  <2> SUFFICES ASSUME Inv, Drop, cc' # cc PROVE credit >= owed
    OBVIOUS
  <2>1. cc.dropcnt = 0
    BY DEF Drop, HandleDrop
  <2>2. credit \in Nat /\ owed \in Nat
    BY AimdRenoAssumption DEF Inv, TypeOK
  <2> QED BY <2>1, <2>2 DEF Inv, DropcntOK
<1> QED BY <1>1, Invariance, PTL DEF Spec, HalvedOncePerWindow

\* The controller's record keeps its types: the window and the threshold stay in the
\* width of their integers.
THEOREM TypeCorrect == Spec => []TypeOK
  BY Invariance, PTL DEF Inv

\* dropcnt counts exactly what is left of the window that was halved.
THEOREM DropcntSafe == Spec => []DropcntOK
  BY Invariance, PTL DEF Inv

-----------------------------------------------------------------------------
(* The balance of the channels *)

\* The constants: the counters' limit and the cost of a datagram fit the counters.
LEMMA Limits ==
    /\ CounterMax \in Nat \ {0}
    /\ CostMax \in Nat
    /\ CounterMax + CostMax < CounterMod
<1> DEFINE p == UnreliableWeight * ReliableWeight
           m == IF UnreliableWeight > ReliableWeight THEN UnreliableWeight
                                                     ELSE ReliableWeight
<1>1. p \in 1 .. WeightMax /\ m \in 1 .. WeightMax
  BY PrioAssumption
<1> HIDE DEF p, m
<1>2. BurstSize * p \in Nat \ {0} /\ DataSizeMax * m \in Nat
  BY <1>1, PrioAssumption
<1>3. BurstSize * p <= BurstSizeMax * WeightMax
  <2>1. BurstSize * p <= BurstSizeMax * p
    BY <1>1, PrioAssumption
  <2>2. BurstSizeMax * p <= BurstSizeMax * WeightMax
    BY <1>1, PrioAssumption
  <2>3. BurstSizeMax * p \in Nat /\ BurstSizeMax * WeightMax \in Nat
    BY <1>1, PrioAssumption
  <2> QED BY <1>2, <2>1, <2>2, <2>3
<1>4. DataSizeMax * m <= DataSizeMax * WeightMax
  BY <1>1, PrioAssumption
<1>5. BurstSizeMax * WeightMax + DataSizeMax * WeightMax < CounterMod
  BY PrioAssumption
<1>6. BurstSizeMax * WeightMax \in Nat /\ DataSizeMax * WeightMax \in Nat
      /\ CounterMod \in Nat
  BY PrioAssumption
<1>7. CounterMax = BurstSize * p /\ CostMax = DataSizeMax * m
  BY DEF CounterMax, CostMax, p, m
<1> QED BY <1>2, <1>3, <1>4, <1>5, <1>6, <1>7

\* What a datagram costs its channel.
LEMMA CostBound ==
    ASSUME NEW c \in Channel, NEW data_size \in Sizes
    PROVE  data_size * Weight(c) \in 0 .. CostMax
<1> DEFINE m == IF UnreliableWeight > ReliableWeight THEN UnreliableWeight
                                                     ELSE ReliableWeight
           w == Weight(c)
<1>1. w \in Nat /\ m \in Nat /\ w <= m
  BY PrioAssumption DEF Weight
<1>2. data_size \in Nat /\ data_size <= DataSizeMax /\ DataSizeMax \in Nat
  BY SizesAssumption, PrioAssumption
<1>3. CostMax = DataSizeMax * m
  BY DEF CostMax
<1> HIDE DEF w, m
<1>4. data_size * w <= DataSizeMax * w /\ data_size * w \in Nat
  BY <1>1, <1>2
<1>5. DataSizeMax * w <= DataSizeMax * m /\ DataSizeMax * w \in Nat /\ DataSizeMax * m \in Nat
  BY <1>1, <1>2
<1>6. data_size * w \in 0 .. CostMax
  BY <1>3, <1>4, <1>5
<1> QED BY <1>6 DEF w

\* The counters n follow from the counters k when channel c sends something that
\* raises its counter to x.
MarkSentMeans(k, c, x, n) ==
    /\ n \in [Channel -> 0 .. CounterMax]
    /\ x <= CounterMax => n[c] = x /\ n[Other(c)] = k[Other(c)]
    /\ x > CounterMax =>
          /\ n[c] = CounterMax
          /\ n[Other(c)] = IF k[Other(c)] < x - CounterMax THEN 0
                           ELSE k[Other(c)] - (x - CounterMax)

\* mark_sent never wraps; the counter of the channel rises by the cost, and if that is
\* beyond the maximum both counters are lowered by the same amount, as far as they can.
LEMMA MarkSentEffect ==
    ASSUME NEW k \in [Channel -> 0 .. CounterMax], NEW c \in Channel,
           NEW data_size \in Sizes
    PROVE  MarkSentMeans(k, c, k[c] + data_size * Weight(c), PrioMarkSent(k, c, data_size))
<1> DEFINE cost == data_size * Weight(c)
           o    == Other(c)
           n    == PrioMarkSent(k, c, data_size)
           x    == k[c] + cost
           added == [k EXCEPT ![c] = x]
<1>1. cost \in 0 .. CostMax
  BY CostBound
<1>2. /\ k[c] \in 0 .. CounterMax /\ o \in Channel /\ o # c /\ k[o] \in 0 .. CounterMax
      /\ \A d \in Channel : d = c \/ d = o
  BY DEF Channel, Other
<1> HIDE DEF cost, o
<1>3. x \in Nat /\ x < CounterMod /\ CounterMod \in Nat
  BY <1>1, <1>2, Limits, PrioAssumption
<1>4. (k[c] + data_size * Weight(c)) % CounterMod = x
  <2>1. x % CounterMod = x
    <3> HIDE DEF x
    <3> QED BY <1>3
  <2> QED BY <2>1 DEF cost
<1>5. n = IF x > CounterMax
          THEN [d \in Channel |-> SaturatingSub(added[d], x - CounterMax)] ELSE added
  BY <1>4 DEF PrioMarkSent
<1> HIDE DEF x, n
<1>6. added \in [Channel -> Nat] /\ added[c] = x /\ added[o] = k[o]
  BY <1>2, <1>3, Limits
<1> HIDE DEF added
<1>7. /\ n \in [Channel -> 0 .. CounterMax]
      /\ x <= CounterMax => n[c] = x /\ n[o] = k[o]
      /\ x > CounterMax =>
            /\ n[c] = CounterMax
            /\ n[o] = IF k[o] < x - CounterMax THEN 0 ELSE k[o] - (x - CounterMax)
  <2>1. CASE ~(x > CounterMax)
    <3>1. n = added
      BY <1>5, <2>1
    <3>2. n[c] = x /\ n[o] = k[o] /\ x \in 0 .. CounterMax
      BY <1>3, <1>6, <2>1, <3>1, Limits
    <3>3. n \in [Channel -> 0 .. CounterMax]
      BY <1>2, <1>6, <3>1, <3>2
    <3> QED BY <2>1, <3>2, <3>3
  <2>2. CASE x > CounterMax
    <3> DEFINE e == x - CounterMax
    <3>1. n = [d \in Channel |-> SaturatingSub(added[d], e)]
      BY <1>5, <2>2
    <3>2. e \in Nat /\ x - e = CounterMax /\ ~(x < e)
      BY <1>3, <2>2, Limits
    <3>3. n[c] = CounterMax
      BY <1>6, <3>1, <3>2 DEF SaturatingSub
    <3>4. n[o] = IF k[o] < e THEN 0 ELSE k[o] - e
      BY <1>2, <1>6, <3>1 DEF SaturatingSub
    <3> HIDE DEF e
    <3>5. n[o] \in 0 .. CounterMax /\ n[c] \in 0 .. CounterMax
      BY <1>2, <3>2, <3>3, <3>4, Limits
    <3>6. n \in [Channel -> 0 .. CounterMax]
      BY <1>2, <3>1, <3>5
    <3>7. /\ ~(x <= CounterMax)
          /\ n[o] = IF k[o] < x - CounterMax THEN 0 ELSE k[o] - (x - CounterMax)
      BY <1>3, <2>2, <3>4, Limits DEF e
    <3> QED BY <2>2, <3>3, <3>6, <3>7
  <2> QED BY <2>1, <2>2
<1>8. MarkSentMeans(k, c, x, n)
  BY <1>7 DEF MarkSentMeans, o
<1> QED BY <1>8 DEF n, x, cost

\* next chooses a ready channel that is not ahead of the others.
LEMMA NextEffect ==
    ASSUME NEW k \in [Channel -> 0 .. CounterMax], NEW ready \in (SUBSET Channel) \ {{}}
    PROVE  /\ PrioNext(k, ready) \in ready
           /\ \A d \in ready : k[PrioNext(k, ready)] <= k[d]
<1>1. k[0] \in Nat /\ k[1] \in Nat /\ 0 \in Channel /\ 1 \in Channel
  BY Limits DEF Channel
<1>2. \E c \in ready : \A d \in ready : Before(k, c, d)
  <2>1. \A d \in ready : d = 0 \/ d = 1
    BY DEF Channel
  <2>2. CASE 0 \in ready /\ 1 \in ready
    <3>1. CASE k[0] <= k[1]
      BY <1>1, <2>1, <2>2, <3>1 DEF Before
    <3>2. CASE k[1] < k[0]
      BY <1>1, <2>1, <2>2, <3>2 DEF Before
    <3> QED BY <1>1, <3>1, <3>2
  <2>3. CASE 0 \in ready /\ 1 \notin ready
    BY <1>1, <2>1, <2>3 DEF Before
  <2>4. CASE 0 \notin ready
    BY <1>1, <2>1, <2>4 DEF Before
  <2> QED BY <2>2, <2>3, <2>4
<1>3. /\ PrioNext(k, ready) \in ready
      /\ \A d \in ready : Before(k, PrioNext(k, ready), d)
  BY <1>2 DEF PrioNext
<1>4. \A d \in ready : k[d] \in Nat
  BY Limits
<1> QED BY <1>3, <1>4 DEF Before

-----------------------------------------------------------------------------
(* The invariant of the balance *)

\* What binds the history of a channel c to the counters: the other channel o has sent no
\* more than a burst beyond the difference of the counters, unless it is o that waits now.
PassedOK ==
    \A c \in Channel :
        \/ passed[c] <= CounterMax + counters[Other(c)] - counters[c]
        \/ counters[Other(c)] > counters[c]

\* The lead differs from the difference of the counters by at most a burst.
LeadOK ==
    CostMax <= CounterMax =>
        /\ lead <= counters[0] - counters[1] + CounterMax
        /\ -lead <= counters[1] - counters[0] + CounterMax

BalanceInv == CountersOK /\ NoStarvation /\ Balanced /\ PassedOK /\ LeadOK

\* Send, with what it means for the channel c that sends and for the other one.
LEMMA SendInv ==
    ASSUME BalanceInv, NEW ready \in (SUBSET Channel) \ {{}}, NEW data_size \in Sizes,
           Send(ready, data_size)
    PROVE  BalanceInv'
<1> DEFINE c == PrioNext(counters, ready)
           o == Other(c)
           cost == data_size * Weight(c)
           both == ready = Channel
           a == counters[c]
           b == counters[o]
           a2 == counters'[c]
           b2 == counters'[o]
<1> USE DEF BalanceInv
<1>1. counters \in [Channel -> 0 .. CounterMax] /\ lead \in Int /\ passed \in [Channel -> Nat]
  BY DEF CountersOK
<1>2. c \in ready /\ \A d \in ready : counters[c] <= counters[d]
  BY <1>1, NextEffect
<1>3. /\ c \in Channel /\ o \in Channel /\ o # c /\ \A d \in Channel : d = c \/ d = o
      /\ Other(o) = c /\ Other(c) = o /\ ((c = 0 /\ o = 1) \/ (c = 1 /\ o = 0))
  <2> HIDE DEF c
  <2>1. c = 0 \/ c = 1
    BY <1>2 DEF Channel
  <2>2. CASE c = 0
    BY <2>2 DEF Channel, Other
  <2>3. CASE c = 1
    BY <2>3 DEF Channel, Other
  <2> QED BY <2>1, <2>2, <2>3
<1>4. /\ counters' = PrioMarkSent(counters, c, data_size)
      /\ lead' = IF both THEN lead + (IF c = 0 THEN cost ELSE -cost) ELSE 0
      /\ passed' = [d \in Channel |-> IF both /\ d # c THEN passed[d] + cost ELSE 0]
  BY DEF Send
<1>5. cost \in 0 .. CostMax
  BY <1>3, CostBound
<1>6. /\ counters' \in [Channel -> 0 .. CounterMax]
      /\ a + cost <= CounterMax => a2 = a + cost /\ b2 = b
      /\ a + cost > CounterMax =>
            /\ a2 = CounterMax
            /\ b2 = IF b < (a + cost) - CounterMax THEN 0
                   ELSE b - ((a + cost) - CounterMax)
  <2>1. MarkSentMeans(counters, c, a + cost, counters')
    BY <1>1, <1>3, <1>4, MarkSentEffect
  <2> HIDE DEF c, cost, a
  <2> QED BY <2>1 DEF MarkSentMeans
<1>7. both => a <= b
  BY <1>2, <1>3
<1>8. /\ a \in 0 .. CounterMax /\ b \in 0 .. CounterMax
      /\ a2 \in 0 .. CounterMax /\ b2 \in 0 .. CounterMax
      /\ CounterMax \in Nat /\ CounterMax > 0 /\ CostMax \in Nat
      /\ passed[c] \in Nat /\ passed[o] \in Nat
  BY <1>1, <1>3, <1>6, Limits
<1>9. /\ passed'[c] = 0
      /\ passed'[o] = IF both THEN passed[o] + cost ELSE 0
  BY <1>3, <1>4
<1>10. passed[o] <= CounterMax + a - b \/ a > b
  BY <1>3 DEF PassedOK
<1> DEFINE L  == lead
           L2 == lead'
           p  == passed[o]
           p2 == passed'[o]
<1>11. /\ c = 0 => L2 = IF both THEN L + cost ELSE 0
       /\ c = 1 => L2 = IF both THEN L - cost ELSE 0
  BY <1>1, <1>4, <1>5
<1>12. /\ c = 0 => (CostMax <= CounterMax => L <= a - b + CounterMax /\ -L <= b - a + CounterMax)
       /\ c = 1 => (CostMax <= CounterMax => L <= b - a + CounterMax /\ -L <= a - b + CounterMax)
  BY <1>3 DEF LeadOK
<1>13. CostMax <= CounterMax => L <= CounterMax + CostMax /\ -L <= CounterMax + CostMax
  BY DEF Balanced
<1>14. counters' \in [Channel -> 0 .. CounterMax] /\ c \in Channel /\ o \in Channel
  BY <1>3, <1>6
<1> HIDE DEF a, b, a2, b2, cost, c, o, L, L2, p, p2, both
<1>15. CountersOK'
  <2>1. \A d \in Channel : counters'[d] + CostMax < CounterMod
    BY <1>6, Limits, PrioAssumption
  <2>2. lead' \in Int
    BY <1>3, <1>1, <1>5, <1>11 DEF L, L2
  <2>3. passed' \in [Channel -> Nat]
    BY <1>1, <1>4, <1>5
  <2> QED BY <1>6, <2>1, <2>2, <2>3 DEF CountersOK
<1>16. p2 <= CounterMax + CostMax /\ 0 <= CounterMax + CostMax
  BY <1>5, <1>7, <1>8, <1>9, <1>10 DEF p, p2
<1>17. p2 <= CounterMax + a2 - b2 \/ a2 > b2
  BY <1>5, <1>6, <1>7, <1>8, <1>9, <1>10 DEF p, p2
<1>18. 0 <= CounterMax + b2 - a2
  BY <1>8
<1>19. NoStarvation'
  BY <1>3, <1>9, <1>16 DEF NoStarvation, p2
<1>20. PassedOK'
  BY <1>3, <1>9, <1>17, <1>18 DEF PassedOK, p2, a2, b2
<1>21. ASSUME CostMax <= CounterMax, c = 0
       PROVE  /\ L2 <= a2 - b2 + CounterMax /\ -L2 <= b2 - a2 + CounterMax
              /\ L2 <= CounterMax + CostMax /\ -L2 <= CounterMax + CostMax
  BY <1>1, <1>5, <1>6, <1>7, <1>8, <1>11, <1>12, <1>13, <1>21 DEF L
<1>22. ASSUME CostMax <= CounterMax, c = 1
       PROVE  /\ L2 <= b2 - a2 + CounterMax /\ -L2 <= a2 - b2 + CounterMax
              /\ L2 <= CounterMax + CostMax /\ -L2 <= CounterMax + CostMax
  BY <1>1, <1>5, <1>6, <1>7, <1>8, <1>11, <1>12, <1>13, <1>22 DEF L
<1>23. Balanced'
  BY <1>3, <1>21, <1>22 DEF Balanced, L2
<1>24. LeadOK'
  BY <1>3, <1>21, <1>22 DEF LeadOK, L2, a2, b2
<1> QED BY <1>15, <1>19, <1>20, <1>23, <1>24

\* The counters, the bound on waiting and the balance hold in every reachable state.
THEOREM BalanceInvariance == BalanceSpec => []BalanceInv
<1>1. BalanceInit => BalanceInv
  <2> SUFFICES ASSUME BalanceInit PROVE BalanceInv
    OBVIOUS
  <2>1. /\ \A c \in Channel : counters[c] = 0 /\ passed[c] = 0 /\ Other(c) \in Channel
        /\ lead = 0 /\ 0 \in Channel /\ 1 \in Channel
    BY DEF BalanceInit, PrioNew, Channel, Other
  <2>2. 0 \in 0 .. CounterMax /\ CostMax < CounterMod /\ CostMax \in Nat /\ CounterMax \in Nat
    BY Limits, PrioAssumption
  <2>3. counters \in [Channel -> 0 .. CounterMax] /\ passed \in [Channel -> Nat]
    BY <2>2 DEF BalanceInit, PrioNew
  <2>4. CountersOK
    BY <2>1, <2>2, <2>3 DEF CountersOK
  <2>5. NoStarvation /\ PassedOK
    BY <2>1, <2>2 DEF NoStarvation, PassedOK
  <2>6. Balanced /\ LeadOK
    BY <2>1, <2>2 DEF Balanced, LeadOK
  <2> QED BY <2>4, <2>5, <2>6 DEF BalanceInv
<1>2. BalanceInv /\ [BalanceNext]_prioVars => BalanceInv'
  <2> SUFFICES ASSUME BalanceInv, [BalanceNext]_prioVars PROVE BalanceInv'
    OBVIOUS
  <2>1. CASE BalanceNext
    BY <2>1, SendInv DEF BalanceNext
  <2>2. CASE UNCHANGED prioVars
    BY <2>2 DEF prioVars, BalanceInv, CountersOK, NoStarvation, Balanced, PassedOK, LeadOK
  <2> QED BY <2>1, <2>2
<1> QED BY <1>1, <1>2, PTL DEF BalanceSpec

\* No counter ever wraps around.
THEOREM NoOverflow == BalanceSpec => []CountersOK
  BY BalanceInvariance, PTL DEF BalanceInv

\* A ready channel waits for at most a burst and a datagram of the other one.
THEOREM NoStarvationHolds == BalanceSpec => []NoStarvation
  BY BalanceInvariance, PTL DEF BalanceInv

\* Two busy channels share the connection by their weights.
THEOREM BalancedHolds == BalanceSpec => []Balanced
  BY BalanceInvariance, PTL DEF BalanceInv

=============================================================================
