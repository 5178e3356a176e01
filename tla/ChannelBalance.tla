--------------------------- MODULE ChannelBalance ---------------------------
(***************************************************************************)
(* Prio as FragmentTxBuffers::flush uses it: whatever channels have        *)
(* something to send, one of them is chosen and sends a datagram.          *)
(***************************************************************************)
EXTENDS Prio

CONSTANT Sizes    \* sizes of datagrams

ASSUME SizesAssumption == Sizes \subseteq 0 .. DataSizeMax

VARIABLES
    counters,   \* the counters of Prio
    lead,       \* history: weighted bytes of channel 0 less those of channel 1, since both
                \* became ready
    passed      \* history: for each channel, the weighted bytes that the other one sent
                \* while this one was ready and waited

prioVars == <<counters, lead, passed>>

BalanceInit == /\ counters = PrioNew
        /\ lead = 0
        /\ passed = [c \in Channel |-> 0]

Send(ready, data_size) ==
    LET c == PrioNext(counters, ready)
        cost == data_size * Weight(c)
        both == ready = Channel
    IN  /\ counters' = PrioMarkSent(counters, c, data_size)
        /\ lead' = IF both THEN lead + (IF c = 0 THEN cost ELSE -cost) ELSE 0
        /\ passed' = [d \in Channel |-> IF both /\ d # c THEN passed[d] + cost ELSE 0]

BalanceNext == \E ready \in (SUBSET Channel) \ {{}}, data_size \in Sizes : Send(ready, data_size)

BalanceSpec == BalanceInit /\ [][BalanceNext]_prioVars

-----------------------------------------------------------------------------
(* Properties *)

\* The most a datagram costs.
CostMax == DataSizeMax * (IF UnreliableWeight > ReliableWeight THEN UnreliableWeight
                                                               ELSE ReliableWeight)

\* Types; the counters stay within the burst, so that the wrapping addition never wraps.
CountersOK == /\ counters \in [Channel -> 0 .. CounterMax]
          /\ \A c \in Channel : counters[c] + CostMax < CounterMod
          /\ lead \in Int
          /\ passed \in [Channel -> Nat]

\* A channel that has something to send waits for at most one burst of the other one and
\* one datagram, however long the other was idle before and whatever the burst size.
NoStarvation == \A c \in Channel : passed[c] <= CounterMax + CostMax

\* If no datagram costs more than a burst, then the traffic of two busy channels keeps to
\* their weights: over any period the difference is at most a burst and a datagram.
Balanced == CostMax <= CounterMax => /\ lead <= CounterMax + CostMax
                                     /\ -lead <= CounterMax + CostMax

=============================================================================
