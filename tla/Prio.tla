-------------------------------- MODULE Prio --------------------------------
(***************************************************************************)
(* The balance between the unreliable channel 0 and the reliable channel 1 *)
(* (endpoint/prio.rs): each channel has a counter of what it sent, times   *)
(* the weight of the other one, and the lower counter goes first.  The     *)
(* code has four counters; the endpoint gives channels 2 and 3 weight 1    *)
(* and never uses them, so they stay 0 and change no product.              *)
(***************************************************************************)
EXTENDS Integers

CONSTANTS
    UnreliableWeight,   \* ChannelBalanceConfig's fields
    ReliableWeight,
    BurstSize,
    WeightMax,          \* WEIGHT_MAX (256)
    DataSizeMax,        \* DATA_SIZE_MAX (65535)
    BurstSizeMax,       \* BURST_SIZE_MAX (65535 * 255)
    CounterMod          \* counters are integers modulo this (2^32)

\* The assertions of Config::new, and that the limits suit the width of the counters.
ASSUME PrioAssumption ==
    /\ UnreliableWeight \in 1 .. WeightMax /\ ReliableWeight \in 1 .. WeightMax
    /\ UnreliableWeight * ReliableWeight <= WeightMax
    /\ BurstSize \in 1 .. BurstSizeMax
    /\ WeightMax \in Nat /\ DataSizeMax \in Nat /\ BurstSizeMax \in Nat /\ CounterMod \in Nat
    /\ (BurstSizeMax + DataSizeMax) * WeightMax < CounterMod

Channel == 0 .. 1

Other(c) == 1 - c

\* transformed_weights: what a byte costs the channel.
Weight(c) == IF c = 0 THEN ReliableWeight ELSE UnreliableWeight

CounterMax == BurstSize * (UnreliableWeight * ReliableWeight)

PrioNew == [c \in Channel |-> 0]

\* Whether next prefers a channel to another: a lower counter, or the lower index.
Before(counters, c, d) ==
    counters[c] < counters[d] \/ (counters[c] = counters[d] /\ c <= d)

\* Mutant: the comparison is the wrong way round.
PrioNextHighest(counters, ready) ==
    CHOOSE c \in ready : \A d \in ready : Before(counters, d, c)

\* next, when some channel is ready.
PrioNext(counters, ready) == CHOOSE c \in ready : \A d \in ready : Before(counters, c, d)

SaturatingSub(a, b) == IF a < b THEN 0 ELSE a - b

\* Mutant: the counter of the channel that has sent is capped by itself.
PrioMarkSentCaps(counters, c, data_size) ==
    LET counter == (counters[c] + data_size * Weight(c)) % CounterMod
    IN  [counters EXCEPT ![c] = IF counter > CounterMax THEN CounterMax ELSE counter]

\* Mutant: no excess is taken away.
PrioMarkSentNoLimit(counters, c, data_size) ==
    [counters EXCEPT ![c] = (@ + data_size * Weight(c)) % CounterMod]

\* mark_sent: what exceeds the maximum is taken away from all channels.
PrioMarkSent(counters, c, data_size) ==
    LET counter == (counters[c] + data_size * Weight(c)) % CounterMod
        added   == [counters EXCEPT ![c] = counter]
    IN  IF counter > CounterMax
        THEN [d \in Channel |-> SaturatingSub(added[d], counter - CounterMax)]
        ELSE added

=============================================================================
