------------------------------ MODULE AimdReno ------------------------------
(***************************************************************************)
(* Congestion control (endpoint/cc.rs): the congestion window as operators *)
(* on a record, in the units of the code's Q16 fixed-point numbers.        *)
(* ssthresh is the payload of Mode::ThresholdSlowStart, 0 in other modes.  *)
(***************************************************************************)
EXTENDS Integers

CONSTANTS
    Mss,               \* mss_q16: one segment (1024 << 16)
    InitialCwndMss,    \* INITIAL_CWND_MSS (10)
    CwndMax            \* u64::MAX

\* handle_ack computes mss * mss + cwnd / 2 in 64 bits: with the mss of 1024 bytes that
\* Endpoint::new passes this leaves room for every cwnd (with 65535, which new accepts,
\* it would not).
ASSUME AimdRenoAssumption ==
    /\ Mss \in Nat \ {0} /\ InitialCwndMss \in Nat \ {0, 1} /\ CwndMax \in Nat
    /\ InitialCwndMss * Mss <= CwndMax
    /\ Mss * Mss + CwndMax \div 2 <= CwndMax

Mode == {"UnboundedSlowStart", "ThresholdSlowStart", "CongestionAvoidance"}

CwndMin == InitialCwndMss * Mss

\* Mutant: an addition that does not saturate.
PlainAdd(a, b) == a + b

SaturatingAdd(a, b) == IF a + b > CwndMax THEN CwndMax ELSE a + b

AtLeastCwndMin(x) == IF x < CwndMin THEN CwndMin ELSE x

AimdNew == [mode |-> "UnboundedSlowStart", ssthresh |-> 0, cwnd |-> CwndMin, dropcnt |-> 0]

\* mss * mss / cwnd, rounded to the nearest.
Increment(cwnd) == (Mss * Mss + cwnd \div 2) \div cwnd

HandleAck(cc) ==
    LET counted == [cc EXCEPT !.dropcnt = IF @ > Mss THEN @ - Mss ELSE 0]
        grown   == SaturatingAdd(cc.cwnd, Mss)
    IN  CASE cc.mode = "UnboundedSlowStart" -> [counted EXCEPT !.cwnd = grown]
          [] cc.mode = "ThresholdSlowStart" /\ grown < cc.ssthresh ->
                [counted EXCEPT !.cwnd = grown]
          [] cc.mode = "ThresholdSlowStart" /\ grown >= cc.ssthresh ->
                [counted EXCEPT !.cwnd = cc.ssthresh, !.ssthresh = 0,
                                !.mode = "CongestionAvoidance"]
          [] cc.mode = "CongestionAvoidance" ->
                [counted EXCEPT !.cwnd = SaturatingAdd(@, Increment(@))]

\* Mutant: the threshold may lie below the window that slow start begins with.
HandleTimeoutLowThreshold(cc) ==
    [mode |-> "ThresholdSlowStart", ssthresh |-> cc.cwnd \div 2, cwnd |-> CwndMin,
     dropcnt |-> 0]

\* Mutant: the drop counter outlives the timeout.
HandleTimeoutKeepsDropcnt(cc) ==
    [mode |-> "ThresholdSlowStart", ssthresh |-> AtLeastCwndMin(cc.cwnd \div 2),
     cwnd |-> CwndMin, dropcnt |-> cc.dropcnt]

HandleTimeout(cc) ==
    [mode |-> "ThresholdSlowStart", ssthresh |-> AtLeastCwndMin(cc.cwnd \div 2),
     cwnd |-> CwndMin, dropcnt |-> 0]

\* Mutant: every drop halves the window.
HandleDropAlways(cc) ==
    LET halved == AtLeastCwndMin(cc.cwnd \div 2) IN
    [mode |-> "CongestionAvoidance", ssthresh |-> 0, cwnd |-> halved, dropcnt |-> halved]

HandleDrop(cc) ==
    LET halved == AtLeastCwndMin(cc.cwnd \div 2) IN
    IF cc.dropcnt = 0
    THEN [mode |-> "CongestionAvoidance", ssthresh |-> 0, cwnd |-> halved,
          dropcnt |-> halved]
    ELSE cc

=============================================================================
