----------------------------- MODULE Congestion -----------------------------
(***************************************************************************)
(* AimdReno driven by an endpoint: acknowledgements, drops that SegmentTx  *)
(* infers from them, and timeouts, in any order.                           *)
(***************************************************************************)
EXTENDS AimdReno

VARIABLES
    cc,       \* cc_state
    owed,     \* history: the window after the last halving, 0 if none since a timeout
    credit    \* history: what was acknowledged since that halving, Mss for each ack

ccVars == <<cc, credit, owed>>

Init == cc = AimdNew /\ credit = 0 /\ owed = 0

\* handle_stream_frame reports every acknowledgement.  The history stops counting once
\* it has reached the window.
Ack == /\ cc' = HandleAck(cc)
       /\ credit' = IF credit < owed THEN credit + Mss ELSE credit
       /\ UNCHANGED owed

\* handle_stream_frame reports a drop.
Drop == /\ cc' = HandleDrop(cc)
        /\ IF cc' # cc THEN credit' = 0 /\ owed' = cc'.cwnd
                       ELSE UNCHANGED <<credit, owed>>

\* handle_rto_timer.
Timeout == /\ cc' = HandleTimeout(cc)
           /\ credit' = 0 /\ owed' = 0

Next == Ack \/ Drop \/ Timeout

Spec == Init /\ [][Next]_ccVars

-----------------------------------------------------------------------------
(* Properties *)

\* Types; the history never runs ahead.
TypeOK == /\ cc \in [mode : Mode, ssthresh : 0 .. CwndMax, cwnd : 0 .. CwndMax,
                     dropcnt : 0 .. CwndMax]
          /\ credit \in Nat /\ owed \in 0 .. CwndMax

\* The window never falls below InitialCwndMss segments, whatever is dropped and however
\* often the timer fires: there is always room to send, and the division in handle_ack
\* is not by zero.  Slow start never begins above its threshold.
CwndOK == /\ CwndMin <= cc.cwnd
          /\ cc.mode = "ThresholdSlowStart" => cc.cwnd <= cc.ssthresh

\* The drop counter is what is missing of a whole window acknowledged since the window
\* was halved, and it never exceeds the window.
DropcntOK == /\ cc.dropcnt <= cc.cwnd
             /\ cc.dropcnt = IF credit < owed THEN owed - credit ELSE 0

\* An acknowledgement alone never shrinks the window and opens it by at most a segment.
AckGrowth == [][Ack => cc.cwnd <= cc'.cwnd /\ cc'.cwnd <= cc.cwnd + Mss]_ccVars

\* The window is halved at most once per window of acknowledged data: between two
\* halvings (with no timeout) as many segments are acknowledged as the window held.
HalvedOncePerWindow == [][Drop /\ cc' # cc => credit >= owed]_ccVars

=============================================================================
