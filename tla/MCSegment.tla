------------------------------ MODULE MCSegment ------------------------------
(***************************************************************************)
(* SegmentLink for TLC: both nonces and two sizes; the size goes with the  *)
(* nonce, so that both vary and the state space stays small.               *)
(***************************************************************************)
EXTENDS SegmentLink

MCKinds == {[nonce |-> FALSE, size |-> 1], [nonce |-> TRUE, size |-> 3]}

=============================================================================
