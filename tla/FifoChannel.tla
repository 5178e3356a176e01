----------------------------- MODULE FifoChannel -----------------------------
(***************************************************************************)
(* What a reliable channel promises (SendMode::Reliable): whatever is      *)
(* handed to the sender comes out at the receiver once, unchanged and in   *)
(* the order in which it was handed over.                                  *)
(***************************************************************************)
EXTENDS Naturals, Sequences

CONSTANT Item

VARIABLES
    sent,       \* everything handed to the sender so far
    delivered   \* everything handed out by the receiver so far

Init == sent = <<>> /\ delivered = <<>>

Send == /\ sent' \in Seq(Item)
        /\ Len(sent) <= Len(sent')
        /\ \A i \in 1 .. Len(sent) : sent'[i] = sent[i]
        /\ UNCHANGED delivered

\* One or several of the next items, in one step.
Deliver == /\ \E n \in Len(delivered) + 1 .. Len(sent) : delivered' = SubSeq(sent, 1, n)
           /\ UNCHANGED sent

Next == Send \/ Deliver

Spec == Init /\ [][Next]_<<sent, delivered>>

=============================================================================
