----------------------------- MODULE TimerQueue -----------------------------
(***************************************************************************)
(* The server's queue of timers (timer_queue.rs) as operators on the       *)
(* sequence of its entries.  An entry is a weak reference: live is the set *)
(* of those that can be upgraded, expired that of those whose test returns *)
(* true.  An entry occurs once, so testing one does not change another.    *)
(***************************************************************************)
EXTENDS Integers, Sequences

AddTimer(queue, timer) == Append(queue, timer)

\* How many entries a call of test looks at.
MaxIters(queue, limit) == IF limit < Len(queue) THEN limit ELSE Len(queue)

Tested(queue, limit) == SubSeq(queue, 1, MaxIters(queue, limit))

Untested(queue, limit) == SubSeq(queue, MaxIters(queue, limit) + 1, Len(queue))

\* The entries of a queue that are in a set, in the order of the queue.
Kept(queue, set) ==
    LET kept[n \in 0 .. Len(queue)] ==
            IF n = 0 THEN <<>>
            ELSE IF queue[n] \in set THEN Append(kept[n - 1], queue[n]) ELSE kept[n - 1]
    IN  kept[Len(queue)]

\* The timers that test signals through the callback, in the order of the queue.
Signalled(queue, limit, live, expired) ==
    Kept(Tested(queue, limit), live \cap expired)

\* Mutant: an entry is put back where it was taken from.
RotatedInPlace(queue, limit, live) ==
    Kept(Tested(queue, limit), live) \o Untested(queue, limit)

\* The queue after test: what is live goes to the back, the rest falls off.
Rotated(queue, limit, live) ==
    Untested(queue, limit) \o Kept(Tested(queue, limit), live)

=============================================================================
