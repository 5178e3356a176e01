----------------------------- MODULE WrappingIds -----------------------------
(***************************************************************************)
(* The u32 sequence numbers of redpine: segment ids and fragment ids are   *)
(* unsigned integers that wrap around, compared by their distance from the *)
(* base of a window (struct Window).  IdMod is 2^32 in the code; the runs  *)
(* use a few values more than the window so that ids wrap within a run.    *)
(***************************************************************************)
EXTENDS Integers

CONSTANT IdMod

ASSUME IdModAssumption == IdMod \in Nat /\ IdMod > 1

Id == 0 .. IdMod - 1

\* u32::wrapping_add for n < IdMod, and u32::wrapping_sub.
WrappingAdd(a, n) == IF a + n >= IdMod THEN a + n - IdMod ELSE a + n

WrappingSub(a, b) == IF a >= b THEN a - b ELSE a - b + IdMod

\* Window::contains.
Contains(base, size, id) == WrappingSub(id, base) < size

\* The id is d ahead of (behind, if d < 0) another one; the properties say so of the
\* ids that are in flight.
Ahead(id, other, d) == id - other \in {d - IdMod, d, d + IdMod}

==============================================================================
