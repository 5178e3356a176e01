-------------------------------- MODULE Bits --------------------------------
(***************************************************************************)
(* Bit fields of a fixed width as sets: the field x is the set of the      *)
(* positions of its one bits, position 0 being the least significant.  OR  *)
(* is union and AND is intersection.                                       *)
(***************************************************************************)
EXTENDS Naturals, FiniteSets

\* All bits of a field of the given width (u32::MAX).
AllOnes(width) == 0 .. width - 1

\* x << n in a field of the given width; also right for n >= width.
Shl(x, n, width) == {b + n : b \in {c \in x : c + n < width}}

\* x >> n.
Shr(x, n) == {b - n : b \in {c \in x : c >= n}}

\* x & ((1 << n) - 1).
Low(x, n) == {b \in x : b < n}

\* The exclusive or of all bits.
Parity(x) == Cardinality(x) % 2 = 1

\* u32::leading_ones.
LeadingOnes(x, width) ==
    IF x = AllOnes(width) THEN width
    ELSE width - 1 - (CHOOSE z \in AllOnes(width) \ x :
                         \A y \in AllOnes(width) \ x : y <= z)

=============================================================================
