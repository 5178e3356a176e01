-------------------------------- MODULE Sums --------------------------------
(***************************************************************************)
(* The sum of the first n values of a function on 1, 2, ...: what a loop   *)
(* that adds or subtracts them one by one computes.                        *)
(***************************************************************************)
EXTENDS Integers

SumTo(f, n) == LET sum[k \in 0 .. n] == IF k = 0 THEN 0 ELSE sum[k - 1] + f[k]
               IN  sum[n]

=============================================================================
