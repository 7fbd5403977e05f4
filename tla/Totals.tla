------------------------------- MODULE Totals -------------------------------
(* The sum of a sequence of numbers *)
EXTENDS Integers, Sequences

SumOf(f) ==
    LET upto[k \in 0..Len(f)] == IF k = 0 THEN 0 ELSE upto[k - 1] + f[k] IN upto[Len(f)]
=============================================================================
