-------------------------------- MODULE Sums --------------------------------
(* Finite sums, as a recursive function, which a proof can be about.       *)
EXTENDS Integers, Sequences

(* f[0] + ... + f[n - 1]                                                  *)
SumBelow(f, n) ==
  LET sum[m \in Nat] == IF m = 0 THEN 0 ELSE sum[m - 1] + f[m - 1]
  IN  sum[n]

(* The first k entries of a sequence.                                      *)
SumTo(s, k) == SumBelow([e \in 0 .. Len(s) - 1 |-> s[e + 1]], k)
=============================================================================
