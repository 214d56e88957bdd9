----------------------------- MODULE PrefixSums -----------------------------
(***************************************************************************)
(* Running totals over a roster.  PBEAR.sol accumulates support and        *)
(* deductions with loops of the form `cum += x[i]`; a loop over a roster   *)
(* of n entries is the function below, its result the value at n.          *)
(* The recursion is a recursive function, not a RECURSIVE operator, so     *)
(* that PrefixSumProofs can reason about it.                               *)
(***************************************************************************)
EXTENDS Integers

\* The running total of f over 1..n: PrefixSum(f, n)[i] = f[1] + ... + f[i].
PrefixSum(f, n) ==
  LET cum[i \in 0..n] == IF i = 0 THEN 0 ELSE cum[i - 1] + f[i]
  IN  cum

\* The whole total f[1] + ... + f[n].
Sum(f, n) == PrefixSum(f, n)[n]
=============================================================================
