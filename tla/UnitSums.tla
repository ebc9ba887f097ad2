------------------------------- MODULE UnitSums -------------------------------
(***************************************************************************)
(* Sums of XQL units over queries 1..n, as cost_guard adds up the          *)
(* in-flight reservations.  The sum is a recursive function rather than a  *)
(* RECURSIVE operator so that modules with proofs can use it; its laws are *)
(* proved in CostGuardProofs.                                              *)
(***************************************************************************)
EXTENDS Integers

\* PartialSums(w, n)[i] = w[1] + ... + w[i]
PartialSums(w, n) ==
    LET sum[i \in 0..n] == IF i = 0 THEN 0 ELSE sum[i - 1] + w[i]
    IN  sum

Total(w, n) == PartialSums(w, n)[n]

\* The units w[i] of the queries i of S.
Over(w, S, n) == Total([i \in 1..n |-> IF i \in S THEN w[i] ELSE 0], n)

\* A difference of units that does not go below zero: max(a - b, 0.0).
Minus(a, b) == IF a >= b THEN a - b ELSE 0
===============================================================================
