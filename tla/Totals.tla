------------------------------- MODULE Totals -------------------------------
(* Sums, and parts of sequences, that need no recursion. *)
EXTENDS Integers, Sequences, FiniteSets

\* The sum of n[x] over the x in S, as the number of the things counted.  A negative
\* number counts as zero.
Total(n, S) == Cardinality(UNION {{x} \X (1..n[x]) : x \in S})

\* The position that has k - 1 others of P before it.
Nth(P, k) == CHOOSE i \in P : Cardinality({j \in P : j <= i}) = k

\* The elements of s at the positions P, in their order.
Keep(s, P) == [k \in 1..Cardinality(P) |-> s[Nth(P, k)]]
=============================================================================
