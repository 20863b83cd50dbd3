---------------------------- MODULE Subsequences ----------------------------
(***************************************************************************)
(* A subsequence by the positions it keeps, which is what a Python         *)
(* comprehension with a condition computes.  It says the same as           *)
(* SelectSeq, but without recursion, so that it can be reasoned about: see *)
(* OperatorLemmas.                                                         *)
(***************************************************************************)
EXTENDS Naturals, FiniteSets

\* The rank of position i among the positions I, and the position of a rank.
Rank(I, i) == Cardinality({j \in I : j <= i})
Nth(I, k) == CHOOSE i \in I : Rank(I, i) = k

\* The entries of s at the positions I, in their order.
Picked(s, I) == [k \in 1 .. Cardinality(I) |-> s[Nth(I, k)]]

=============================================================================
