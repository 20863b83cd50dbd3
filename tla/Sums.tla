-------------------------------- MODULE Sums --------------------------------
(***************************************************************************)
(* The sum of a function's values, which are naturals, as the number of    *)
(* the pairs <<i, 1>> .. <<i, w[i]>>.  It says the same as a fold with +,  *)
(* but without recursion, so that it can be reasoned about.                *)
(***************************************************************************)
EXTENDS Naturals, FiniteSets

Units(w) == UNION {{<<i, k>> : k \in 1 .. w[i]} : i \in DOMAIN w}

Sum(w) == Cardinality(Units(w))

=============================================================================
