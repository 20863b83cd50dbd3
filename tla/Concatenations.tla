---------------------------- MODULE Concatenations ----------------------------
(***************************************************************************)
(* Sequences one after another, by where each begins, which is what a      *)
(* Python loop that extends a list computes.  It says the same as a fold   *)
(* with \o, but without recursion, so that it can be reasoned about: see   *)
(* OperatorLemmas.                                                         *)
(***************************************************************************)
EXTENDS Sums, Sequences

\* How many entries the first k of the sequences ss have.
Offset(ss, k) == Sum([j \in 1 .. k |-> Len(ss[j])])

Concatenated(ss) ==
    [p \in 1 .. Offset(ss, Len(ss)) |->
        LET k == CHOOSE k \in 1 .. Len(ss) : Offset(ss, k - 1) < p /\ p <= Offset(ss, k)
        IN  ss[k][p - Offset(ss, k - 1)]]

=============================================================================
