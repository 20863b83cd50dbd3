------------------------ MODULE MCFrequencyLibrary ------------------------
(* FrequencyLibrary on small lists.  Frequencies and spans are only ever   *)
(* compared, so permuting either changes no behaviour.                     *)
EXTENDS FrequencyLibrary, TLC

\* Picked is SelectSeq, on the sequences of up to four frequencies.
ASSUME PickedAssumption ==
    \A kept \in SUBSET Freqs : \A s \in UNION {[1 .. n -> Freqs] : n \in 0 .. 4} :
        Picked(s, {i \in DOMAIN s : s[i] \in kept}) = SelectSeq(s, LAMBDA f : f \in kept)

Symmetry == Permutations(Freqs) \cup Permutations(Spans)

=============================================================================
