--------------------------- MODULE MCMessageStore ---------------------------
(***************************************************************************)
(* One message, 123456: heard right, with a letter erased, shifted by a    *)
(* letter heard before it, and with the end wrong.  Two receptions with    *)
(* the erasure and the shifted one make 123456 of 123?56 and 912345.  The  *)
(* text with the wrong end is not similar to that with the erasure.  The   *)
(* service starts with no messages or with those that two or three         *)
(* receptions on each frequency left.                                      *)
(***************************************************************************)
EXTENDS MessageStore
CONSTANTS f1, f2

MCFreqs == {f1, f2}
Right   == <<1, 2, 3, 4, 5, 6>>
Holed   == <<1, 2, 3, 0, 5, 6>>
Shifted == <<9, 1, 2, 3, 4, 5>>
Wrong   == <<1, 2, 3, 4, 7, 8>>
MCTexts == {Right, Holed, Shifted, Wrong}
MCDecodes == {<<Right, TRUE>>, <<Holed, TRUE>>, <<Shifted, FALSE>>, <<Wrong, FALSE>>}
Heard(f, n) ==
    [text |-> Right, freq |-> f, first |-> 0, last |-> 0,
     counts |-> [t \in MCTexts |-> IF t = Right THEN n ELSE 0],
     evidence |-> n, sure |-> TRUE, verified |-> n >= 3]
MCFiles ==
    {<<>>} \cup UNION {{<<Heard(f1, n), Heard(f2, n)>>, <<Heard(f2, n), Heard(f1, n)>>}
                          : n \in {2, 3}}

\* Sum is a fold with +, on the functions of up to three small values.
ASSUME SumAssumption ==
    \A n \in 0 .. 3 : \A w \in [1 .. n -> 0 .. 3] :
        Sum(w) = FoldFunction(LAMBDA a, b : a + b, 0, w)

\* What difflib and store.py make of these texts.
ASSUME AlignmentAssumption ==
    /\ Aligned(Holed, Shifted) = {<<1, 2>>, <<2, 3>>, <<3, 4>>, <<4, 5>>, <<5, 6>>}
    /\ Consensus(Plus(Plus(One(Holed), One(Holed)), One(Shifted))) = {Right}
    /\ {<<s, t>> \in MCTexts \X MCTexts : ~Similar(s, t)} = {<<Holed, Wrong>>, <<Wrong, Holed>>}

Symmetry == Permutations(MCFreqs)

=============================================================================
