----------------------------- MODULE MCRowFeed -----------------------------
(* RowFeed with a message on each of two frequencies, of the same length,  *)
(* the case in which the chunks of different messages can be confused.     *)
EXTENDS RowFeed

CONSTANTS f1, f2, t1, t2

OnePerFrequency == {[freq |-> f1, text |-> t1], [freq |-> f2, text |-> t2]}
OneMessage == {[freq |-> f1, text |-> t1]}
SameLength == [t \in Texts |-> 2]

\* Concatenated is a fold with \o, on up to three sequences of up to two entries.
ASSUME ConcatenatedAssumption ==
    LET few == {<<>>, <<t1>>, <<t1, t2>>, <<t2, t2>>}
    IN  \A ss \in UNION {[1 .. n -> few] : n \in 0 .. 3} :
            Concatenated(ss) = FoldLeft(LAMBDA s, t : s \o t, <<>>, ss)

=============================================================================
