--------------------------- MODULE MCMorseDecoder ---------------------------
(* Five texts keyed at several speeds, as the windows they are heard in.    *)
EXTENDS MorseDecoder

E == <<1>>
T == <<3>>
A == <<1, 3>>
N == <<3, 1>>
R == <<1, 3, 1>>
Five == <<1, 1, 1, 1, 1>>

\* The runs of a keyed text, a pause of Pause units between words
Pause == 7
KeyChar(c) == FlattenSeq([i \in DOMAIN c |-> <<<<TRUE, c[i]>>, <<FALSE, IF i = Len(c) THEN 3 ELSE 1>>>>])
KeyWord(w) == Front(FlattenSeq([i \in DOMAIN w |-> KeyChar(w[i])]))
KeyText(t) == FlattenSeq([i \in DOMAIN t |-> Append(KeyWord(t[i]), <<FALSE, Pause>>)])

Heard(t, unit) ==
    LET runs == KeyText(t)
        ends == [i \in 0 .. Len(runs) |-> unit * Total([j \in 1 .. i |-> runs[j][2]])]
    IN  [w \in 1 .. 1 + ends[Len(runs) - 1] \div Window |->
            \E i \in DOMAIN runs : /\ runs[i][1]
                /\ ends[i - 1] <= w * Window - 100 /\ w * Window - 100 < ends[i]]

Sending(t, unit, misheard) ==
    [text |-> t, windows |-> Heard(t, unit), noise |-> misheard]

\* From 30 to 8 words per minute.  At 8 the pause is longer than the timeout;
\* at 12 a window may be heard wrongly.
MCSendings ==
    {Sending(<<<<N, E>>, <<A, R>>>>, u, 0) : u \in {400, 923}} \cup
    {Sending(<<<<A, Five>>, <<N, E>>>>, 600, 0),
     Sending(<<<<N, E, A, R>>, <<T, E, N, T>>>>, 1500, 0),
     Sending(<<<<A, E, T, E>>>>, 1000, 1)}

=============================================================================
