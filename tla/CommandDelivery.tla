-------------------------- MODULE CommandDelivery --------------------------
(***************************************************************************)
(* What WaveRider promises of a native button press, without the mailbox:  *)
(* presses are numbered in the order the user makes them, each runs on the *)
(* CM0 at most once, and they run in the order of the presses (a press may *)
(* be superseded by a later one and never run).  The promise holds until   *)
(* the mailbox's memory of what was acknowledged is lost; from then on     *)
(* any press made so far may run again.                                    *)
(***************************************************************************)
EXTENDS Naturals

CONSTANT MaxPress    \* presses made in one history, a natural number

VARIABLES
    issued,     \* how many presses the user has made
    ran,        \* ran[p]: how often press p ran (2 stands for "twice or more")
    trusted     \* the mailbox still remembers what was acknowledged

vars == <<issued, ran, trusted>>

\* Press 0 stands for the last command of an earlier life of the mailbox.
Press == 0 .. MaxPress

Init ==
    /\ issued = 0
    /\ ran = [p \in Press |-> IF p = 0 THEN 1 ELSE 0]
    /\ trusted = TRUE

Issue ==
    /\ issued < MaxPress
    /\ issued' = issued + 1
    /\ UNCHANGED <<ran, trusted>>

\* A press runs for the first time, after every older press that ever runs.
Run(p) ==
    /\ p <= issued
    /\ \A q \in Press : q >= p => ran[q] = 0
    /\ ran' = [ran EXCEPT ![p] = 1]
    /\ UNCHANGED <<issued, trusted>>

LoseMemory ==
    /\ trusted' = FALSE
    /\ UNCHANGED <<issued, ran>>

RunAgain(p) ==
    /\ ~trusted
    /\ p <= issued
    /\ \E n \in 1 .. 2 : ran' = [ran EXCEPT ![p] = n]
    /\ UNCHANGED <<issued, trusted>>

Next ==
    \/ Issue
    \/ LoseMemory
    \/ \E p \in Press : Run(p) \/ RunAgain(p)

Spec == Init /\ [][Next]_vars

=============================================================================
