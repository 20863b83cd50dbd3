------------------------ MODULE CommandChannelProofs ------------------------
(***************************************************************************)
(* Proofs about CommandChannel, for every SeqMod, MaxPress < SeqMod, set   *)
(* of command kinds and set of faults.                                     *)
(***************************************************************************)
EXTENDS CommandChannel, TLAPS

Remembers == "forgot" \notin events

Busy == cPc \in {"ack", "fetch", "run"}

\* Presses only grow along Display, wr_cmd, CM0; what ran was taken; a pending
\* press carries the sequence last issued.
OrderInv ==
    /\ dPending.press <= pressed
    /\ wrCmd.press <= pressed
    /\ cCmd.press <= wrCmd.press \/ ~Remembers
    /\ cCmd.press <= pressed
    /\ \A p \in taken : p <= pressed /\ (p <= wrCmd.press \/ ~Remembers)
    /\ \A p \in Press : ran[p] > 0 => p \in taken
    /\ Busy => cCmd.press \in taken
    /\ ~dOn => ~Pending
    /\ Pending => dPending.seq = dSeq

\* While the acknowledged sequence is remembered: copies of one press are the
\* same word, and the CM0 is never behind anything it already took.
CopyInv ==
    Remembers =>
        /\ Pending => wrCmd.press <= dPending.press
        /\ Pending /\ wrCmd.press = dPending.press => wrCmd = dPending
        /\ Busy /\ wrCmd.press = cCmd.press => wrCmd = cCmd
        /\ Busy => \A p \in taken : p <= cCmd.press

\* What the acknowledged sequence says: a press in wr_cmd that ran is the one
\* acknowledged, and the CM0 resumes from there.
AckInv ==
    Remembers =>
        /\ cPc # "down" => mail = "ready"
        /\ ran[wrCmd.press] > 0 => wrAck = wrCmd.seq
        /\ cPc = "idle" => cLast = wrAck
        /\ cPc \in {"fetch", "run"} => wrAck = cCmd.seq
        /\ Busy => cLast = cCmd.seq /\ ran[cCmd.press] = 0
        /\ \A p \in Press : ran[p] < 2

IInv == TypeOK /\ OrderInv /\ CopyInv /\ AckInv

\* How far sequence b is ahead of a on the ring of 16-bit sequences.
Behind(a, b) == IF b >= a THEN b - a ELSE b - a + SeqMod

\* Nothing rewound the numbering: the acknowledged sequence trails wr_cmd, which
\* trails the Display, by at most the number of presses, so equal means the same.
LapInv ==
    events = {} =>
        /\ Behind(wrAck, wrCmd.seq) <= pressed
        /\ dOn => /\ Behind(wrAck, dSeq) <= pressed
                  /\ Behind(wrAck, wrCmd.seq) <= Behind(wrAck, dSeq)
        /\ cPc = "ack" => Behind(wrAck, cCmd.seq) <= Behind(wrAck, wrCmd.seq)
        /\ dOn /\ Pending /\ wrCmd.seq = dSeq => wrCmd.press = dPending.press
        /\ cPc = "ack" /\ Pending /\ cCmd.seq = dSeq => cCmd.press = dPending.press
        /\ wrAck # 0 => wrCmd.seq # 0 /\ (dOn => dSeq # 0)
        /\ cPc = "ack" => cCmd.seq # 0
        /\ Pending /\ wrAck = dSeq => dPending.press \in taken
        /\ confirmed \subseteq taken

\* The value in wr_state is the view's, or that of the newest press that may
\* still be read for it.
ValueInv ==
    /\ dStage # "none" => wrState.kind = "view" \/ wrState.press = pressed + 1
    /\ wrState.press <= pressed + 1
    /\ wrState.kind # "view" =>
        \A c \in {dPending, wrCmd} \cup (IF cPc \in {"ack", "fetch"} THEN {cCmd} ELSE {}) :
            HasPayload(c.kind) => c.press <= wrState.press
    /\ PayloadNeverStale

-----------------------------------------------------------------------------

USE DEF display, mailbox, cm0, history, vars, Pending

\* Membership in the record types of the mailbox and of cm0, field by field.
LEMMA Records ==
    /\ NoCommand \in Command
    /\ NoCommand.seq = 0 /\ NoCommand.press = 0 /\ NoCommand.kind = "quiet"
    /\ ViewState \in Value
    /\ ViewState.press = 0 /\ ViewState.kind = "view"
    /\ \A c \in Command : c.seq \in Seq16 /\ c.press \in Press /\ c.kind \in AllKinds
    /\ \A v \in Value : v.press \in Press /\ v.kind \in {"view", "threshold", "add"}
    /\ \A s \in Seq16, p \in Press, k \in AllKinds :
           [seq |-> s, press |-> p, kind |-> k] \in Command
    /\ \A p \in Press, k \in {"view", "threshold", "add"} :
           [press |-> p, kind |-> k] \in Value
    /\ \A s \in Seq16 : [NoCommand EXCEPT !.seq = s] \in Command
BY ChannelAssumption DEF NoCommand, Command, Seq16, Press, AllKinds, ViewState, Value

\* Where the counters of the channel live.
LEMMA Ranges ==
    /\ 0 \in Press /\ 0 \in Seq16
    /\ Press \subseteq Nat /\ Seq16 \subseteq Nat
    /\ \A n \in Press : n < MaxPress => n + 1 \in Press
    /\ \A s \in Seq16 : SeqNext(s) \in Seq16 /\ SeqNext(s) # 0
    /\ \A k \in Kinds : k \in AllKinds
BY ChannelAssumption DEF Press, Seq16, SeqNext

\* Every action keeps every variable in its type.
LEMMA TypeStep == TypeOK /\ [Next]_vars => TypeOK'
<1> SUFFICES ASSUME TypeOK, [Next]_vars PROVE TypeOK'
  OBVIOUS
<1> USE Records, Ranges DEF TypeOK
<1>1. ASSUME NEW k \in Kinds, StagePayload(k) PROVE TypeOK'
  <2>1. k \in {"view", "threshold", "add"}
    BY <1>1 DEF StagePayload, HasPayload
  <2> QED
    BY <1>1, <2>1 DEF StagePayload
<1>2. ASSUME NEW k \in Kinds, SendCommand(k) PROVE TypeOK'
  <2>1. dSeq' \in Seq16 /\ pressed' \in Press
    BY <1>2 DEF SendCommand
  <2>2. dPending' \in Command
    BY <1>2, <2>1 DEF SendCommand
  <2> QED
    BY <1>2, <2>1, <2>2 DEF SendCommand, SetCmd
<1>3. CASE Confirm
  BY <1>3 DEF Confirm
<1>4. CASE Retry
  BY <1>4 DEF Retry, SetCmd
<1>5. CASE DisplayStops
  BY <1>5 DEF DisplayStops
<1>6. CASE DisplayStarts
  BY <1>6 DEF DisplayStarts, Event
<1>7. CASE CreateSignals
  BY <1>7 DEF CreateSignals
<1>8. CASE ConnectWarm
  BY <1>8 DEF ConnectWarm, Event
<1>9. CASE ConnectCold
  BY <1>9 DEF ConnectCold, Event
<1>10. CASE Poll
  BY <1>10 DEF Poll
<1>11. CASE Ack
  BY <1>11 DEF Ack, AfterAck
<1>12. CASE AckFails
  BY <1>12 DEF AckFails
<1>13. CASE FetchPayload
  BY <1>13 DEF FetchPayload
<1>14. CASE Run
  BY <1>14 DEF Run, Bump
<1>15. CASE Crash
  BY <1>15 DEF Crash
<1>16. CASE LinkLost
  BY <1>16 DEF LinkLost
<1>17. CASE MainReset
  BY <1>17 DEF MainReset, Event
<1>18. CASE UNCHANGED vars
  BY <1>18
<1> QED
  BY <1>1, <1>2, <1>3, <1>4, <1>5, <1>6, <1>7, <1>8, <1>9, <1>10, <1>11, <1>12, <1>13,
     <1>14, <1>15, <1>16, <1>17, <1>18 DEF Next, DisplayNext, Cm0Next

\* No sequence, press, payload or phase ever leaves its range: in particular
\* the 16-bit sequence wraps to 1 and never to 0 (send_command).
THEOREM TypeCorrect == Spec => []TypeOK
<1>1. Init => TypeOK
  BY Records, Ranges DEF Init, TypeOK, Press
<1> QED
  BY <1>1, TypeStep, PTL DEF Spec

\* Sequences, presses and pending retries keep their order in every action.
LEMMA OrderStep == IInv /\ [Next]_vars => OrderInv'
<1> SUFFICES ASSUME IInv, [Next]_vars PROVE OrderInv'
  OBVIOUS
<1>0. TypeOK'
  BY TypeStep DEF IInv
<1> USE <1>0, Records, Ranges DEF IInv, TypeOK, OrderInv, Remembers, Busy
<1>1. ASSUME NEW k \in Kinds, StagePayload(k) PROVE OrderInv'
  BY <1>1 DEF StagePayload
<1>2. ASSUME NEW k \in Kinds, SendCommand(k) PROVE OrderInv'
  BY <1>2 DEF SendCommand, SetCmd
<1>3. CASE Confirm
  BY <1>3 DEF Confirm
<1>4. CASE Retry
  BY <1>4 DEF Retry, SetCmd, CopyInv
<1>5. CASE DisplayStops
  BY <1>5 DEF DisplayStops
<1>6. CASE DisplayStarts
  BY <1>6 DEF DisplayStarts
<1>7. CASE CreateSignals
  BY <1>7 DEF CreateSignals
<1>8. CASE ConnectWarm
  BY <1>8 DEF ConnectWarm
<1>9. CASE ConnectCold
  BY <1>9 DEF ConnectCold
<1>10. CASE Poll
  BY <1>10 DEF Poll
<1>11. CASE Ack
  BY <1>11 DEF Ack, AfterAck
<1>12. CASE AckFails
  BY <1>12 DEF AckFails
<1>13. CASE FetchPayload
  BY <1>13 DEF FetchPayload
<1>14. CASE Run
  BY <1>14 DEF Run, Bump
<1>15. CASE Crash
  BY <1>15 DEF Crash
<1>16. CASE LinkLost
  BY <1>16 DEF LinkLost
<1>17. CASE MainReset
  BY <1>17 DEF MainReset
<1>18. CASE UNCHANGED vars
  BY <1>18
<1> QED
  BY <1>1, <1>2, <1>3, <1>4, <1>5, <1>6, <1>7, <1>8, <1>9, <1>10, <1>11, <1>12, <1>13,
     <1>14, <1>15, <1>16, <1>17, <1>18 DEF Next, DisplayNext, Cm0Next

\* Whatever is held on the way to the Application is a copy of what the Display
\* published.
LEMMA CopyStep == IInv /\ [Next]_vars => CopyInv'
<1> SUFFICES ASSUME IInv, [Next]_vars PROVE CopyInv'
  OBVIOUS
<1>0. TypeOK'
  BY TypeStep DEF IInv
<1> USE <1>0, Records, Ranges DEF IInv, TypeOK, OrderInv, CopyInv, AckInv, Remembers, Busy
<1>1. ASSUME NEW k \in Kinds, StagePayload(k) PROVE CopyInv'
  BY <1>1 DEF StagePayload
<1>2. ASSUME NEW k \in Kinds, SendCommand(k) PROVE CopyInv'
  BY <1>2 DEF SendCommand, SetCmd
<1>3. CASE Confirm
  BY <1>3 DEF Confirm
<1>4. CASE Retry
  BY <1>4 DEF Retry, SetCmd
<1>5. CASE DisplayStops
  BY <1>5 DEF DisplayStops
<1>6. CASE DisplayStarts
  BY <1>6 DEF DisplayStarts
<1>7. CASE CreateSignals
  BY <1>7 DEF CreateSignals
<1>8. CASE ConnectWarm
  BY <1>8 DEF ConnectWarm
<1>9. CASE ConnectCold
  BY <1>9 DEF ConnectCold
<1>10. CASE Poll
  BY <1>10 DEF Poll
<1>11. CASE Ack
  BY <1>11 DEF Ack, AfterAck
<1>12. CASE AckFails
  BY <1>12 DEF AckFails
<1>13. CASE FetchPayload
  BY <1>13 DEF FetchPayload
<1>14. CASE Run
  BY <1>14 DEF Run, Bump
<1>15. CASE Crash
  BY <1>15 DEF Crash
<1>16. CASE LinkLost
  BY <1>16 DEF LinkLost
<1>17. CASE MainReset
  BY <1>17 DEF MainReset
<1>18. CASE UNCHANGED vars
  BY <1>18
<1> QED
  BY <1>1, <1>2, <1>3, <1>4, <1>5, <1>6, <1>7, <1>8, <1>9, <1>10, <1>11, <1>12, <1>13,
     <1>14, <1>15, <1>16, <1>17, <1>18 DEF Next, DisplayNext, Cm0Next

\* What the firmware acknowledges was taken, and what was taken is remembered.
LEMMA AckStep == IInv /\ [Next]_vars => AckInv'
<1> SUFFICES ASSUME IInv, [Next]_vars PROVE AckInv'
  OBVIOUS
<1>0. TypeOK'
  BY TypeStep DEF IInv
<1> USE <1>0, Records, Ranges DEF IInv, TypeOK, OrderInv, CopyInv, AckInv, Remembers, Busy
<1>1. ASSUME NEW k \in Kinds, StagePayload(k) PROVE AckInv'
  BY <1>1 DEF StagePayload
<1>2. ASSUME NEW k \in Kinds, SendCommand(k) PROVE AckInv'
  BY <1>2 DEF SendCommand, SetCmd
<1>3. CASE Confirm
  BY <1>3 DEF Confirm
<1>4. CASE Retry
  BY <1>4 DEF Retry, SetCmd
<1>5. CASE DisplayStops
  BY <1>5 DEF DisplayStops
<1>6. CASE DisplayStarts
  BY <1>6 DEF DisplayStarts
<1>7. CASE CreateSignals
  BY <1>7 DEF CreateSignals
<1>8. CASE ConnectWarm
  BY <1>8 DEF ConnectWarm
<1>9. CASE ConnectCold
  BY <1>9 DEF ConnectCold
<1>10. CASE Poll
  BY <1>10 DEF Poll
<1>11. CASE Ack
  BY <1>11 DEF Ack, AfterAck
<1>12. CASE AckFails
  BY <1>12 DEF AckFails
<1>13. CASE FetchPayload
  BY <1>13 DEF FetchPayload
<1>14. CASE Run
  <2>1. /\ ran'[cCmd.press] < 2 \/ ~Remembers
        /\ \A p \in Press : p # cCmd.press => ran'[p] = ran[p]
    BY <1>14 DEF Run, Bump
  <2>2. UNCHANGED <<mail, wrCmd, wrAck, cLast, cCmd, events>> /\ cPc = "run" /\ cPc' \in {"idle", "down"}
    BY <1>14 DEF Run
  <2> QED
    BY <2>1, <2>2
<1>15. CASE Crash
  BY <1>15 DEF Crash
<1>16. CASE LinkLost
  BY <1>16 DEF LinkLost
<1>17. CASE MainReset
  BY <1>17 DEF MainReset
<1>18. CASE UNCHANGED vars
  BY <1>18
<1> QED
  BY <1>1, <1>2, <1>3, <1>4, <1>5, <1>6, <1>7, <1>8, <1>9, <1>10, <1>11, <1>12, <1>13,
     <1>14, <1>15, <1>16, <1>17, <1>18 DEF Next, DisplayNext, Cm0Next

\* The invariant the safety theorems rest on.
THEOREM Inductive == Spec => []IInv
<1>1. Init => IInv
  <2> SUFFICES ASSUME Init PROVE IInv
    OBVIOUS
  <2>1. TypeOK
    BY Records, Ranges DEF Init, TypeOK, Press
  <2> QED
    BY <2>1, Records, Ranges
    DEF Init, IInv, TypeOK, OrderInv, CopyInv, AckInv, Remembers, Busy, Press
<1>2. IInv /\ [Next]_vars => IInv'
  BY TypeStep, OrderStep, CopyStep, AckStep DEF IInv
<1> QED
  BY <1>1, <1>2, PTL DEF Spec

\* No press runs twice while the acknowledged sequence is not lost, for every
\* interleaving of retries, reloads, crashes and reconnects.
THEOREM RunsAtMostOnce == Spec => []AtMostOnce
<1>1. IInv => AtMostOnce
  BY DEF IInv, AckInv, Remembers, AtMostOnce
<1> QED
  BY <1>1, Inductive, PTL

-----------------------------------------------------------------------------
(* The channel implements CommandDelivery *)

\* What runs now is younger than everything that ran before.
LEMMA RunsLast ==
    ASSUME IInv, Run, ~DropsOut
    PROVE  Delivery!Run(cCmd.press) \/ Delivery!RunAgain(cCmd.press)
<1> USE Records, Ranges DEF IInv, TypeOK
<1>1. ran' = [ran EXCEPT ![cCmd.press] = Bump(ran[cCmd.press])]
  BY DEF Run
<1>2. cCmd.press <= pressed
  BY DEF OrderInv
<1>3. UNCHANGED <<pressed, "forgot" \notin events>>
  BY DEF Run
<1>4. CASE Remembers
  <2>1. \A q \in Press : q >= cCmd.press => ran[q] = 0
    BY <1>4 DEF Run, Busy, OrderInv, CopyInv, AckInv
  <2>2. Bump(ran[cCmd.press]) = 1
    BY <2>1 DEF Bump, Press
  <2>3. ran' = [ran EXCEPT ![cCmd.press] = 1]
    BY ONLY <1>1, <2>2
  <2> QED
    BY ONLY <1>2, <1>3, <2>1, <2>3 DEF Delivery!Run, Delivery!Press, Press
<1>5. CASE ~Remembers
  <2>1. Bump(ran[cCmd.press]) \in 1 .. 2
    BY DEF Bump
  <2> QED
    BY ONLY <1>1, <1>2, <1>3, <1>5, <2>1 DEF Delivery!RunAgain, Remembers
<1> QED
  BY <1>4, <1>5

\* Each step of the channel is a step of the abstract delivery or a stutter.
LEMMA DeliveryStep ==
    IInv /\ [Next]_vars => [Delivery!Next]_(Delivery!vars)
<1> SUFFICES ASSUME IInv, [Next]_vars PROVE [Delivery!Next]_(Delivery!vars)
  OBVIOUS
<1> USE DEF Delivery!vars
<1>1. CASE \E k \in Kinds : StagePayload(k)
  BY <1>1 DEF StagePayload
<1>2. CASE \E k \in Kinds : SendCommand(k)
  BY <1>2 DEF SendCommand, Delivery!Next, Delivery!Issue
<1>3. CASE Run
  <2>1. CASE DropsOut
    BY <1>3, <2>1 DEF Run
  <2>2. CASE ~DropsOut
    BY <1>3, <2>2, RunsLast, Records DEF IInv, TypeOK, Delivery!Next, Delivery!Press, Press
  <2> QED
    BY <2>1, <2>2
<1>4. CASE MainReset \/ ConnectWarm \/ ConnectCold
  BY <1>4 DEF MainReset, ConnectWarm, ConnectCold, Delivery!Next, Delivery!LoseMemory
<1>5. CASE DisplayStarts
  BY <1>5 DEF DisplayStarts
<1>6. CASE Confirm \/ Retry \/ DisplayStops \/ CreateSignals \/ Poll \/ Ack \/ AckFails
           \/ FetchPayload \/ Crash \/ LinkLost \/ UNCHANGED vars
  BY <1>6 DEF Confirm, Retry, DisplayStops, CreateSignals, Poll, Ack, AckFails,
              FetchPayload, Crash, LinkLost
<1> QED
  BY <1>1, <1>2, <1>3, <1>4, <1>5, <1>6 DEF Next, DisplayNext, Cm0Next

\* The channel implements the abstract delivery: presses run at most once and
\* in the order of the presses until the acknowledged sequence is lost.
THEOREM ImplementsDelivery == Spec => RunsInOrder
<1>1. Init => Delivery!Init
  BY DEF Init, Delivery!Init, Delivery!Press, Press
<1> QED
  BY <1>1, DeliveryStep, Inductive, PTL DEF Spec, RunsInOrder, Delivery!Spec

-----------------------------------------------------------------------------
(* The one-shot value in wr_state *)

\* wr_state holds no value older than the press it is read for, in every action.
LEMMA ValueStep == IInv /\ ValueInv /\ [Next]_vars => ValueInv'
<1> SUFFICES ASSUME IInv, ValueInv, [Next]_vars PROVE ValueInv'
  OBVIOUS
<1>0. TypeOK'
  BY TypeStep DEF IInv
<1> USE <1>0, Records, Ranges
    DEF IInv, TypeOK, OrderInv, ValueInv, PayloadNeverStale, HasPayload, InRange
<1>1. ASSUME NEW k \in Kinds, StagePayload(k) PROVE ValueInv'
  BY <1>1 DEF StagePayload
<1>2. ASSUME NEW k \in Kinds, SendCommand(k) PROVE ValueInv'
  BY <1>2 DEF SendCommand, SetCmd
<1>3. CASE Confirm
  BY <1>3 DEF Confirm
<1>4. CASE Retry
  BY <1>4 DEF Retry, SetCmd
<1>5. CASE DisplayStops
  BY <1>5 DEF DisplayStops
<1>6. CASE DisplayStarts
  BY <1>6 DEF DisplayStarts
<1>7. CASE CreateSignals
  BY <1>7 DEF CreateSignals
<1>8. CASE ConnectWarm
  BY <1>8 DEF ConnectWarm
<1>9. CASE ConnectCold
  BY <1>9 DEF ConnectCold
<1>10. CASE Poll
  BY <1>10 DEF Poll
<1>11. CASE Ack
  BY <1>11 DEF Ack, AfterAck
<1>12. CASE AckFails
  BY <1>12 DEF AckFails
<1>13. CASE FetchPayload
  BY <1>13 DEF FetchPayload
<1>14. CASE Run
  BY <1>14 DEF Run
<1>15. CASE Crash
  BY <1>15 DEF Crash
<1>16. CASE LinkLost
  BY <1>16 DEF LinkLost
<1>17. CASE MainReset
  BY <1>17 DEF MainReset
<1>18. CASE UNCHANGED vars
  BY <1>18
<1> QED
  BY <1>1, <1>2, <1>3, <1>4, <1>5, <1>6, <1>7, <1>8, <1>9, <1>10, <1>11, <1>12, <1>13,
     <1>14, <1>15, <1>16, <1>17, <1>18 DEF Next, DisplayNext, Cm0Next

\* A command that reads its value out of wr_state never gets the value of an
\* older press, whatever else wrote that signal in between.
THEOREM NoStalePayload == Spec => []PayloadNeverStale
<1>1. Init => ValueInv
  BY Records, Ranges DEF Init, ValueInv, PayloadNeverStale, HasPayload
<1>2. ValueInv => PayloadNeverStale
  BY DEF ValueInv
<1> QED
  BY <1>1, <1>2, ValueStep, Inductive, PTL DEF Spec

-----------------------------------------------------------------------------
(* Less than one lap of the sequence counter *)

\* What has happened (a reload, a swallowed command, a lost acknowledgement) is
\* never forgotten.
LEMMA EventsGrow == [Next]_vars => events \subseteq events'
BY DEF Next, DisplayNext, Cm0Next, StagePayload, SendCommand, Confirm, Retry, DisplayStops,
       DisplayStarts, CreateSignals, ConnectWarm, ConnectCold, Poll, Ack, AckFails,
       FetchPayload, Run, Crash, LinkLost, MainReset

\* Distances along the ring of sequences 1..SeqMod (0: none yet).
LEMMA Arc ==
    /\ \A a \in Seq16, b \in Seq16 : Behind(a, b) \in Nat
    /\ \A a \in Seq16 : Behind(a, a) = 0 /\ Behind(0, a) = a
    /\ \A a \in Seq16, b \in Seq16 :
           Behind(a, b) + 1 < SeqMod => Behind(a, SeqNext(b)) = Behind(a, b) + 1
    /\ \A a \in Seq16, b \in Seq16, c \in Seq16 :
           b # 0 /\ Behind(a, b) <= Behind(a, c) =>
               Behind(b, c) = Behind(a, c) - Behind(a, b)
BY ChannelAssumption DEF Behind, Seq16, SeqNext

\* Without a rewind the acknowledged sequence stays within one lap behind the
\* published one, in every action.
LEMMA LapStep == IInv /\ LapInv /\ [Next]_vars => LapInv'
<1> SUFFICES ASSUME IInv, LapInv, [Next]_vars, events' = {} PROVE LapInv'
  BY DEF LapInv
<1>0. TypeOK'
  BY TypeStep DEF IInv
<1>00. events = {}
  BY EventsGrow
<1> USE <1>0, <1>00, Records, Ranges, Arc
    DEF IInv, TypeOK, OrderInv, AckInv, Busy, Remembers, LapInv
<1>1. ASSUME NEW k \in Kinds, StagePayload(k) PROVE LapInv'
  BY <1>1 DEF StagePayload
<1>2. ASSUME NEW k \in Kinds, SendCommand(k) PROVE LapInv'
  <2>1. Behind(wrAck, dSeq') = Behind(wrAck, dSeq) + 1 /\ dSeq' # 0
    <3>1. Behind(wrAck, dSeq) <= pressed /\ pressed < MaxPress /\ dSeq' = SeqNext(dSeq)
      BY <1>2 DEF SendCommand
    <3>2. Behind(wrAck, dSeq) \in Nat /\ pressed \in Nat
      OBVIOUS
    <3>3. Behind(wrAck, dSeq) + 1 < SeqMod
      BY ONLY <3>1, <3>2, ChannelAssumption
    <3> QED
      BY <3>1, <3>3
  <2>2. /\ UNCHANGED <<dOn, wrAck, cPc, cCmd, taken, confirmed>>
        /\ dOn /\ pressed' = pressed + 1 /\ dPending'.seq = dSeq'
        /\ wrCmd' = wrCmd \/ wrCmd' = dPending'
    BY <1>2 DEF SendCommand, SetCmd
  <2> QED
    BY <2>1, <2>2
<1>3. CASE Confirm
  BY <1>3 DEF Confirm
<1>4. CASE Retry
  BY <1>4 DEF Retry, SetCmd
<1>5. CASE DisplayStops
  BY <1>5 DEF DisplayStops
<1>6. CASE DisplayStarts
  <2>1. dSeq' = wrCmd.seq /\ ~Pending'
    BY <1>6 DEF DisplayStarts
  <2> QED
    BY <1>6, <2>1 DEF DisplayStarts
<1>7. CASE CreateSignals
  BY <1>7 DEF CreateSignals
<1>8. CASE ConnectWarm
  BY <1>8 DEF ConnectWarm
<1>9. CASE ConnectCold
  <2>1. /\ wrAck' = wrCmd.seq /\ wrCmd.press \in taken /\ cPc' # "ack"
        /\ UNCHANGED <<display, wrCmd, taken, confirmed>>
    BY <1>9 DEF ConnectCold
  <2>2. dOn /\ wrCmd.seq # 0 =>
            Behind(wrCmd.seq, dSeq) = Behind(wrAck, dSeq) - Behind(wrAck, wrCmd.seq)
    OBVIOUS
  <2>3. wrCmd.seq = 0 => wrAck = 0
    OBVIOUS
  <2> QED
    BY <2>1, <2>2, <2>3
<1>10. CASE Poll
  BY <1>10 DEF Poll
<1>11. CASE Ack
  <2>0. CASE wrAck' = wrAck
    BY <1>11, <2>0 DEF Ack, AfterAck
  <2>1. CASE wrAck' = cCmd.seq
    <3>1. /\ cPc = "ack" /\ cPc' # "ack"
          /\ UNCHANGED <<display, wrCmd, taken, confirmed>>
      BY <1>11 DEF Ack, AfterAck
    <3>2. Behind(cCmd.seq, wrCmd.seq) = Behind(wrAck, wrCmd.seq) - Behind(wrAck, cCmd.seq)
      BY <3>1
    <3>3. dOn => Behind(cCmd.seq, dSeq) = Behind(wrAck, dSeq) - Behind(wrAck, cCmd.seq)
      BY <3>1
    <3> QED
      BY <2>1, <3>1, <3>2, <3>3
  <2> QED
    BY <1>11, <2>0, <2>1 DEF Ack, AfterAck
<1>12. CASE AckFails
  <2>0. CASE wrAck' = wrAck
    BY <1>12, <2>0 DEF AckFails
  <2>1. CASE wrAck' = cCmd.seq
    <3>1. /\ cPc = "ack" /\ cPc' # "ack"
          /\ UNCHANGED <<display, wrCmd, taken, confirmed>>
      BY <1>12 DEF AckFails
    <3>2. Behind(cCmd.seq, wrCmd.seq) = Behind(wrAck, wrCmd.seq) - Behind(wrAck, cCmd.seq)
      BY <3>1
    <3>3. dOn => Behind(cCmd.seq, dSeq) = Behind(wrAck, dSeq) - Behind(wrAck, cCmd.seq)
      BY <3>1
    <3> QED
      BY <2>1, <3>1, <3>2, <3>3
  <2> QED
    BY <1>12, <2>0, <2>1 DEF AckFails
<1>13. CASE FetchPayload
  BY <1>13 DEF FetchPayload
<1>14. CASE Run
  BY <1>14 DEF Run
<1>15. CASE Crash
  BY <1>15 DEF Crash
<1>16. CASE LinkLost
  BY <1>16 DEF LinkLost
<1>17. CASE MainReset
  BY <1>17 DEF MainReset
<1>18. CASE UNCHANGED vars
  BY <1>18
<1> QED
  BY <1>1, <1>2, <1>3, <1>4, <1>5, <1>6, <1>7, <1>8, <1>9, <1>10, <1>11, <1>12, <1>13,
     <1>14, <1>15, <1>16, <1>17, <1>18 DEF Next, DisplayNext, Cm0Next

\* The Display never takes a press off its retry loop that the CM0 has not
\* read, as long as numbering was not rewound, no cold connect swallowed a
\* command and no acknowledged sequence was lost.
THEOREM ConfirmedIsTaken == Spec => []ConfirmedWasTaken
<1>1. Init => LapInv
  BY Records, Ranges, Arc DEF Init, LapInv
<1>2. LapInv => ConfirmedWasTaken
  BY DEF LapInv, ConfirmedWasTaken
<1> QED
  BY <1>1, <1>2, LapStep, Inductive, PTL DEF Spec

=============================================================================
