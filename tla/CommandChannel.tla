--------------------------- MODULE CommandChannel ---------------------------
(***************************************************************************)
(* The button-command channel between the native Display app and the CM0   *)
(* service, through Main's app-signal mailbox.                             *)
(*                                                                         *)
(* The Display numbers every command with a 16-bit sequence that skips     *)
(* zero, writes it to wr_cmd and rewrites it every 50 ms until wr_ack      *)
(* carries that sequence.  One slot: a new press replaces a pending one.   *)
(* Two commands (add a frequency, alert threshold) carry a value in        *)
(* wr_state, written just before wr_cmd.  The CM0 polls wr_cmd, ignores    *)
(* the sequence it took last, writes wr_ack, fetches the payload and only  *)
(* then runs the command.  Either side can restart at any point; Main can  *)
(* reset and forget every signal.                                          *)
(***************************************************************************)
EXTENDS Naturals

CONSTANTS
    SeqMod,      \* wire sequences are 1..SeqMod (65535 in the firmware)
    MaxPress,    \* presses made in one history: less than one lap of SeqMod
    Kinds,       \* the kinds of command pressed
    Faults       \* the faults the environment may inject

AllKinds == {"quiet", "view", "threshold", "add"}
AllFaults ==
    {"lost_write",   \* Main rejects or loses a signal the Display sets
     "ack_failed",   \* the CM0's wr_ack write raises, landed or not
     "crash",        \* the CM0 process dies between two of its steps
     "reload",       \* the Display app is restarted
     "unread",       \* a read of an app signal times out
     "main_reset"}   \* Main resets: every app signal is gone

ASSUME ChannelAssumption ==
    /\ MaxPress \in Nat
    /\ SeqMod \in Nat
    /\ MaxPress < SeqMod
    /\ Kinds \subseteq AllKinds
    /\ Faults \subseteq AllFaults

VARIABLES
    dOn,         \* the Display app is running its loop
    dSeq,        \* s_cmd_seq
    dPending,    \* s_pending_cmd while s_cmd_pending, else NoCommand
    dStage,      \* kind of the command whose payload is in wr_state, else "none"
    pressed,     \* how many commands were sent: the next press is pressed + 1
    mail,        \* Main's mailbox: "absent", "created" (no wr_proto), "ready"
    wrCmd,       \* the command in wr_cmd
    wrAck,       \* wr_ack
    wrState,     \* wr_state: ViewState, or the value a press staged in it
    cPc,         \* the CM0 main loop: "down" "idle" "ack" "fetch" "run"
    cLast,       \* _last_command_sequence
    cCmd,        \* the command poll_action has read
    cArg,        \* the payload it fetched
    taken,       \* presses the CM0 has read as new commands
    confirmed,   \* presses the Display has seen acknowledged
    ran,         \* ran[p]: how often press p ran (2: twice or more)
    events       \* memory-losing events so far, see Forgotten below

display == <<dOn, dSeq, dPending, dStage, pressed>>
mailbox == <<mail, wrCmd, wrAck, wrState>>
cm0     == <<cPc, cLast, cCmd, cArg>>
history == <<taken, confirmed, ran, events>>
vars    == <<display, mailbox, cm0, history>>

-----------------------------------------------------------------------------

Press == 0 .. MaxPress       \* 0: the last command of an earlier life
Seq16 == 0 .. SeqMod
Command == [seq : Seq16, press : Press, kind : AllKinds]
NoCommand == [seq |-> 0, press |-> 0, kind |-> "quiet"]

\* A value in wr_state: kHz staged for an add, an offset staged for a
\* threshold, or the small number that says which view the CM0 publishes.
Value == [press : Press, kind : {"view", "threshold", "add"}]
ViewState == [press |-> 0, kind |-> "view"]

HasPayload(k) == k \in {"threshold", "add"}
Republishes(k) == k \in {"view", "add"}

\* Mutant: the counter is not masked to its width.
SeqNextNoWrap(s) == s + 1

\* (seq + 1) & 0xFFFF, and 1 instead of 0
SeqNext(s) == IF s >= SeqMod THEN 1 ELSE s + 1

Event == {"forgot",     \* wr_ack, or the CM0's copy of it, was lost
          "swallowed",  \* a cold connect acknowledged a command nobody took
          "rewound"}    \* the Display restarted behind a command in wr_cmd

TypeOK ==
    /\ dOn \in BOOLEAN
    /\ dSeq \in Seq16
    /\ dPending \in Command
    /\ dStage \in AllKinds \cup {"none"}
    /\ pressed \in Press
    /\ mail \in {"absent", "created", "ready"}
    /\ wrCmd \in Command
    /\ wrAck \in Seq16
    /\ wrState \in Value
    /\ cPc \in {"down", "idle", "ack", "fetch", "run"}
    /\ cLast \in Seq16
    /\ cCmd \in Command
    /\ cArg \in Value
    /\ taken \subseteq Press
    /\ confirmed \subseteq Press
    /\ ran \in [Press -> 0 .. 2]
    /\ events \subseteq Event

\* A warm mailbox left by an earlier life with some acknowledged sequence, or
\* a cold one; the CM0 service is not connected yet.
Init ==
    /\ dOn = TRUE
    /\ dPending = NoCommand
    /\ dStage = "none"
    /\ pressed = 0
    /\ \/ mail = "ready" /\ dSeq \in Seq16
       \/ mail = "absent" /\ dSeq = 0
    /\ wrCmd = [NoCommand EXCEPT !.seq = dSeq]
    /\ wrAck = dSeq
    /\ wrState = ViewState
    /\ cPc = "down"
    /\ cLast = 0
    /\ cCmd = NoCommand
    /\ cArg = ViewState
    /\ taken = {0}
    /\ confirmed = {0}
    /\ ran = [p \in Press |-> IF p = 0 THEN 1 ELSE 0]
    /\ events = {}

-----------------------------------------------------------------------------
(* The Display app *)

Pending == dPending.press # 0

\* One app_signal_set of wr_cmd: it lands, or Main has no such signal or
\* rejects it.
SetCmd(c) ==
    \/ mail # "absent" /\ wrCmd' = c
    \/ (mail = "absent" \/ "lost_write" \in Faults) /\ wrCmd' = wrCmd

\* Mutant: the command is sent although its payload was not written.
StagePayloadUnchecked(k) ==
    /\ dOn
    /\ dStage = "none"
    /\ HasPayload(k)
    /\ pressed < MaxPress
    /\ mail # "absent"
    /\ wrState' \in {wrState, [press |-> pressed + 1, kind |-> k]}
    /\ dStage' = k
    /\ UNCHANGED <<dOn, dSeq, dPending, pressed, mail, wrCmd, wrAck, cm0, history>>

\* The payload of opcodes 1 and 15 goes to wr_state first; when that write
\* fails the press is dropped.
StagePayload(k) ==
    /\ dOn
    /\ dStage = "none"
    /\ HasPayload(k)
    /\ pressed < MaxPress
    /\ mail # "absent"
    /\ wrState' = [press |-> pressed + 1, kind |-> k]
    /\ dStage' = k
    /\ UNCHANGED <<dOn, dSeq, dPending, pressed, mail, wrCmd, wrAck, cm0, history>>

\* Mutant: a new press is written but the older one stays the pending one.
SendCommandKeepsOld(k) ==
    /\ dOn
    /\ dStage = IF HasPayload(k) THEN k ELSE "none"
    /\ pressed < MaxPress
    /\ pressed' = pressed + 1
    /\ dSeq' = SeqNext(dSeq)
    /\ LET new == [seq |-> dSeq', press |-> pressed', kind |-> k]
       IN  /\ dPending' = IF Pending THEN dPending ELSE new
           /\ SetCmd(new)
    /\ dStage' = "none"
    /\ UNCHANGED <<dOn, mail, wrAck, wrState, cm0, history>>

\* send_command: the next sequence, one pending slot, one write.
SendCommand(k) ==
    /\ dOn
    /\ dStage = IF HasPayload(k) THEN k ELSE "none"
    /\ pressed < MaxPress
    /\ pressed' = pressed + 1
    /\ dSeq' = SeqNext(dSeq)
    /\ dPending' = [seq |-> dSeq', press |-> pressed', kind |-> k]
    /\ SetCmd(dPending')
    /\ dStage' = "none"
    /\ UNCHANGED <<dOn, mail, wrAck, wrState, cm0, history>>

\* Mutant: any acknowledgement settles the pending command.
ConfirmAny ==
    /\ dOn /\ dStage = "none" /\ Pending
    /\ mail # "absent"
    /\ wrAck # 0
    /\ dPending' = NoCommand
    /\ confirmed' = confirmed \cup {dPending.press}
    /\ UNCHANGED <<dOn, dSeq, dStage, pressed, mailbox, cm0, taken, ran, events>>

\* retry_pending_command, the acknowledgement of the pending sequence is read
Confirm ==
    /\ dOn /\ dStage = "none" /\ Pending
    /\ mail # "absent"
    /\ wrAck = dSeq
    /\ dPending' = NoCommand
    /\ confirmed' = confirmed \cup {dPending.press}
    /\ UNCHANGED <<dOn, dSeq, dStage, pressed, mailbox, cm0, taken, ran, events>>

\* retry_pending_command, no acknowledgement was read (it is another, or the
\* read failed): the same word is written again
Retry ==
    /\ dOn /\ dStage = "none" /\ Pending
    /\ SetCmd(dPending)
    /\ UNCHANGED <<display, mail, wrAck, wrState, cm0, history>>

\* The Display loses power or is reloaded: its pending command is gone.
DisplayStops ==
    /\ "reload" \in Faults
    /\ dOn
    /\ dOn' = FALSE
    /\ dSeq' = 0
    /\ dPending' = NoCommand
    /\ dStage' = "none"
    /\ UNCHANGED <<pressed, mailbox, cm0, history>>

\* Continue after the last acknowledgement; if wr_ack cannot be read, after
\* wr_cmd; if neither can, from zero.
DisplayStarts ==
    /\ ~dOn
    /\ dOn' = TRUE
    /\ \/ mail # "absent" /\ dSeq' = wrAck
       \/ mail # "absent" /\ "unread" \in Faults /\ dSeq' \in {wrCmd.seq, 0}
       \/ mail = "absent" /\ dSeq' = 0
    /\ events' = IF dSeq' # wrCmd.seq THEN events \cup {"rewound"} ELSE events
    /\ UNCHANGED <<dPending, dStage, pressed, mailbox, cm0, taken, confirmed, ran>>

-----------------------------------------------------------------------------
(* Main, and the CM0 service's connection to it *)

MainReset ==
    /\ "main_reset" \in Faults
    /\ mail # "absent"
    /\ mail' = "absent"
    /\ wrCmd' = NoCommand
    /\ wrAck' = 0
    /\ wrState' = ViewState
    /\ events' = events \cup {"forgot"}
    /\ UNCHANGED <<display, cm0, taken, confirmed, ran>>

\* The CM0 process dies, or drops its display adapter; systemd restarts it.
Crash ==
    /\ "crash" \in Faults
    /\ cPc # "down"
    /\ cPc' = "down"
    /\ UNCHANGED <<display, mailbox, cLast, cCmd, cArg, history>>

\* A row published to a mailbox that has vanished fails: the adapter is
\* dropped and will reconnect.
LinkLost ==
    /\ cPc = "idle"
    /\ mail = "absent"
    /\ cPc' = "down"
    /\ UNCHANGED <<display, mailbox, cLast, cCmd, cArg, history>>

\* connect() finds no wr_proto and creates the signals, all zero.
CreateSignals ==
    /\ cPc = "down"
    /\ mail = "absent"
    /\ mail' = "created"
    /\ UNCHANGED <<display, wrCmd, wrAck, wrState, cm0, history>>

\* Mutant: a reconnect does not resume after the acknowledged sequence.
ConnectWarmFromZero ==
    /\ cPc = "down"
    /\ mail = "ready"
    /\ cLast' = 0
    /\ wrState' = ViewState
    /\ cPc' = "idle"
    /\ UNCHANGED <<display, mail, wrCmd, wrAck, cCmd, cArg, history>>

\* connect() with wr_proto read back: resume after wr_ack, and publish the
\* live view state.  wr_ack unread counts as 0.
ConnectWarm ==
    /\ cPc = "down"
    /\ mail = "ready"
    /\ \/ /\ cLast' = wrAck
          /\ events' = events
       \/ /\ "unread" \in Faults
          /\ cLast' = 0
          /\ events' = events \cup {"forgot"}
    /\ wrState' = ViewState
    /\ cPc' = "idle"
    /\ UNCHANGED <<display, mail, wrCmd, wrAck, cCmd, cArg, taken, confirmed, ran>>

\* connect() without wr_proto (a new mailbox, or the read timed out): whatever
\* wr_cmd holds is acknowledged and not run.  wr_cmd unread counts as 0.  The
\* last of the four writes sets wr_proto; if it fails the mailbox stays as it
\* was and the connection is not made.
ConnectCold ==
    /\ cPc = "down"
    /\ mail = "created" \/ (mail = "ready" /\ "unread" \in Faults)
    /\ \/ /\ wrAck' = wrCmd.seq
          /\ events' = IF wrCmd.press \in taken THEN events
                       ELSE events \cup {"swallowed"}
       \/ /\ "unread" \in Faults
          /\ wrAck' = 0
          /\ events' = events \cup {"forgot"}
    /\ cLast' = wrAck'
    /\ wrState' = ViewState
    /\ \/ mail' = "ready" /\ cPc' = "idle"
       \/ mail' = mail /\ cPc' = "down"
    /\ UNCHANGED <<display, wrCmd, cCmd, cArg, taken, confirmed, ran>>

-----------------------------------------------------------------------------
(* The CM0 main loop *)

\* poll_action reads a wr_cmd whose sequence is not the last one taken.
Poll ==
    /\ cPc = "idle"
    /\ mail # "absent"
    /\ wrCmd.seq # cLast
    /\ cLast' = wrCmd.seq
    /\ cCmd' = wrCmd
    /\ cPc' = "ack"
    /\ taken' = taken \cup {wrCmd.press}
    /\ UNCHANGED <<display, mailbox, cArg, confirmed, ran, events>>

AfterAck(c) == IF HasPayload(c.kind) THEN "fetch" ELSE "run"

\* Mutant: the command runs without being acknowledged.
AckForgotten ==
    /\ cPc = "ack"
    /\ mail # "absent"
    /\ cPc' = AfterAck(cCmd)
    /\ UNCHANGED <<display, mail, wrCmd, wrAck, wrState, cLast, cCmd, cArg, history>>

\* The acknowledgement is written before the action is returned to the loop.
Ack ==
    /\ cPc = "ack"
    /\ mail # "absent"
    /\ wrAck' = cCmd.seq
    /\ cPc' = AfterAck(cCmd)
    /\ UNCHANGED <<display, mail, wrCmd, wrState, cLast, cCmd, cArg, history>>

\* The write raises DisplayUnavailable out of poll_action and ends the
\* process; it may have reached Main all the same.
AckFails ==
    /\ cPc = "ack"
    /\ \/ mail = "absent" /\ wrAck' = wrAck
       \/ "ack_failed" \in Faults /\ mail # "absent" /\ wrAck' \in {wrAck, cCmd.seq}
    /\ cPc' = "down"
    /\ UNCHANGED <<display, mail, wrCmd, wrState, cLast, cCmd, cArg, history>>

\* Opcodes 1 and 15 read their value from wr_state.
FetchPayload ==
    /\ cPc = "fetch"
    /\ \/ cArg' = wrState
       \/ "unread" \in Faults /\ cArg' = ViewState
    /\ cPc' = "run"
    /\ UNCHANGED <<display, mailbox, cLast, cCmd, history>>

\* Only a value of the command's own kind is in its range.  An add whose value
\* is out of range runs as the legacy "gray" action, a threshold not at all.
InRange == cArg.kind = cCmd.kind
DropsOut == cCmd.kind = "threshold" /\ ~InRange

Bump(n) == IF n = 0 THEN 1 ELSE 2

\* Publishing a view raises when Main has none of the signals.  An add of the
\* Live list publishes nothing when it is refused: it is full or has the entry.
Run ==
    /\ cPc = "run"
    /\ ran' = IF DropsOut THEN ran
              ELSE [ran EXCEPT ![cCmd.press] = Bump(@)]
    /\ \E published \in IF cCmd.kind = "add" /\ InRange THEN BOOLEAN
                                                        ELSE {Republishes(cCmd.kind)} :
        /\ wrState' = IF published THEN ViewState ELSE wrState
        /\ cPc' = IF mail = "absent" /\ published THEN "down" ELSE "idle"
    /\ cArg' = ViewState
    /\ UNCHANGED <<display, mail, wrCmd, wrAck, cLast, cCmd, taken, confirmed, events>>

-----------------------------------------------------------------------------

DisplayNext ==
    \/ \E k \in Kinds : StagePayload(k) \/ SendCommand(k)
    \/ Confirm \/ Retry
    \/ DisplayStops \/ DisplayStarts

Cm0Next ==
    \/ CreateSignals \/ ConnectWarm \/ ConnectCold
    \/ Poll \/ Ack \/ AckFails \/ FetchPayload \/ Run
    \/ Crash \/ LinkLost

Next == DisplayNext \/ Cm0Next \/ MainReset

Spec == Init /\ [][Next]_vars

\* Both loops keep turning (weak fairness); a step that a fault can keep
\* preventing is taken once it is possible again and again: faults are
\* transient (the comment of retry_pending_command) and systemd restarts the
\* service (Restart=on-failure), so no fault recurs for ever at one step.
Fairness ==
    /\ SF_vars(Retry) /\ SF_vars(Confirm)
    /\ WF_vars(\E k \in Kinds : HasPayload(k) /\ SendCommand(k))
    /\ WF_vars(CreateSignals)
    /\ SF_vars(ConnectWarm /\ events' = events)
    /\ SF_vars(ConnectCold /\ mail = "created" /\ mail' = "ready")
    /\ SF_vars(Poll) /\ SF_vars(Ack)
    /\ WF_vars(FetchPayload) /\ WF_vars(Run)

FairSpec == Spec /\ Fairness

-----------------------------------------------------------------------------
(* Properties *)

\* No press runs twice on the CM0, whatever is retried, lost or restarted, as
\* long as the acknowledged sequence is not lost: a wr_cmd rewritten after its
\* acknowledgement, or found again by a restarted service, is not new.
AtMostOnce == "forgot" \notin events => \A p \in Press : ran[p] < 2

\* The Display never takes a press off its retry loop that the CM0 has not
\* read, unless numbering restarted behind wr_cmd, a cold connect swallowed it,
\* or the acknowledged sequence was lost.
ConfirmedWasTaken == events = {} => confirmed \subseteq taken

\* A command that reads its value out of wr_state never gets the value of an
\* older press.
PayloadNeverStale ==
    cPc = "run" /\ HasPayload(cCmd.kind) /\ InRange => cArg.press >= cCmd.press

\* Presses run at most once and in the order they were made, until the
\* acknowledged sequence is lost.
Delivery == INSTANCE CommandDelivery
                WITH issued <- pressed, trusted <- "forgot" \notin events
RunsInOrder == Delivery!Spec

\* Every command leaves the retry loop: acknowledged, replaced by a later press
\* or gone with the Display.
PressesSettle ==
    \A p \in 1 .. MaxPress : dPending.press = p ~> dPending.press # p

-----------------------------------------------------------------------------
(* What comments in the code say, and the code does not do *)

\* main.c:3191, on resuming from wr_ack after a reload: a reload cannot reuse
\* an old sequence number and have a valid press mistaken for stale traffic
\* (nothing else having gone wrong).
ReloadKeepsPresses == events \subseteq {"rewound"} => confirmed \subseteq taken

=============================================================================
