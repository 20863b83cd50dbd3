------------------------------ MODULE RowFeed ------------------------------
(***************************************************************************)
(* The stream of waterfall rows and message chunks from the CM0 service to *)
(* the Display app.  Both travel through the same app signals of Main:     *)
(* wr_freq, wr_span, the row words and, last, wr_seq.  The CM0 sets them   *)
(* one at a time; the Display polls wr_seq and, when it changed, reads the *)
(* others one at a time.  Nothing holds the CM0 back until a frame is read.*)
(*                                                                         *)
(* A decoded Morse message is cut into chunks that are sent instead of     *)
(* rows; the Display assembles them in a staging buffer and keeps the      *)
(* latest messages.  After a (re)connect the CM0 replays the messages it   *)
(* has stored.                                                             *)
(***************************************************************************)
EXTENDS Naturals, Sequences, FiniteSets, SequencesExt, Subsequences, Concatenations

CONSTANTS
    Freqs,       \* frequencies the receiver is tuned to
    Texts,       \* texts of messages
    Messages,    \* the messages on the air: each a text on a frequency
    Length,      \* Length[t]: chunks of a message with text t, header included
    Words,       \* row words of a frame (3)
    RowMod,      \* row sequences are 0..RowMod-1 (65536)
    MaxFrames,   \* frames sent in one history: less than one lap of RowMod
    MaxEvents,   \* things that happen to the feed in one history: receptions,
                 \* retunes, clears, restarts and time-outs
    HistoryMax   \* messages the Display keeps (16)

ASSUME FeedAssumption ==
    /\ Length \in [Texts -> Nat \ {0, 1}]
    /\ Freqs # {} /\ "none" \notin Freqs
    /\ Messages \subseteq [freq : Freqs, text : Texts]
    /\ Words \in Nat \ {0}
    /\ MaxFrames \in Nat /\ RowMod \in Nat /\ MaxFrames < RowMod
    /\ MaxEvents \in Nat
    /\ HistoryMax \in Nat \ {0}

VARIABLES
    cUp,         \* the CM0 has a connected NativeSignalDisplay
    cRow,        \* _row_sequence
    cQueue,      \* _message_frames
    cBatch,      \* sets of the current publication still to make
    cPublished,  \* _published_frequency_hz, or "none"
    cEntry,      \* frequency the receiver is tuned to
    cAnnounced,  \* last_morse_message, or "none"
    stored,      \* verified messages in MessageStore, last seen last
    wr,          \* wr[g]: the value in signal g, named by the frame it is from
    wrSeq,       \* wr_seq
    dSeq,        \* s_row_seq
    dRead,       \* values read so far of the frame being polled
    staging,     \* s_message_staging: its length and the chunks in it
    history,     \* s_message_history, oldest first
    clearing,    \* a Clear command is on its way to the CM0
    frames,      \* history: frames published so far
    awaited,     \* history: frames published and not yet read, nor skipped
    sent,        \* history: the frame last committed
    shown,       \* history: the values of the frame the Display took last
    fate,        \* history: fate[m] is what became of message m, see Fate
    events,      \* history: events so far
    marks        \* history: what has gone wrong, see Mark

cm0     == <<cUp, cRow, cQueue, cBatch, cPublished, cEntry, cAnnounced, stored>>
mailbox == <<wr, wrSeq>>
device  == <<dSeq, dRead, staging, history, clearing>>
ghosts  == <<frames, awaited, sent, shown, fate, events, marks>>
vars    == <<cm0, mailbox, device, ghosts>>

Fate == {"unheard",
         "due",        \* verified, and the Display is to have it in the end
         "excused",    \* verified, but the Display may lack it: it was
                       \* preempted, skipped, suppressed, doubted or cleared there
         "cleared"}    \* cleared on the CM0, and not verified again

Mark == {"restarted",  \* the adapter was replaced
         "torn",       \* a frame was taken with signals of another one
         "early",      \* a frame was taken under the sequence of another one
         "headless"}   \* the first chunk of a message was skipped

-----------------------------------------------------------------------------
(* Frames *)

\* Signals a frame is made of, in the order the Display reads them.
FreqSignal == 1
SpanSignal == 2
RowSignals == 3 .. Words + 2
Signals == {FreqSignal, SpanSignal} \cup RowSignals
Commit == 0    \* wr_seq

\* A set of a tuning value (a frequency, or a span above one hertz), or of a
\* part of frame id.  Message frames put their chunk header in wr_freq and 0
\* (live) or 1 (replay) in wr_span.
Tuning(f) == [kind |-> "tuning", id |-> 0, what |-> f, index |-> 0]
Row(f, n) == [kind |-> "row", id |-> n, what |-> f, index |-> 0]
IsChunk(frame) == frame.kind \in {"live", "replay"}
Nothing == [kind |-> "none", id |-> 0, what |-> "none", index |-> 0]

Chunk(kind, m, i, n) == [kind |-> kind, id |-> n, what |-> m, index |-> i]
Chunks(m, kind) == [i \in 1 .. Length[m.text] |-> Chunk(kind, m, i - 1, 0)]

\* Mutant: the sequence is published before the words of the frame.
CommittingFirst(sets, frame) == <<[signal |-> Commit, frame |-> frame]>> \o sets

\* wr_seq is set after everything else.
Committing(sets, frame) == Append(sets, [signal |-> Commit, frame |-> frame])

SetAll(signals, frame) == [k \in DOMAIN signals |-> [signal |-> signals[k], frame |-> frame]]
RowOrder == [k \in 1 .. Words |-> k + 2]
SetTuning(f) == SetAll(<<FreqSignal, SpanSignal>>, Tuning(f))

\* The value the Display should find in a signal of a frame it reads.
ValueOf(frame, g) == IF IsChunk(frame) \/ g \in RowSignals THEN frame ELSE Tuning(frame.what)
Whole(frame) == [g \in Signals |-> ValueOf(frame, g)]

\* What a row word holds: chunk 0 is the frequency (and the counts, which the
\* Display does not tell messages apart by), the others are the text.
Content(v) == [what |-> IF ~IsChunk(v) THEN v.kind
                        ELSE IF v.index = 0 THEN v.what.freq ELSE v.what.text,
               index |-> v.index]

\* A message as the Display holds it: for each chunk, its words.
Assembled(m) == [i \in 0 .. Length[m.text] - 1 |->
                    [w \in 1 .. Words |-> Content(Chunk("live", m, i, 0))]]
EmptyStaging == [length |-> 0, got |-> <<>>]

TypeOK ==
    /\ cUp \in BOOLEAN
    /\ cRow \in 0 .. RowMod - 1
    /\ \A k \in DOMAIN cQueue : IsChunk(cQueue[k]) /\ cQueue[k].what \in Messages
    /\ \A k \in DOMAIN cBatch : cBatch[k].signal \in Signals \cup {Commit}
    /\ cPublished \in Freqs \cup {"none"}
    /\ cEntry \in Freqs
    /\ cAnnounced \in Texts \cup {"none"}
    /\ \A m \in ToSet(stored) : fate[m] \in {"due", "excused"}
    /\ Cardinality(ToSet(stored)) = Len(stored)
    /\ DOMAIN wr = Signals
    /\ wrSeq \in 0 .. RowMod - 1 /\ dSeq \in 0 .. RowMod - 1
    /\ Len(dRead) <= Words + 2
    /\ \A i \in DOMAIN staging.got : i < staging.length
    /\ Len(history) <= HistoryMax
    /\ clearing \in BOOLEAN
    /\ frames \in 0 .. MaxFrames
    /\ fate \in [Messages -> Fate]
    /\ events \in 0 .. MaxEvents
    /\ marks \subseteq Mark

\* The service has just connected and built the Live list; the Display has
\* taken the last frame of an earlier life.
Init ==
    /\ cUp = TRUE
    /\ cRow = 0
    /\ cQueue = <<>>
    /\ cBatch = <<>>
    /\ cEntry \in Freqs
    /\ cPublished = cEntry
    /\ cAnnounced = "none"
    /\ stored = <<>>
    /\ wr = [g \in Signals |-> IF g \in RowSignals THEN Nothing ELSE Tuning(cEntry)]
    /\ wrSeq = 0
    /\ dSeq = 0
    /\ dRead = <<>>
    /\ staging = EmptyStaging
    /\ history = <<>>
    /\ clearing = FALSE
    /\ frames = 0
    /\ awaited = {}
    /\ sent = Nothing
    /\ shown = wr
    /\ fate = [m \in Messages |-> "unheard"]
    /\ events = 0
    /\ marks = {}

Event == events < MaxEvents /\ events' = events + 1

\* Messages of ms that were due are excused.
Excuse(ms) == [m \in Messages |-> IF m \in ms /\ fate[m] = "due" THEN "excused" ELSE fate[m]]

-----------------------------------------------------------------------------
(* The CM0 service publishes frames *)

Between == cUp /\ cBatch = <<>>

Retune(f) ==
    /\ Between
    /\ cEntry # f
    /\ cEntry' = f
    /\ Event
    /\ UNCHANGED <<cUp, cRow, cQueue, cBatch, cPublished, cAnnounced, stored, mailbox, device,
                   frames, awaited, sent, shown, fate, marks>>

\* update_receiver: the tuning is published when it is not the published one.
TuningSets == IF cPublished = cEntry THEN <<>> ELSE SetTuning(cEntry)

Push(frame, sets) ==
    /\ cRow' = (cRow + 1) % RowMod
    /\ cBatch' = Committing(TuningSets \o sets, frame)
    /\ frames' = frame.id
    /\ awaited' = awaited \cup {frame}
    /\ UNCHANGED <<cUp, cEntry, cAnnounced, stored, mailbox, device,
                   sent, shown, fate, events, marks>>

\* A chunk overwrites the tuning: the next row has to publish it again.
PublishedAfterChunk == "none"

\* push_waterfall with a message frame waiting: it is sent instead of the row.
PushChunk ==
    /\ Between /\ frames < MaxFrames
    /\ cQueue # <<>>
    /\ LET c == Head(cQueue)
           frame == Chunk(c.kind, c.what, c.index, frames + 1)
       IN  Push(frame, SetAll(<<FreqSignal, SpanSignal>> \o RowOrder, frame))
    /\ cQueue' = Tail(cQueue)
    /\ cPublished' = PublishedAfterChunk

PushRow ==
    /\ Between /\ frames < MaxFrames
    /\ cQueue = <<>>
    /\ LET frame == Row(cEntry, frames + 1) IN Push(frame, SetAll(RowOrder, frame))
    /\ cPublished' = cEntry
    /\ cQueue' = cQueue

\* One set of the publication lands in Main.
Lands ==
    /\ cUp /\ cBatch # <<>>
    /\ cBatch' = Tail(cBatch)
    /\ LET s == Head(cBatch)
       IN  IF s.signal = Commit
           THEN wrSeq' = cRow /\ sent' = s.frame /\ wr' = wr
           ELSE wr' = [wr EXCEPT ![s.signal] = s.frame] /\ UNCHANGED <<wrSeq, sent>>
    /\ UNCHANGED <<cUp, cRow, cQueue, cPublished, cEntry, cAnnounced, stored, device,
                   frames, awaited, shown, fate, events, marks>>

-----------------------------------------------------------------------------
(* Messages on the CM0 *)

Unsent == {cQueue[k].what : k \in DOMAIN cQueue}

\* show_message of a live decode replaces whatever was still to be sent.
QueueAfterShow(m) == Chunks(m, "live")

\* Mutant: the record that matches stays beside the new one.
RecordsAfterUnmerged(m, merged) == Append(stored, m)

\* MessageStore.observe: the similar records of the frequency become one with
\* the consensus text, and the records are sorted by the time last seen.
RecordsAfter(m, merged) ==
    Append(Picked(stored, {k \in DOMAIN stored : stored[k] \notin merged \cup {m}}), m)

\* _drain_decoded_messages, a reception that verifies a message of the tuned
\* frequency.  The same text within 30 s is not announced again, whatever the
\* frequency.  Without a display the message is only stored.
Verify(m) ==
    /\ cUp => cBatch = <<>>
    /\ m.freq = cEntry
    /\ \E merged \in SUBSET {x \in ToSet(stored) : x.freq = cEntry} :
           stored' = RecordsAfter(m, merged)
    /\ \/ /\ cUp
          /\ cQueue' = QueueAfterShow(m)
          /\ fate' = [Excuse(Unsent) EXCEPT ![m] = "due"]
       \/ /\ ~cUp \/ cAnnounced = m.text
          /\ cQueue' = cQueue
          /\ fate' = [fate EXCEPT ![m] = IF m \in ToSet(stored) THEN @ ELSE "excused"]
    /\ cAnnounced' = m.text
    /\ Event
    /\ UNCHANGED <<cUp, cRow, cBatch, cPublished, cEntry, mailbox, device,
                   frames, awaited, sent, shown, marks>>

\* A reception that does not agree with a verified record: the record is a
\* candidate again, and the Display is not told.
Doubt ==
    /\ cUp => cBatch = <<>>
    /\ \E m \in {x \in ToSet(stored) : x.freq = cEntry} :
           /\ stored' = Picked(stored, {k \in DOMAIN stored : stored[k] # m})
           /\ fate' = Excuse({m})
    /\ Event
    /\ UNCHANGED <<cUp, cRow, cQueue, cBatch, cPublished, cEntry, cAnnounced,
                   mailbox, device, frames, awaited, sent, shown, marks>>

\* messages_clear: the store is emptied; frames already queued stay queued.
ClearStore ==
    /\ Between
    /\ clearing
    /\ clearing' = FALSE
    /\ fate' = [m \in Messages |-> IF m \in ToSet(stored) THEN "cleared" ELSE fate[m]]
    /\ stored' = <<>>
    /\ cAnnounced' = "none"
    /\ UNCHANGED <<cUp, cRow, cQueue, cBatch, cPublished, cEntry, mailbox, dSeq, dRead,
                   staging, history, frames, awaited, sent, shown, events, marks>>

\* The service dies, or a set fails and the adapter is dropped.
Drop ==
    /\ cUp
    /\ cUp' = FALSE
    /\ Event
    /\ cQueue' = <<>> /\ cBatch' = <<>> /\ cRow' = 0 /\ cPublished' = "none"
    /\ cAnnounced' \in {cAnnounced, "none"}
    /\ awaited' = {frame \in awaited : frame.id <= sent.id}
    /\ marks' = marks \cup {"restarted"}
    /\ UNCHANGED <<cEntry, stored, mailbox, device, frames, sent, shown, fate>>

\* Mutant: the history is not replayed.
ReplayForgotten == <<>>

\* _replay_message_history: the latest stored messages, the oldest of them first
Replay ==
    LET latest == SubSeq(stored, IF Len(stored) > HistoryMax THEN Len(stored) - HistoryMax + 1 ELSE 1,
                         Len(stored))
    IN  Concatenated([k \in DOMAIN latest |-> Chunks(latest[k], "replay")])

\* A new adapter connects, builds the Live list and queues the replay.
Connect ==
    /\ ~cUp
    /\ cUp' = TRUE
    /\ cBatch' = SetTuning(cEntry)
    /\ cPublished' = cEntry
    /\ cQueue' = Replay
    /\ fate' = [m \in Messages |-> IF m \in ToSet(stored) THEN "due" ELSE fate[m]]
    /\ UNCHANGED <<cRow, cEntry, cAnnounced, stored, mailbox, device,
                   frames, awaited, sent, shown, events, marks>>

-----------------------------------------------------------------------------
(* The Display app *)

\* poll_frame finds a new sequence.
BeginRead ==
    /\ dRead = <<>>
    /\ wrSeq # dSeq
    /\ dRead' = <<wrSeq>>
    /\ UNCHANGED <<cm0, mailbox, dSeq, staging, history, clearing, ghosts>>

\* It reads the next signal.
ReadNext ==
    /\ Len(dRead) \in 1 .. Words + 1
    /\ dRead' = Append(dRead, wr[Len(dRead)])
    /\ UNCHANGED <<cm0, mailbox, dSeq, staging, history, clearing, ghosts>>

\* A read times out: the frame is left and its sequence not remembered.
ReadFails ==
    /\ dRead # <<>>
    /\ dRead' = <<>>
    /\ Event
    /\ UNCHANGED <<cm0, mailbox, dSeq, staging, history, clearing,
                   frames, awaited, sent, shown, fate, marks>>

\* Mutant: the first chunk does not start a new message.
RestartsOnlyByLength(u) == Length[u.what.text] # staging.length

Restarts(u) == u.index = 0 \/ Length[u.what.text] # staging.length

\* receive_message_chunk: chunk header u, words ws
Staged(u, ws) ==
    LET before == IF Restarts(u) THEN {} ELSE DOMAIN staging.got
    IN  [length |-> Length[u.what.text],
         got |-> [i \in before \cup {u.index} |-> IF i = u.index THEN ws ELSE staging.got[i]]]

Complete(st) == DOMAIN st.got = 0 .. st.length - 1

\* The message is known already, appended, or takes the place of the oldest.
Remembered(text) ==
    IF text \in ToSet(history) THEN history
    ELSE Append(IF Len(history) < HistoryMax THEN history ELSE Tail(history), text)

\* The first four bytes are a frequency in range if they are from one message;
\* if they are not, they may or may not be.
InBand(text) == \E m \in Messages : text[0] = Assembled(m)[0]

Take(values) ==
    LET u  == values[FreqSignal]
        ws == [w \in 1 .. Words |-> Content(values[w + 2])]
    IN  IF IsChunk(values[SpanSignal]) /\ IsChunk(u)
        THEN /\ staging' = Staged(u, ws)
             /\ \/ history' = IF Complete(staging') THEN Remembered(staging'.got) ELSE history
                \/ Complete(staging') /\ ~InBand(staging'.got) /\ history' = history
        ELSE UNCHANGED <<staging, history>>

Skipped(n) == {frame \in awaited : frame.id < n}

\* The last word read, the frame is taken: drawn as a row, or staged as a
\* chunk, whatever the signals hold.
TakeFrame ==
    /\ Len(dRead) = Words + 2
    /\ \E values \in {[g \in Signals |-> IF g < Words + 2 THEN dRead[g + 1] ELSE wr[g]]} :
          /\ Take(values)
          /\ shown' = values
          /\ LET n == values[Words + 2].id
                 torn == \A frame \in awaited \cup {sent} : values # Whole(frame)
             IN  /\ awaited' = {frame \in awaited : frame.id > n}
                 /\ fate' = Excuse({frame.what : frame \in {x \in Skipped(n) : IsChunk(x)}})
                 /\ marks' = marks \cup (IF torn THEN {"torn"} ELSE {})
                       \cup (IF n # dRead[1] THEN {"early"} ELSE {})
                       \cup (IF \E x \in Skipped(n) : IsChunk(x) /\ x.index = 0
                             THEN {"headless"} ELSE {})
    /\ dSeq' = dRead[1]
    /\ dRead' = <<>>
    /\ UNCHANGED <<cm0, mailbox, clearing, frames, sent, events>>

\* clear_message_history: the Display's copy, and a command for the CM0's.
Clear ==
    /\ dRead = <<>>
    /\ history # <<>>
    /\ history' = <<>>
    /\ clearing' = TRUE
    /\ fate' = Excuse(ToSet(stored))
    /\ Event
    /\ UNCHANGED <<cm0, mailbox, dSeq, dRead, staging,
                   frames, awaited, sent, shown, marks>>

\* The Display app starts again with no history; the CM0 is not told.
Reload ==
    /\ dSeq' = 0 /\ dRead' = <<>> /\ staging' = EmptyStaging /\ history' = <<>>
    /\ fate' = Excuse(ToSet(stored))
    /\ Event
    /\ UNCHANGED <<cm0, mailbox, clearing, frames, awaited, sent, shown, marks>>

-----------------------------------------------------------------------------

Next ==
    \/ \E f \in Freqs : Retune(f)
    \/ PushChunk \/ PushRow \/ Lands
    \/ \E m \in Messages : Verify(m)
    \/ Doubt \/ ClearStore \/ Drop \/ Connect
    \/ BeginRead \/ ReadNext \/ ReadFails \/ TakeFrame
    \/ Clear \/ Reload

Spec == Init /\ [][Next]_vars

-----------------------------------------------------------------------------
(* Properties *)

Heard == {m \in Messages : fate[m] # "unheard"}

\* Whatever was read half old and half new on the way, a Display that has
\* nothing new to read shows the frame committed last, all of it, with a row's
\* own tuning: wr_seq is set last and read first, and a torn read is repeated.
CaughtUp ==
    ("restarted" \notin marks /\ sent.id # 0 /\ cBatch = <<>> /\ dRead = <<>> /\ dSeq = wrSeq)
        => shown = Whole(sent)

\* A message in the Display's history is one the CM0 decoded, however messages
\* preempt, follow and repeat each other, as long as no torn frame was taken
\* and no first chunk missed: a later chunk missed only loses its message.
HistoryGenuine ==
    marks \cap {"torn", "headless"} = {} => ToSet(history) \subseteq {Assembled(m) : m \in Heard}

\* When all was sent and read, the Display has every stored message of which
\* no chunk was skipped, preempted or cleared, also after a reconnect.
AllArrive ==
    (/\ marks \cap {"torn", "headless"} = {}
     /\ Cardinality(Heard) <= HistoryMax
     /\ Between /\ cQueue = <<>> /\ awaited = {})
        => \A m \in ToSet(stored) : fate[m] = "due" => Assembled(m) \in ToSet(history)

=============================================================================
