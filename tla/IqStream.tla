------------------------------ MODULE IqStream ------------------------------
(***************************************************************************)
(* The RTL-SDR receiver, RtlIqStream: a reader thread takes IQ blocks from *)
(* the dongle, a processor thread turns each into a spectrum row and feeds *)
(* the Morse decoder, and the service's main loop takes rows and messages. *)
(* They share three bounded queues, one stop event and the device handle.  *)
(*                                                                         *)
(* Every start() begins a life: two new threads.  stop() joins the threads *)
(* for a second each and goes on whether or not they ended, so that a      *)
(* thread may outlive its life.  Each queue operation is a step: a test of *)
(* full() or empty() and the get_nowait() or put_nowait() after it are two. *)
(***************************************************************************)
EXTENDS Naturals, Sequences, FiniteSets

CONSTANTS
    Freqs,          \* the frequencies the receiver is tuned to
    RowsMax,        \* rows: queue.Queue(maxsize=2)
    MessagesMax,    \* messages (4)
    BlocksMax,      \* iq_blocks (4)
    Switch,         \* what set_cw_enabled is called with
    MaxLives,       \* bound: how often start() gets as far as its threads
    MaxOverruns     \* bound: how many joins time out

ASSUME IqAssumption ==
    /\ Freqs # {}
    /\ {RowsMax, MessagesMax, BlocksMax, MaxLives} \subseteq Nat \ {0}
    /\ MaxOverruns \in Nat /\ Switch \subseteq BOOLEAN

VARIABLES
    main,       \* what the main loop does, see Serving and Stopping
    goal,       \* while stopping: the frequency to start on, or Shut
    entry,      \* entry
    stopEvent,  \* stop_event
    life,       \* the threads start() made last
    device,     \* device: the life that opened it, 0 for no handle
    tuned,      \* what each life's device was tuned to
    thread,     \* per thread: where it is, and the item it holds
    rows, messages, blocks,
    decoder,    \* the tunings whose audio the Morse decoder holds
    cwEnabled,  \* cw_enabled
    overruns    \* history: the joins that timed out

mainloop == <<main, goal, entry, cwEnabled, overruns>>
radio == <<life, device, tuned>>
queues == <<rows, messages, blocks>>
vars == <<mainloop, stopEvent, radio, thread, queues, decoder>>

-----------------------------------------------------------------------------

Lives == 1 .. MaxLives
Roles == {"reader", "processor"}
Threads == Roles \X Lives
Shut == "shut"

\* A block holds what it was read from; a row also what it was taken for.
Block(f) == [kind |-> "block", heard |-> f]
Row(f) == [kind |-> "row", heard |-> f, taken |-> entry]
Error == [kind |-> "error"]
Nothing == [kind |-> "nothing"]

At(t) == thread[t].pc
Item(t) == thread[t].item
Ended(t) == At(t) \in {"none", "done", "dead"}
GoWith(t, pc, item) == thread' = [thread EXCEPT ![t] = [pc |-> pc, item |-> item]]
Go(t, pc) == GoWith(t, pc, Nothing)

Serving == main \in {"run", "drain", "reset", "unmessage", "unmessageGet"}
Stopping == main \in {"joinReader", "joinProcessor", "closeDevice", "emptyRows", "getRow",
                      "emptyMessages", "getMessage", "emptyBlocks", "getBlock", "retune",
                      "open"}

TypeOK ==
    /\ Serving \/ Stopping \/ main = "closed"
    /\ goal \in Freqs \cup {Shut} /\ entry \in Freqs
    /\ {stopEvent, cwEnabled} \subseteq BOOLEAN /\ overruns \in 0 .. MaxOverruns
    /\ life \in 0 .. MaxLives /\ device \in 0 .. MaxLives
    /\ tuned \in [Lives -> Freqs]
    /\ \A t \in Threads : At(t) \in {"none", "test", "reading", "put", "publish", "drop",
            "insert", "setStop", "decode", "feed", "messageTest", "messageDrop",
            "messageInsert", "onError", "done", "dead"}
    /\ Len(rows) <= RowsMax /\ Len(messages) <= MessagesMax /\ Len(blocks) <= BlocksMax
    /\ decoder \subseteq Freqs

\* run() starts the receiver before anything else: no life, empty queues.
Init ==
    /\ main = "open" /\ goal \in Freqs /\ entry = goal
    /\ stopEvent = TRUE
    /\ life = 0 /\ device = 0
    /\ tuned \in {[n \in Lives |-> f] : f \in {goal}}
    /\ thread = [t \in Threads |-> [pc |-> "none", item |-> Nothing]]
    /\ rows = <<>> /\ messages = <<>> /\ blocks = <<>>
    /\ decoder = {}
    /\ cwEnabled = TRUE
    /\ overruns = 0

-----------------------------------------------------------------------------
(* Both threads: publishing, and the handler of an exception *)

\* queue.Empty or queue.Full: inside the handler it ends the thread there and
\* then, anywhere else it is what the handler is for.
Raise(t) ==
    IF Item(t) = Error /\ At(t) # "messageDrop"
    THEN Go(t, "dead") ELSE GoWith(t, "onError", Error)

\* _publish: the test of rows.full()
Publish(t) ==
    /\ At(t) = "publish"
    /\ GoWith(t, IF Len(rows) = RowsMax THEN "drop" ELSE "insert", Item(t))
    /\ UNCHANGED <<mainloop, stopEvent, radio, queues, decoder>>

Drop(t) ==
    /\ At(t) = "drop"
    /\ IF rows = <<>> THEN Raise(t) /\ UNCHANGED rows
                      ELSE GoWith(t, "insert", Item(t)) /\ rows' = Tail(rows)
    /\ UNCHANGED <<mainloop, stopEvent, radio, messages, blocks, decoder>>

\* An error then stops the stream, a row goes on to the decoder.
Insert(t) ==
    /\ At(t) = "insert"
    /\ IF Len(rows) = RowsMax
       THEN Raise(t) /\ UNCHANGED rows
       ELSE /\ rows' = Append(rows, Item(t))
            /\ GoWith(t, IF Item(t) = Error THEN "setStop" ELSE "decode", Item(t))
    /\ UNCHANGED <<mainloop, stopEvent, radio, messages, blocks, decoder>>

SetStop(t) ==
    /\ At(t) = "setStop"
    /\ stopEvent' = TRUE /\ Go(t, "done")
    /\ UNCHANGED <<mainloop, radio, queues, decoder>>

\* Mutant: the handler ends the thread without a word.
OnErrorIsSilent(t) ==
    /\ At(t) = "onError"
    /\ Go(t, "done")
    /\ UNCHANGED <<mainloop, stopEvent, radio, queues, decoder>>

\* An exception is dropped when somebody stops the stream anyway.
OnError(t) ==
    /\ At(t) = "onError"
    /\ IF stopEvent THEN Go(t, "done") ELSE GoWith(t, "publish", Error)
    /\ UNCHANGED <<mainloop, stopEvent, radio, queues, decoder>>

-----------------------------------------------------------------------------
(* The reader *)

\* The loop's test, and rtlsdr_read_sync with the handle of the moment; it
\* refuses a null one.
Read(t) ==
    /\ At(t) = "test" /\ t[1] = "reader"
    /\ \/ stopEvent /\ Go(t, "done")
       \/ ~stopEvent /\ device = 0 /\ GoWith(t, "onError", Error)
       \/ ~stopEvent /\ device # 0 /\ GoWith(t, "reading", [kind |-> "handle", of |-> device])
    /\ UNCHANGED <<mainloop, stopEvent, radio, queues, decoder>>

\* A block, less than one FFT of samples, or an error.
Returns(t) ==
    /\ At(t) = "reading"
    /\ \/ GoWith(t, "put", Block(tuned[Item(t).of]))
       \/ Go(t, "test")
       \/ GoWith(t, "onError", Error)
    /\ UNCHANGED <<mainloop, stopEvent, radio, queues, decoder>>

\* Mutant: the queue of blocks has no limit.
PutUnbounded(t) ==
    /\ At(t) = "put"
    /\ blocks' = Append(blocks, Item(t))
    /\ Go(t, "test")
    /\ UNCHANGED <<mainloop, stopEvent, radio, rows, messages, decoder>>

\* iq_blocks.put(payload, timeout=0.4)
Put(t) ==
    /\ At(t) = "put"
    /\ \/ /\ Len(blocks) < BlocksMax
          /\ blocks' = Append(blocks, Item(t))
          /\ Go(t, "test")
       \/ /\ Len(blocks) = BlocksMax
          /\ GoWith(t, "onError", Error)
          /\ UNCHANGED blocks
    /\ UNCHANGED <<mainloop, stopEvent, radio, rows, messages, decoder>>

-----------------------------------------------------------------------------
(* The processor *)

\* Mutant: the processor waits for blocks whether or not it is stopped.
TakeBlockForever(t) ==
    /\ At(t) = "test" /\ t[1] = "processor"
    /\ blocks # <<>>
    /\ GoWith(t, "publish", Row(blocks[1].heard)) /\ blocks' = Tail(blocks)
    /\ UNCHANGED <<mainloop, stopEvent, radio, rows, messages, decoder>>

\* Once stopped it still works off the blocks that are queued.  A block is
\* analysed for the entry of the moment.
TakeBlock(t) ==
    /\ At(t) = "test" /\ t[1] = "processor"
    /\ \/ /\ blocks # <<>>
          /\ GoWith(t, "publish", Row(blocks[1].heard)) /\ blocks' = Tail(blocks)
       \/ stopEvent /\ blocks = <<>> /\ Go(t, "done") /\ UNCHANGED blocks
    /\ UNCHANGED <<mainloop, stopEvent, radio, rows, messages, decoder>>

\* The test of cw_enabled
Decode(t) ==
    /\ At(t) = "decode"
    /\ IF cwEnabled THEN GoWith(t, "feed", Item(t)) ELSE Go(t, "test")
    /\ UNCHANGED <<mainloop, stopEvent, radio, queues, decoder>>

\* feed_iq: the block joins what the decoder holds.  It may end a message, and
\* one at most: a block lasts 0.1 s, the silence that ends a message a second.
FeedDecoder(t) ==
    LET held == decoder \cup {Item(t).heard} IN
    /\ At(t) = "feed"
    /\ \/ Go(t, "test") /\ decoder' = held
       \/ /\ GoWith(t, "messageTest",
                    [kind |-> "message", heard |-> held, block |-> Item(t).heard])
          /\ decoder' = {}
    /\ UNCHANGED <<mainloop, stopEvent, radio, queues>>

\* _publish_message: the test of messages.full().  What the block has after the
\* end of the message has joined the decoder by then, unless a reset cleared it.
MessageTest(t) ==
    /\ At(t) = "messageTest"
    /\ GoWith(t, IF Len(messages) = MessagesMax THEN "messageDrop" ELSE "messageInsert",
              Item(t))
    /\ decoder' \in {decoder, decoder \cup {Item(t).block}}
    /\ UNCHANGED <<mainloop, stopEvent, radio, queues>>

MessageDrop(t) ==
    /\ At(t) = "messageDrop"
    /\ IF messages = <<>> THEN Raise(t) /\ UNCHANGED messages
                          ELSE GoWith(t, "messageInsert", Item(t)) /\ messages' = Tail(messages)
    /\ UNCHANGED <<mainloop, stopEvent, radio, rows, blocks, decoder>>

MessageInsert(t) ==
    /\ At(t) = "messageInsert"
    /\ IF Len(messages) = MessagesMax
       THEN Raise(t) /\ UNCHANGED messages
       ELSE Go(t, "test") /\ messages' = Append(messages, Item(t))
    /\ UNCHANGED <<mainloop, stopEvent, radio, rows, blocks, decoder>>

-----------------------------------------------------------------------------
(* The main loop *)

\* rows.get: an exception ends the service, which closes the receiver.  After
\* a row the messages are drained, unless the lists are shown.
TakeRow ==
    /\ main = "run" /\ rows # <<>>
    /\ rows' = Tail(rows)
    /\ IF rows[1] = Error
       THEN main' = "joinReader" /\ goal' = Shut /\ stopEvent' = TRUE
       ELSE main' \in {"run", "drain"} /\ UNCHANGED <<goal, stopEvent>>
    /\ UNCHANGED <<entry, cwEnabled, overruns, radio, thread, messages, blocks, decoder>>

\* messages.get_nowait until it is empty
Drain ==
    /\ main = "drain"
    /\ IF messages = <<>> THEN main' = "run" /\ UNCHANGED messages
                          ELSE messages' = Tail(messages) /\ UNCHANGED main
    /\ UNCHANGED <<goal, entry, cwEnabled, overruns, stopEvent, radio, thread,
                   rows, blocks, decoder>>

\* while not q.empty(): q.get_nowait()
\* The test and the get are two steps.  When a thread empties q in between, the
\* get raises queue.Empty, which ends the service: it closes the receiver.
Emptying(q, test, get, next, close) ==
    \/ /\ main = test /\ main' = IF q = <<>> THEN next ELSE get
       /\ UNCHANGED <<q, goal, stopEvent>>
    \/ /\ main = get /\ q # <<>>
       /\ main' = test /\ q' = Tail(q)
       /\ UNCHANGED <<goal, stopEvent>>
    \/ /\ main = get /\ q = <<>>
       /\ main' = close /\ goal' = Shut /\ stopEvent' = TRUE
       /\ UNCHANGED q

\* Mutant: what was decoded before the toggle stays queued.
ToggleKeepsMessages ==
    /\ main = "run"
    /\ \E enabled \in Switch : enabled # cwEnabled /\ cwEnabled' = enabled
    /\ decoder' = {}
    /\ UNCHANGED <<main, goal, entry, overruns, stopEvent, radio, thread, queues>>

\* set_cw_enabled: the flag, the decoder, then the messages one by one.
Toggle ==
    /\ main = "run"
    /\ \E enabled \in Switch : enabled # cwEnabled /\ cwEnabled' = enabled
    /\ main' = "reset"
    /\ UNCHANGED <<goal, entry, overruns, stopEvent, radio, thread, queues, decoder>>

Reset ==
    /\ main = "reset" /\ main' = "unmessage"
    /\ decoder' = {}
    /\ UNCHANGED <<goal, entry, cwEnabled, overruns, stopEvent, radio, thread, queues>>

Unmessage ==
    /\ Emptying(messages, "unmessage", "unmessageGet", "run", "joinReader")
    /\ UNCHANGED <<entry, cwEnabled, overruns, radio, thread, rows, blocks, decoder>>

\* start() on another entry or the same one, and close()
Stop(g) ==
    /\ main = "run"
    /\ g = Shut \/ life < MaxLives
    /\ main' = "joinReader" /\ goal' = g
    /\ stopEvent' = TRUE
    /\ UNCHANGED <<entry, cwEnabled, overruns, radio, thread, queues, decoder>>

\* join(timeout=1.0).  A reader hangs for that long in a read only (a put gives
\* up after 0.4 s); a processor in its analysis or decoding, block after block.
Hung(t) ==
    \/ t[1] = "reader" /\ At(t) = "reading"
    \/ /\ t[1] = "processor" /\ Item(t) # Error
       /\ At(t) \in {"publish", "decode", "feed"} \/ blocks # <<>>

Join(role, from, to) ==
    LET t == <<role, life>> IN
    /\ main = from
    /\ IF Ended(t) THEN UNCHANGED overruns
       ELSE Hung(t) /\ overruns < MaxOverruns /\ overruns' = overruns + 1
    /\ main' = to
    /\ UNCHANGED <<goal, entry, cwEnabled, stopEvent, radio, thread, queues, decoder>>

\* Mutant: stop() does not wait for the reader.
JoinReaderSkipped ==
    /\ main = "joinReader" /\ main' = "joinProcessor"
    /\ UNCHANGED <<goal, entry, cwEnabled, overruns, stopEvent, radio, thread, queues,
                   decoder>>

JoinReader == Join("reader", "joinReader", "joinProcessor")
JoinProcessor == Join("processor", "joinProcessor", "closeDevice")

\* The end of stop(): rtlsdr_close
CloseDevice ==
    /\ main = "closeDevice"
    /\ device' = 0
    /\ main' = IF goal = Shut THEN "closed" ELSE "emptyRows"
    /\ UNCHANGED <<goal, entry, cwEnabled, overruns, stopEvent, life, tuned, thread, queues,
                   decoder>>

\* Mutant: start() leaves the queued rows where they are.
EmptyRowsSkipped ==
    /\ main = "emptyRows" /\ main' = "emptyMessages"
    /\ UNCHANGED <<goal, entry, cwEnabled, overruns, stopEvent, radio, thread, queues, decoder>>

\* start() empties the queues.  It has no threads to join when that fails.
EmptyRows ==
    /\ Emptying(rows, "emptyRows", "getRow", "emptyMessages", "closeDevice")
    /\ UNCHANGED <<entry, cwEnabled, overruns, radio, thread, messages, blocks, decoder>>

EmptyMessages ==
    /\ Emptying(messages, "emptyMessages", "getMessage", "emptyBlocks", "closeDevice")
    /\ UNCHANGED <<entry, cwEnabled, overruns, radio, thread, rows, blocks, decoder>>

EmptyBlocks ==
    /\ Emptying(blocks, "emptyBlocks", "getBlock", "retune", "closeDevice")
    /\ UNCHANGED <<entry, cwEnabled, overruns, radio, thread, rows, messages, decoder>>

\* It then resets the decoder and takes the new entry.
TakeEntry ==
    /\ main = "retune" /\ main' = "open"
    /\ decoder' = {} /\ entry' = goal
    /\ UNCHANGED <<goal, cwEnabled, overruns, stopEvent, radio, thread, queues>>

\* rtlsdr_open, the settings and the two threads.  A failure is raised out of
\* run(), which closes.
Open ==
    /\ main = "open"
    /\ \/ /\ life' = life + 1 /\ device' = life'
          /\ tuned' = [tuned EXCEPT ![life'] = entry]
          /\ stopEvent' = FALSE
          /\ thread' = [t \in Threads |->
                IF t[2] = life' THEN [thread[t] EXCEPT !.pc = "test"] ELSE thread[t]]
          /\ main' = "run"
          /\ UNCHANGED goal
       \/ /\ main' = "closeDevice" /\ goal' = Shut
          /\ UNCHANGED <<stopEvent, radio, thread>>
    /\ UNCHANGED <<entry, cwEnabled, overruns, queues, decoder>>

-----------------------------------------------------------------------------

ThreadStep(t) ==
    \/ Read(t) \/ Returns(t) \/ Put(t)
    \/ TakeBlock(t) \/ Decode(t) \/ FeedDecoder(t)
    \/ MessageTest(t) \/ MessageDrop(t) \/ MessageInsert(t)
    \/ Publish(t) \/ Drop(t) \/ Insert(t) \/ SetStop(t) \/ OnError(t)
StartStep == EmptyRows \/ EmptyMessages \/ EmptyBlocks \/ TakeEntry \/ Open
StopStep == JoinReader \/ JoinProcessor \/ CloseDevice \/ StartStep
TakeStep == TakeRow \/ Drain \/ Reset \/ Unmessage

Next ==
    \/ \E t \in Threads : ThreadStep(t)
    \/ StopStep \/ TakeStep
    \/ Toggle
    \/ \E g \in Freqs \cup {Shut} : Stop(g)

Spec == Init /\ [][Next]_vars

\* The threads are scheduled and the main loop keeps running; presses arrive
\* at a hand's pace, so that it also comes to take a row between two of them.
\* A dongle that works delivers whole blocks again and again.  A message takes
\* seconds to be heard, so that the queue is found empty again and again.
FairSpec ==
    /\ Spec
    /\ \A t \in Threads : WF_vars(ThreadStep(t))
    /\ WF_vars(TakeStep \/ StopStep)
    /\ SF_vars(TakeRow)
    /\ SF_vars((Drain \/ Unmessage) /\ main' = "run")
    /\ SF_vars(\E t \in Threads : Returns(t) /\ thread'[t].pc = "put")

-----------------------------------------------------------------------------
(* Properties *)

\* Unless a join timed out, what the main loop can take was received on the
\* frequency it will be shown and stored under: rows carry the entry they
\* were taken for, and messages are filed under the entry at the time they
\* are drained (_drain_decoded_messages).
HeardHere(item) == item = Error \/ (item.heard = entry /\ item.taken = entry)
OfThisTuning ==
    Serving /\ overruns = 0 =>
        /\ \A i \in DOMAIN rows : HeardHere(rows[i])
        /\ \A i \in DOMAIN messages : messages[i].heard = {entry}

\* Unless a join timed out, a read is always on the handle that is open, and
\* no two readers ever share it: nothing reads a device that was closed.
DeviceOwned ==
    overruns = 0 =>
        /\ \A t \in Threads : At(t) = "reading" => Item(t).of = device
        /\ Cardinality({t \in Threads : ~Ended(t) /\ t[1] = "reader"}) <= 1

\* With the decoder switched off at most one message waits: the one that was
\* being decoded at the switch may still arrive after the queue was emptied.
QuietWhenOff == overruns = 0 /\ ~cwEnabled /\ main = "run" => Len(messages) <= 1

\* The capture failed and the main loop, still serving, cannot learn of it: a
\* row the processor published after the error pushed it out (_publish drops
\* the oldest), or the reader died of queue.Empty while it published the error.
ErrorLost == Serving /\ stopEvent /\ \A i \in DOMAIN rows : rows[i] # Error
ReaderDied == Serving /\ \E t \in Threads : t = <<"reader", life>> /\ At(t) = "dead"

\* The main loop gets row after row for as long as it serves, and closes when
\* the capture fails, but for the two ways in which it is never told.
Served ==
    \/ []<><<TakeRow>>_vars
    \/ <>[](main = "closed" \/ ErrorLost \/ ReaderDied)

\* Closing ends every thread for good, those of earlier lives too.
CloseEndsThreads == <>[](main = "closed" => \A t \in Threads : Ended(t))

=============================================================================
